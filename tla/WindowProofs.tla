----------------------------- MODULE WindowProofs -----------------------------
(***************************************************************************)
(* The invariant of the window, for windows of any size: speculation has   *)
(* one recovery point.  Every module that implements Window inherits it.   *)
(***************************************************************************)
EXTENDS Window, SequenceTheorems, TLAPS

\* What the three actions leave in the window.
LEMMA Entering ==
    ASSUME NEW m \in BOOLEAN, WinTypeOK, Enter(m)
    PROVE  /\ win' \in Seq(Entry) /\ Len(win') = Len(win) + 1
           /\ \A j \in 1..Len(win) : win'[j] = win[j]
           /\ win'[Len(win) + 1] = [spec |-> spec_mode, recover |-> m, done |-> FALSE]
<1> [spec |-> spec_mode, recover |-> m, done |-> FALSE] \in Entry
  BY DEF WinTypeOK, Entry
<1> QED BY AppendProperties DEF Enter, WinTypeOK

LEMMA Completing ==
    ASSUME NEW i \in DOMAIN win, WinTypeOK, Complete(i)
    PROVE  /\ win' \in Seq(Entry)
           /\ Len(win') = IF win[i].recover THEN i ELSE Len(win)
           /\ \A j \in 1..Len(win') : win'[j] = IF j = i THEN [win[i] EXCEPT !.done = TRUE] ELSE win[j]
<1> DEFINE kept == IF win[i].recover THEN SubSeq(win, 1, i) ELSE win
<1>1. i \in 1..Len(win) /\ Len(win) \in Nat /\ \A j \in 1..Len(win) : win[j] \in Entry
  BY LenProperties, ElementOfSeq DEF WinTypeOK
<1>2. /\ kept \in Seq(Entry) /\ Len(kept) = (IF win[i].recover THEN i ELSE Len(win))
      /\ \A j \in 1..Len(kept) : kept[j] = win[j]
  <2>1. CASE win[i].recover
    <3>1. \A j \in 1..i : win[j] \in Entry
      BY <1>1
    <3>2. /\ SubSeq(win, 1, i) \in Seq(Entry) /\ Len(SubSeq(win, 1, i)) = i
          /\ \A j \in 1..i : SubSeq(win, 1, i)[j] = win[j]
      BY <1>1, <3>1, SubSeqProperties
    <3> QED BY <2>1, <3>2
  <2>2. CASE ~win[i].recover
    BY <2>2, <1>1 DEF WinTypeOK
  <2> QED BY <2>1, <2>2
<1>3. i \in 1..Len(kept) /\ kept[i] = win[i]
  BY <1>1, <1>2
<1>4. [win[i] EXCEPT !.done = TRUE] \in Entry
  BY <1>1 DEF Entry
<1>5. win' = [kept EXCEPT ![i] = [win[i] EXCEPT !.done = TRUE]]
  BY <1>3 DEF Complete
<1> HIDE DEF kept
<1> QED BY <1>2, <1>3, <1>4, <1>5, ExceptSeq

LEMMA Leaving ==
    ASSUME WinTypeOK, Leave
    PROVE  /\ win' \in Seq(Entry) /\ Len(win') = Len(win) - 1 /\ Len(win) > 0
           /\ \A j \in 1..Len(win) - 1 : win'[j] = win[j + 1]
           /\ win[1].done
BY HeadTailProperties, EmptySeq DEF Leave, WinTypeOK

\* And the other way round: a window that is left so has taken the action.
LEMMA EntersIf ==
    ASSUME NEW m \in BOOLEAN, WinTypeOK, WinTypeOK', Len(win) < Size, m => ~spec_mode,
           spec_mode' = (spec_mode \/ m), Len(win') = Len(win) + 1,
           \A j \in 1..Len(win) : win'[j] = win[j],
           win'[Len(win) + 1] = [spec |-> spec_mode, recover |-> m, done |-> FALSE]
    PROVE  Enter(m)
<1> DEFINE e == [spec |-> spec_mode, recover |-> m, done |-> FALSE]
           app == Append(win, e)
<1>1. win \in Seq(Entry) /\ win' \in Seq(Entry) /\ e \in Entry /\ Len(win) \in Nat
  BY LenProperties DEF WinTypeOK, Entry
<1>2. win'[Len(win) + 1] = e
  OBVIOUS
<1> HIDE DEF e
<1>3. /\ app \in Seq(Entry) /\ Len(app) = Len(win) + 1 /\ app[Len(win) + 1] = e
      /\ \A j \in 1..Len(win) : app[j] = win[j]
  BY <1>1, AppendProperties
<1> HIDE DEF app
<1>4. \A j \in 1..Len(win') : win'[j] = app[j]
  <2> TAKE j \in 1..Len(win')
  <2>1. j \in 1..Len(win) \/ j = Len(win) + 1
    BY <1>1
  <2> QED BY <1>2, <1>3, <2>1
<1>5. win' = app
  BY <1>1, <1>3, <1>4, SeqEqual
<1> QED BY <1>5 DEF Enter, app, e

LEMMA CompletesIf ==
    ASSUME NEW i \in 1..Len(win), WinTypeOK, WinTypeOK', ~win[i].done,
           spec_mode' = (spec_mode /\ ~win[i].recover),
           Len(win') = (IF win[i].recover THEN i ELSE Len(win)),
           \A j \in 1..Len(win') : win'[j] = IF j = i THEN [win[i] EXCEPT !.done = TRUE] ELSE win[j]
    PROVE  Complete(i)
<1> DEFINE kept == IF win[i].recover THEN SubSeq(win, 1, i) ELSE win
           written == [kept EXCEPT ![i] = [win[i] EXCEPT !.done = TRUE]]
<1>1. /\ win \in Seq(Entry) /\ win' \in Seq(Entry) /\ Len(win) \in Nat
      /\ \A j \in 1..Len(win) : win[j] \in Entry
  BY LenProperties, ElementOfSeq DEF WinTypeOK
<1>2. /\ kept \in Seq(Entry) /\ Len(kept) = Len(win')
      /\ \A j \in 1..Len(kept) : kept[j] = win[j]
  <2>1. CASE win[i].recover
    <3>1. \A j \in 1..i : win[j] \in Entry
      BY <1>1
    <3>2. /\ SubSeq(win, 1, i) \in Seq(Entry) /\ Len(SubSeq(win, 1, i)) = i
          /\ \A j \in 1..i : SubSeq(win, 1, i)[j] = win[j]
      BY <1>1, <3>1, SubSeqProperties
    <3> QED BY <2>1, <3>2
  <2>2. CASE ~win[i].recover
    BY <2>2, <1>1
  <2> QED BY <2>1, <2>2
<1>3. i \in 1..Len(kept) /\ kept[i] = win[i]
  BY <1>1, <1>2
<1>4. [win[i] EXCEPT !.done = TRUE] \in Entry
  BY <1>1 DEF Entry
<1>5. [kept EXCEPT ![i].done = TRUE] = written
  BY <1>3
<1> HIDE DEF kept
<1>6. /\ written \in Seq(Entry) /\ Len(written) = Len(kept)
      /\ \A j \in 1..Len(kept) : written[j] = IF j = i THEN [win[i] EXCEPT !.done = TRUE] ELSE kept[j]
  BY <1>2, <1>3, <1>4, ExceptSeq
<1> HIDE DEF written
<1>7. \A j \in 1..Len(win') : win'[j] = written[j]
  BY <1>2, <1>6
<1>8. win' = written
  BY <1>1, <1>2, <1>6, <1>7, SeqEqual
<1> QED BY <1>5, <1>8 DEF Complete, kept

LEMMA LeavesIf ==
    ASSUME WinTypeOK, WinTypeOK', Len(win) > 0, win[1].done, spec_mode' = spec_mode,
           Len(win') = Len(win) - 1, \A j \in 1..Len(win) - 1 : win'[j] = win[j + 1]
    PROVE  Leave
<1>1. /\ win \in Seq(Entry) /\ win' \in Seq(Entry) /\ Len(win) \in Nat
      /\ win # << >> /\ Head(win) = win[1]
  BY LenProperties, HeadTailProperties, EmptySeq DEF WinTypeOK
<1>2. /\ Tail(win) \in Seq(Entry) /\ Len(Tail(win)) = Len(win) - 1
      /\ \A j \in 1..Len(Tail(win)) : Tail(win)[j] = win[j + 1]
  BY <1>1, HeadTailProperties
<1>3. win' = Tail(win)
  BY <1>1, <1>2, SeqEqual
<1> QED BY <1>1, <1>3 DEF Leave

\* The window holds well-formed entries throughout.
THEOREM WindowTyping == WinSpec => []WinTypeOK
<1>1. WinInit => WinTypeOK
  BY EmptySeq DEF WinInit, WinTypeOK
<1>2. WinTypeOK /\ [WinNext]_windowVars => WinTypeOK'
  <2> SUFFICES ASSUME WinTypeOK, [WinNext]_windowVars PROVE WinTypeOK'
    OBVIOUS
  <2>1. ASSUME NEW m \in BOOLEAN, Enter(m) PROVE WinTypeOK'
    BY <2>1, Entering DEF Enter, WinTypeOK
  <2>2. ASSUME NEW i \in DOMAIN win, Complete(i) PROVE WinTypeOK'
    BY <2>2, Completing DEF Complete, WinTypeOK
  <2>3. CASE Leave
    BY <2>3, Leaving DEF Leave, WinTypeOK
  <2>4. CASE UNCHANGED windowVars
    BY <2>4 DEF windowVars, WinTypeOK
  <2> QED BY <2>1, <2>2, <2>3, <2>4 DEF WinNext
<1> QED BY <1>1, <1>2, PTL DEF WinSpec

\* Whatever the order of completions, one recovery point divides right path from wrong.
THEOREM WindowRecovery == WinSpec => []RecoveryPoint
<1>1. WinInit => RecoveryPoint
  BY DEF WinInit, RecoveryPoint
<1>2. WinTypeOK /\ RecoveryPoint /\ [WinNext]_windowVars => RecoveryPoint'
  <2> SUFFICES ASSUME WinTypeOK, RecoveryPoint, [WinNext]_windowVars PROVE RecoveryPoint'
    OBVIOUS
  <2>0. /\ Len(win) \in Nat /\ DOMAIN win = 1..Len(win) /\ spec_mode \in BOOLEAN
        /\ \A j \in 1..Len(win) : win[j] \in Entry
    BY LenProperties, ElementOfSeq DEF WinTypeOK
  <2> USE DEF RecoveryPoint, Pending, Entry
  <2>1. ASSUME NEW m \in BOOLEAN, Enter(m) PROVE RecoveryPoint'
    <3>1. DOMAIN win' = 1..Len(win) + 1
      BY <2>1, Entering, LenProperties
    <3>2. spec_mode' = (spec_mode \/ m) /\ (m => ~spec_mode)
      BY <2>1 DEF Enter
    <3>3. /\ \A j \in 1..Len(win) : win'[j] = win[j]
          /\ win'[Len(win) + 1] = [spec |-> spec_mode, recover |-> m, done |-> FALSE]
      BY <2>1, Entering
    <3>4. CASE spec_mode
      BY <2>0, <3>1, <3>2, <3>3, <3>4
    <3>5. CASE ~spec_mode
      BY <2>0, <3>1, <3>2, <3>3, <3>5
    <3> QED BY <2>0, <3>4, <3>5
  <2>2. ASSUME NEW i \in DOMAIN win, Complete(i) PROVE RecoveryPoint'
    <3>1. DOMAIN win' = 1..Len(win')
      BY <2>2, Completing, LenProperties
    <3>2. spec_mode' = (spec_mode /\ ~win[i].recover) /\ ~win[i].done
      BY <2>2 DEF Complete
    <3>3. /\ Len(win') = IF win[i].recover THEN i ELSE Len(win)
          /\ \A j \in 1..Len(win') : win'[j] = IF j = i THEN [win[i] EXCEPT !.done = TRUE] ELSE win[j]
      BY <2>2, Completing
    <3>4. CASE win[i].recover
      BY <2>0, <3>1, <3>2, <3>3, <3>4
    <3>5. CASE ~win[i].recover
      BY <2>0, <3>1, <3>2, <3>3, <3>5
    <3> QED BY <2>0, <3>4, <3>5
  <2>3. CASE Leave
    <3>1. DOMAIN win' = 1..Len(win) - 1
      BY <2>3, Leaving, LenProperties
    <3>2. spec_mode' = spec_mode
      BY <2>3 DEF Leave
    <3>3. Len(win) > 0 /\ win[1].done /\ \A j \in 1..Len(win) - 1 : win'[j] = win[j + 1]
      BY <2>3, Leaving
    <3>4. CASE spec_mode
      <4>1. PICK i \in 1..Len(win) :
              /\ Pending(i)
              /\ \A j \in 1..Len(win) : (Pending(j) => j = i) /\ (win[j].spec <=> j > i)
        BY <2>0, <3>4
      <4>2. i # 1 /\ i - 1 \in 1..Len(win) - 1
        BY <2>0, <3>3, <4>1
      <4>3. Pending(i - 1)'
        BY <2>0, <3>3, <4>1, <4>2
      <4>4. \A j \in 1..Len(win) - 1 : (Pending(j)' => j = i - 1) /\ (win'[j].spec <=> j > i - 1)
        BY <2>0, <3>3, <4>1
      <4> QED BY <3>1, <3>2, <3>4, <4>2, <4>3, <4>4
    <3>5. CASE ~spec_mode
      BY <2>0, <3>1, <3>2, <3>3, <3>5
    <3> QED BY <2>0, <3>4, <3>5
  <2>4. CASE UNCHANGED windowVars
    BY <2>4 DEF windowVars
  <2> QED BY <2>1, <2>2, <2>3, <2>4 DEF WinNext
<1> QED BY <1>1, <1>2, WindowTyping, PTL DEF WinSpec

\* An instruction on a mispredicted path never leaves at the head.
THEOREM WindowLeavesRightPath == WinSpec => LeavesRightPath
<1>1. WinTypeOK /\ RecoveryPoint /\ [WinNext]_windowVars => [Leave => ~Head(win).spec]_windowVars
  <2> SUFFICES ASSUME WinTypeOK, RecoveryPoint, Leave PROVE ~Head(win).spec
    OBVIOUS
  <2>1. DOMAIN win = 1..Len(win) /\ Len(win) \in Nat \ {0} /\ Head(win) = win[1]
    BY LenProperties, Leaving DEF WinTypeOK, Leave
  <2> QED BY <2>1 DEF RecoveryPoint, Pending
<1> QED BY <1>1, WindowTyping, WindowRecovery, PTL DEF WinSpec, LeavesRightPath
=============================================================================
