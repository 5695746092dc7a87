------------------------------- MODULE LruSets -------------------------------
(***************************************************************************)
(* What a set-associative store with LRU replacement promises: each set    *)
(* holds the Capacity tags asked for last, in that order, and a tag that   *)
(* is not there takes the place of the one asked for longest ago.  Every   *)
(* change of the store is the answer to the request asked; who implements  *)
(* it says what was asked from what its program does, not from what the    *)
(* store did.  The branch target buffer does so with linked ways, a cache  *)
(* with LRU replacement with a list, a hash table and a short cut for the  *)
(* block that hit last.                                                    *)
(***************************************************************************)
EXTENDS Naturals, Sequences, SequencesExt

CONSTANTS Sets, Tags, Capacity

VARIABLES
    order,      \* order[s]: the tags of set s, the most recently used first
    asked       \* the last request

\* No request, and the requests there are.
Nothing == << >>
ToUse(s, t) == <<"use", s, t>>
ToForget(s, t) == <<"forget", s, t>>
ToEmpty == <<"empty">>

storeVars == <<order, asked>>

LruInit == order = [s \in Sets |-> << >>] /\ asked = Nothing

Touched(q, t) == <<t>> \o (IF Contains(q, t) THEN RemoveFirst(q, t)
                           ELSE IF Len(q) < Capacity THEN q ELSE Front(q))

\* Tag t of set s is used.  (To use it twice running is to use it once.)
Use(s, t) == asked' = ToUse(s, t) /\ order' = [order EXCEPT ![s] = Touched(@, t)]

\* What is done does not concern the store.
Rest == asked' = Nothing /\ UNCHANGED order

LruNext == Rest \/ \E s \in Sets, t \in Tags : Use(s, t)

LruSpec == LruInit /\ [][LruNext]_storeVars

\* The same store when it may also be told to forget: one tag, or everything.
Forget(s, t) == asked' = ToForget(s, t) /\ order' = [order EXCEPT ![s] = RemoveFirst(@, t)]
ForgetAll == asked' = ToEmpty /\ order' = [s \in Sets |-> << >>]

FlushableNext == LruNext \/ (\E s \in Sets, t \in Tags : Forget(s, t)) \/ ForgetAll

FlushableSpec == LruInit /\ [][FlushableNext]_storeVars
=============================================================================
