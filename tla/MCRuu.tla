-------------------------------- MODULE MCRuu --------------------------------
(* Instruction mixes and unit pools for RuuProps. *)
EXTENDS RuuProps

CONSTANTS r1, r2

None == [k \in Outs |-> NA]
Out(r) == [k \in Outs |-> IF k = 0 THEN r ELSE NA]
In(a, b, c) == [k \in Ops |-> CASE k = 0 -> a [] k = 1 -> b [] k = 2 -> c]
Inst(kind, class, first, outs, ins, addr) ==
    [kind |-> kind, class |-> class, agen |-> "alu", first |-> first, outs |-> outs,
     ins |-> ins, addr |-> addr]

Alu(d, a, b) == Inst("op", "alu", FALSE, Out(d), In(a, b, NA), 0)
Mult(d, e, a) == Inst("op", "mult", TRUE, [k \in Outs |-> IF k = 0 THEN d ELSE e], In(a, NA, NA), 0)
Branch(a) == Inst("ctrl", "alu", TRUE, None, In(a, NA, NA), 0)
Load(d, b, addr) == Inst("load", "port", TRUE, Out(d), In(NA, b, NA), addr)
Store(a, b, addr) == Inst("store", "port", TRUE, None, In(a, b, NA), addr)
Trap == Inst("trap", NA, FALSE, None, In(NA, NA, NA), 0)

\* Register dependences, two outputs, mispredictions.
RegInsts == {Alu(r1, r2, r1), Mult(r1, r2, r1), Branch(r1)}
\* Memory dependences: a store's address or its data may be late, and the path may be wrong.
MemInsts == {Load(r1, NA, 4), Store(NA, r1, 8), Store(r1, NA, 4), Branch(r1)}
\* All kinds, a trap among them, competing for one memory port.
LiveInsts == {Load(r1, NA, 4), Store(r1, NA, 4), Branch(r1), Trap}

Mixes == {RegInsts, MemInsts}
OnlyRegInsts == {RegInsts}
OnlyLiveInsts == {LiveInsts}

\* One of each unit, the multiplier slow.
Pool == [c \in {"alu", "mult", "port"} |->
           CASE c = "alu"  -> [units |-> {1}, oplat |-> 1, issuelat |-> 1]
             [] c = "mult" -> [units |-> {2}, oplat |-> 3, issuelat |-> 2]
             [] c = "port" -> [units |-> {3}, oplat |-> 1, issuelat |-> 1]]
=============================================================================
