---------------------------- MODULE MCSpecState ----------------------------
(* Registers and memory accesses for SpecState. *)
EXTENDS SpecState

CONSTANTS f0, f1

\* The halves of a double share the bit of the even one.
PairBit(r) == IF r = f1 THEN f0 ELSE r

\* The double written whole, or by halves.
Doubles == {{f0, f1}}
Halves == {{f0}, {f1}}

\* A single word and a double word whose entries share a chain.
OneChain == {[addr |-> 0, words |-> 1], [addr |-> 2, words |-> 2]}
=============================================================================
