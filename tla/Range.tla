-------------------------------- MODULE Range -------------------------------
(* Execution positions and ranges (range.c): the points at which traces,    *)
(* checkpoints and breakpoints start and end.  A position is [ptype, pos]   *)
(* with ptype "addr", "inst" or "cycle"; a range is [start, end].           *)
EXTENDS Integers

CONSTANT LastPos         \* the largest position, 0x7fffffffffffffff

Position(ptype, pos) == [ptype |-> ptype, pos |-> pos]

(* What range_parse_range makes of {<start>}:{+<delta> | <end>}: start and  *)
(* end are sets of at most one position, delta of at most one number.       *)
range_parse_range(start, end, delta) ==
  LET from == IF start = {} THEN Position("inst", 0) ELSE CHOOSE p \in start : TRUE
      to   == CASE delta # {} -> [from EXCEPT !.pos = @ + (CHOOSE d \in delta : TRUE)]
                [] delta = {} /\ end # {} -> CHOOSE p \in end : TRUE
                [] OTHER -> [from EXCEPT !.pos = LastPos]
  IN  [start |-> from, end |-> to]

(* "invalid" where the code panics.                                         *)
range_cmp_range(r, val) ==
  CASE r.start.ptype # r.end.ptype -> "invalid"
    [] r.start.ptype = r.end.ptype /\ val < r.start.pos -> "before"
    [] r.start.ptype = r.end.ptype /\ val \in r.start.pos .. r.end.pos -> "inside"
    [] OTHER -> "after"

range_cmp_range1(r, addr, icount, cycle) ==
  range_cmp_range(r, CASE r.start.ptype = "addr" -> addr
                       [] r.start.ptype = "inst" -> icount
                       [] OTHER -> cycle)
=============================================================================
