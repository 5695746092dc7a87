------------------------------- MODULE Stats -------------------------------
(***************************************************************************)
(* The statistics package, stats.c, with the evaluator of its formulas,    *)
(* eval.c, and the statistics that the predictor, the caches, the memory,  *)
(* the loader and three simulators register.                               *)
(*                                                                         *)
(* A statistic reads a counter, known by its owner: counters maps these    *)
(* names to values.  A formula is a sequence of tokens; the names in it    *)
(* are identifiers.  Doubles are exact fractions.  Of a printed statistic  *)
(* the name and the value are kept, not its format; the averages and       *)
(* deviations of a distribution are left out.                              *)
(***************************************************************************)
EXTENDS Integers, Sequences, SequencesExt, FiniteSets, FiniteSetsExt, Functions, TLC

CONSTANTS
  UINT_MAX    \* the largest unsigned int

ASSUME StatsAssumption == UINT_MAX \in Nat \ {0}

-----------------------------------------------------------------------------
(* Values of expressions: et is "int", "uint" or "double", n / d the value, *)
(* d > 0, and 1 unless it is a double.                                      *)
err_value == [et |-> "int", n |-> 0, d |-> 1]

result_type(v, w) ==
  IF "double" \in {v.et, w.et} THEN "double"
  ELSE IF "uint" \in {v.et, w.et} THEN "uint" ELSE "int"

Wrapped(et, n, d) == [et |-> et, n |-> IF et = "uint" THEN n % (UINT_MAX + 1) ELSE n, d |-> d]
Sign(n) == IF n < 0 THEN -1 ELSE 1
Truncated(n, d) == Sign(n) * Sign(d) * ((n * Sign(n)) \div (d * Sign(d)))

f_add(v, w) == Wrapped(result_type(v, w), v.n * w.d + w.n * v.d, v.d * w.d)
f_sub(v, w) == Wrapped(result_type(v, w), v.n * w.d - w.n * v.d, v.d * w.d)
f_mult(v, w) == Wrapped(result_type(v, w), v.n * w.n, v.d * w.d)
f_div(v, w) ==
  IF result_type(v, w) = "double"
    THEN [et |-> "double", n |-> v.n * w.d * Sign(w.n), d |-> v.d * w.n * Sign(w.n)]
    ELSE Wrapped(result_type(v, w), Truncated(v.n, w.n), 1)
\* The least int is promoted to unsigned; an unsigned is made signed, wider where it must be.
f_neg(v) ==
  [v EXCEPT !.n = -@,
            !.et = IF v.et = "uint" THEN "int"
                   ELSE IF v.et = "int" /\ -v.n = (UINT_MAX + 1) \div 2 THEN "uint" ELSE v.et]
f_eq_zero(v) == v.n = 0

-----------------------------------------------------------------------------
(* The evaluator descends on the right: a / b / c is a / (b / c).  A result *)
(* has the value, the index of the first token it did not use, and the      *)
(* error, if there was one.                                                 *)
Result(val, at, err) == [val |-> val, at |-> at, err |-> err]
Failed(err) == Result(err_value, 1, err)
constant == [t \in {"1", "2", "4", "8", "1024", "4096", "8192"} |->
               CHOOSE n \in {1, 2, 4, 8, 1024, 4096, 8192} : ToString(n) = t]
Token(f, at) == IF at <= Len(f) THEN f[at] ELSE "end"
Operators == {"+", "-", "*", "/", "(", ")", "end"}
Apply(op, v, w) ==
  CASE op = "+" -> f_add(v, w)
    [] op = "-" -> f_sub(v, w)
    [] op = "*" -> f_mult(v, w)
    [] op = "/" -> f_div(v, w)

RECURSIVE expr(_, _, _, _), term(_, _, _, _), factor(_, _, _, _), eval_ident(_, _, _)

(* left op right, where right is what the rest of the formula gives.        *)
Joined(left, op, right) ==
  IF right.err # "" THEN right
  ELSE IF op = "/" /\ f_eq_zero(right.val) THEN Failed("divide by zero")
  ELSE Result(Apply(op, left.val, right.val), right.at, "")

Closed(f, r) ==
  IF r.err # "" THEN r
  ELSE IF Token(f, r.at) # ")" THEN Failed("unmatched parenthesis")
  ELSE [r EXCEPT !.at = @ + 1]
Negated(r) == IF r.err # "" THEN r ELSE [r EXCEPT !.val = f_neg(@)]

factor(sdb, counters, f, at) ==
  LET t == Token(f, at)
  IN  CASE t = "(" -> Closed(f, expr(sdb, counters, f, at + 1))
        [] t = "-" -> Negated(factor(sdb, counters, f, at + 1))
        [] t \in DOMAIN constant -> Result([err_value EXCEPT !.n = constant[t]], at + 1, "")
        [] t \in Operators \ {"(", "-"} -> Failed("expression term is missing")
        [] OTHER -> [eval_ident(sdb, counters, t) EXCEPT !.at = at + 1]

TermOn(sdb, counters, f, left) ==
  IF left.err = "" /\ Token(f, left.at) \in {"*", "/"}
    THEN Joined(left, Token(f, left.at), term(sdb, counters, f, left.at + 1))
    ELSE left
term(sdb, counters, f, at) == TermOn(sdb, counters, f, factor(sdb, counters, f, at))

ExprOn(sdb, counters, f, left) ==
  IF left.err = "" /\ Token(f, left.at) \in {"+", "-"}
    THEN Joined(left, Token(f, left.at), expr(sdb, counters, f, left.at + 1))
    ELSE left
expr(sdb, counters, f, at) == ExprOn(sdb, counters, f, term(sdb, counters, f, at))

-----------------------------------------------------------------------------
(* The database: a sequence of statistics, in the order they were added.  A *)
(* name may occur twice; a formula then reads the first.                    *)
Stat(name, sc, key, formula) ==
  << [name |-> name, sc |-> sc, key |-> key, formula |-> formula] >>
stat_reg_int(name) == Stat(name, "int", name, << >>)
stat_reg_uint(name) == Stat(name, "uint", name, << >>)
stat_reg_counter(name, key) == Stat(name, "counter", key, << >>)
stat_reg_formula(name, formula) == Stat(name, "formula", "", formula)
stat_reg_sdist(name, key) == Stat(name, "sdist", key, << >>)

stat_find_stat(sdb, name) == SelectInSeq(sdb, LAMBDA s : s.name = name)

(* A formula that leaves tokens unread counts as the integer 0 inside       *)
(* another one, with no error.                                              *)
Whole(f, r) == IF r.err # "" \/ r.at <= Len(f) THEN Result(err_value, r.at, r.err) ELSE r
ValueOf(sdb, counters, s) ==
  CASE s.sc \in {"int", "uint"} -> Result([et |-> s.sc, n |-> counters[s.key], d |-> 1], 1, "")
    [] s.sc = "counter" -> Result([et |-> "double", n |-> counters[s.key], d |-> 1], 1, "")
    [] s.sc = "formula" -> Whole(s.formula, expr(sdb, counters, s.formula, 1))
    [] s.sc = "sdist" -> Failed("stat distributions not allowed in formula expressions")
eval_ident(sdb, counters, name) ==
  IF stat_find_stat(sdb, name) = 0 THEN Failed("variable is undefined")
  ELSE ValueOf(sdb, counters, sdb[stat_find_stat(sdb, name)])

(* The samples of a distribution: how many of each index.                   *)
stat_add_samples(dist, index, nsamples) ==
  [i \in DOMAIN dist \cup {index} |->
     (IF i \in DOMAIN dist THEN dist[i] ELSE 0) + (IF i = index THEN nsamples ELSE 0)]

-----------------------------------------------------------------------------
(* What is printed of a statistic.  imin starts as the largest 32 bit       *)
(* number, whatever the width of an address.                                *)
print_sdist(dist) ==
  [count |-> Cardinality(DOMAIN dist),
   total |-> SumFunction(dist),
   imin |-> Min({UINT_MAX} \cup DOMAIN dist),
   imax |-> Max({0} \cup DOMAIN dist),
   lines |-> [k \in 1 .. Cardinality(DOMAIN dist) |->
                LET i == SetToSortSeq(DOMAIN dist, <)[k] IN <<i, dist[i]>>]]

Plain(n) == [err |-> "", n |-> n, d |-> 1]
Printed(f, r) ==
  [err |-> IF r.err # "" THEN r.err ELSE IF r.at <= Len(f) THEN "no error" ELSE "",
   n |-> r.val.n, d |-> r.val.d]
stat_print_stat(sdb, counters, dists, s) ==
  [name |-> s.name,
   val |-> CASE s.sc = "formula" -> Printed(s.formula, expr(sdb, counters, s.formula, 1))
             [] s.sc = "sdist" -> print_sdist(dists[s.key])
             [] OTHER -> Plain(counters[s.key])]
stat_print_stats(sdb, counters, dists) ==
  [k \in DOMAIN sdb |-> stat_print_stat(sdb, counters, dists, sdb[k])]
=============================================================================
