------------------------------ MODULE Options ------------------------------
(***************************************************************************)
(* The option package, options.c: the database of registered options, the  *)
(* command line and the configuration files it names, and the dump of the  *)
(* current values as a configuration file.                                 *)
(*                                                                         *)
(* Arguments are strings, as the shell passes them.  strtol and strtoul    *)
(* are tables of the decimal numerals in use.  A configuration file is a   *)
(* sequence of lines, a line a sequence of words; descriptions, notes and  *)
(* the help page are left out, and so are options of float, double and     *)
(* enumerated type, which no simulator registers.                          *)
(***************************************************************************)
EXTENDS Integers, Sequences, SequencesExt, TLC

CONSTANTS
  Numerals    \* the integers whose decimal forms are read as numbers

ASSUME NumeralsAssumption == Numerals \subseteq Int

Null == "<null>"         \* a char pointer that is NULL
None == "none of the files"

Digit == {"0", "1", "2", "3", "4", "5", "6", "7", "8", "9"}
First(w) == SubSeq(w, 1, 1)
Second(w) == IF Len(w) = 1 THEN "" ELSE SubSeq(w, 2, 2)

-----------------------------------------------------------------------------
(* Registration.  Every opt_reg function returns the option it adds; nelt   *)
(* tells a list, whose number of elements is counted, from a variable.      *)
Option(oc, name, vars, nvars, nelt, print, accrue) ==
  << [oc |-> oc, name |-> name, def |-> vars, nvars |-> nvars,
      nelt |-> nelt, print |-> print, accrue |-> accrue] >>

opt_reg_int(name, def, print) == Option("int", name, <<def>>, 1, FALSE, print, FALSE)
opt_reg_uint(name, def, print) == Option("uint", name, <<def>>, 1, FALSE, print, FALSE)
opt_reg_flag(name, def, print) == Option("flag", name, <<def>>, 1, FALSE, print, FALSE)
opt_reg_string(name, def, print) == Option("string", name, <<def>>, 1, FALSE, print, FALSE)
opt_reg_int_list(name, nvars, def, print, accrue) ==
  Option("int", name, def, nvars, TRUE, print, accrue)
opt_reg_string_list(name, nvars, def, print, accrue) ==
  Option("string", name, def, nvars, TRUE, print, accrue)

(* The registered options stay as they are: opts is their sequence.  The    *)
(* database holds what changes: the variable of each option and the number  *)
(* of its elements in use, at first the default.  add_option panics for a   *)
(* name without its dash and for one that is registered twice.              *)
Registrable(opts) ==
  /\ \A k \in DOMAIN opts : First(opts[k].name) = "-"
  /\ \A j, k \in DOMAIN opts : opts[j].name = opts[k].name => j = k

Names(opts) == {opts[k].name : k \in DOMAIN opts}
OptionNamed(opts, name) == opts[CHOOSE k \in DOMAIN opts : opts[k].name = name]
Blank(oc) == IF oc = "string" THEN Null ELSE 0

opt_new(opts) ==
  [var  |-> [n \in Names(opts) |->
               LET o == OptionNamed(opts, n)
               IN  [j \in 1 .. o.nvars |-> IF j <= Len(o.def) THEN o.def[j] ELSE Blank(o.oc)]],
   nelt |-> [n \in Names(opts) |->
               LET o == OptionNamed(opts, n) IN IF o.nelt THEN Len(o.def) ELSE 1]]

(* What the rest of the simulator sees of an option.                        *)
Values(db, name) == SubSeq(db.var[name], 1, db.nelt[name])
Value(db, name) == db.var[name][1]

-----------------------------------------------------------------------------
(* The argument of an option.                                               *)
FlagTrue == {"true", "t", "T", "True", "TRUE", "1", "y", "Y", "yes", "Yes", "YES", "on", "On", "ON"}
FlagFalse == {"false", "f", "F", "False", "FALSE", "0", "n", "N", "no", "No", "NO",
              "off", "Off", "OFF"}

NumeralOf == [w \in {ToString(n) : n \in Numerals} |->
                CHOOSE n \in Numerals : ToString(n) = w]

Readable(oc, w) ==
  CASE oc \in {"int", "uint"} -> w \in DOMAIN NumeralOf
    [] oc = "flag"            -> w \in FlagTrue \cup FlagFalse
    [] oc = "string"          -> TRUE
Converted(oc, w) ==
  CASE oc \in {"int", "uint"} -> NumeralOf[w]
    [] oc = "flag"            -> IF w \in FlagTrue THEN 1 ELSE 0
    [] oc = "string"          -> w
Shown(oc, v) ==
  CASE oc \in {"int", "uint"} -> ToString(v)
    [] oc = "flag"            -> IF v = 1 THEN "true" ELSE "false"
    [] oc = "string"          -> v

(* A word that starts with a dash is the next option, unless the option     *)
(* takes integers and the word is a negative one.                           *)
EndsArguments(oc, w) == First(w) = "-" /\ ~(oc = "int" /\ Second(w) \in Digit)

(* The words of room an option reads, at most so many.                      *)
Arguments(oc, room, most) ==
  LET stop == {k \in DOMAIN room : EndsArguments(oc, room[k])} \cup {Len(room) + 1, most + 1}
  IN  SubSeq(room, 1, Min(stop) - 1)
Rest(args, index) == SubSeq(args, index, Len(args))

-----------------------------------------------------------------------------
(* The parser state: the database, the invocations of                       *)
(* __opt_process_options under way (the last one reads; file holds the      *)
(* lines of the configuration file it has still to visit), the files and    *)
(* the index of the program to execute.                                     *)
Invocation(args) == [args |-> args, index |-> 1, dump |-> None, file |-> << >>]

opt_process_options(opts, argv, files) ==
  [db |-> opt_new(opts), stack |-> <<Invocation(argv)>>, files |-> files,
   exec |-> 0, err |-> ""]

Fatal(p, msg) == [p EXCEPT !.err = msg]
At(p) == p.stack[Len(p.stack)]
Word(p) == At(p).args[At(p).index]
Parsing(p) == p.stack # << >> /\ p.err = ""
WithTop(p, frame) == [p EXCEPT !.stack[Len(p.stack)] = frame]

Stored(var, first, new) ==
  [j \in DOMAIN var |-> IF j - first \in DOMAIN new THEN new[j - first] ELSE var[j]]
(* Fault: a list that accrues starts anew at each use. *)
FirstFreeAlways(o, nelt) == 0
FirstFree(o, nelt) == IF o.accrue THEN nelt ELSE 0
Room(o) == IF o.accrue THEN 1 ELSE o.nvars

(* The words given to option o are read up to the first that cannot be.  A  *)
(* flag without an argument, or with one that is no boolean, becomes true,  *)
(* and the word after it is left alone.                                     *)
Unreadable(o, given) == {k \in DOMAIN given : ~Readable(o.oc, given[k])}
ReadWords(o, given) == SubSeq(given, 1, Min(Unreadable(o, given) \cup {Len(given) + 1}) - 1)
NewValues(o, read, given) ==
  [k \in DOMAIN read |-> Converted(o.oc, read[k])]
    \o (IF o.oc = "flag" /\ (given = << >> \/ read # given) THEN <<1>> ELSE << >>)

Misuse(o, given, nelt) ==
  IF given = << >> /\ o.oc # "flag" THEN "option requires an argument"
  ELSE IF o.accrue /\ nelt >= o.nvars THEN "too many invocations of option"
  ELSE IF o.oc # "flag" /\ Unreadable(o, given) # {} THEN "could not parse argument of option"
  ELSE ""

Assigned(p, o, first, read, given) ==
  WithTop([p EXCEPT !.db.var[o.name] = Stored(@, first, NewValues(o, read, given)),
                    !.db.nelt[o.name] = IF o.nelt THEN first + Len(read) ELSE @],
          [At(p) EXCEPT !.index = @ + 1 + Len(read)])

Given(p, o, given) ==
  IF Misuse(o, given, p.db.nelt[o.name]) # "" THEN Fatal(p, Misuse(o, given, p.db.nelt[o.name]))
  ELSE Assigned(p, o, FirstFree(o, p.db.nelt[o.name]), ReadWords(o, given), given)

Used(p, o) == Given(p, o, Arguments(o.oc, Rest(At(p).args, At(p).index + 1), Room(o)))

process_option(opts, p) ==
  IF Word(p) \notin Names(opts) THEN Fatal(p, "option is undefined")
  ELSE Used(p, OptionNamed(opts, Word(p)))

-----------------------------------------------------------------------------
(* The configuration dump, one line for each option.                        *)
opt_null_string(db, o) ==
  /\ o.oc = "string"
  /\ o.nvars = 0 \/ db.nelt[o.name] = 0 \/ (~o.nelt /\ db.var[o.name][1] = Null)

ShownAll(oc, vals) == [k \in DOMAIN vals |-> Shown(oc, vals[k])]
(* Fault: the whole array of a list is written. *)
PrintWhole(db, o) == ShownAll(o.oc, db.var[o.name])

opt_print_option(db, o) ==
  IF o.oc = "string" /\ db.nelt[o.name] = 0 THEN <<Null>>
  ELSE ShownAll(o.oc, Values(db, o.name))

DumpLine(db, o) ==
  (IF ~o.print \/ opt_null_string(db, o) THEN <<"#", o.name>> ELSE <<o.name>>)
    \o opt_print_option(db, o)
opt_print_options(opts, db) ==
  << <<"#", "-config">>, <<"#", "-dumpconfig">> >> \o [k \in DOMAIN opts |-> DumpLine(db, opts[k])]

dump_config(opts, p, name) ==
  IF name \in {None, "-"} THEN p
  ELSE [p EXCEPT !.files = (name :> opt_print_options(opts, p.db)) @@ @]

-----------------------------------------------------------------------------
(* The steps of __opt_process_options and process_file.                     *)
WithoutComment(line) ==
  SubSeq(line, 1, Min({k \in DOMAIN line : First(line[k]) = "#"} \cup {Len(line) + 1}) - 1)

(* The next line of the file is an invocation of its own.                   *)
LineRead(p, line) == IF line = << >> THEN p ELSE [p EXCEPT !.stack = Append(@, Invocation(line))]
process_file(p) ==
  LineRead(WithTop(p, [At(p) EXCEPT !.file = Tail(@)]), WithoutComment(Head(At(p).file)))

Orphan(p) ==
  IF Len(p.stack) > 1
    THEN Fatal(p, "orphan encountered during config file processing")
    ELSE WithTop([p EXCEPT !.exec = At(p).index],
                 [At(p) EXCEPT !.index = Len(At(p).args) + 1])

(* The two options of the package itself.  The name of a dump may be "-".   *)
Builtin(p, arg) ==
  IF arg = << >> \/ (First(arg[1]) = "-" /\ ~(Word(p) = "-dumpconfig" /\ arg[1] = "-"))
    THEN Fatal(p, "builtin option requires an argument")
  ELSE IF Word(p) = "-dumpconfig"
    THEN WithTop(p, [At(p) EXCEPT !.index = @ + 2, !.dump = arg[1]])
  ELSE IF arg[1] \notin DOMAIN p.files THEN Fatal(p, "could not open configuration file")
  ELSE WithTop(p, [At(p) EXCEPT !.index = @ + 2, !.file = p.files[arg[1]]])

(* The dump is performed last, when all the words are visited.              *)
Ended(p) == [p EXCEPT !.stack = Front(@)]

process_options(opts, p) ==
  IF At(p).file # << >> THEN process_file(p)
  ELSE IF At(p).index > Len(At(p).args) THEN Ended(dump_config(opts, p, At(p).dump))
  ELSE IF First(Word(p)) # "-" THEN Orphan(p)
  ELSE IF Word(p) \in {"-config", "-dumpconfig"} THEN Builtin(p, Rest(At(p).args, At(p).index + 1))
  ELSE process_option(opts, p)
=============================================================================
