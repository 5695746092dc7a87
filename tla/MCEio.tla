-------------------------------- MODULE MCEio -------------------------------
(* Instances of SimEio: for each target, one program per system call (or    *)
(* per case of it), each with the arguments the call needs in a small data  *)
(* section.  The program makes the call, reads a cell the call may have     *)
(* written, writes two cells to its standard output and exits.              *)
EXTENDS SimEio

CONSTANT EarlyDumps      \* TRUE: checkpoints before the first system call, too

-----------------------------------------------------------------------------
(* The data section at address d: a string, a buffer, an I/O vector of two  *)
(* entries (one is null), a structure that is a pointer to nothing, a       *)
(* length, two results, a spare cell and a signal context, whose registers  *)
(* are its own address in A0 and small numbers, and whose PC skips the load *)
(* after the call.                                                          *)
Data(d, skip) == <<1, 0,  7, 8,  d + 2, 1, 0, 0,  0, 4,  2,  0, 0,  0,
                   6, skip, 0, d + 14, 1, 2, 3, 4, 5, 29, 30>>

Word(target) == IF target = "pisa" THEN <<2, 4, 5, 6, 7, 29>> ELSE <<0, 16, 17, 18, 19, 20, 21>>

(* Values for the registers of a call: its number, then its arguments.      *)
Args(target, vals) ==
  [kind |-> "set",
   regs |-> [r \in {Word(target)[k] : k \in DOMAIN vals} |->
               vals[CHOOSE k \in DOMAIN vals : Word(target)[k] = r]]]

Insts(target, d, call) ==
  <<Args(target, call),
    [kind |-> "syscall"],
    [kind |-> "load", addr |-> d + 11, reg |-> 29],
    Args(target, <<4, 1, d + 2, 2>>),
    [kind |-> "syscall"],
    [kind |-> "store", addr |-> d + 13, val |-> 5],
    Args(target, <<1>>),
    [kind |-> "syscall"]>>

Plain  == [sim |-> "", chkpt |-> FALSE, trace |-> FALSE, fastfwd |-> 0, dump |-> {},
           perdump |-> 0, max |-> 0]
Trace  == [Plain EXCEPT !.trace = TRUE]
Chkpt1 == [Plain EXCEPT !.chkpt = TRUE]
DumpAt(k)   == [Plain EXCEPT !.dump = {range_parse_range({Position("inst", k)}, {}, {1})}]
DumpFrom(a) == [Plain EXCEPT !.dump = {range_parse_range({Position("addr", a)}, {}, {})}]
Periodic    == [Plain EXCEPT !.perdump = 3]
Foreign     == [Plain EXCEPT !.sim = "alpha"]

(* A recording, and what is done with it.  The recordings skip the first    *)
(* system call, or end before the second one.  A program that returns from *)
(* a signal is not recorded anew, see the README.                           *)
Plans(call) ==
  {<<Trace, Plain>>,
   <<Trace, DumpAt(IF EarlyDumps THEN 1 ELSE 2), Chkpt1>>,
   <<Trace, DumpFrom(54), [DumpAt(6) EXCEPT !.chkpt = TRUE], Chkpt1>>,
   <<[Trace EXCEPT !.fastfwd = 2], Periodic, Chkpt1>>,
   <<[Trace EXCEPT !.max = 4], Plain>>,
   <<[Plain EXCEPT !.dump = DumpAt(2).dump]>>}
  \cup (IF call[1] = 103 THEN {} ELSE {<<Trace, Trace, Plain>>})
  \cup (IF call[1] = 20 THEN {<<Trace, Foreign>>} ELSE {})

-----------------------------------------------------------------------------
Program(target, text, d, call) ==
  [target |-> target,
   exe    |-> [eio |-> FALSE, entry |-> text, gp |-> 3, text_start |-> text, tsize |-> 8,
               data_start |-> d, dsize |-> 25, bsize |-> 2,
               sections |-> <<[kind |-> "text", vaddr |-> text, data |-> [k \in 1 .. 8 |-> k]],
                              [kind |-> "data", vaddr |-> d, data |-> Data(d, text + 3)],
                              [kind |-> "bss", vaddr |-> d + 25, data |-> << >>]>>],
   insts  |-> Insts(target, d, call),
   argv   |-> <<<<1>>, <<2, 3>>>>,
   envp   |-> <<<<4>>>>,
   plans  |-> Plans(call)]

-----------------------------------------------------------------------------
PisaCalls(d) ==
  {<<3, 5, d + 11, 2>>, <<4, 2, d + 2, 2>>, <<5, d, 0, 0>>, <<5, d, 4, 0>>, <<6, 5>>, <<6, 1>>,
   <<8, d, 0>>, <<10, d>>, <<12, d>>, <<15, d, 0>>, <<16, d, 0, 0>>, <<17, d + 30>>, <<17, 1>>,
   <<19, 5, 0, 0>>, <<20>>, <<24>>, <<33, d, 0>>, <<38, d, d + 11>>, <<41, 5>>, <<42, d + 2>>,
   <<47>>, <<54, 5, 1074164744, d + 11>>, <<54, 5, 1074295912, d + 8>>, <<54, 5, 1074295912, 0>>,
   <<54, 5, 7, 0>>, <<62, 5, d + 11>>, <<64>>, <<83>>, <<89>>, <<90, 5, 6>>, <<92, 5, 0, 0>>,
   <<93, 1, d + 8, 0, 0, d + 6>>, <<93, 1, d + 8, d + 11, d + 2, d>>, <<108>>, <<109>>, <<110>>,
   <<116, d + 8, 0>>, <<117, 0, d + 11>>, <<121, 5, d + 4, 2>>, <<138, d, d + 8>>, <<138, d, 0>>,
   <<144, 0, d + 8>>, <<199>>}

AlphaCalls(d) ==
  {<<3, 5, d + 11, 2>>, <<4, 2, d + 2, 2>>, <<0, 20>>, <<6, 5>>, <<6, 1>>, <<10, d>>, <<12, d>>,
   <<15, d, 0>>, <<16, d, 0, 0>>, <<17, d + 30>>, <<19, 5, 0, 0>>, <<20>>, <<23, 1>>, <<24>>,
   <<29, 5, d + 11, 2, 0, d + 8, d + 10>>, <<33, d, 0>>, <<41, 5>>, <<45, d, 0, 0>>,
   <<45, d, 16, 0>>, <<47>>, <<48, 1, 6>>, <<48, 2, 6>>, <<48, 3, 1>>, <<48, 4, 1>>,
   <<54, 5, 1074164744, d + 11>>, <<54, 5, 1074030207, d + 11>>, <<54, 5, 21537, d + 11>>,
   <<54, 5, 7, 0>>, <<64>>, <<67, d, d + 11>>, <<69, 3>>, <<75>>, <<83>>,
   <<85, 0, 12, 0, d + 11, 1>>, <<85, 0, 12, 1, d + 11, 1>>, <<85, 0, 3>>, <<87, d + 11, 2>>,
   <<89>>, <<90, 5, 6>>, <<91, 5, d + 11>>, <<92, 5, 0, 0>>, <<93, 1, d + 8, 0, d + 11, 0>>,
   <<94, d + 8, 2>>, <<96>>, <<97, 1, 1, 0>>, <<98, 5, d + 8, 2>>, <<98, 5, d + 8, 3>>, <<100>>,
   <<103, d + 14>>, <<104, 5, d + 8, 2>>, <<105, 5, 1, 1, d + 8, 2>>, <<112>>, <<116, d + 8, 0>>,
   <<117, 0, d + 11>>, <<120, 5, d + 4, 2>>, <<121, 5, d + 4, 2>>, <<126>>, <<127>>, <<129, d, 0>>,
   <<130, 5, 0>>, <<131, 5, 0>>, <<132>>, <<133, 5, d + 2, 2, 0, d + 8, 2>>, <<134>>,
   <<138, d, d + 8>>, <<141, 5, d + 11, d + 10>>, <<144, 0, d + 8>>, <<150, 5, d + 11, d + 10>>,
   <<156, 1, 3, d + 8>>, <<159, 5, d + 11, 2, d + 13>>, <<160, d, d + 11>>, <<165, d + 11, 2>>,
   <<207>>, <<250>>, <<251>>, <<257>>, <<199>>}

MCPrograms == {Program("pisa", 8, 24, c) : c \in PisaCalls(24)}
                \cup {Program("alpha", 48, 56, c) : c \in AlphaCalls(56)}

MCAddresses == 16 .. 87

(* The host fails with errno 2, or returns 2 and data.                      *)
MCAnswers == {[ret |-> -1, errno |-> 2, byte |-> 0], [ret |-> 2, errno |-> 0, byte |-> 3]}

=============================================================================
