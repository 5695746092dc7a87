-------------------------------- MODULE SimEio ------------------------------
(* sim-eio.c: the functional simulator that records event traces and takes  *)
(* checkpoints.  A behaviour is a program and a series of simulator runs    *)
(* on it, each with its options, one of the program's plans.  The first run *)
(* records a trace of the executable; every other one executes the trace,   *)
(* from its start or from a checkpoint, and may take checkpoints or record  *)
(* the trace anew.  The model executes instructions that set registers,     *)
(* load, store, and make system calls.                                      *)
(* golden is a history variable: the architected state the recording run    *)
(* had at each instruction count.                                           *)
EXTENDS Loader, Range

CONSTANTS Programs,       \* [target, exe, insts, argv, envp, plans]
          HostAnswers,    \* what the host may return to a system call
          Addresses       \* the memory that is compared

ASSUME SimEioAssumption == Addresses \subseteq Nat

VARIABLES program,        \* the program
          files,          \* the trace, the last checkpoint and the new trace
          runs,           \* the options of the runs so far
          on,             \* TRUE while a run is on
          s,              \* the simulator, see Proxy
          next_chkpt_cycle,
          golden,
          since           \* instruction count the run started with

vars == <<program, files, runs, on, s, next_chkpt_cycle, golden, since>>

(* Options: [sim, chkpt, trace, fastfwd, dump, perdump, max].  sim is the   *)
(* target the simulator is built for ("" for that of the program); chkpt    *)
(* and trace tell whether a checkpoint is loaded and a trace recorded; dump *)
(* is a set of at most one range; 0 stands for no fast forward, no interval *)
(* and no limit.                                                            *)
NoFile == {}
RegNames(target) == IF target = "pisa" THEN (2 .. 7) \cup {29} ELSE {0, 29, 30} \cup (16 .. 21)

opts == runs[Len(runs)]
Target(o) == IF o.sim = "" THEN program.target ELSE o.sim

Off == "off"
Booted(target) ==
  [target |-> target, regs |-> [i \in RegNames(target) |-> 0], pc |-> 0, npc |-> 0, icnt |-> 0,
   mem |-> mem_init,
   ld |-> [brk_point |-> 0, stack_min |-> 0, text |-> <<0, 0>>, data |-> <<0, 0>>,
           stack |-> <<0, 0>>, environ_base |-> 0, prog_entry |-> 0],
   sig |-> [mask |-> 0, action |-> [n \in 0 .. 1 |-> 0]],
   trans |-> NoTrans, rec |-> NotRecording, sim_eio_fd |-> FALSE, eio |-> << >>,
   written |-> << >>, shown |-> << >>, status |-> "running"]

Init == /\ program \in Programs
        /\ files = [trace |-> NoFile, chkpt |-> NoFile, new |-> NoFile]
        /\ runs = << >>
        /\ on = FALSE
        /\ s = Off
        /\ next_chkpt_cycle = 0
        /\ golden = << >>
        /\ since = 0

-----------------------------------------------------------------------------
(* One instruction.  A system call is recorded when a trace is written, but *)
(* not in the fast forward loop.                                            *)
Fetched(t) ==
  LET a == MEM_READ(t.mem, t.pc)
      k == IF t.target = "pisa" THEN a - OpBase ELSE a
  IN  IF k \in DOMAIN program.insts THEN program.insts[k] ELSE [kind |-> "bogus"]

Advanced(t) == [t EXCEPT !.pc = t.npc, !.npc = t.npc + 1]
Executed(t, x, trace) ==
  LET i == Fetched(t)
      u == [t EXCEPT !.mem = MEM_PAGE(@, t.pc)]
  IN  Advanced(
        CASE i.kind = "set"   -> [u EXCEPT !.regs = [r \in DOMAIN @ |->
                                    IF r \in DOMAIN i.regs THEN i.regs[r] ELSE @[r]]]
          [] i.kind = "load"  -> [mem_access(u, "Read", i.addr, 0)
                                    EXCEPT !.regs[i.reg] = MEM_READ(t.mem, i.addr)]
          [] i.kind = "store" -> mem_access(u, "Write", i.addr, i.val)
          [] i.kind = "syscall" -> SYSCALL(u, x, trace)
          [] i.kind = "bogus" -> Stopped(u, "bogus opcode"))

(* The fast forward loop makes no transactions and counts no instructions.  *)
FastForwarded(t, n, x) ==
  FoldLeft(LAMBDA u, k : IF u.status = "running" THEN Executed(u, x, FALSE) ELSE u,
           t, [k \in 1 .. n |-> k])

-----------------------------------------------------------------------------
(* The architected state, as far as a run restores it, and what has been    *)
(* shown.                                                                   *)
Arch(t) == [regs |-> t.regs, pc |-> t.pc, mem |-> Flat(t.mem, Addresses),
            ld |-> <<t.ld.brk_point, t.ld.text, t.ld.data, t.ld.stack>>]
Golden(t) == [arch |-> Arch(t), shown |-> t.shown]

CheckOptions(o, t) ==
  CASE o.dump # {} /\ ~t.sim_eio_fd ->
         Stopped(t, "checkpoints can only be generated while running an EIO trace")
    [] o.dump # {} /\ t.sim_eio_fd /\ o.perdump # 0 ->
         Stopped(t, "can't do both regular and periodic checkpoints")
    [] OTHER -> [t EXCEPT !.npc = t.pc + 1]
sim_load_prog(o, f, c, argv) ==
  CheckOptions(o, ld_load_prog(Booted(Target(o)), f, c, argv, program.envp))

(* The start of sim_main: instructions are skipped, and a new trace gets    *)
(* its initial checkpoint, which must come before the first transaction.    *)
Begun(o, t) ==
  IF o.trace /\ t.trans # NoTrans THEN Stopped(t, "checkpoint code is broken") ELSE t
NewTrace(t) == {eio_create(t.target, eio_write_chkpt(t), << >>)}

(* The options a plan allows for the next run.                              *)
NextOptions ==
  {p[Len(runs) + 1] : p \in {q \in program.plans : IsStrictPrefix(runs, q)}}

(* The recording run comes first; the runs that replay have its trace, and  *)
(* never ask the host.                                                      *)
NoAnswer == CHOOSE x \in HostAnswers : TRUE
FirstOfPlan == runs = << >>
Sources == IF FirstOfPlan THEN {program.exe} ELSE files.trace

Start ==
  \E o \in NextOptions, f \in Sources, x \in IF FirstOfPlan THEN HostAnswers ELSE {NoAnswer} :
    /\ ~on
    /\ o.chkpt => files.chkpt # NoFile
    /\ s' = Begun(o, FastForwarded(
                       sim_load_prog(o, f, IF o.chkpt THEN files.chkpt ELSE NoFile,
                                     IF FirstOfPlan THEN program.argv ELSE <<1>>),
                       o.fastfwd, x))
    /\ on' = TRUE
    /\ runs' = Append(runs, o)
    /\ next_chkpt_cycle' = o.perdump
    /\ since' = s'.icnt
    /\ files' = IF o.trace /\ s'.status \in {"running", "checkpoint code is broken"}
                  THEN [files EXCEPT !.new = NewTrace(s')] ELSE files
    /\ golden' = IF FirstOfPlan THEN <<Golden(s')>> ELSE golden
    /\ UNCHANGED program

-----------------------------------------------------------------------------
(* The main loop.  A one shot checkpoint ends the run.                      *)
Triggered ==
  \E r \in opts.dump : range_cmp_range1(r, s.npc, s.icnt, s.icnt) = "inside"
Running == on /\ s.status = "running"
FirstRun == Len(runs) = 1     \* the run that records the trace of the program

Dump ==
  /\ Running /\ Triggered
  /\ files' = [files EXCEPT !.chkpt = NewTrace(s)]
  /\ s' = Stopped(s, "dumped")
  /\ UNCHANGED <<program, runs, on, next_chkpt_cycle, golden, since>>

PerDump == opts.perdump # 0 /\ s.icnt = next_chkpt_cycle

(* The host is asked only by a system call that is not replayed.            *)
Answers == IF Fetched(s).kind = "syscall" /\ ~s.sim_eio_fd THEN HostAnswers ELSE {NoAnswer}

Limited(t) == IF opts.max # 0 /\ t.icnt >= opts.max THEN Stopped(t, "max:inst") ELSE t

Insn ==
  /\ Running /\ ~Triggered
  /\ \E x \in Answers : s' = Limited(Executed([s EXCEPT !.icnt = @ + 1], x, opts.trace))
  /\ golden' = IF FirstRun /\ s'.status \in {"running", "max:inst"}
                 THEN Append(golden, Golden(s')) ELSE golden
  /\ IF PerDump
       THEN /\ files' = [files EXCEPT !.chkpt = NewTrace(s)]
            /\ next_chkpt_cycle' = next_chkpt_cycle + opts.perdump
       ELSE UNCHANGED <<files, next_chkpt_cycle>>
  /\ UNCHANGED <<program, runs, on, since>>

(* The run is over and its files are closed.  A new trace takes the place   *)
(* of the one that was executed.                                            *)
End ==
  /\ on /\ s.status # "running"
  /\ on' = FALSE
  /\ s' = Off
  /\ next_chkpt_cycle' = 0
  /\ since' = 0
  /\ files' = IF files.new = NoFile THEN files
              ELSE [files EXCEPT !.trace = {[f EXCEPT !.trans = s.written] : f \in files.new},
                                 !.new = NoFile]
  /\ UNCHANGED <<program, runs, golden>>

Next == Start \/ Dump \/ Insn \/ End
Spec == Init /\ [][Next]_vars

-----------------------------------------------------------------------------
(* Types: the program, the files and the page table, which holds a page     *)
(* once and counts its pages.                                               *)
EioTypeOK ==
  /\ \A f \in files.trace \cup files.chkpt \cup files.new : eio_valid(f)
  /\ on \in BOOLEAN /\ since \in Nat /\ next_chkpt_cycle \in Nat
  /\ IF on THEN WellFormed(s.mem) /\ DOMAIN s.regs = RegNames(s.target) ELSE s = Off

(* "EIO trace executions are 100% reproducible" (sim-eio.c:127): a run that *)
(* executes the trace, from its start or from a checkpoint, has at every    *)
(* instruction count the registers, PC, memory, break point and segments    *)
(* the recording run had.                                                   *)
ReplaysExactly ==
  on /\ s.status = "running" /\ s.icnt < Len(golden)
    => Arch(s) = golden[s.icnt + 1].arch

(* It shows what the recording run has shown since the same instruction.    *)
OutputReplayed ==
  on /\ ~FirstRun /\ s.status = "running" /\ s.icnt < Len(golden)
    => golden[s.icnt + 1].shown = golden[since + 1].shown \o s.shown

(* No run stops on an inconsistent or exhausted trace, a checkpoint it      *)
(* cannot find in the trace, or a read after a write within one system      *)
(* call, before it is past the last instruction of the recording.           *)
Failures == {"ICNT mismatch", "PC mismatch", "input mismatch", "cannot read EIO transaction",
             "Read after Write in eio_syscall()", "could not fast forward to EIO checkpoint",
             "bad initial checkpoint in EIO file", "checkpoint code is broken", "bogus opcode"}
NoInconsistency == on /\ s.icnt < Len(golden) => s.status \notin Failures

(* A trace recorded while another one is executed is that trace again.      *)
Retraced ==
  \A f \in files.trace, g \in files.new :
    on /\ s.status \in {"running", "exited"}
      => /\ IsPrefix(s.written, f.trans)
         /\ s.status = "exited" => s.written = f.trans
         /\ [g.chkpt EXCEPT !.pages = ToSet(@)] = [f.chkpt EXCEPT !.pages = ToSet(@)]

(* When an executable has been loaded, the stack holds the argument count,  *)
(* a null terminated table with the address of every argument, one with     *)
(* those of the environment, and the strings they point to; nothing of it   *)
(* lies outside the stack segment.                                          *)
EnvironmentInPlace ==
  on /\ FirstRun /\ s.status = "running" /\ s.icnt = 0 /\ opts.fastfwd = 0 =>
    LET sp == s.regs[MD_REG_SP(s)]
        Table(a, strs) ==
          /\ MEM_READ(s.mem, a + Len(strs)) = 0
          /\ \A i \in DOMAIN strs :
               /\ MEM_READ(s.mem, a + i - 1) \in sp .. s.ld.stack[1]
               /\ Bytes(s.mem, MEM_READ(s.mem, a + i - 1), Len(strs[i]) + 1) = Append(strs[i], 0)
    IN  /\ MEM_READ(s.mem, sp) = Len(program.argv)
        /\ Table(sp + 1, program.argv)
        /\ Table(sp + 2 + Len(program.argv), program.envp)
=============================================================================
