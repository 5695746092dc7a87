-------------------------------- MODULE Loader ------------------------------
(* ld_load_prog of both targets: a program is loaded from an executable,    *)
(* whose sections are copied and whose arguments and environment are laid   *)
(* out on the stack, or from an event trace and, optionally, a checkpoint.  *)
(* An executable e is a record                                              *)
(*   [entry, gp, text_start, tsize, data_start, dsize, bsize, sections]     *)
(* with sections a sequence of [kind, vaddr, data].  A pointer, an integer  *)
(* and a character of a string take one cell each.                          *)
EXTENDS Eio

CONSTANTS MD_TEXT_BASE, MD_DATA_BASE, MD_STACK_BASE,   \* the map of PISA
          StackGap,              \* from the text down to the stack of Alpha
          MD_MAX_ENVIRON,        \* room for arguments and environment
          TEXT_TAIL_PADDING,
          OpBase                 \* MD_OP_ENUM maps opcode field f to OpBase + f

ASSUME LoaderAssumption ==
  /\ {MD_TEXT_BASE, MD_DATA_BASE, MD_STACK_BASE} \subseteq Nat \ {0}
  /\ {StackGap, MD_MAX_ENVIRON, TEXT_TAIL_PADDING, OpBase} \subseteq Nat

MD_REG_SP(s) == IF s.target = "pisa" THEN 29 ELSE 30
MD_REG_GP == 29
ROUND_UP(a) == ((a + PageSize - 1) \div PageSize) * PageSize
ROUND_DOWN(a, n) == (a \div n) * n

Store(s, a, v) == mem_access(s, "Write", a, v)
Zeros(n) == [i \in 1 .. n |-> 0]

-----------------------------------------------------------------------------
(* Sections.  A text section of PISA is followed by zeros for speculative   *)
(* fetches; bss sections hold no data.                                      *)
LoadSection(s, sec) ==
  LET padded == sec.kind = "text" /\ s.target = "pisa"
      data   == sec.data \o Zeros(IF padded THEN TEXT_TAIL_PADDING ELSE 0)
  IN  IF sec.kind \in {"bss", "sbss", "other"} THEN s
      ELSE [CopyOut(s, sec.vaddr, data)
              EXCEPT !.ld.text[2] = IF padded THEN sec.vaddr + Len(data) - MD_TEXT_BASE ELSE @]

LoadPisa(s, e) ==
  LET sp == ROUND_DOWN(MD_STACK_BASE - MD_MAX_ENVIRON, 2)
      t  == FoldLeft(LoadSection, s, e.sections)
  IN  [t EXCEPT !.ld.text[1] = MD_TEXT_BASE,
                !.ld.data = <<MD_DATA_BASE, e.dsize + e.bsize>>,
                !.ld.stack = <<MD_STACK_BASE, MD_STACK_BASE - sp>>,
                !.ld.environ_base = sp,
                !.ld.prog_entry = e.entry]

LoadAlpha(s, e) ==
  LET t == FoldLeft(LoadSection,
                    [s EXCEPT !.ld.text = <<e.text_start, e.tsize>>,
                              !.ld.data = <<e.data_start, e.dsize + e.bsize>>,
                              !.ld.prog_entry = e.entry,
                              !.regs[MD_REG_GP] = e.gp],
                    e.sections)
      base == e.text_start - StackGap
  IN  [t EXCEPT !.ld.stack = <<base, MD_MAX_ENVIRON>>, !.ld.environ_base = base - MD_MAX_ENVIRON]

CheckSegments(s) ==
  IF 0 \in {s.ld.text[1], s.ld.text[2]} THEN Stopped(s, "missing a .text section")
  ELSE IF 0 \in {s.ld.data[1], s.ld.data[2]} THEN Stopped(s, "missing a .data section")
  ELSE IF s.ld.prog_entry = 0 THEN Stopped(s, "entry point not specified")
  ELSE s

-----------------------------------------------------------------------------
(* Fault: no room is left for the zero at the end of a string.              *)
PushTight(acc, str) ==
  [s     |-> CopyOut(Store(acc.s, acc.table, acc.sp), acc.sp, Append(str, 0)),
   sp    |-> acc.sp + Len(str),
   table |-> acc.table + 1]

(* A string is written at sp, with its entry in the pointer table.          *)
Push(acc, str) ==
  [s     |-> CopyOut(Store(acc.s, acc.table, acc.sp), acc.sp, Append(str, 0)),
   sp    |-> acc.sp + Len(str) + 1,
   table |-> acc.table + 1]

(* The strings come one after the other; a null pointer ends the table.     *)
Ended(acc) == [acc EXCEPT !.s = Store(@, acc.table, 0), !.table = @ + 1]
PushStrings(acc, strs) == Ended(FoldLeft(Push, acc, strs))

(* argc, the two tables, then the strings; the check comes after the fact.  *)
EnvironSet(all, argc, argvp) ==
  LET t == IF all.s.target = "pisa" THEN all.s
           ELSE [all.s EXCEPT !.regs[A!A0] = argc, !.regs[A!A1] = argvp]
  IN  IF all.sp > t.ld.stack[1] THEN Stopped(t, "environment overflow") ELSE t
Environ(s, argv, envp) ==
  LET sp    == s.ld.environ_base
      begin == [s |-> Store(s, sp, Len(argv)), sp |-> sp + 3 + Len(argv) + Len(envp),
                table |-> sp + 1]
  IN  EnvironSet(PushStrings(PushStrings(begin, argv), envp), Len(argv), sp + 1)

InitialRegs(s) ==
  [s EXCEPT !.ld.brk_point = ROUND_UP(s.ld.data[1] + s.ld.data[2]),
            !.ld.stack_min = s.regs[MD_REG_SP(s)],
            !.regs[MD_REG_SP(s)] = s.ld.environ_base,
            !.pc = s.ld.prog_entry]

(* PISA replaces the opcode field of every instruction of the text segment  *)
(* by the opcode it stands for.                                             *)
MD_OP_ENUM(f) == OpBase + f
Predecode(s) ==
  LET decode(t, a) ==
        Store(mem_access(t, "Read", a, 0), a, MD_OP_ENUM(MEM_READ(t.mem, a)))
  IN  IF s.target = "pisa" THEN FoldLeft(decode, s, Cells(s.ld.text[1], s.ld.text[2])) ELSE s

LoadSections(s, e) ==
  CheckSegments(IF s.target = "pisa" THEN LoadPisa(s, e) ELSE LoadAlpha(s, e))
Entered(s) == IF s.status = "running" THEN Predecode(InitialRegs(s)) ELSE s
LoadExecutable(s, e, argv, envp) == Entered(Environ(LoadSections(s, e), argv, envp))

-----------------------------------------------------------------------------
(* An event trace f is loaded from its initial checkpoint; with a           *)
(* checkpoint c (a set of at most one file) the state is then overwritten   *)
(* and the trace wound on to where the checkpoint was taken.                *)
Restored(s, c) ==
  IF ~eio_valid(c) THEN Stopped(s, "not a checkpoint file")
  ELSE IF eio_open(s, c).status # "running" THEN eio_open(s, c)
  ELSE eio_fast_forward(eio_read_chkpt(s, c.chkpt), c.chkpt.trans)

AtEntry(s) == [s EXCEPT !.ld.environ_base = s.regs[MD_REG_SP(s)], !.ld.prog_entry = s.pc]
WoundOn(s, c) == AtEntry(IF c = {} THEN s ELSE Restored(s, CHOOSE k \in c : TRUE))
LoadTrace(s, f, c, argc) ==
  IF argc # 1 THEN Stopped(s, "EIO file has arguments")
  ELSE IF eio_open(s, f).status # "running" THEN eio_open(s, f)
  ELSE IF f.chkpt.trans # NoTrans THEN Stopped(s, "bad initial checkpoint in EIO file")
  ELSE WoundOn([eio_read_chkpt(s, f.chkpt) EXCEPT !.sim_eio_fd = TRUE, !.eio = f.trans], c)

ld_load_prog(s, f, c, argv, envp) ==
  IF eio_valid(f) THEN LoadTrace(s, f, c, Len(argv))
  ELSE IF c # {} THEN Stopped(s, "checkpoints only supported while EIO tracing")
  ELSE LoadExecutable(s, f, argv, envp)
=============================================================================
