--------------------------------- MODULE Eio --------------------------------
(* External event traces and checkpoints (eio.c).  A trace is an initial    *)
(* checkpoint and one transaction for each system call: the instruction     *)
(* count, the PC, the registers and the memory the call read, and what it   *)
(* left in the registers, in memory and as break point.  A file is a record *)
(* [eio, format, chkpt, trans]; an executable has eio = FALSE.              *)
EXTENDS Proxy

P == INSTANCE PisaSyscall
A == INSTANCE AlphaSyscall

InRegs(s)  == DOMAIN s.regs \cap (IF s.target = "pisa" THEN P!InRegs ELSE A!InRegs)
OutRegs(s) == DOMAIN s.regs \cap (IF s.target = "pisa" THEN P!OutRegs ELSE A!OutRegs)
MD_EXIT_SYSCALL(s) ==
  IF s.target = "pisa" THEN P!MD_EXIT_SYSCALL(s) ELSE A!MD_EXIT_SYSCALL(s)
MD_OUTPUT_SYSCALL(s) ==
  IF s.target = "pisa" THEN P!MD_OUTPUT_SYSCALL(s) ELSE A!MD_OUTPUT_SYSCALL(s)

(* The call itself, performed on the host.                                  *)
HostSyscall(s, x) ==
  IF s.target = "pisa" THEN P!sys_syscall(s, x) ELSE A!sys_syscall(s, x)

-----------------------------------------------------------------------------
NoTrans == -1            \* eio_trans_icnt before the first transaction

eio_create(target, chkpt, trans) ==
  [eio |-> TRUE, format |-> target, chkpt |-> chkpt, trans |-> trans]
eio_valid(f) == f.eio
eio_open(s, f) ==
  IF f.format = s.target THEN s ELSE Stopped(s, "incompatible format")

eio_write_chkpt(s) ==
  [trans |-> s.trans, icnt |-> s.icnt, pc |-> s.pc, npc |-> s.npc, regs |-> s.regs,
   page_count |-> s.mem.page_count, brk_point |-> s.ld.brk_point,
   stack_min |-> s.ld.stack_min, text |-> s.ld.text, data |-> s.ld.data,
   stack |-> s.ld.stack, pages |-> MEM_FORALL(s.mem)]

(* Everything but eio_trans_icnt, which is returned, is restored.  Pages    *)
(* are written over what the memory holds.                                  *)
eio_read_chkpt(s, c) ==
  FoldLeft(LAMBDA t, p : CopyOut(t, p.addr, [i \in 1 .. PageSize |-> p.page[i - 1]]),
           [s EXCEPT !.icnt = c.icnt, !.pc = c.pc, !.npc = c.npc, !.regs = c.regs,
                     !.ld = [@ EXCEPT !.brk_point = c.brk_point, !.stack_min = c.stack_min,
                                      !.text = c.text, !.data = c.data, !.stack = c.stack]],
           SubSeq(c.pages, 1, c.page_count))

-----------------------------------------------------------------------------
(* A system call of a program that runs from a trace.  Exit is executed for *)
(* real; every other call must find the state the trace was recorded in,    *)
(* and its results are taken from the trace.                                *)
(* Fault: memory is read around the accessor, which records nothing.        *)
ReadBlobDirect(s, b) ==
  [CopyIn([s EXCEPT !.rec = NotRecording], b.addr, Len(b.data)) EXCEPT !.rec = s.rec]
ReadBlob(s, b) == CopyIn(s, b.addr, Len(b.data))
WriteBlob(s, b) == CopyOut(s, b.addr, b.data)
(* Fault: the last cell of a blob is not shown.                             *)
EchoShort(s, b) == Shown(s, SubSeq(b.data, 1, Len(b.data) - 1))
EchoBlob(s, b) == Shown(s, b.data)

BlobHolds(s, b) == Bytes(s.mem, b.addr, Len(b.data)) = b.data
Inputs(s, h) ==
  CASE h.icnt # s.icnt -> "ICNT mismatch"
    [] h.icnt = s.icnt /\ h.pc # s.pc -> "PC mismatch"
    [] OTHER -> IF /\ \A i \in InRegs(s) : h.inregs[i] = s.regs[i]
                   /\ \A k \in DOMAIN h.inmem : BlobHolds(s, h.inmem[k])
                  THEN "consistent" ELSE "input mismatch"

(* Fault: the break point is not taken from the trace.                      *)
ReplayedNoBreak(s, h) ==
  LET read == FoldLeft(ReadBlob, s, h.inmem)
      regs == [i \in DOMAIN s.regs |-> IF i \in OutRegs(s) THEN h.outregs[i] ELSE s.regs[i]]
  IN  FoldLeft(WriteBlob, [read EXCEPT !.regs = regs], h.outmem)
Replayed(s, h) ==
  LET read == FoldLeft(ReadBlob, s, h.inmem)
      echo == IF MD_OUTPUT_SYSCALL(s) THEN FoldLeft(EchoBlob, read, h.inmem) ELSE read
      regs == [i \in DOMAIN s.regs |-> IF i \in OutRegs(s) THEN h.outregs[i] ELSE s.regs[i]]
  IN  FoldLeft(WriteBlob, [echo EXCEPT !.ld.brk_point = h.brk_point, !.regs = regs], h.outmem)

(* A call of exit is made for real: it ends the simulation.                 *)
eio_read_trace(s) ==
  IF MD_EXIT_SYSCALL(s) THEN Stopped(s, "exited")
  ELSE IF s.eio = << >> THEN Stopped([s EXCEPT !.trans = s.icnt], "cannot read EIO transaction")
  ELSE LET h == Head(s.eio)
           t == [s EXCEPT !.trans = s.icnt, !.eio = Tail(@)]
       IN  IF Inputs(s, h) = "consistent" THEN Replayed(t, h) ELSE Stopped(t, Inputs(s, h))

(* The transaction of a call that led from s to t is written to the new     *)
(* trace.  The call was performed, or replayed, through my_mem_fn.  Exit    *)
(* does not return.                                                         *)
Transaction(s, t) ==
  [icnt      |-> s.icnt,
   pc        |-> t.pc,
   inregs    |-> [i \in InRegs(s) |-> s.regs[i]],
   inmem     |-> t.rec.input,
   brk_point |-> t.ld.brk_point,
   outregs   |-> [i \in OutRegs(s) |-> t.regs[i]],
   outmem    |-> t.rec.output]
eio_write_trace(s, t) ==
  IF t.status = "running"
    THEN [t EXCEPT !.rec = NotRecording, !.written = Append(@, Transaction(s, t)),
                   !.trans = s.icnt]
    ELSE [t EXCEPT !.rec = NotRecording]

(* The system call instruction: with trace, a call of eio_write_trace, else *)
(* of sys_syscall.  Both consult the trace that is executed, if any; only   *)
(* sys_syscall then sees to sigreturn.                                      *)
Finished(s, trace, t) ==
  IF trace THEN eio_write_trace(s, t)
  ELSE IF s.sim_eio_fd /\ s.target = "alpha" THEN A!SigreturnReplayed(s, t) ELSE t
SYSCALL(s, x, trace) ==
  LET in == IF trace THEN [s EXCEPT !.rec = Recording] ELSE s
  IN  Finished(s, trace, IF s.sim_eio_fd THEN eio_read_trace(in) ELSE HostSyscall(in, x))

(* Fault: the transaction the checkpoint was taken after is left.           *)
FastForwardBefore(s, icnt) ==
  LET at == {k \in DOMAIN s.eio : s.eio[k].icnt = icnt}
  IN  IF at = {} THEN Stopped(s, "could not fast forward to EIO checkpoint")
      ELSE [s EXCEPT !.trans = icnt, !.eio = SubSeq(@, Min(at), Len(@))]

(* Drop the transactions up to and with the one of instruction icnt.        *)
eio_fast_forward(s, icnt) ==
  LET at == {k \in DOMAIN s.eio : s.eio[k].icnt = icnt}
  IN  IF at = {} THEN Stopped(s, "could not fast forward to EIO checkpoint")
      ELSE [s EXCEPT !.trans = icnt, !.eio = SubSeq(@, Min(at) + 1, Len(@))]
=============================================================================
