----------------------------- MODULE PisaSyscall ----------------------------
(* The system call proxy of the PISA target (target-pisa/syscall.c), as the *)
(* build for Linux compiles it.  Each call is an operator from the state of *)
(* the simulator and the host's answer to the state after it, in the order  *)
(* of the code: arguments are taken from the registers where the code does, *)
(* which may be after results have been written to them.  The argument      *)
(* registers are R4 to R7, R2 takes the result and R7 the error flag.       *)
EXTENDS Proxy

R(s, i) == s.regs[i]
SetR(s, i, v) == [s EXCEPT !.regs[i] = v]

InRegs  == 2 .. 7        \* MD_FIRST_IN_REG  .. MD_LAST_IN_REG
OutRegs == 2 .. 7        \* MD_FIRST_OUT_REG .. MD_LAST_OUT_REG

MD_EXIT_SYSCALL(s) == R(s, 2) = 1
MD_OUTPUT_SYSCALL(s) == R(s, 2) = 4 /\ R(s, 4) \in {1, 2}

ENOMEM == 12

(* The check for an error condition that ends nearly every call.            *)
Returned(s, x) ==
  IF x.ret # -1 THEN [s EXCEPT !.regs[2] = x.ret,   !.regs[7] = 0]
                ELSE [s EXCEPT !.regs[2] = x.errno, !.regs[7] = 1]
Ignored(s) == [s EXCEPT !.regs[2] = 0, !.regs[7] = 0]

-----------------------------------------------------------------------------
(* Files.  A failed read leaves errno in R2, and that many bytes are copied *)
(* to the buffer of the program.                                            *)
SYS_read(s, x) == LET t == Returned(s, x) IN CopyOut(t, R(t, 5), Buffer(x, R(t, 2)))
SYS_write(s, x) ==
  LET data == IF MD_OUTPUT_SYSCALL(s) THEN Bytes(s.mem, R(s, 5), R(s, 6)) ELSE << >>
  IN  Returned(CopyIn(Shown(s, data), R(s, 5), R(s, 6)),
               IF x.ret = R(s, 6) THEN x ELSE [x EXCEPT !.ret = -1])

(* The bits of open's flags that ss_flag_table does not list.               *)
UndecodedFlags == {4, 16, 32, 64, 128, 256, 4096}
Decodable(f) == \A b \in UndecodedFlags : (f \div b) % 2 = 0
SYS_open(s, x) ==
  IF Decodable(R(s, 5)) THEN Returned(StrIn(s, R(s, 4)), x)
                        ELSE Stopped(s, "cannot decode flags")
SYS_close(s, x) == IF R(s, 4) \in 0 .. 2 THEN SetR(s, 7, 0) ELSE Returned(s, x)
SYS_creat(s, x)  == Returned(StrIn(s, R(s, 4)), x)
SYS_unlink(s, x) == Returned(StrIn(s, R(s, 4)), x)
SYS_chdir(s, x)  == Returned(StrIn(s, R(s, 4)), x)
SYS_chmod(s, x)  == Returned(StrIn(s, R(s, 4)), x)
SYS_chown(s, x)  == Returned(StrIn(s, R(s, 4)), x)
SYS_access(s, x) == Returned(StrIn(s, R(s, 4)), x)
SYS_lseek(s, x)  == Returned(s, x)
SYS_dup(s, x)    == Returned(s, x)
SYS_dup2(s, x)   == Returned(s, x)
SYS_fcntl(s, x)  == Returned(s, x)

StructOutR5(t, x) == CopyOut(t, R(t, 5), Struct(x))
SYS_stat(s, x) == StructOutR5(Returned(StrIn(s, R(s, 4)), x), x)
SYS_fstat(s, x) == StructOutR5(Returned(s, x), x)

(* pipe copies the array of the program in and returns the two descriptors  *)
(* in R2 and R3; when it fails R3 keeps what the array held.                *)
SYS_pipe(s, x) ==
  [CopyIn(s, R(s, 4), 2)
     EXCEPT !.regs[2] = IF x.ret # -1 THEN x.byte ELSE x.errno,
            !.regs[3] = IF x.ret # -1 THEN x.byte ELSE MEM_READ(s.mem, R(s, 4) + 1),
            !.regs[7] = IF x.ret # -1 THEN 0 ELSE 1]

(* ioctl: TIOCGETP is emulated, three requests have a host equivalent, the  *)
(* rest is ignored with a warning.                                          *)
TIOCGETP == 1074164744
Translated == {1075082331, 1074295912, -2146143143}   \* TCGETA TIOCGWINSZ TCSETAW
SYS_ioctl(s, x) ==
  LET req == R(s, 5)
  IN  CASE req = TIOCGETP     -> Returned(CopyOut(s, R(s, 6), Struct(x)), x)
        [] req \in Translated -> Returned(StructsOut(StructsIn(s, <<R(s, 6)>>), <<R(s, 6)>>, x), x)
        [] OTHER              -> Ignored(s)

(* The I/O vector is an array of base and length, a null base is skipped.   *)
SYS_writev(s, x) ==
  LET iov(i) == R(s, 5) + 2 * (i - 1)
      gather(t, i) == IF MEM_READ(s.mem, iov(i)) = 0 THEN t
                      ELSE CopyIn(t, MEM_READ(s.mem, iov(i)), MEM_READ(s.mem, iov(i) + 1))
  IN  Returned(FoldLeft(gather, CopyIn(s, R(s, 5), 2 * R(s, 6)), [i \in 1 .. R(s, 6) |-> i]), x)

SYS_utimes(s, x) ==
  Returned(OptIn(StrIn(s, R(s, 4)), R(s, 5), 2 * StructSize), x)

(* select takes its fifth argument from the stack.  R7 is both the third    *)
(* set and the error flag: it is read again after Returned has set it.      *)
SelectOut(t, param5, x) == StructsOut(t, <<R(t, 5), R(t, 6), R(t, 7), param5>>, x)
SYS_select(s, x) ==
  LET param5 == MEM_READ(s.mem, R(s, 29) + 4)
      in     == StructsIn(CopyIn(s, R(s, 29) + 4, 1), <<R(s, 5), R(s, 6), R(s, 7), param5>>)
  IN  SelectOut(Returned(in, x), param5, x)

-----------------------------------------------------------------------------
(* Process, time and resources.  brk only grows and stops below the stack.  *)
ROUND_UP(a) == ((a + PageSize - 1) \div PageSize) * PageSize
SYS_brk(s, x) ==
  LET addr == ROUND_UP(R(s, 4))
  IN  IF addr >= s.ld.brk_point /\ addr < R(s, 29)
        THEN [Ignored(s) EXCEPT !.ld.brk_point = addr]
        ELSE [s EXCEPT !.regs[2] = ENOMEM, !.regs[7] = 1]

SYS_getpid(s, x) == Returned(s, x)
SYS_getuid(s, x) == Returned(SetR(s, 3, x.byte), x)
SYS_getgid(s, x) == Returned(SetR(s, 3, x.byte), x)
SYS_getpagesize(s, x) == [s EXCEPT !.regs[2] = PageSize, !.regs[7] = 0]
SYS_getdtablesize(s, x) == Returned(s, x)
SYS_setitimer(s, x) == Ignored(s)
SYS_sigvec(s, x) == Ignored(s)
SYS_sigblock(s, x) == Ignored(s)
SYS_sigsetmask(s, x) == Ignored(s)

TimesOut(t, x) == StructsOut(t, <<R(t, 4), R(t, 5)>>, x)
SYS_gettimeofday(s, x) == TimesOut(Returned(StructsIn(s, <<R(s, 4), R(s, 5)>>), x), x)
SYS_getrusage(s, x) == StructOutR5(Returned(s, x), x)
SYS_rlimit(s, x) == StructOutR5(Returned(CopyIn(s, R(s, 5), StructSize), x), x)

-----------------------------------------------------------------------------
sys_syscall(s, x) ==
  LET n == R(s, 2)
  IN  CASE n = 1   -> Stopped(s, "exited")
        [] n = 3   -> SYS_read(s, x)         [] n = 4   -> SYS_write(s, x)
        [] n = 5   -> SYS_open(s, x)         [] n = 6   -> SYS_close(s, x)
        [] n = 8   -> SYS_creat(s, x)        [] n = 10  -> SYS_unlink(s, x)
        [] n = 12  -> SYS_chdir(s, x)        [] n = 15  -> SYS_chmod(s, x)
        [] n = 16  -> SYS_chown(s, x)        [] n = 17  -> SYS_brk(s, x)
        [] n = 19  -> SYS_lseek(s, x)        [] n = 20  -> SYS_getpid(s, x)
        [] n = 24  -> SYS_getuid(s, x)       [] n = 33  -> SYS_access(s, x)
        [] n \in {38, 40} -> SYS_stat(s, x)  [] n = 41  -> SYS_dup(s, x)
        [] n = 42  -> SYS_pipe(s, x)         [] n = 47  -> SYS_getgid(s, x)
        [] n = 54  -> SYS_ioctl(s, x)        [] n = 62  -> SYS_fstat(s, x)
        [] n = 64  -> SYS_getpagesize(s, x)  [] n = 83  -> SYS_setitimer(s, x)
        [] n = 89  -> SYS_getdtablesize(s, x) [] n = 90 -> SYS_dup2(s, x)
        [] n = 92  -> SYS_fcntl(s, x)        [] n = 93  -> SYS_select(s, x)
        [] n = 108 -> SYS_sigvec(s, x)       [] n = 109 -> SYS_sigblock(s, x)
        [] n = 110 -> SYS_sigsetmask(s, x)   [] n = 116 -> SYS_gettimeofday(s, x)
        [] n = 117 -> SYS_getrusage(s, x)    [] n = 121 -> SYS_writev(s, x)
        [] n = 138 -> SYS_utimes(s, x)       [] n \in {144, 145} -> SYS_rlimit(s, x)
        [] OTHER   -> Stopped(s, "unimplemented system call")
=============================================================================
