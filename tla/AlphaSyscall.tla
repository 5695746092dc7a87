---------------------------- MODULE AlphaSyscall ----------------------------
(* The system call proxy of the Alpha target (target-alpha/syscall.c), as   *)
(* the build for Linux compiles it.  Each call is an operator from the      *)
(* state of the simulator and the host's answer to the state after it.  The *)
(* arguments are in A0 to A5 and the call in V0; V0 takes the result and A3 *)
(* the error flag, so an argument in A3 is gone once the result is written. *)
EXTENDS Proxy, Bitwise

V0 == 0
A0 == 16
A1 == 17
A2 == 18
A3 == 19
A4 == 20
A5 == 21
R(s, i) == s.regs[i]

InRegs  == 0 .. 21       \* MD_FIRST_IN_REG  .. MD_LAST_IN_REG
OutRegs == 0 .. 21       \* MD_FIRST_OUT_REG .. MD_LAST_OUT_REG

MD_EXIT_SYSCALL(s) == R(s, V0) = 1
MD_OUTPUT_SYSCALL(s) == R(s, V0) = 4 /\ R(s, A0) \in {1, 2}

(* syscall() itself, number 0, passes the number in A0.                     *)
Syscode(s) == IF R(s, V0) = 0 THEN R(s, A0) ELSE R(s, V0)

Succeeded(s, v) == [s EXCEPT !.regs[V0] = v, !.regs[A3] = 0]
Failed(s, e) == [s EXCEPT !.regs[V0] = e, !.regs[A3] = -1]
Returned(s, x) == IF x.ret # -1 THEN Succeeded(s, x.ret) ELSE Failed(s, x.errno)
NoError(s) == [s EXCEPT !.regs[A3] = 0]

-----------------------------------------------------------------------------
(* Files.  EAGAIN is retried at once; x is the first other answer.          *)
SYS_read(s, x) == LET t == Returned(s, x) IN CopyOut(t, R(t, A1), Buffer(x, R(t, A2)))
SYS_write(s, x) ==
  LET data == IF MD_OUTPUT_SYSCALL(s) THEN Bytes(s.mem, R(s, A1), R(s, A2)) ELSE << >>
  IN  Returned(CopyIn(Shown(s, data), R(s, A1), R(s, A2)),
               IF x.ret = R(s, A2) THEN x ELSE [x EXCEPT !.ret = -1])

(* The bits of open's flags that osf_flag_table does not list.              *)
UndecodedFlags == {16, 32, 64, 128, 256, 8192}
SYS_open(s, x) ==
  IF \A b \in UndecodedFlags : (R(s, A1) \div b) % 2 = 0
    THEN Returned(StrIn(s, R(s, A0)), x)
    ELSE Stopped(s, "cannot decode flags")
SYS_close(s, x) == IF R(s, A0) \in 0 .. 2 THEN NoError(s) ELSE Returned(s, x)
SYS_unlink(s, x)    == Returned(StrIn(s, R(s, A0)), x)
SYS_chdir(s, x)     == Returned(StrIn(s, R(s, A0)), x)
SYS_chmod(s, x)     == Returned(StrIn(s, R(s, A0)), x)
SYS_chown(s, x)     == Returned(StrIn(s, R(s, A0)), x)
SYS_access(s, x)    == Returned(StrIn(s, R(s, A0)), x)
SYS_truncate(s, x)  == Returned(StrIn(s, R(s, A0)), x)
SYS_ftruncate(s, x) == Returned(s, x)
SYS_lseek(s, x)     == Returned(s, x)
SYS_dup(s, x)       == Returned(s, x)
SYS_dup2(s, x)      == Returned(s, x)
SYS_fcntl(s, x)     == Returned(s, x)
SYS_flock(s, x)     == Returned(s, x)

StructOutA1(t, x) == CopyOut(t, R(t, A1), Struct(x))
SYS_stat(s, x) == StructOutA1(Returned(StrIn(s, R(s, A0)), x), x)
SYS_statfs(s, x) == StructOutA1(Returned(StrIn(s, R(s, A0)), x), x)
SYS_fstat(s, x) == StructOutA1(Returned(s, x), x)
SYS_utimes(s, x) == Returned(OptIn(StrIn(s, R(s, A0)), R(s, A1), 2 * StructSize), x)

TIOCGETP == 1074164744
FIONREAD == 1074030207
FIONBIO == 21537         \* the number of the host
SYS_ioctl(s, x) ==
  LET a2 == R(s, A2)
  IN  CASE R(s, A1) = TIOCGETP -> Returned(CopyOut(s, a2, Struct(x)), x)
        [] R(s, A1) = FIONREAD -> Returned(CopyOut(s, a2, Buffer(x, 1)), x)
        [] R(s, A1) = FIONBIO  -> Returned(OptOut(OptIn(s, a2, 1), a2, Buffer(x, 1)), x)
        [] OTHER               -> NoError(s)

(* Directory entries and their base are copied out when there are any; the  *)
(* address of the base is taken from A3 before the result overwrites it.    *)
SYS_getdirentries(s, x) ==
  LET t == Returned(s, x)
  IN  IF x.ret <= 0 THEN t
      ELSE OptOut(CopyOut(t, R(t, A1), Buffer(x, x.ret)), R(s, A3), Buffer(x, 1))

-----------------------------------------------------------------------------
(* I/O vectors: an array of base and length, read entry by entry.           *)
Iov(s, i) == R(s, A1) + 2 * (i - 1)
IovBase(s, i) == MEM_READ(s.mem, Iov(s, i))
IovLen(s, i) == MEM_READ(s.mem, Iov(s, i) + 1)
IovIds(s) == [i \in 1 .. R(s, A2) |-> i]

SYS_writev(s, x) ==
  LET gather(t, i) ==
        CopyIn(CopyIn(t, Iov(s, i), 2), IovBase(s, i), IF IovBase(s, i) = 0 THEN 0 ELSE IovLen(s, i))
  IN  Returned(FoldLeft(gather, s, IovIds(s)), x)
SYS_readv(s, x) ==
  LET in == FoldLeft(LAMBDA t, i : CopyIn(t, Iov(s, i), 2), s, IovIds(s))
      scatter(t, i) == OptOut(t, IovBase(s, i), Buffer(x, IovLen(s, i)))
  IN  Returned(FoldLeft(scatter, in, IovIds(s)), x)

(* Sockets.  The host leaves the length of an address as it was offered.    *)
SYS_socket(s, x)   == Returned(s, x)
SYS_shutdown(s, x) == Returned(s, x)
SYS_bind(s, x)     == Returned(CopyIn(s, R(s, A1), R(s, A2)), x)
SYS_connect(s, x) ==
  IF R(s, A2) > StructSize THEN Stopped(s, "sockaddr size overflow")
  ELSE Returned(CopyIn(s, R(s, A1), R(s, A2)), x)
SYS_sendto(s, x) ==
  LET n  == IF R(s, A5) > 0 THEN R(s, A5) ELSE 0
      in == CopyIn(CopyIn(s, R(s, A1), R(s, A2)), R(s, A4), n)
  IN  Returned(CopyOut(CopyOut(in, R(s, A1), Bytes(s.mem, R(s, A1), R(s, A2))),
                       R(s, A4), Bytes(s.mem, R(s, A4), n)), x)
SYS_recvfrom(s, x) ==
  LET len == MEM_READ(s.mem, R(s, A5))
      in  == CopyIn(CopyIn(CopyIn(s, R(s, A1), R(s, A2)), R(s, A5), 1), R(s, A4), len)
      got == CopyOut(in, R(s, A1), Buffer(x, IF x.ret = -1 THEN 0 ELSE x.ret))
  IN  Returned(CopyOut(CopyOut(got, R(s, A5), <<len>>), R(s, A4), Buffer(x, len)), x)
SYS_setsockopt(s, x) ==
  Returned(OptIn(s, R(s, A3), IF R(s, A4) = 0 THEN 0 ELSE R(s, A4)), x)
NameOut(t, len, x) == CopyOut(CopyOut(t, R(t, A1), Buffer(x, len)), R(t, A2), <<len>>)
SYS_getsockname(s, x) ==
  NameOut(Returned(CopyIn(s, R(s, A2), 1), x), MEM_READ(s.mem, R(s, A2)), x)
SYS_getpeername(s, x) == SYS_getsockname(s, x)

(* select tests A3, the third set, again after Returned has set it.         *)
SelectOut(t, x) == StructsOut(t, <<R(t, A1), R(t, A2), R(t, A3), R(t, A4)>>, x)
SYS_select(s, x) ==
  SelectOut(Returned(StructsIn(s, <<R(s, A1), R(s, A2), R(s, A3), R(s, A4)>>), x), x)
BufferOut(t, x) == CopyOut(t, R(t, A0), Buffer(x, R(t, A1)))
SYS_poll(s, x) == BufferOut(Returned(CopyIn(s, R(s, A0), R(s, A1)), x), x)

-----------------------------------------------------------------------------
(* Memory, process, time and resources.                                     *)
SYS_sbrk(s, x) ==
  LET addr == s.ld.brk_point + R(s, A0) IN [Succeeded(s, addr) EXCEPT !.ld.brk_point = addr]
SYS_obreak(s, x) == [Succeeded(s, R(s, A0)) EXCEPT !.ld.brk_point = R(s, A0)]
SYS_getpid(s, x) == Returned(s, x)
SYS_getuid(s, x) == Returned([s EXCEPT !.regs[A4] = x.byte], x)
SYS_getgid(s, x) == Returned([s EXCEPT !.regs[A4] = x.byte], x)
SYS_setuid(s, x) == Returned(s, x)
SYS_setgid(s, x) == Returned(s, x)
SYS_setreuid(s, x) == Returned(s, x)
SYS_setregid(s, x) == Returned(s, x)
SYS_getpriority(s, x) == Returned(s, x)
SYS_setpriority(s, x) == Returned(s, x)
SYS_getpagesize(s, x) == Succeeded(s, PageSize)
SYS_getdtablesize(s, x) == Returned(s, x)
SYS_usleep_thread(s, x) == Succeeded(s, 0)
SYS_setitimer(s, x) == NoError(s)
SYS_uname(s, x) == Failed(s, 1)           \* EPERM
SYS_uswitch(s, x) == [s EXCEPT !.regs[V0] = R(s, A1)]
SYS_setsysinfo(s, x) == [s EXCEPT !.regs[V0] = 0]
SYS_madvise(s, x) == [s EXCEPT !.regs[V0] = 0]

SYS_gethostname(s, x) == BufferOut(Returned(s, x), x)
SYS_getdomainname(s, x) == BufferOut(Returned(s, x), x)
TimesOut(t, x) == StructsOut(t, <<R(t, A0), R(t, A1)>>, x)
SYS_gettimeofday(s, x) == TimesOut(Returned(StructsIn(s, <<R(s, A0), R(s, A1)>>), x), x)
SYS_getrusage(s, x) == StructOutA1(Returned(s, x), x)
SYS_rlimit(s, x) == StructOutA1(Returned(CopyIn(s, R(s, A1), StructSize), x), x)

(* table knows one table, TBL_SYSINFO, of one element with index 0.         *)
SYS_table(s, x) ==
  CASE R(s, A1) # 12                    -> NoError(s)
    [] R(s, A1) = 12 /\ R(s, A2) # 0     -> Stopped(s, "requires 0 index")
    [] R(s, A1) = 12 /\ R(s, A2) = 0 /\ R(s, A4) # 1 -> Stopped(s, "requires 1 elts")
    [] OTHER -> IF x.ret = -1 THEN Failed(s, x.errno)
                              ELSE NoError(CopyOut(s, R(s, A3), Struct(x)))

-----------------------------------------------------------------------------
(* Signals are registered and masked, never delivered.                      *)
EINVAL == 22
SYS_sigprocmask(s, x) ==
  LET old == s.sig.mask
      to(m) == [Succeeded(s, old) EXCEPT !.sig.mask = m]
  IN  CASE R(s, A0) = 1 -> to(old | R(s, A1))                \* OSF_SIG_BLOCK
        [] R(s, A0) = 2 -> to(old - (old & R(s, A1)))        \* OSF_SIG_UNBLOCK
        [] R(s, A0) = 3 -> to(R(s, A1))                      \* OSF_SIG_SETMASK
        [] OTHER -> [s EXCEPT !.regs[V0] = EINVAL, !.regs[A3] = 1]
SYS_sigaction(s, x) ==
  LET n == R(s, A0)
      t == IF R(s, A1) = 0 THEN s ELSE [s EXCEPT !.sig.action[n] = R(s, A1)]
      u == IF R(s, A2) = 0 THEN t ELSE [t EXCEPT !.regs[A2] = t.sig.action[n]]
  IN  Succeeded(u, 0)
SYS_sigstack(s, x) == NoError(s)

(* A signal context: the mask, the PC, then the registers in their order.   *)
ScCell(s, i) == 2 + Cardinality({j \in DOMAIN s.regs : j < i})
ScSize(s) == 2 + Cardinality(DOMAIN s.regs)
ScRestored(s, a) ==
  [s EXCEPT !.npc  = MEM_READ(s.mem, a + 1),
            !.regs = [i \in DOMAIN s.regs |-> MEM_READ(s.mem, a + ScCell(s, i))]]
SYS_sigreturn(s, x) ==
  [ScRestored(CopyIn(s, R(s, A0), ScSize(s)), R(s, A0))
     EXCEPT !.sig.mask = MEM_READ(s.mem, R(s, A0))]

(* After a replayed sigreturn sys_syscall takes the registers from the      *)
(* context again, at the address that A0 holds after the replay.            *)
SigreturnReplayed(before, s) ==
  IF Syscode(before) = 103 /\ s.status = "running"
    THEN ScRestored(CopyIn(s, R(s, A0), ScSize(s)), R(s, A0))
    ELSE s

-----------------------------------------------------------------------------
sys_syscall(s, x) ==
  LET n == Syscode(s)
  IN  CASE n = 1   -> Stopped(s, "exited")
        [] n = 3   -> SYS_read(s, x)          [] n = 4   -> SYS_write(s, x)
        [] n = 6   -> SYS_close(s, x)         [] n = 10  -> SYS_unlink(s, x)
        [] n = 12  -> SYS_chdir(s, x)         [] n = 15  -> SYS_chmod(s, x)
        [] n = 16  -> SYS_chown(s, x)         [] n = 17  -> SYS_obreak(s, x)
        [] n = 19  -> SYS_lseek(s, x)         [] n = 20  -> SYS_getpid(s, x)
        [] n = 23  -> SYS_setuid(s, x)        [] n = 24  -> SYS_getuid(s, x)
        [] n \in {29, 125} -> SYS_recvfrom(s, x)
        [] n = 33  -> SYS_access(s, x)        [] n = 41  -> SYS_dup(s, x)
        [] n = 45  -> SYS_open(s, x)          [] n = 47  -> SYS_getgid(s, x)
        [] n = 48  -> SYS_sigprocmask(s, x)   [] n = 54  -> SYS_ioctl(s, x)
        [] n = 64  -> SYS_getpagesize(s, x)   [] n \in {67, 68} -> SYS_stat(s, x)
        [] n = 69  -> SYS_sbrk(s, x)          [] n = 75  -> SYS_madvise(s, x)
        [] n = 83  -> SYS_setitimer(s, x)     [] n = 85  -> SYS_table(s, x)
        [] n = 87  -> SYS_gethostname(s, x)   [] n = 89  -> SYS_getdtablesize(s, x)
        [] n = 90  -> SYS_dup2(s, x)          [] n = 91  -> SYS_fstat(s, x)
        [] n = 92  -> SYS_fcntl(s, x)         [] n = 93  -> SYS_select(s, x)
        [] n = 94  -> SYS_poll(s, x)          [] n = 96  -> SYS_setpriority(s, x)
        [] n = 97  -> SYS_socket(s, x)        [] n = 98  -> SYS_connect(s, x)
        [] n = 100 -> SYS_getpriority(s, x)   [] n = 103 -> SYS_sigreturn(s, x)
        [] n = 104 -> SYS_bind(s, x)          [] n = 105 -> SYS_setsockopt(s, x)
        [] n = 112 -> SYS_sigstack(s, x)      [] n = 116 -> SYS_gettimeofday(s, x)
        [] n = 117 -> SYS_getrusage(s, x)     [] n = 120 -> SYS_readv(s, x)
        [] n = 121 -> SYS_writev(s, x)        [] n = 126 -> SYS_setreuid(s, x)
        [] n = 127 -> SYS_setregid(s, x)      [] n = 129 -> SYS_truncate(s, x)
        [] n = 130 -> SYS_ftruncate(s, x)     [] n = 131 -> SYS_flock(s, x)
        [] n = 132 -> SYS_setgid(s, x)        [] n = 133 -> SYS_sendto(s, x)
        [] n = 134 -> SYS_shutdown(s, x)      [] n = 138 -> SYS_utimes(s, x)
        [] n = 141 -> SYS_getpeername(s, x)   [] n \in {144, 145} -> SYS_rlimit(s, x)
        [] n = 150 -> SYS_getsockname(s, x)   [] n = 156 -> SYS_sigaction(s, x)
        [] n = 159 -> SYS_getdirentries(s, x) [] n = 160 -> SYS_statfs(s, x)
        [] n = 165 -> SYS_getdomainname(s, x) [] n = 207 -> SYS_uname(s, x)
        [] n = 250 -> SYS_uswitch(s, x)       [] n = 251 -> SYS_usleep_thread(s, x)
        [] n = 257 -> SYS_setsysinfo(s, x)
        [] OTHER   -> [s EXCEPT !.regs[V0] = 0, !.regs[A3] = -1]
=============================================================================
