-------------------------------- MODULE Proxy -------------------------------
(* What the system call proxies of both targets are built from: the state   *)
(* of a running simulator, the two ways its memory is accessed (mem_access, *)
(* and my_mem_fn of eio.c, which also records the access for the event      *)
(* trace), and the block copies of memory.c on top of them.                 *)
(*                                                                          *)
(* A simulator is a record s:                                               *)
(*   target          "pisa" or "alpha"                                      *)
(*   regs, pc, npc   architected registers                                  *)
(*   icnt            sim_num_insn                                           *)
(*   mem             the page table (Memory)                                *)
(*   ld              the loader's variables: brk_point, stack_min, the      *)
(*                   segments text, data and stack as <<base, size>>,       *)
(*                   environ_base, prog_entry                               *)
(*   sig             sigmask and sigaction_array of the Alpha proxy         *)
(*   trans           eio_trans_icnt                                         *)
(*   rec             what my_mem_fn has recorded of the current system call *)
(*   sim_eio_fd      TRUE when an event trace is executed, and              *)
(*   eio             the transactions left in it                            *)
(*   written         the transactions written to the trace that is recorded *)
(*   shown           what the program wrote to the streams 1 and 2          *)
(*   status          "running", "exited", or why the simulator stopped      *)
(* x is what the host returns to a system call: [ret, errno, byte], with    *)
(* ret = -1 for a failure and byte for the data of every buffer it fills.   *)
EXTENDS Memory

CONSTANTS TailSize,     \* room at the end of a blob, BLOB_TAIL_SIZE
          StructSize    \* cells of a structure passed through memory

ASSUME ProxyAssumption == TailSize \in Nat /\ StructSize \in Nat \ {0}

NotRecording == [on |-> FALSE, input |-> << >>, output |-> << >>, seen_write |-> FALSE]
Recording == [NotRecording EXCEPT !.on = TRUE]

Stopped(s, why) == IF s.status = "running" THEN [s EXCEPT !.status = why] ELSE s

(* my_mem_fn appends an access to the last blob when it continues it and    *)
(* there is room, and starts a new blob otherwise.                          *)
Coalesced(blobs, a, v) ==
  LET n == Len(blobs)
      last == blobs[n]
  IN  IF n > 0 /\ last.addr + Len(last.data) = a /\ Len(last.data) < TailSize
        THEN [blobs EXCEPT ![n].data = Append(@, v)]
        ELSE Append(blobs, [addr |-> a, data |-> <<v>>])

mem_access(s, cmd, a, v) ==
  [s EXCEPT !.mem = IF cmd = "Read" THEN MEM_PAGE(@, a) ELSE MEM_WRITE(@, a, v)]

my_mem_fn(rec, cmd, a, v) ==
  IF cmd = "Read" THEN [rec EXCEPT !.input = Coalesced(@, a, v)]
                  ELSE [rec EXCEPT !.output = Coalesced(@, a, v), !.seen_write = TRUE]

mem_fn(s, cmd, a, v) ==
  IF s.rec.on /\ s.rec.seen_write /\ cmd = "Read"
    THEN Stopped(s, "Read after Write in eio_syscall()")
    ELSE mem_access([s EXCEPT !.rec = IF @.on THEN my_mem_fn(@, cmd, a, v) ELSE @], cmd, a, v)

Shown(s, data) == [s EXCEPT !.shown = @ \o data]

Cells(a, n) == [i \in 1 .. n |-> a + i - 1]

(* mem_bcopy from simulated memory and to it.                               *)
Bytes(m, a, n) == [i \in 1 .. n |-> MEM_READ(m, a + i - 1)]
mem_bcopy(s, cmd, a, data) ==
  LET copied[k \in 0 .. Len(data)] ==
        IF k = 0 THEN s ELSE mem_fn(copied[k - 1], cmd, a + k - 1, data[k])
  IN  copied[Len(data)]
CopyIn(s, a, n) == mem_bcopy(s, "Read", a, Bytes(s.mem, a, n))
CopyOut(s, a, data) == mem_bcopy(s, "Write", a, data)

(* mem_strcpy reads up to and with the terminating zero.                    *)
StrLen(m, a) ==
  LET zero[n \in Nat] == IF MEM_READ(m, a + n) = 0 THEN n ELSE zero[n + 1] IN zero[0]
StrIn(s, a) == CopyIn(s, a, StrLen(s.mem, a) + 1)

Struct(x) == [i \in 1 .. StructSize |-> x.byte]
Buffer(x, n) == [i \in 1 .. n |-> x.byte]

(* What is behind an optional pointer is copied when it is not null.        *)
OptIn(s, a, n) == IF a = 0 THEN s ELSE CopyIn(s, a, n)
OptOut(s, a, data) == IF a = 0 THEN s ELSE CopyOut(s, a, data)
StructsIn(s, pointers) == FoldLeft(LAMBDA t, a : OptIn(t, a, StructSize), s, pointers)
StructsOut(s, pointers, x) == FoldLeft(LAMBDA t, a : OptOut(t, a, Struct(x)), s, pointers)
=============================================================================
