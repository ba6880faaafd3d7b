------------------------------ MODULE LinuxWasi ------------------------------
(***************************************************************************)
(* os-linux-wasi: the table that maps the system calls of an RV64 Linux    *)
(* guest to WASI, in the terms of os-syscall-emit.  An entry lists what is *)
(* stored to memory before the call, the parameters, and what becomes of   *)
(* the result.  The code generator that follows an entry, the guest and    *)
(* the WASI functions are not in the repository: the generator does what   *)
(* the fields of SyscallEntry say, in the order they are listed.           *)
(*                                                                         *)
(* A byte has ByteValues values, 256 in the code; a 32-bit value is four   *)
(* bytes, and the addresses are 0..LastAddress.                            *)
(***************************************************************************)
EXTENDS Integers, Sequences

CONSTANTS
  ByteValues, LastAddress,
  iovec_scratch_offset,
  WasiMemories, \* what memory holds at first
  Buffers,     \* where a guest has buffers; not in the scratch area
  Counts,      \* sizes it asks for
  Fds,         \* descriptors it names, as registers hold them
  OpenFds,     \* the files that are open at first
  Contents,    \* what is in them
  Errnos,      \* errors of WASI
  MaxCalls     \* bound: system calls

VARIABLES
  regs,     \* a0, a1, a2
  linear,   \* memory: address -> byte
  wfiles,   \* files of the WASI host
  exited,   \* the code the guest ended with, or Running
  ecall,    \* history: the last system call
  calls     \* system calls so far

wasiVars == <<regs, linear, wfiles, exited, ecall, calls>>

Addr == 0..LastAddress
Running == -1

WasiByte == 0..(ByteValues - 1)
U32Values == ByteValues * (ByteValues * (ByteValues * ByteValues))
I32(v) == v % U32Values

\* A 32-bit value in memory, the lowest byte first.
LoadI32(mem, a) ==
  mem[a] + ByteValues * (mem[a + 1] + ByteValues * (mem[a + 2] + ByteValues * mem[a + 3]))

StoreI32(mem, a, v) ==
  LET above == v \div ByteValues
      upper == above \div ByteValues
      bytes == <<v, above, upper, upper \div ByteValues>>
  IN  [b \in Addr |-> IF b \in a..(a + 3) THEN bytes[b - a + 1] % ByteValues ELSE mem[b]]

Scratch == iovec_scratch_offset..(iovec_scratch_offset + 11)

ASSUME WasiAssumption ==
  /\ ByteValues \in Nat \ {0} /\ LastAddress \in Nat
  /\ iovec_scratch_offset \in Nat /\ Scratch \subseteq Addr
  /\ WasiMemories \subseteq [Addr -> WasiByte]
  /\ Fds \subseteq Nat /\ Buffers \subseteq Nat /\ Counts \subseteq Nat
  /\ \A b \in Buffers, n \in Counts : I32(b)..(I32(b) + I32(n) - 1) \subseteq Addr \ Scratch
  /\ Contents \subseteq Seq(WasiByte)
  /\ Errnos \subseteq Nat \ {0}
  /\ MaxCalls \in Nat

-----------------------------------------------------------------------------
(***************************************************************************)
(* The table.                                                              *)
(***************************************************************************)
LocalI64AsI32(local) == [source |-> "local", value |-> local]
ConstI32(v)          == [source |-> "const", value |-> v]

NoLocal  == "none"
NoOffset == -1

\* fd_read and fd_write take one iovec, which the stores make.
Transfer(func) ==
  [func |-> func,
   params |-> <<LocalI64AsI32("a0"), ConstI32(iovec_scratch_offset), ConstI32(1),
                ConstI32(iovec_scratch_offset + 8)>>,
   stores |-> <<[addr |-> iovec_scratch_offset, local |-> "a1"],
                [addr |-> iovec_scratch_offset + 4, local |-> "a2"]>>,
   result |-> "a0", negate |-> TRUE, terminates |-> FALSE, load |-> iovec_scratch_offset + 8]

Ends ==
  [func |-> "proc_exit", params |-> <<LocalI64AsI32("a0")>>, stores |-> <<>>,
   result |-> NoLocal, negate |-> FALSE, terminates |-> TRUE, load |-> NoOffset]

CloseEntry ==
  [func |-> "fd_close", params |-> <<LocalI64AsI32("a0")>>, stores |-> <<>>,
   result |-> "a0", negate |-> TRUE, terminates |-> FALSE, load |-> NoOffset]

\* Mutant: the result of a transfer is the length of the iovec.
build_table_length ==
  [nr \in {57, 63, 64, 93, 94} |->
     CASE nr = 57 -> CloseEntry
       [] nr = 63 -> [Transfer("fd_read") EXCEPT !.load = iovec_scratch_offset + 4]
       [] nr = 64 -> [Transfer("fd_write") EXCEPT !.load = iovec_scratch_offset + 4]
       [] OTHER -> Ends]

build_table ==
  [nr \in {57, 63, 64, 93, 94} |->
     CASE nr = 57 -> CloseEntry
       [] nr = 63 -> Transfer("fd_read")
       [] nr = 64 -> Transfer("fd_write")
       [] OTHER -> Ends]

-----------------------------------------------------------------------------
(***************************************************************************)
(* WASI: a function's outcome is a result, a memory and files.             *)
(***************************************************************************)
OpenFile(fd) == fd \in DOMAIN wfiles /\ wfiles[fd].open

Failed(mem) == [result : Errnos, mem : {mem}, files : {wfiles}]

\* The first bytes of the file are put where the iovec points.
fd_read(mem, fd, iovs, nread) ==
  LET at  == LoadI32(mem, iovs)
      len == LoadI32(mem, iovs + 4)
      got(k) == [a \in Addr |-> IF a \in at..(at + k - 1) THEN wfiles[fd].input[a - at + 1] ELSE mem[a]]
  IN  {[result |-> 0, mem |-> StoreI32(got(k), nread, k),
        files |-> [wfiles EXCEPT ![fd].input = SubSeq(@, k + 1, Len(@))]] :
         k \in {k \in 0..len : k <= Len(wfiles[fd].input)}}

fd_write(mem, fd, iovs, nwritten) ==
  LET at  == LoadI32(mem, iovs)
      len == LoadI32(mem, iovs + 4)
  IN  {[result |-> 0, mem |-> StoreI32(mem, nwritten, k),
        files |-> [wfiles EXCEPT ![fd].output = @ \o [i \in 1..k |-> mem[at + i - 1]]]] : k \in 0..len}

fd_close(mem, fd) == {[result |-> 0, mem |-> mem, files |-> [wfiles EXCEPT ![fd].open = FALSE]]}

\* The outcomes of a call that returns.
Outcomes(func, p, mem) ==
  Failed(mem) \cup
    (IF ~OpenFile(p[1]) THEN {}
     ELSE CASE func = "fd_read"  -> fd_read(mem, p[1], p[2], p[4])
            [] func = "fd_write" -> fd_write(mem, p[1], p[2], p[4])
            [] func = "fd_close" -> fd_close(mem, p[1]))

-----------------------------------------------------------------------------
(***************************************************************************)
(* The code for an entry.                                                  *)
(***************************************************************************)
\* memory_stores, one after the other.
Stored(entry, r) ==
  LET mem[i \in 0..Len(entry.stores)] ==
        IF i = 0 THEN linear
        ELSE StoreI32(mem[i - 1], entry.stores[i].addr, I32(r[entry.stores[i].local]))
  IN  mem[Len(entry.stores)]

Params(entry, r) ==
  [i \in DOMAIN entry.params |->
     IF entry.params[i].source = "local" THEN I32(r[entry.params[i].value]) ELSE entry.params[i].value]

\* What is stored into the result local.
Result(entry, out) ==
  IF out.result # 0 THEN IF entry.negate THEN -out.result ELSE out.result
  ELSE IF entry.load # NoOffset THEN LoadI32(out.mem, entry.load) ELSE 0

WasiInit ==
  /\ regs = [a0 |-> 0, a1 |-> 0, a2 |-> 0]
  /\ linear \in WasiMemories
  /\ \E content \in Contents :
       wfiles = [fd \in OpenFds |-> [open |-> TRUE, input |-> content, output |-> <<>>]]
  /\ exited = Running
  /\ ecall = [nr |-> 0, a0 |-> 0, a1 |-> 0, a2 |-> 0]
  /\ calls = 0

\* A guest sets its registers and makes a call.
SystemCall(nr, r) ==
  LET entry == build_table[nr]
      mem   == Stored(entry, r)
      p     == Params(entry, r)
  IN  /\ exited = Running
      /\ calls < MaxCalls
      /\ calls' = calls + 1
      /\ ecall' = [nr |-> nr, a0 |-> r.a0, a1 |-> r.a1, a2 |-> r.a2]
      /\ \/ /\ entry.terminates
            /\ exited' = p[1]
            /\ UNCHANGED <<regs, linear, wfiles>>
         \/ /\ ~entry.terminates
            /\ \E out \in Outcomes(entry.func, p, mem) :
                 /\ regs' = [r EXCEPT ![entry.result] = Result(entry, out)]
                 /\ linear' = out.mem
                 /\ wfiles' = out.files
            /\ UNCHANGED exited

WasiNext ==
  \E nr \in DOMAIN build_table, a0 \in Fds, a1 \in Buffers, a2 \in Counts :
    SystemCall(nr, [a0 |-> a0, a1 |-> a1, a2 |-> a2])

WasiSpec == WasiInit /\ [][WasiNext]_wasiVars

-----------------------------------------------------------------------------
\* Memory holds bytes, and a0 a 32-bit value or an error.
WasiTypeOK ==
  /\ linear \in [Addr -> WasiByte]
  /\ regs.a0 \in 0..(U32Values - 1) \cup {-e : e \in Errnos}
  /\ exited \in 0..(U32Values - 1) \cup {Running}

Linux == INSTANCE LinuxCalls WITH
  Low <- I32, Running <- Running,
  asked <- ecall, answer <- regs.a0,
  guest <- [a \in Addr \ Scratch |-> linear[a]],
  files <- wfiles, exit <- exited

\* Through the table a guest's calls are those of Linux (LinuxToWasi,
\* build_table): each transfers the bytes it says it did, between the file and
\* the buffer that were named, a failed one transfers none and is negative, and
\* no byte outside the buffer and the scratch area changes.
ImplementsLinuxCalls == Linux!Spec
=============================================================================
