# Verification of os-emulation (SOEL)

TLA+ models of the shared OS emulation layer, the TLC configurations that check
them on small instances, and proofs that TLAPS checks for every instance.
Source paths below are relative to `src/crates/`.

## 1. The system

| Component | Source | State | Operations | Hard part |
|---|---|---|---|---|
| Transformation daemon | `daemon/os-daemon` | registry of backends under a mutex, a listening unix socket, the connection being served | bind, accept, read a frame, dispatch, write, drop | one thread, reads and writes that block without timeout, clients that vanish, restarts |
| Exec hook | `daemon/os-daemon-shim/src/execve.rs`, `os-daemon-hook` | the call's socket and buffers on the guest's stack | connect, send Obtain, read header, read body, exec | partial failure inside a guest's `execve`; SIGPIPE; failed execs that are retried |
| Wire protocol | `daemon/os-daemon-protocol` | none | encode and decode requests, responses, frames | lengths at the boundary, two implementations (Rust and C) |
| Transform contract | `daemon/os-transform-core` | none (trait) | analyze, obtain | |
| ELF rewriter | `daemon/os-rewrite-elf` | the image being patched | append to `.dynstr`, fill a spare `.dynamic` slot, `DT_STRSZ` | zero bytes taken for free space; stale string-table size |
| Mach-O rewriter | `daemon/os-rewrite-macho` | the image being patched | find the removable load commands, write the new one, shift, counts | grow against padding, shrink leaves stale bytes |
| Mach-O signing | `daemon/os-codesign-macho` | files on disk: the shim, the staged copy, two property lists | read entitlements, sign or inspect the shim, sign the executable | one step of several failing; two programs signing the shim |
| Guest memory | `page/os-page` | bytes, on-demand pages, 2- and 3-level tables | translate, read, write | address width, page boundaries, permissions |
| OsOp IR and backends | `target/os-target-core`, `os-target-wax`, `os-target-native`, `page/os-page-codegen` | the operand stack of the emitted code | one emission per op | three ISAs, JS and Wasm must agree on width, sign and operand order |
| Host API | `runtime/os-host-api` | stack of wrapped APIs, import manifests | resolve, filter, redirect, tunnel | policies applied to one name and not to its alias |
| Guest context | `runtime/os-ctx`, `runtime/os-async` | none (traits) | argument readers | |
| Syscall tables | `emit/os-syscall-emit`, `emit/os-linux-wasi` | constant table | lookup | an iovec, a count and a result in one scratch area of the guest |
| Compiler glue | `build/os-build` | none (traits) | | |
| ABI specification | `abi/os-abi-spec` | parser state | BridgeSupport events to a function list | nesting, partial elements |
| ABI code generation | `abi/os-abi-codegen`, `abi/os-abi-stubs` | none | which symbols get a stub, core or bridge | two generators that must agree |
| Shims and interposer | `shim/os-shim-handler`, `os-shim-core`, `os-interposer` | override registry | register, resolve, emit core, emit bridge | a forward that reaches the interposer again |

How they interact: a guest linked with the shims calls `execve`; the interposer
bridge calls `os_shim_execve`, which asks the daemon for an artifact over the
wire protocol; the daemon routes the request to a backend (the rewriters and
signers, or a recompiler in another repository) that produces a new file; the
hook executes that file, or the original one when anything went wrong. The
rewritten file loads the shim library, whose symbols come from the ABI generator
and the shim registry. Code the recompiler emits uses the OsOp backends, the
page emitters and the host API.

What makes each one correct, in a sentence:

- daemon and hook: a guest runs the file it named or its own backend's artifact
  of it, always eventually, whatever other clients and restarts do;
- protocol: what is decoded is what was encoded, and nothing else decodes;
- rewriters: the result loads the shim first and is otherwise the program it was;
- signing: a copy reported as signed carries its own call's entitlements and loads the shim;
- memory: an access touches the bytes its virtual address maps to, or faults;
- backends: every backend gives an op sequence the same meaning;
- syscall table: a call transfers the bytes it reports, or none and fails;
- host API: a name the policy denies cannot be reached by any route;
- ABI specification: each function of the document, with its own arguments;
- shims: every interposed call reaches the real function once.

## 2. Modules

| Module | Models | |
|---|---|---|
| `DaemonDispatch` | messages and the routing of a request to a backend | operators |
| `TransformDaemon` | the daemon, exec hooks and other clients over connections | state machine |
| `TransformService` | what daemon and hook promise, without sockets | abstract state machine |
| `TransformDaemonInv` | the inductive invariant | predicates |
| `TransformDaemonProofs` | the routing operators, `IInv`, the safety and action properties and the refinement of `TransformService` | proofs |
| `DaemonWire` | the codec, the framing and both readers of one message, as bytes | state machine |
| `DaemonWireProofs` | the codec, both ways, and the stream; who ends up with the socket's path | proofs |
| `MessageChannel` | what a connection promises about a message | abstract state machine |
| `DaemonSocket` | `bind_socket` of several daemons, and the socket path of both sides | state machine |
| `ElfRewrite` | `rewrite_elf`, and the dynamic linker that reads the result | state machine |
| `ElfRewriteProofs` | what `rewrite_elf` does to a file, and any number of rewrites | proofs, extends `MCRewriters` |
| `MachORewrite` | `rewrite_macho`, and signing between rewrites | state machine |
| `LoadCommands` | what `rewrite_macho` promises: a list of commands | abstract state machine |
| `MachORewriteProofs` | what `rewrite_macho` does to a file, the refinement of `LoadCommands`, and the padding, the refusals and the types of both formats | proofs, extends `ElfRewriteProofs` and `CodesignProofs` |
| `Codesign` | programs that sign the shim and their copies, `codesign` and the loader | state machine |
| `CodesignProofs` | the conversions, both ways, and the calls | proofs |
| `OsOp` | the stack machine of `os-target-core` | abstract state machine |
| `NativeBackend` | x86_64, aarch64 and riscv64 | state machine |
| `WaxBackend`, `JsBackend` | WebAssembly, JavaScript | state machines |
| `FlatMemory` | what a guest memory promises: bytes at addresses | abstract state machine |
| `GuestMemory` | `LegacyOnDemand` and `LinearHost` | state machine |
| `SharedPageTable` | the two- and three-level tables, kept in a `GuestMemory` | state machine, extends `GuestMemory` |
| `LinuxWasi` | the table of system calls, and the code an entry asks for | state machine |
| `LinuxCalls` | what a guest is promised of read, write, close and exit | abstract state machine |
| `HostApi` | the stack of wrapped host APIs over an import manifest | state machine |
| `AbiStubs` | manifests extended from an ABI specification, generated stubs, calling conventions | state machine, extends `HostApi` |
| `BackendProofs` | all of `MCBackends`: returning to the caller and the refinement of `OsOp`, of `FlatMemory` and of `LinuxCalls`, the page tables | proofs |
| `BridgeSupport` | `parse_bridgesupport`, event by event, and the document as a tree | state machine |
| `ShimCalls` | the C generator, the linker, and calls through bridges and cores | state machine, extends `BridgeSupport` |
| `HostProofs` | the host API and its stubs, documents, the generator and the calls of the shims | proofs, extends `AbiStubs` and `ShimCalls` |
| `SequenceLemmas` | sequences, least and greatest elements, recursive functions, induction over a set of numbers | lemmas |
| `MC*` | values of the constants, and compositions: see below | for TLC |

Components that do not share state are composed for TLC by a variable `part`, chosen in
the initial state: a behaviour is about one of them and the others do nothing, so the states of
a run are a sum. `MCDaemonRetry` has the daemon's service and its bytes, `MCRewriters` the two
rewriters and the signing, `MCBackends` the five code generators, the guest memories and the
system calls, `MCHost` the host API with its stubs and the shims. `MCWaxStore` adds a history variable.

Definitions that start with the comment `Mutant:` are plausible bugs. No
specification uses them; `PROJECT.json` names the definition each one replaces
and the property that then fails.

Abstract modules and what implements them: `TransformService` by `TransformDaemon`
(`ServiceSpec`, model-checked and proved), `LoadCommands` by `MachORewrite`
(`MachOImplementsLoadCommands`, both too), `OsOp` by all five backends (`EveryBackendImplementsOsOp`, both too),
`FlatMemory` by both kinds of guest memory (`ImplementsFlatMemory`, both too), `MessageChannel` by
`DaemonWire` (`ImplementsChannel`, both too), `LinuxCalls` by `LinuxWasi` (`ImplementsLinuxCalls`, both too).

### The daemon and the exec hook

`TransformDaemon` has one variable per piece of state the code has:

- a hook's `pc` is where it is in `rtd_obtain_path` and `os_shim_execve`
  (`connect`, `send`, `header`, `body` name the blocking call), `plan` is the file
  the real `execve` will get, `image` what runs afterwards;
- a connection is a pair of a client and the number of its attempt: `link` is the
  daemon's end (in the listener, accepted, closed), `open` the client's, `inbox` what
  the client has written, `outbox` and `sent` the daemon's response and how much of it
  has been written;
- `daemon` is the point `run_on_listener` and `handle_client` have reached (`blocked` is a
  `write` that waits for room in the socket's buffer), `serving` the stream they hold, `backlog`
  the kernel's queue.

Each action is one blocking step of the code. `HookGivesUp` stands for every
path of `rtd_obtain_path` that returns -1 for a reason outside the model (no
descriptor, a path that does not fit the buffers, a bad header, a short or
interrupted read): each of them closes the socket and falls back to the original.
`HookKilled` is the `write` on a connection that the daemon has dropped, which
raises SIGPIPE. `Stop` stands for a failed accept, a backend that panics (there is
one thread, so the loop dies with it) or a killed process; `Start` is the next
daemon's `bind_socket`. Other clients (`Peers`) send any request, a frame that does not
decode, part of a frame or nothing, read the response or do not, and close at any time.

Assumptions: a backend's `obtain` returns, and its answer is arbitrary (the
repository has no backend outside its tests). A request written by a hook fits the
socket buffer and arrives in one piece, which 1 KiB on a unix stream does. A
response may be written in two parts, since `write_all` loops, and one that may be longer than the
buffer may have to wait in between (`WriteBlocks`) until the client reads or closes: the ids and messages
that are sent back have any length (`os-daemon/src/lib.rs:141-145`); only the answers to Ping and to a frame that does
not decode are a few bytes. A hook whose own response is that long does not wait for the rest: it refuses the length, or its one `read` returns
less (`HookShortBody`). Backend ids are numbers in their sort order.

`TransformService` knows no sockets: a process asks for a path, backends offer
artifacts, and a call ends with the original, the process's own artifact of that very path,
an error or the death of the process. `ServiceSpec` is the refinement; its
mapping sends the hook's `path` to what was asked and the hooks at `killed` to the dead.

### The bytes of a message

`DaemonWire` has one message, the stream between its writer and its reader, and what either has
left. `WriteBytes` puts any number of bytes into the stream and `CloseWriter` may come at any time and ends the writing, so a
frame arrives cut up in every way and may end after every byte. `ReadExact` is `read_frame`, which
goes on until it has what it asked for; `ReadOnce` is the hook, which calls `read` once for the header
and once for the body and takes less for a failure. The codec is two tables of field kinds; the
hook's C (`wire_write_str`, `wire_read_str`, the literal 2 and 3 of its headers) is written
out next to it, with its buffer sizes. The room that `decode_string_vec` reserves for as many items as a prefix announces
(`lib.rs:305`) is not modelled: memory has no end here. A byte has `Base` values and a length two bytes where the code has
four (`WireAssumption`: a byte has at least the values of the tags, and the marks for "nothing yet" and "an error" are no message;
`MessageAssumption`: a message has a writer and a reader that exist and the fields of its tag, and a hook sends Obtain): lengths at the end of a buffer and past it occur, and every frame of up to five payload bytes is decoded.
Lengths that do not fit their field are not written: `as u32` cuts a length of 4 GiB, which no path or list has.
`ReadOnce` is faithful to the hook and not to what one would wish of it: with a body that arrives in two
pieces it falls back to the original, which `ImplementsChannel` allows; of the hook `WholeMessageIsRead` claims only that it has returned.

### The daemon's socket

`DaemonSocket` has three daemons that may be started at any time. `pc` is the point a
daemon has reached in `bind_socket` (`path.exists`, `remove_file`, `create_dir_all`,
`bind`), `file` is the socket that has the name. The two functions that compute the path are
operators on an environment in which each variable is unset, empty or given; all
3^4 environments are enumerated. Two given socket variables are taken to hold the
same path. `FairSpec` makes a daemon that is being started take its steps; nobody has to
start one, failures are bounded, and `ServedInTheEnd` speaks of behaviours without any. A `bind` that fails although the
name is free may leave a socket file that nobody listens on (`BindFails`: `UnixListener::bind` binds and then listens).

### The rewriters

A file is a sequence of cells: eight-byte words of the dynamic array and bytes of the
string table in `ElfRewrite`, words in `MachORewrite`. Header fields the code reads
are records beside it. `free` marks the cells that hold nothing, which the code cannot see: it
takes zeros for padding. `Rewrite` may be applied to its own output, and `Sign` of
`MachORewrite` (codesign, external) puts a signature back in between. The reference
for ELF is a reading of the file as the dynamic linker does it (`Needed`, `Runpath`; of several
DT_RUNPATH the last counts; `Libraries` walks the array entry by entry), for Mach-O the list of commands a loader finds.

Neither rewriter can see what padding is, so what they promise rests on what linkers put into an executable. Each
module says so in a predicate `Executable`, from the header comment of its crate:

- ELF (`lib.rs:11-26`): one DT_STRSZ; each name ends inside the string table; the string table and what may
  be padding after it are loaded and outside the dynamic array; the zeros after the table and the spare entries are not in use;
- Mach-O (`lib.rs:6-12`): the commands fill the table as the header has it; only the words between the table and the
  first section are padding, and the first word after them, an instruction as a rule, is not zero.

`ElfAssumption` and `MachOAssumption` of `MCRewriters` require it of the files that the rewriters do not refuse anyway, besides
at most one signature (`LoadCommands!Init`), names without a zero, and commands of fewer than 1000 words (the model keeps kind and size in one word).
TLC checks both on the files of the run. Without the last premise of ELF the properties fail: `rewrite_elf` takes zeros for unused (`lib.rs:244`), and
of a table behind the strings that begins with zeros in use, as a symbol version table does, it overwrites as many as a name needs.

### Signing

`Codesign` has several programs that each rewrite a copy (`Begin`), read the entitlements of the
original, sign the shim (or take it as it is), write two property lists into a work directory and run
`codesign`. The shim is one file for all of them and may be rebuilt, signed by another program or
unsigned between any two steps; every step may fail, and `Die` leaves the files as they are to whoever uses the
directory next. Two programs do not use one work directory at a time: the library takes the directory as an argument
and its files have fixed names, so a caller that did would give one copy the other's lists. `codesign` and
the loader of macOS are external: the loader wants a valid signature on both, library
validation off or one team, and the constraint satisfied. The conversions are modelled by what
they do: `plist_bool` searches a printed list, `xml_escape` replaces one character after the other,
`hex_decode` and `base64_encode` work on bytes of four bits, and the loader undoes them. A text is a sequence of `Chars`, in which the
quotation mark (`dquote`) and the name of an entity (`amp`, `lt`, ...) are one character each. `SigningAssumption` says that these exist, that
the ad-hoc identity has no team, and that the length of a hash that can be used is even; a report may have another.
`SignedLoadsShim` says under which later signatures of the shim a signed copy still loads it; the library
does not re-sign copies when the shim changes.

### The backends

Every backend emits straight-line code, so an action emits the code of one `OsOp` and
runs it: `NativeBackend` on registers and the host stack with its frame records, `WaxBackend` on a
typed operand stack (an instruction with operands of other types makes the
function invalid), `JsBackend` on an array of BigInts and Numbers. `last` is the operation, and `OsOp`
records it too, so that a backend has to do the operation it was given. Runtime
helpers, imports and the memory object are external, modelled from how their names and arguments
are used. What the documents leave open is a constant or a disjunct: an `Ecall` may answer or
not; a WebAssembly or JavaScript operation that the backend does not support may trap.

The run states its assumptions as constants, each because the code fails without it:

| Constant | Without it |
|---|---|
| `U32s <- SmallU32s` (`ScalarsAlike` in the proofs) | aarch64 and riscv64 sign-extend a `PushU32` (aarch64.rs:218), the others do not |
| `X86LeavesNothing` | the x86-64 epilogue returns to an operand that was left on the stack (x86_64.rs:192) |
| `TailsAreBare` | a tail call leaves the frame behind (run `backends_tail`) |
| `scratch = FALSE` | stores of the WebAssembly backend (run `wax_store`) |
| `order = "value"` for JavaScript | its store takes value and address the other way round, as its own test expects |
| `prefix`, `scoped` | the default prefix is empty and `let` is repeated in a block: SyntaxErrors |
| `ExactOnly` | a narrow store of a value past 2^53 loses its low bits |

A native `Jump` takes its target from the stack, where the recompiler has pushed it
(`docs/integrations/speet.md:37`). The host stack is modelled as words: its alignment
at calls, which aarch64 and riscv64 do not keep, is outside the model.

### Guest memory

`GuestMemory` reads and writes byte by byte as `read_bytes_at` and the linear functions do:
`get_page` creates pages, `LinearHost` subtracts its base with wrap-around, saturates
the end and compares. `FlatMemory` has one byte per address and a set of addresses that
exist. The tables of `SharedPageTable` live in the guest's own on-demand memory, as the code
has it; who writes them is the guest's operating system (`Map`, `Unmap`, external: the
layout is what makes `translate` meaningful and no code of the repository builds one). `mapped` is
the history of what it meant. Nothing is claimed of pages that are not mapped: the code has no entry
value for them and never faults, although `os-page/src/lib.rs:59` says that it does.

### The system calls

`LinuxWasi` gives the guest three registers and a memory (`LastAddress`, `ByteValues`), and a call the entry of
`build_table`: the stores into the scratch area, the parameters, the WASI function (external: any number of bytes
up to what was asked, or an error), and what becomes of the result. `LinuxCalls` is what Linux promises: the number
that is returned is the number of bytes that moved, between the file and the buffer that were named. The scratch area is
hidden from the guest by the mapping; a guest with a buffer there would see it change. `exit_group` of the table is
`proc_exit`, as is `exit`. Which numbers an error has is not claimed: the code negates those of WASI.

### The ABI specification and the shims

`BridgeSupport` reads a document as the events of the XML reader. The document is a tree
beside it, and `open` is the reader's place in it: the elements that were entered and not left, each with the number of its
children that were read. `Node` is the element of the next event, so the events of a document come in its order and no other.
`Eof` may come anywhere, since the reader does not report a file that is cut off.

`ReadsTheDocument` compares the specification with the tree (`Declarations`): the functions before the end of the file or
the cut, each with its own arguments and result, and no part of another. Two things about documents stand in its way:

- a function that is written short, `<function name="abort"/>`, is an `Empty` event, which the code does not take for a
  function: `LeftOut` says so, and the property has the omission in what it claims;
- the type of a callback is written as elements inside an argument, and the code takes these for arguments of the function
  (in the run, the callback of `bsearch` adds one to it). `Plain` leaves such documents out, and the run `shim_document` shows one.

`ShimCalls` goes on from the specification: `Generate` is a use of `generate_c` (its files stay for the
next use), `Link` the platform's linker, with the daemon's strong `os_shim_execve` or without, and a call is a stack
of frames: bridge, core, host function. An argument passes through the C type each of them declares.
On Apple the interposer replaces a name for every image but its own; elsewhere a name is what the first library
exports, so that a core that calls the function by its public name reaches the bridge again
(run `shim_forward`).

Before the generator is used, `files` is empty or has the C that is checked in (`checked_in`). It is not what the generator
makes of the same symbols: its headers declare the functions, the bridge of `exit` is there for `_exit`, and that of `printf` drops what
follows the format. What a file may call depends on its headers (`Compiles`, external):

- a core has a prototype in `os_shim.h` for seven functions only. A bridge that the generator writes for another one, `calloc` for
  example, calls an undeclared function. A compiler that takes such a function for one that returns an `int` cuts its result (`ResultType`); one that refuses
  it does not build the interposer. `Link` has both compilers, and `CallsArriveWhole` is claimed of the second;
- on Apple the tuple of a generated bridge takes the address of a name that only `dlfcn.h` can have declared (`registry.rs:131`), so a bridge of any
  other function does not compile there: what is interposed on Apple is the checked-in C, the functions of `dlfcn.h` apart;
- elsewhere a bridge defines its function, which must not contradict the header that declares it: the checked-in bridges of
  `write` and `strlen` do, so that of the checked-in C only Apple has an interposer.

A guest reaches a core through a bridge, or directly where its call was redirected to the core (`redirected` of `Call`).
A use does not ask for the daemon's core and for the
bridge of `execve` together: the generator then leaves the bridge out (`generate_c.rs:42`). Floating point, structures and
variadic functions are left out.

### The host API and the stubs

A guest name is a sequence of parts (underscores, the prefix `__ambient_`, a stem), so that
stripping one underscore or a prefix does what the code does. The manifests are the four of
`ImportManifest`, with their signatures and lists of intercepted names; `layers` is what has been
wrapped around the tunnelled API, and each method of a wrapper is a step of a fold over it. The
tunnel (a crate outside the repository) is a table of names to host symbols, and a prefix its aliases
may be emitted with.
`AbiStubs` adds `extend_manifest` and picks at the start the names `os-abi-codegen` has generated stubs
for; a set it would refuse is not picked.

Three searches decide about a name, written at different times: `resolve_intercept` strips an
underscore from both sides and takes the first import, the derived hooks are looked up with and
without an underscore and hold the last one, `extend_manifest` compares in a third way. The properties
say that they agree. Where they do not, the property has a premise, and these are the limits
of what is claimed:

- names with two underscores (`host_spelling` shows what happens to one), and names listed only with an underscore: the search takes
  `Exit` for the listed `_Exit`, the derived hooks do not, although `redirecting.rs:60` says that one place decides for both;
- aliases that rename or carry the prefix: `link_recipe` keeps an alias whose host symbol is allowed,
  where `resolve_ambient` asks for the guest's name, and `is_hooked` does not strip the prefix;
- hooks an embedder passes to `new`, which may redirect a name to any import, to a shim, or to the ambient symbol:
  `RedirectsAreImports` is about the names that none of them takes. A hook to `Ambient` loses its alias in
  `link_recipe` (`redirecting.rs:102`), as any hooked name does;
- a stub over an added import with pointers or 64-bit results, whose types the generator and
  `bridgesupport_wasm_types` map differently, and calls with more than six arguments.

Numbers of system calls, library flags and the pointer rewriting of the stubs are left out.

### Runs

| Run | Instance | Shows |
|---|---|---|
| `daemon_peers` | a hook with the second backend, an arbitrary client and one that only connects, a backlog of one, two registered ids of three, one path, one try each, one failure, fair | a guest runs its own artifact or the original; responses answer the request of their connection and are final; no connection is lost or served twice; the daemon hangs up on nobody who waits for the rest of an answer, and a guest is killed, only after a daemon failure; an `execve` returns and connections close, unless a client that is silent or does not read holds the daemon |
| `daemon_retry` | one hook, two paths, two calls, two failures; and one message of every kind between every writer and reader, in any pieces, and every frame of up to five payload bytes over three values | refinement of `TransformService`: nothing of a failed call leaks into the next; refinement of `MessageChannel`: what is decoded is what was sent, nothing else decodes, a whole message is read |
| `socket_bind` | three daemons, a stale file, two failures, every environment, fair | of daemons that start together one ends up with the path, and hooks look there |
| `socket_deploy` | one daemon | **violated**: a deployment that sets only `SPEET_RTD_SOCK` |
| `rewriters` | ELF: two entry orders, 0-4 spare slots, 0-7 bytes of padding, one or two segments, malformed files. Mach-O: every table of up to three commands, 0-8 words of padding, malformed files. Two rewrites. Signing: two programs with a copy each and one work directory between them, three identities, two builds of the shim | the dynamic linker sees every old and every new library and the search path; the Mach-O rewriter refines `LoadCommands`; only padding is used; no refusal while there is room; a signed copy has its original's entitlements and its own call's constraint, and loads the shim |
| `backends_ops` | programs of five operations, three operands, every configuration; two writes of 1-8 bytes at page, wrap and block boundaries; two mappings into tables of each shape; three system calls | refinement of `OsOp`; a framed function returns to its caller; refinement of `FlatMemory`; translation as mapped; refinement of `LinuxCalls` |
| `backends_tail` | framed aarch64 | **violated**: a tail call does not return to the caller |
| `wax_store` | 32-bit stores with scratch locals | **violated**: the address is written to where the value points |
| `host_symbols` | four manifests, two added imports of nine functions, two wrappers of policies, hooks and the derived hooks, three tunnels, three sets of stubs; seven documents, the checked-in C or none, two uses of the generator, one call, on Apple and elsewhere, with either kind of compiler | the redirects of a name agree and name imports; a name is linked exactly when it resolves; indices stay put; a call has the signature of its import; a specification is its document; a call through shims that compile without undeclared functions, and whose core does not call the bridge again, reaches the host once with its values whole; the daemon's `execve` wins |
| `host_spelling` | the same, no hooks of an embedder | **violated**: `__exit`, the Mach-O spelling of `_exit`, is not redirected |
| `shim_forward` | the shims outside Apple | **violated**: a weak core calls the function by the name that the bridge exports, and reaches the bridge |
| `shim_document` | a document with the type of a callback | **violated**: the types of the callback's arguments become arguments of the function |

The six violated properties quote what a comment of the repository says; `PROJECT.json`
has the quotations under `findings`.

Bounds, daemon. `MaxTries` bounds the connections one client opens, `MaxFailures` the stops and
failed `try_clone`s, `BacklogSize` the listener, `Silent` the peers that never write. Two clients are enough for one to hold
the daemon while another waits; the third fills the backlog of one, so that the hook blocks in `connect`; one try for
each is enough for that, two ids for one hook to be given the other's
artifact, two tries for a call to meet the remains of an earlier one. With two hooks
and a peer TLC does not finish in minutes; the safety properties of that
instance are covered by the proofs. Deadlock is not checked: once every client has
used its tries the system is at rest, and a stopped daemon need not be restarted. The other
systems come to rest too (the starts, rewrites, operations and writes are bounded by
`MaxFailures`, `MaxRewrites`, `MaxOps`, `MaxWrites`, an API by `MaxLayers` and `MaxAdded`, signing by `MaxShims` and `MaxCopies`, the
uses of the generator and the calls by `MaxUses` and `MaxCalls`).

Bounds, bytes of a message. Six values of a byte hold every tag and status; the strings are empty, look like a length
or a tag, or are one byte longer than the hook has room for, so that each of its three sizes is met from both
sides. Frames are well formed, too short, too long, of another version or with a text that is not UTF-8.

Bounds, socket. Three daemons are enough for one to unlink the socket of a second while a
third holds a stale view; two failures let both happen on the way.

Bounds, rewriters. Names of one and two characters (ELF) and of 7, 8 and 17 bytes (Mach-O) meet and
miss the rounding of the new command; spare slots and padding run from none to more
than two rewrites use, so every bounds check is met from both sides.

Bounds, signing. Two programs are enough for the shim to be signed by another between two steps of one, and two
builds for it to be replaced; one of the hashes has a digit too few. With one work directory the files a
failed call left are those the next call finds. Team and identifier have the characters that XML reserves.

Bounds, host API. Two wrappers are enough for a policy to stand inside or outside hooks and for two
policies or hooks to meet; two added imports for one to be skipped because of the other.

Bounds, shims. Seven documents have every kind of argument, the type of a callback, elements and functions written short and long, a function that is
declared twice, one without a name, a function of `dlfcn.h`, which a generated bridge can have on Apple, one of `os_shim.h` with the types
it has there, `_exit` by its own name, and a root that is none; two uses of the generator are enough for one to
replace what the other wrote.

Bounds, system calls. Sixteen addresses, with bytes of one bit and words of four, hold the scratch area and two buffers, the second next to the first; registers have a high half
that is set, so that forgetting to wrap shows. Three calls are a transfer, one that meets what it left, and a close.

Bounds, backends and memory. Values are scaled: a byte is one bit, so a 64-bit value has
eight and a 32-bit value four, and each width keeps its ratio to the others (sign extension,
wrap and truncation all take place). Two addresses overlap in every width but one. Five
operations are two pushes, an access, and a use of what it gave; longer
programs repeat these states. A page has four bytes, an offset and three
indices of two bits each make an address. Only the default page size is modelled. The block of a linear memory begins at address 4 and accesses begin
just below it, at it, inside it and so across its end, just past it, and at the last address but one, where the end of the access saturates.

Fairness. `FairSpec` of `TransformDaemon` has weak fairness for each hook's own steps (the guest is a
runnable process; `HookGivesUp` and `HookKilled` are not needed to make progress and
have none) and for the daemon thread's steps. Nothing is assumed of peers, and
nothing restarts a daemon: a stopped one refuses connections and the hook falls
back. A write that waits for a client's buffer (`blocked`) is no step of the daemon: `PeerRead`, which has no fairness, ends it.
The code has no timeout for its reads nor for its writes, so both liveness properties carry the proviso
`[]<>~HeldByPeer`: no client may hold the thread forever, in `read_exact` by neither writing nor closing, or in `write_all` by neither
reading nor closing. That proviso is the head-of-line blocking of the accept loop.
The bound on tries hides one more way to wait: peers that reconnect forever could keep
the backlog full while a hook blocks in `connect`; the kernel's queueing decides, and
the model does not claim anything there.

## 3. Proofs

Each theorem holds for every value of the constants that satisfies the assumptions of its module, which TLC
evaluates on the values of the runs. `PROJECT.json` lists the theorems; the lemmas they rest on are in the same modules.
Every invariant, every action property and every refinement that a passing run checks is also a theorem; what is left to the runs is liveness.

### The daemon and the exec hook

`TransformDaemonProofs`, for any number of hooks, peers, ids, paths, tries and failures,
from two assumptions: `IdAssumption` (ids are numbers, the registered ones have a last
one, the `No...` values are distinct) and `DaemonAssumption` (hooks are not peers, silent clients are peers, the bounds
are numbers).

`IInv` (module `TransformDaemonInv`) is the inductive invariant. Besides the properties it
has `HookInv` (a hook in a call holds an open connection of its own on which exactly
its request has been written), `PlanInv` (what a hook is about to run), `ConnInv` (a
connection not yet opened is untouched; a response exists only for a complete request, and
a Ready only for an artifact on offer) and `ServingInv` (the accept loop answers only what it
has read, once, and waits only in a response it has begun). They are needed because the properties speak
of the end of a call and say nothing of its middle: that the answer a hook reads is its own
follows from the connection being its own, from its request being the one in the inbox,
and from dispatch having seen that inbox.

One lemma per conjunct and class of step follows frame
lemmas that say what a step of one actor leaves alone, and the module concludes `TypeCorrect`,
`RunsWhatWasAskedHolds`, `AnswersTheRequestHolds`, `OnePlaceHolds`,
`KilledOnlyByFailureHolds`, `NoHangUpHolds`, the action property `ResponseIsFinalHolds`, and the refinement `Implements`. `NoHangUp` is part of the
induction: that no hook is killed follows from it, since a connection that was closed under a hook which has not written was closed without
an answer.
It begins with what the routing operators return for every registry and every
verdict of its backends (`HandleFrameFits`).

### The daemon's socket

`DaemonWireProofs` (its second half), for any finite set of daemons and any environments. `SocketInv` says, until the first
failure: a daemon whose socket has the name listens; a free path is claimed by a daemon
on its way to `bind`; a stale file lasts until the first unlink; a daemon fails only when another has the path. The
middle two are nothing anybody would ask for, but without them `SomebodyServes` cannot be shown of the step in which
one daemon unlinks the socket of another. `PathsAgree` is about the two functions that compute the path.

### The bytes of a message

`DaemonWireProofs`, for any number of values of a byte (`WireAssumption`), any messages of any length that fits its field
(`MessageAssumption`) and any frames.

The codec first. A field is written and read back, whatever follows it (`FieldsRoundTrip` and its parts), and conversely
the bytes that a field was read from are those it is written as; a list is read item by item, so both directions go by
induction on the items. `MessageRoundTrip` is the first direction for whole frames, `OnlyItsEncodingDecodes` the second, for
whatever bytes a reader is given: the encoder has one form for a message, but for the flag of a Ready, which any byte but zero sets.

The stream: `WireInv` says that nothing is lost (`NothingLost`: what the reader has, what is under way and what is unsent
are the bytes of the message), that a reader which has not returned has less than a frame (`ReaderWaits`), and that
what is returned is what the bytes decode to, or an error, and an error only after the writer closed early.
`WholeMessageRead` and the refinement `ChannelImplemented` follow with the round trip.

### The rewriters

`ElfRewriteProofs` and `MachORewriteProofs`, for files of any size and any number of entries, names, rewrites and signatures, under `ElfAssumption` and
`MachOAssumption` (see "The rewriters" above).

For ELF one rewrite is described cell by cell: the strings go into cells that were zero behind the table, the entry takes the place of
the terminator and the next spare one becomes the terminator, and the size grows by the strings. From this the walk over the array
is followed entry by entry (`Libraries` is a recursive function, so its value for a rewritten file is an induction over the
entries). `ElfInv` says that an accepted file stays `Executable`, with less padding, and `SinceTheFirst` what all
rewrites together have done to the first file: the libraries are its own and then those added, the search path is the last one given, and of its cells
only free ones, the first terminator and the size have changed. The first half is what makes the second inductive: a
second rewrite starts from the table and the terminator that the first one left. `LoaderSeesAddedAlways` is its consequence.

For Mach-O the words that move are followed through `rewrite_macho`, and from them the offsets of the commands of the new table, and from
those the commands (`RewriteInjects`: each is where `LoadCommands!Inject` puts it). `MachOInv` says that the commands fill the table (`Filled`) and that the
table stays in front of the padding's end (`TableInPadding`): since the first word behind the padding is not zero and a table grows only over zeros, it cannot grow past it.
`MachOImplements` is the refinement of `LoadCommands`, step by step, and `OnlyPaddingIsUsedAlways` the padding property of both formats.

`RefusedOnlyWhenFullAlways` is the converse, and needs to know what the padding holds: that free cells are zero is part of `Executable`, but that they
still are after rewrites and signatures is not. For ELF `FreeIsZero` is kept by a rewrite because it takes the cells it fills out of `free`. For Mach-O
`RoomInv` says that the zeros follow the table, and that there is at most one signature, in its place: a new command of the same size or smaller fits where
the signature was, and a larger one needs no more than the padding. `RewritersTypeCorrect` is about results and lengths.

### Signing

`CodesignProofs`, for any number of programs, directories, identities, builds and copies, from `SigningAssumption`. First what the conversions do to
any text and any bytes: `Base64RoundTrip` (in groups of three bytes, of which the last may be short), `EscapeRoundTrip` (the chain of replacements turns
each reserved character into its entity and does not escape an entity again, because the ampersand comes first), and `PlistReads` (what
is found in a printed list is what was printed). Then `SignInv`, which follows a call: `Sound(p)` says at each point of the code what the call has
read, asked for and written, and `OwnDirs` that no two calls that are under way have one directory. The latter is how the library is meant to be used, and
without it `HasWritten` would not survive another program's step. `SignedAsAskedHolds` says that the signature of a copy holds what its own
call asked for, `SignedLoadsShimHolds` that the copy loads the shim.

### The backends

`BackendProofs` is about `MCBackends` as a whole, so each theorem is one about its components and about the composition.
It is for programs of any length, and values, machines and memories of any kind. Its assumptions on the constants say what set each is from
(`BackendAssumption`, `BoundAssumption`, `WidthAssumption`, `HalfAssumption`, `AddressAssumption`, `ScalarAssumption`), that eight bytes read alike
whether they are signed or not (`MemoryAssumption`), that four bytes that are read signed are four bytes that are extended (`ExtensionAssumption`), and that
the addresses a program uses fit 32 bits and a Number (`AddressesFit`).

*Native.* `NativeInv` says of a machine inside a function that the words of the frame are those the prologue
pushed, that the frame pointer points at them, and that everything above them is a value of the guest (`Running`). `NativeReturns` and `NativeImplements`
follow instruction by instruction. Of tail calls `ReturnsToCaller` speaks only when they are bare.

*WebAssembly and JavaScript.* `WaxInv` and `JsInv` say that the operand stack holds 64-bit values between two operations: an `i32`, or a Number, is there only within
one. So the effect of the code of an operation is followed instruction by instruction from the operands that `OsOp` sees, and ends in them. A function that is
not valid, or a program that throws, has a status that the mapping allows.

`CodeIsOsOp` puts the five together. Its hypotheses are rows of the table under "The backends", and each leaves out programs for which the code does
something else: `ScalarsAlike` (32-bit scalars that sign extension leaves alone, or x86-64 only), `WaxConfigs \subseteq NoScratch` (run `wax_store`
shows why) and `JsConfigs \subseteq Scoped` (a prefix, and an operation in a block of its own). `CodeReturns` has `X86LeavesNothing`. The run has
many programs that satisfy them.

### Guest memory and page tables

In `BackendProofs` too, for any number of values of a byte, any page size that divides the address space, any accesses and widths up to eight bytes
(`GuestMemoryAssumption`).

The pages of a `LegacyOnDemand` are read as one array of bytes (`ByteAt`): a page that does not exist has zeros, so creating one changes no byte. An access
of `n` bytes touches the addresses at a distance below `n` from the first, around the last address if need be, and what it writes is found by that
distance; no other byte changes. A linear memory does the same inside its block and faults before it touches anything otherwise: an access is inside the
block exactly when its first and last byte are, for which the subtraction that wraps and the addition that saturates have to be followed case by case.
`MemoriesAreFlat` has the hypothesis `M <= U`: an offset is an address cut to a `usize`, and on a host of 32 bits two addresses could have one offset.

`TablesTranslate` is the translation. `TablesHold` is the inductive invariant: of each mapped page, every entry on its walk and its entry of the directory
hold their numbers, byte by byte. A number that is stored is read back (`ToBytes`, `ToInt`: an induction over the bytes), and storing an entry does not
disturb another since those in use are apart. That is an assumption about the guest's operating system, which writes the tables:
`LayoutAssumption` and `DirectoryAssumption` say that entries lie within the address space and that two of them are the same or have no byte in common.
`TableAssumption` has the shapes, and `PowersAssumption` what the arithmetic of the provers lacks: that powers of the base are numbers, each the base times the one before.

### The system calls

`CallsAreLinuxCalls`, for any number of values of a byte, any number of addresses, place of the scratch area and first content of memory, and any open files,
descriptors, buffers, counts, file contents and errors (`WasiAssumption`: memory has the scratch area and the buffers, and the buffers are outside of the scratch area;
a word has four bytes, as it does in WebAssembly). That a word which is stored is read back is arithmetic on four digits in any base (`StoredWord`, `Word32Facts`). `WasiPart` is the type
of registers, memory and files; the rest is one step. The entry stores the buffer and its length into the scratch area, where the WASI
function reads them and where its result is read from, so the proof is about what is in the scratch area between these, and
that a byte outside of it changes only if the function moved it.

### The host API and the stubs

`HostProofs`, for any specification of functions, tunnel, hooks and policies, any added imports and any number of wrappers. From outside come: names are sequences of strings
(`PartsAssumption`, `HostAssumption`); a tunnel lists plain names (`TunnelAssumption`); nothing is assumed of the hooks of an embedder, and `RedirectsLead` says nothing of the names they take;
no function has the name of an import of the runtime, with or without an underscore, unless that import lists it (`NamesAssumption`); and
the functions that these imports stand for have the signatures they were written for (`SignaturesAssumption`).

`HostInv` says that a manifest is `GoodManifest` (it begins with one that the runtime has, every other import is what `extend_manifest` makes of a function, and no
two have one name or intercept names that differ in no more than an underscore) and that each wrapper is one that this manifest can give: derived hooks come
from the manifest as it is, because nothing is added to it once something was wrapped around it.

The properties follow from it without another induction over steps, but not without work: each compares two searches over the same list, of which one takes the first
that fits and the other the last that was inserted. `IntegratedIsSearch` shows that all imports that fit a name, in either
spelling, lead to the same answer; `LinkingIsResolving` is an induction over the wrappers, since both `link_recipe` and `resolve_ambient` are.

### The shims

`ShimInv`, for any documents, any headers of the host, any uses of the generator, with the checked-in C and without, on either platform, and any calls. Its parts follow the way of a call: the files on disk are those of the uses so far, each what was checked in for its symbol or what the generator
makes of it (`FilesOfSymbols`, `BridgeAskedFor`); the core of `execve` is the daemon's once a use has asked for it, and stays so (`DaemonsCore`); before
`Link` nothing was called, and what was linked compiles and has its cores (`BeforeLinking`); a call has at most three frames, bridge, core and function, in this order (`CallsStack`); and what has arrived is what was passed, as far as
the frames below have carried it (`CallsArrive`). `CallsWhole` and `DaemonGetsExecve` are consequences.

### Documents

`DocumentsRead`, for any documents whose elements are trees (`DocumentsAssumption`; it says besides that `None`, which stands for no function being open, is neither an argument
nor a function). `DocumentInv` is about every prefix of the events: the reader is at a place of the document (`Place`: each element on the stack is the child that its parent has
reached), `functions` are those of the items that have ended, and the function that is open is `PartRead`, what its children so far declare. One event adds one child, or
ends an item, so a step is about a sequence that has one element more (`FlattenNext`). Documents may have any length and may be cut off anywhere.

### What is only model-checked

- Liveness: `ExecveReturns`, `EveryClientReleased` and `ServedInTheEnd` need weak fairness, whose `ENABLED` is out of the prover's reach.
- Nothing else of the passing runs. The properties of the violated runs are false, and each says in `PROJECT.json` what was expected.

Induction over data is done without the library's induction theorems, whose operator parameters the provers cannot
instantiate: `SetInduction` of `SequenceLemmas` is about a set of numbers, and each proof that needs it defines the set of the numbers
for which its statement holds. `Recursion` does the same for the value of a recursive function.

## 4. Not modelled, and the plan

Not modelled:

- `os-ctx`, `os-async`, `os-build`, `os-transform-core`: traits, readers of arguments and plain records, without
  behaviour of their own;
- the initialisation of the interposer (`os-interposer/src/generated/interposer_init.c`); the other checked-in C files are `checked_in` of `ShimCalls`;
- command lines, paths of files, the wording of emitted C, JavaScript and assembly;
- the redirect code that `os-abi-codegen` writes for the native platform, library flags, system-call numbers, the registry
  of named host APIs;
- 128-bit accesses, which trap, fault or name a placeholder;
- the text writers of the native backends, which print the instructions the models run, one for one.

What no run covers and why is said with each hazard in `PROJECT.json` that has a note. Those without a property are of two kinds. Some are outside the models:
strings behind the file size of their segment (what the loader maps there depends on its page size), the alignment of
the host stack (operands are words in the model), and entries of page tables that were never written (no value
is reserved for them, so nothing says what they translate to). The others are cases in which a property fails, and which a constant, an assumption or a premise of that property therefore leaves out: zeros in use behind a string
table, the start of a daemon that fails after it has unlinked, the defaults of the JavaScript backend and its numbers past 2^53, operands left on the x86-64 stack, scalars that
sign extension changes, a guest's buffer in the scratch area.

Runs stay one per question: components that share a question are composed with `part`.

Every safety property of a passing run is proved, so what would come next is more of the code:

1. the redirect code of `os-abi-codegen` for the native platform, with the registers it saves, against `NativeBackend`;
2. the alignment of the host stack on aarch64, as a property of `NativeBackend` with words of half the size;
3. segments of an ELF file, with what the loader maps behind their file size;
4. several threads of a guest in one `LegacyOnDemand`, if the code comes to allow it: `get_page` takes `&mut` now.
