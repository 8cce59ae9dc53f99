# Verification of the KAIST coursework programs

TLA+ modules, TLC configurations and TLAPS proofs for the programs under `src/`.
The repository is a collection of independent course projects; the ones with a
logic worth verifying are small systems of their own: a transport layer, a
shell, a router, an allocator, processor and cache simulators, interpreters.

## 1. Inventory

| Component | Source | State | Operations | What is hard |
|---|---|---|---|---|
| STCP transport layer | `EE323/lab3/transport.c` | `context_t`: connection state, sequence and acknowledgement registers, 16-bit window | handshake; send data, read a segment, close | two peers, two directions, simultaneous close, modular arithmetic, a shut window |
| Tiny shell | `CS230/shlab/tsh.c` | job list, `nextjid`, signal masks; processes in the kernel | `eval`, `fg`, `bg`, `waitfg`; handlers of SIGCHLD, SIGINT, SIGTSTP, SIGQUIT | handlers interrupt the shell and each other anywhere; signals merge; process IDs are used again |
| Router and ARP cache | `EE323/lab4/sr_router.c`, `sr_arpcache.c` | cache entries, request queue with packets, one lock | handle an IP or ARP packet; the timeout thread's sweep | two threads, pointers used after unlocking, retries and give-up |
| Allocator | `CS230/malloclab/mm.c`, `memlib.c` | heap words, segregated free lists | `mm_malloc`, `mm_free`, `mm_realloc`, coalescing, heap growth | header and footer bits that must agree, block boundaries, remainders of a split |
| Pipelined MIPS simulator | `CS311/project3/run.c`, `util.c` | five pipeline latches, registers, memory | one cycle: the five stages, forwarding, stalls, flushes | forwarding from two stages, load-use stall, branch in flight |
| Single-step MIPS simulator | `CS311/project2/run.c`, `util.c`, `parse.c` | registers, memory, PC | one instruction | the reference for the pipeline |
| Cache simulator | `CS311/project4/main.c` | sets, ways, tags, dirty bits, ages and counts | read, write; LRU and LFLRU replacement | ties, write-back of the victim |
| MIPS assembler | `CS311/project1/main.c` | symbol lists, section pointers, flags | two passes | what the first pass decides about sizes must be what the second finds |
| HTTP proxy | `EE323/lab2/proxy.c` | processes, sockets, blacklist | accept, fork, parse, forward | children, partial reads; not modelled |
| Socket server, client | `EE323/lab1/server.c`, `client.c` | processes, sockets | accept, fork, receive, encipher, answer | streams that arrive in any pieces, clients that go away |
| Sorting | `EE205/QuickSort`, `EE205/MergeSort` | arrays, the calls to come | partition, merge, insert | boundaries, equal keys |
| Password blacklist | `EE205/PasswordBlacklist` | hash table with chains | insert, resize, rank, print | chains linked anew while they are walked |
| Fiber, xFiber | `CS320/fiber`, `CS320/xfiber` | environments, continuations, handlers | evaluate | exceptions and first-class continuations |
| Fabric | `CS320/fabric` | type environments, stores | check, evaluate | large grammar; not modelled |
| Data lab | `CS230/datalab/bits.c` | none | bit puzzles | signed limits; not modelled |
| Malloc lab driver | `CS230/malloclab/mdriver.c` | traces, the payloads in use | run a trace, judge every block | what it does not look at |
| Harnesses, notebooks, data | `btest.c`, `sdriver.pl`, `CS376`, `EE214`, ... | | | handed-out tests, numerical work: not modelled |

The components do not call one another. Inside each, the interactions are: the
two STCP peers through the segments they exchange, and each peer with its
application through the mysocket layer; the shell with its own handlers
through the job list, and with its children through the kernel; the router's
two threads through the cache and its lock; the allocator with its heap; the
pipeline's stages through the latches; the assembler with the simulators through
the file it writes; the server with its clients through TCP streams.

Properties that make each correct:

* **STCP**: the two byte streams arrive in order and in full; the end of a
  stream is reported after its data; the window is never exceeded and never
  drifts; the connection ends, on both sides, and not before both streams have.
* **Shell**: the job list and the process table agree whatever interrupts
  what; one foreground job at most, and the prompt comes back exactly when it
  is gone; no child is left a zombie; keys reach the foreground job only.
* **Router**: a packet that waits for an address is sent once or answered with
  host unreachable; no request is used after it has been destroyed.
* **Allocator**: blocks tile the heap; allocated blocks never overlap; the
  free lists hold exactly the free blocks; no two free neighbours.
* **Simulators**: the pipeline computes what the single-step machine computes;
  the cache never loses a write and evicts the block its policy names.
* **Assembler**: the loader reads back what the source says.
* **Sorting**: no call has to look at what another one has settled.
* **Blacklist**: the words that are printed are the most common ones.
* **Interpreters**: continuation-passing and direct style agree.
* **Server**: a client gets back its text, as a whole, whatever the pieces.

## 2. Modules

| Module | What it is |
|---|---|
| `STCP` | both peers of the transport layer, their applications and the network |
| `ByteStream` | the abstract specification: two independent byte streams |
| `STCPInv` | the inductive invariant of `STCP` |
| `MCSTCP` | instances for TLC |
| `STCP_proofs` | the proofs about `STCP`: its invariant, and that it implements `ByteStream` |
| `JobList` | the shell's job list and its helper routines |
| `Tsh` | the shell, its handlers and the kernel's side of its children; extends `JobList` |
| `TshInv`, `Tsh_proofs` | its inductive invariant, and the proofs |
| `MCTsh`, `MCJobList` | instances for TLC |
| `ArpCache` | the router's ARP table and request queue; one operator per locked function |
| `Router` | the packet thread and the timeout thread; extends `ArpCache` |
| `Delivery` | the abstract specification: what becomes of a packet to be forwarded |
| `MCRouter` | an instance for TLC |
| `RouterInv`, `Router_proofs` | its inductive invariant, and the proofs; the bound on retries has an invariant of its own |
| `Walks` | loops that follow a function from one value to the next |
| `NatFacts` | lemmas on natural numbers and walks that several proofs use |
| `Malloc` | the allocator: the words of its heap, and one operator per function |
| `MallocDriver` | traces of requests, as the driver runs and judges them; extends `Malloc` |
| `MallocInv`, `Malloc_proofs` | their inductive invariant, and the proofs |
| `Mips` | instructions, memory, the single-step simulator and the loader |
| `Pipeline` | the pipelined simulator, with the single-step one beside it; extends `Mips` |
| `PipelineInv` | its inductive invariant |
| `Assembler` | the two passes of the assembler; extends `Mips` |
| `CacheSim` | the cache simulator, with the meaning of its policies beside it |
| `CacheSimInv` | its inductive invariant |
| `CS311_proofs` | the proofs about `Pipeline` and `CacheSim` |
| `Blacklist` | the two password counters |
| `Sorts` | quick sort and both merge sorts |
| `SortsInv`, `Sorts_proofs` | their inductive invariant, and the proofs |
| `Fiber` | the xFiber interpreter as a machine, and Fiber's as a function |
| `Caesar` | the socket server, its children and its clients |
| `CaesarInv`, `Caesar_proofs` | its inductive invariant, and the proofs |
| `MCPrograms` | instances of the single programs for TLC; a behaviour runs one of them |

Every comment that gives a line number means the source file named at the top
of its module. Operators whose names begin with `Faulty` are plausible mistakes
in the operator that follows them. They are in no specification: a check
replaces the operator by one of them and expects TLC to object, which shows
that the property at hand depends on that piece of code.

### 2.1 STCP

`context_t` is one function per field, from the peer (`Active` connected,
`Passive` accepted) to its value. `transport_init()` is `Connect`,
`RecvSynAck` (active), `RecvSyn`, `Refuse`, `RecvHandshakeAck` (passive): a step
ends where the code blocks in `stcp_network_recv()`. One turn of
`control_loop()` is `WaitForEvent`, which takes the snapshot of the ready bits
(line 192), and then one step for each bit in the order of the code:
`SkipAppData` or `SendAppData`, `NetworkData`, `CloseRequested`; between them
the other peer and both applications may do anything. `Return` is the end of
the loop and of `transport_init()`.

Sequence registers are modelled as unbounded numbers, of which the program's
are the residues modulo `SeqMod` = 2^32: the code only adds to them and copies
them, and the two places that look at one (the comparison with `send_seq` and
the difference that feeds the window) take the residue. The window is computed
modulo `WinMod` = 2^16 as in the code. `SeqMod` of the runs is small enough that
sequence numbers do wrap within a run; the window is not to wrap at all.

Not under `src/`, and modelled from its use: the reliable in-order network, the
snapshot semantics of `stcp_wait_for_event()` (the close is signalled once, when
all data has been read), and `stcp_app_recv()`, which hands over between one
byte and all that was asked for. Left out: the contents of `th_win` (never
read), and fields that are set and never read (`recv_seq` after the handshake).

### 2.2 Tsh and JobList

A job pointer is a slot number, and NULL is 0. `pc` says where the main thread
is: at the prompt, after `fork()`, inside `do_bgfg()` (after each access to the
job), in `waitfg()`'s loop, or gone. `stack` holds the handlers that are
running, innermost first; only the innermost runs. Since `sa_mask` is empty
(line 669) a handler blocks only its own signal, so handlers of different
signals nest. What the code does with every signal blocked is one step, all
else that touches the list or sends a signal is a step of its own.

The kernel is modelled from its use: process states, `waitpid()` with `WNOHANG`
and `WUNTRACED`, SIGCHLD for ends, stops and continues, pending signals that
merge, SIGINT to a stopped process that stays pending, SIGCONT that discards a
stop which was not reported, process IDs that are free again once reaped, and
the loss of a signal sent before the child has executed its program.

`parseline()` is abstracted to the kind of line it yields (`Lines`); `jobs` and
failed look-ups only print and change nothing. `fork()` succeeds whenever a
process ID is free. Children end, stop themselves and are killed at will
(`mystop.c`, `myint.c`, `myspin.c`, `mysplit.c`); they do not catch SIGINT or
SIGTSTP.

### 2.3 ArpCache, Router and Delivery

`ArpCache` has the state of `struct sr_arpcache`: `entries` and `requests`, and
in `req` what a request holds. Each of its operators is what one function does
between locking and unlocking. `Router` has `sr_handlepacket()`, one action for
each way through it (`Drop`, `EchoReply`, `PortUnreachable`, `TimeExceeded`,
`NetUnreachable`, `Forward`, `ArpReply` and the loop after it), and
`sr_arpcache_handle_arpreq()` in steps (`Check`, `Decide`, `Resend`,
`Unreachable` for each packet, `Destroy`) that either thread runs: the timeout
thread with the lock for the whole sweep, the packet thread without it except
inside the functions of `ArpCache`. The two may be in it for the same request.
An increment of `times_sent` that both make at once may be lost, as it may be
with an unlocked `++`.

A request is named by its address. When the timeout thread destroys the request
the packet thread is handling, `dangling` becomes true, and the packet thread's
next use of it ends the model (`UseFreed`, `down = "freed"`): what freed memory
holds is undefined, and nothing is claimed of what follows. Likewise
`down = "null"` for line 299 of `sr_router.c`.

A packet is a record of its name, addresses and TTL, which is a byte. Checksums and lengths are
attributes of what arrives (`ok`, `short`); hardware addresses, identification
fields and the wording of the blacklist's log are left out. The headers
`sr_arpcache.h`, `sr_protocol.h` and the network (`sr_send_packet()`) are not in
the repository. Time is what the comparisons see: a request is due or not, a
mapping is old or not. The time that line 52 reads is compared at once
(`Check`); a second that passes before line 134 stores it is as if it passed
afterwards. The answer to an ARP request changes no state.

`Delivery` gives a packet to be forwarded a fate: `new`, `waiting`, then `sent`
or `unreachable`, or `dropped` when there is no way back to its sender.
`Delivered` is the refinement: `fate` is computed from where the packet is (in
a queued request, in the packet thread's hands) and from the recorded outcome.

### 2.4 Malloc and MallocDriver

`Malloc` keeps the heap as a function from the address of a word to its content,
with `NULL` = 0, and the roots of the segregated lists in its first words, where
`mm_init()` puts them. `GET`, `PUT` and the macros over them are operators on
that function; `insert`, `delete`, `coalesce`, `extend`, `fit`, `place` and the
four entry points each take a heap and return one, with every word they write:
a stale tag or link stays in the heap until something overwrites it. The loops of
`calclass()` and `fit()` are walks (`Walk`): the list of a class is the function
`FreeList` from the number of steps to the block they lead to, and `fit` takes
the first class and the first place at which a block is large enough.

`MallocDriver` is `eval_mm_valid()`: `Alloc`, `Realloc` and `Free` are the three
cases of its loop over a trace, with `add_range()`'s checks, the bytes the
driver writes into a block and finds again, and its early returns (`Refuse`).
The totals of `eval_mm_util()` are followed beside it. A trace is any balanced
sequence of requests that numbers its blocks in the order of their allocation,
as those of the lab do. `ReallocFails` ends a trace at the calls of
`mm_realloc()` whose effect is undefined (section 4).

### 2.5 Mips, Pipeline and Assembler

An instruction is a record of the fields of `inst_s` with its name for opcode
and function code. `Mips` has `process_instruction()` of project2 as an operator
from machine to machine, and the loader, which reads words as sequences of
bits. The bits of `and`, `or`, `nor` and the shifts are walks over the digits of
the two words. A program starts with the memory that the loader leaves, any of
`Memories`. The fields that `parsing_instr()` does not set for `jr`, `j` and `jal`
are whatever was on its stack: they may cost a stall, and no result depends on them.
`Pipeline` has `CURRENT_STATE` of project3 as one record `cpu`. `Cycle` is
`cycle()`: `pipeline_init()` moves the program counters on and takes what is to
be forwarded, and the five stages follow from `WB` to `IF`, as in the code, each
an operator from state to state; `Finish` decides whether the run goes on. When
an instruction leaves the pipeline, the single-step machine `isa` makes a step.

The two simulators differ on purpose or by mistake in a few cases (section 4).
`apart` becomes true when a program meets one of them, and is true from then on:
what is claimed, is claimed of all other programs. The conditions name the
precise circumstance (`ForwardsNothing`, `JumpsOutOfTurn`, `Unlike`), so that
every stall, forward and flush besides it is still compared.

`Assembler` reads a line per step: `Declare` in the first pass, `Reread` between
the passes, `Translate` in the second, `WriteData` at the end. A line comes as a
record of its parts: how `scanf()` and `strtok()` find them is left out. `odd` marks
sources that meet a defect of section 4. The file that results is given to
`load_program()` of `Mips`.

### 2.6 CacheSim, Blacklist, Sorts and Fiber

`CacheSim`: `access_cache` is one access: ageing of the set, hit or miss, the
victim by age or by count and age, the write-back. `policy` says beside it, for
each set, how often and when each block was last used since it was fetched, and
which blocks the policy therefore keeps.

`Blacklist`: `ReadLine` is a `fgets()` and the cut of a line into the words to be
counted; `Insert` counts one of them and lets the table grow, which links all
nodes anew; `PrintWords` is `print()` and `freeall()`. `spreads` chooses between
`blacklist.c` and `sub.c`, whose hash stays below `HASHSIZE` whatever the table's
size.

`Sorts`: the calls on parts of the array that are still to be made are a stack of
tasks. `Quick` and `MergeSort` do what a call does before it makes others;
`SortRound` and `MergeRound` are a round of the loops of `sort()` and `merge()`,
whose indices and buffer are in `loop`; `InsertNext` is a round of `isort()`. The
random pivot is any element. A product's `id` is where it first stood: only the
properties look at it.

`Fiber`: xFiber's continuations are Scala functions; here each is a sequence of
frames, and `Interp` and `CallContinuation` are a call of `interp()` and of a
continuation. Fiber's `interp()`, in direct style, is a recursive operator; what
it lacks (`throw`, `try`, `vcc`) is added in the way direct style would have it:
an exception and a call of an active continuation pass up like an error.

### 2.7 Caesar

The parent accepts and forks (`AcceptClient`; `fork()` may fail); a child is in
`recv()` for a header or for a chunk of the text, or leaves and stays a zombie
until SIGCHLD is handled (`Reap`). A client connects, sends a text, reads the
answer, and may close at any time. Each direction of a connection is a queue of
bytes of which `recv()` takes any number. External is only what TCP does. Where
the code uses an incomplete header its values are undefined: such a child or
client is followed no further (`broken`).

### 2.8 MCPrograms

The eight modules about single programs share no variable and are checked in one
run: `running` picks a program, whose actions then happen, while the others stay
in an initial state. The next-state relation is the disjunction of theirs.

The mapping of `STCP` to `ByteStream` stands at the end of `STCP`
(`ImplementsByteStream`, and `DeliversByteStreams` for the same without
fairness), that of `Router` to `Delivery` at the end of `Router`.

## 3. Runs

| Run | Bounds | Shows |
|---|---|---|
| `stcp_safety` | window 2, segments of 2 bytes, 3 bytes each way, residues modulo 5 and 8, first segment a SYN or one of three others; 120 292 states | type correctness, stream integrity, flow control, exact window, order of FIN and data, agreement of the registers, graceful end; `IInv` holds on every reachable state |
| `stcp_liveness` | window 1, segments of 2, 2 bytes each way | the peers implement `ByteStream`; every byte arrives; both layers return; no deadlock |
| `stcp_refused` | first segments that are not a SYN | **violation**: `RefusalReported` |
| `tsh_safety` | 2 process IDs, 2 slots, job IDs to 3, ctrl-c and ctrl-z; 3.5 million states | list and process table agree; one foreground job; no notification is lost; keys spare the background; job transitions; no deadlock |
| `tsh_liveness` | 2 process IDs, 2 slots, job IDs to 2, ctrl-z | zombies are reaped; the prompt returns |
| `tsh_full` | 2 process IDs, 1 slot | **violation**: `HandlerReturns` |
| `tsh_stopped` | 1 process ID, 1 slot | **violation**: `StoppedIsStopped` |
| `tsh_waitfg` | 1 process ID, 1 slot | **violation**: `WaitfgEnds` |
| `router` | 2 neighbours, an unrouted host, one interface, a default route that is never taken; any 2 of 9 packets; table of 1, 2 tries, a packet that arrives with TTL 0; 333 363 states | no packet is lost, or both sent and reported; the sweep never meets freed memory; TTLs; the retry limit; `Delivery` is implemented; the queue drains |
| `router_freed` | as above | **violation**: `NoUseAfterFree` |
| `joblist_jids` | 4 process IDs, 4 slots, job IDs to 6 | **violation**: `FoundByJid` |
| `programs` | allocator: heap of 176 bytes, chunks of 64, 4 blocks, 6 requests of 4 sizes; pipeline: all programs of 4 instructions out of 10, the second also a nop, and every computation on 7 and -7, memory empty or with two words of data; assembler: all texts of 3 lines out of 12, or of 2 before the data; cache: 2 sets of 2, 5 accesses to 4 addresses, both policies; blacklist: 4 lines out of 5; sorts: arrays of up to 5; xFiber: nested `vcc`, `try`, `throw`, functions; server: 2 clients with 1 or 2 texts; 546 470 states | blocks tile the heap and payloads survive; the pipeline is in step with the single-step machine; the assembler's output is what the source says; the cache keeps what its policy says and loses no write; the most common words; sorted parts stay sorted; continuations agree with direct style; whole answers |

Why the bounds are enough. STCP: with a window of 2 and 3 bytes to send the
window shuts and opens again, a segment can be split, more than one segment is
on its way, the close can be requested behind a shut window, and the sequence
registers pass 5, so that they are compared and subtracted across a wrap. The
window register never comes to 8: that the 16 bits are enough is what
`WindowAccounting` says. The proofs then remove the bounds, for every modulus. The liveness run uses the smallest window, where
a lost unit of window stops the stream. Shell: two processes are what it takes
for two jobs to compete for the foreground, for SIGCHLDs to merge and for a
process ID to be used again while an entry of another job exists; job IDs to 3
pass the length of the list.

Router: two packets are what it takes for the packet thread to work on a request
that the timeout thread is giving up, and for an error to wait behind another
packet; with both hosts silent the chain of errors reaches the router's own
address; a table of one is full after one answer; the limit of two tries is
reached by both threads in every order. `CHECK_DEADLOCK FALSE` is there because
the model ends where the program has failed.

Programs: six requests are what it takes to grow the heap, split a block, free
two neighbours in either order and ask again; 176 bytes is full after two chunks,
so that refusals happen. Four instructions put a load or a branch, the one that
depends on it, and two that must be stalled or dropped into the pipeline
together; a byte has 8 values, so that sums wrap within a program, and there are
four registers, one of them for `jal`. Three lines have a label before and after what refers to
it with an instruction of variable size between. Three blocks compete for the
two ways of a set, in every order of reads and writes. The table of the blacklist
starts with one chain and doubles twice. Four and five elements reach every
exit of the two inner loops of the partition with equal keys; `msort_opt.c`
switches to insertion below four. Two texts show what the first one leaves
behind, and two clients that children do not mix.

`CHECK_DEADLOCK FALSE` stands in `Programs.cfg` since programs end. It also stands in `STCP_safety.cfg` and `STCP_refused.cfg`, where
a listener that refuses leaves the connecting side waiting for ever, and in
`JobList_jids.cfg`, where the list runs out of the job IDs of the bound.

### Fairness

`STCP`: weak fairness for each transport thread (`Connect \/ RecvSynAck`,
`RecvSyn \/ Refuse \/ RecvHandshakeAck`, `ControlLoop(p)`): a thread that can go
on does. Nothing is assumed of the applications. `ByteStream`'s own fairness is
implied and checked.

`Tsh`: strong fairness for what the main thread is busy with and for each
handler: signals may interrupt either again and again, so neither is enabled
continuously, but both get on between signals, as on a machine that runs the
shell at all. Nothing is assumed of the user or the children.

`Router`: weak fairness for the timeout thread and the clock, strong fairness
for the packet thread, which waits for a lock the timeout thread holds for a
moment in every second. Nothing is assumed of the hosts: they may never answer.

## 4. Disagreements found

Each of these is shown by a run:

* `stcp_refused`: `transport_init()` returns at line 128 after setting `errno`
  and never unblocks the application, against the comment at lines 70-75.
* `tsh_waitfg`: `fg` on a job that ends before line 360 reads `job->pid` is
  `waitfg(0)`, and `fgpid()` is 0 as well: the shell waits for ever.
* `tsh_stopped`: a stop that was already taken from `waitpid()` is recorded
  after `fg` or `bg` has set the state: a running job is listed as stopped.
* `tsh_full`: a child that did not fit in the list stops, and line 419 stores
  through NULL.
* `router_freed`: `sr_arpcache_queuereq()` returns a request that the timeout
  thread may free before `sr_arpcache_handle_arpreq()` has looked at it.
* `joblist_jids`: line 508 starts again at 1 without looking at the IDs in use.

The following have no run of their own. They are either actions of the model, or
mark the behaviours about which a property claims nothing.

**Router.** `PortUnreachable` drops its error when the sender's address is not
cached, and follows a NULL pointer when the sender has no route (the `else` of
line 297 belongs to the wrong `if`). `insert` does nothing to a full table,
although `sr_arpcache_init()` seeds a generator "to kick out a random entry".
`sr_findLPMentry()` never takes a default route (its mask is not greater than 0).
Only a TTL of 1 is answered with time exceeded (line 321): a packet that arrives
with 0 leaves with 255 (`Forward`).

**Shell.** A blank line, or a lone `&`, makes `builtin_cmd()` compare a NULL pointer
at line 285 (`BlankLine`). A ctrl-c that is forwarded before the child has
executed its program is lost (`Interrupt`): the child lives on, and keeps its
entry (`ChildHasEntry`; the liveness run types ctrl-z only). `fork()` that fails (line 186) is not
tested for: `addjob()` refuses the ID -1; `Fork` is only possible with a free ID.

**Allocator.** `mm_realloc()` that grows a block into a free neighbour leaves a rest
of 0 or 8 bytes as a free block, whose class is -4 or -1, and `insert()` then
writes outside the roots (line 268). It returns the block unchanged, and too
small, when the next block is free but too small as well (line 284). It copies to
NULL when `mm_malloc()` fails (line 277). `ReallocBreaks` is these three.

**Pipelined against single-step simulator.** `ForwardsNothing`: a branch leaves its
comparison, and `sw` its address, in the latch that is forwarded, under the
number of its `rt`; the next instructions take it for the register if the
branch is not taken. `JumpsOutOfTurn`: `jr` reads its register in `ID` without a
stall or a forward, and `jal` writes register 31 there, before older
instructions have written and even if a branch before it is taken.
`Unlike`: project2 keeps what is written to register 0 (a nop, which writes the 0
that is there, is compared), compares (`slt`) and shifts
(`srl`) without a sign and extends the immediate of `ori` with one, all other
than project3; and a jump to the end of the program leaves the pipeline at the
old `IF_PC`, where it goes on. Moreover a jump keeps the `DEST` of the instruction
before it, and an address outside the memory ends project3's simulator and is
ignored by project2's.

**Assembler.** `strncpy()` into the buffer of a label copies no zero (line 508): a
label that is shorter than one before it gets the rest of that one (`Overlaid`).
The size of `la` is that of its symbol's address only if `.data` comes before
`.text` (line 523). Negative hexadecimal constants are read as 0 (`Constant`).
Sources that meet one of the three are `odd`.

**Cache simulator.** With one set and blocks of one byte line 75 shifts by 32, which
is undefined; the run has larger ones.

**Blacklist.** `curcnt / cursize < LOADFACTOR` divides integers, so the table grows
only when it has as many nodes as chains. `resize()` does not clear the new
table: its memory is fresh from the system, and zero, only because of its size.
A line longer than the buffer is split, and the last character of each piece (or of
an unterminated last line) dropped (`pieces`). More words asked for than there are
makes `print()` read past its array. `freeall()` of `blacklist.c` frees the chains
below `HASHSIZE` only.

**Sorts.** `msort()` of `msort.c` with no elements calls `mergesort()` up to
`SIZE_MAX`. `quick()` with random pivots copies the array and then sorts the
original ten times, nine of them already sorted (`Again`).

**Server and client.** A header is taken to come in one `recv()`: otherwise the
process goes on with what was in its memory (`broken`). A client that closes
within a text leaves a child that calls `recv()` for ever (`ChildBody`). The handler
of SIGCHLD reaps one child however many have ended (`Reap`). `recv()` is given the
size of a pointer, not of the buffer. A negative `-s` becomes a 16-bit number above
65510, which is 16 more modulo 26 than it should be: such a client's text is
enciphered wrongly, and `ScriptAssumption` leaves it out. The client prints up to a zero that nobody
has written behind the text; fresh memory has one.

## 5. Proofs

Each invariant below was first checked by TLC on the instances of section 3.
Only STCP's is part of a run; the others (`IInv` of `TshInv` and `RouterInv`,
`CacheInv`, `EchoInv`, `SortsInv`, `TraceInv`, `MipsInv`) would repeat there what the theorems say
for every instance. `TraceInv` says that there are two sets, which TLC was given as
functions of the heap.

### STCP

`STCP_proofs` proves, for every window, segment size, amount of data and
modulus, and any first segment at the listener:

| Theorem | Property |
|---|---|
| `Invariant` | `Spec => []IInv` |
| `TypeCorrect` | `[]TypeOK` |
| `Integrity` | `[]StreamIntegrity` |
| `FlowControlled` | `[]FlowControl` |
| `WindowAccounted` | `[]WindowAccounting` |
| `EofOrdered` | `[]EofAfterAllData` |
| `Graceful` | `[]GracefulEnd` |
| `Synchronised` | `[]InSync` |
| `FinOnce` | `[]OneFin` |

Assumptions: the two peers differ; `WINDOW + 1` is below both moduli (3073
against 2^16 and 2^32); the sizes are natural numbers, `WINDOW` and `MSS`
positive; a stray first segment is not a SYN.

None of the properties is inductive: that an application reads a prefix, for
instance, depends on what is in the segments on their way. `IInv` says for each
direction that the segments form a chain from the receiver's `recv_ack` to the
sender's `send_seq` (`ChainInv`), that each carries the bytes its sequence
number says and an acknowledgement between what its reader knows and what its
writer has received (`SegmentInv`), how the registers follow from the bytes and
the FIN (`RegisterInv`), what the window is (`WindowInv`), what each connection
state says about the other end (`StateInv`), and which bits a snapshot may hold
(`EventInv`). Two parts are worth knowing. A segment without data or FIN always
acknowledges more than the one before it: hence, once everything is sent and
acknowledged, nothing more is on its way, which is why a loop that ends leaves
no segment unread. And while the peers are not linked, nothing but handshake
segments exists (`HandshakeInv`).

The proof has a lemma for each action. Those of the control loop share lemmas
on how a direction's chain changes when a segment is added (`FlightAppend`),
read (`FlightTail`) or left alone (`FlightSame`).

It also proves the refinement step by step. `StreamsDelivered` is
`Spec => DeliversByteStreams`: under the mapping, the initial states are initial
states of `ByteStream`, and each step is one of its steps (`Open`, `Write`,
`Close`, `Deliver`, `Eof`, `Return`) or leaves the two streams alone. Most steps
of the control loop are of the second kind (`LoopUnseen`). What needs an
argument is that bytes handed over are the next of the stream (`NextBytes`), that
the end comes after the last byte, and that a peer returns after both ends: all
three are `IInv`, before or after the step. The fairness of `ByteStream` is not
part of this theorem; the run `stcp_liveness` checks it.

### Shell

`Tsh_proofs` is about any number of process IDs, any length of the job list, any
limit of job IDs, and either key, both or none:

| Theorem | Property |
|---|---|
| `ShellInvariant` | `Spec => []IInv` |
| `TypeCorrect` | `[](TypeOK /\ HandlerInv)` |
| `EntriesNameChildren` | `[]EntryHasChild` |
| `OneForeground` | `[]AtMostOneFG` |
| `KeysStayInForeground` | `[]KeysSpareBackground` |
| `NothingUnreported` | `[]NoLostNotification` |
| `LegalTransitions` | `Transitions`, an action property |
| `ChildrenListed` | `Roomy`: `[]ChildHasEntry` |
| `HandlerSurvives` | `Roomy`: `[]HandlerReturns` |

Handlers interrupt the main thread and each other, so that an actor acts on what
it saw some steps earlier. `IInv` says what it may still rely on. A handler has
a frame exactly while it is on the stack, once (`HandlerInv`). The child that is
forked and not yet added is in the process table and not in the list, and a
stop of it has not been reported, because SIGCHLD is blocked; a job pointer is a
slot (`MainInv`). What `waitpid()` has told the SIGCHLD handler is still so: a process
reported as ended is free until its entry is deleted, one reported as stopped
is not (`ReapInv`). A stopped process that is listed as running is still to be
reported, is being marked, or is being continued by the main thread (`StopInv`).
Whatever can be reported has a SIGCHLD pending or its handler running
(`NewsInv`); this is what a merged signal must not break. `ListInv` and the
properties `EntryHasChild`, `AtMostOneFG` and `KeysSpareBackground` complete it.

`Roomy` says that the list has a slot for every process. It is a hypothesis of
two theorems only, and is needed: without it `addjob()` fails, nobody looks at
its result, and `HandlerReturns` is violated (`tsh_full`). `RoomInv` adds the two
properties to `IInv`; `RoomLemma` counts processes and slots.

### Router

`Router_proofs` is about any addresses, routing table,
packets and limit of tries, and every interleaving of the two threads:

| Theorem | Property |
|---|---|
| `RouterInvariant` | `Spec => []IInv` |
| `TypeCorrect` | `[]TypeOK` |
| `SweepIsSafe` | `[]QueueSound` |
| `PacketsSentOnce` | `[]SentOnce` |
| `UnreachableEarned` | `UnreachableIsEarned`, an action property |
| `RouterDelivers` | `Delivered`, the refinement of `Delivery` |
| `RetryBound` | `[]TriesBounded` |

Assumptions: a neighbour's address is not one of the router's own; packets do not
come from the router's own addresses; TTLs are bytes; the limit of tries and the
size of the table are positive. The router's interfaces and the hosts beside
them have different addresses in any network that works, and the code does
not provide for anything else.

`IInv` has a part for each thing a thread trusts. A request that a thread works
on, and has not been destroyed under it, is on the queue, and so is the one the
sweep goes on with, which is another one (`ThreadInv`): this is why the sweep is
safe although the packet thread may remove requests between its sweeps. Requests
are for different addresses, and each has a packet (`RequestInv`); packets are as
they arrived and wait for the right next hop (`PacketInv`); no packet is at two
places (`OnceInv`). `FateInv` ties what has become of a packet to where it is: one
of which something has become is still on the queue only if a thread is
giving its request up, and `GiveUpInv` says that this thread has made all tries
and still has to come to every packet without a fate. From these the
refinement follows in one lemma about steps (`SettlesLemma`): a step gives a fate
to one packet at most, and only to one that waited for it or has just arrived.

`RetryBound` needs an invariant of its own. `CountInv` adds to a request's count
the threads that have found it below the limit and have not yet counted
(`Asking`): the sum stays at most one above the limit, since the last thread to
enter found the count below it, and there is at most one other.

### Allocator

`Malloc_proofs` is about any size of the heap, of the chunks it grows by and of the
table of lists, any number of blocks and sizes, and every trace:

| Theorem | Property |
|---|---|
| `TraceInvariant` | `TraceSpec => []TraceInv` |
| `HeapIsAlwaysSound` | `[]HeapSound` |
| `DataIsAlwaysIntact` | `[]DataIntact` |
| `RefusedOnlyWhenFull` | `[]OnlyWhenFull` |

The properties follow tags and links from word to word, as the code does, so that
after a write anywhere they say nothing by themselves. `MallocInv` speaks of the
heap by two sets that are not in it: the blocks with their sizes, `S`, and those
among them that are on a list, `F`. The blocks tile the heap (`Tiles`); the tags
and the end mark say so (`Shape`); the links of `F` are lists, one for each class,
that start at the roots, agree in both directions and go round in no circle,
since a rank grows along them (`Chains`); no two neighbours are in `F`. What
the first block of a list has as its predecessor is not said: the code leaves it
stale, and does not read it. `TraceInv` says that there are such an `S` and `F`
for the heap (`HeapInv`), that the rest of `S` are the blocks of the trace, and
that these hold their data (`DataInv`) and are in the driver's range list
(`RangesInv`).

Within an operation the tags of some blocks are out of date: `mm_free()` has cut a
block loose before `coalesce()` looks at its neighbours, and `place()` unlists a
block before it splits it. `HeapState` therefore has a third set, the blocks whose
tags are still to be written, and each helper has a lemma from one `HeapState` to
the next: `Unlist`, `Enlist`, `SplitOff`, `Coalesce`, `Extend`, `Place`. `Spared`
is what all of them leave alone, the words of the blocks in use but for the last
tag; it is how data outlive the requests of others, and in `ReallocServes` the
copy of a block outlives the freeing of the old one. `Fit` says that the search of
the lists misses nothing: blocks of lower classes are all too small, and
`ListComplete` and `ListEnds` count the steps of a walk along a list against the
blocks the heap has room for. `PayloadsCount` ties the driver's total to the
number of bytes in use, whose ranges do not overlap.

The run checks `HeapSound`, which says of the blocks found by walking what
`HeapInv` says of `S` and `F`; `BlocksOfHeap` proves that the walk finds `S`.

Assumptions: the table has an even number of lists, or the heap would not start at
a multiple of 8, and at least 4, so that the smallest block has a list
(`ListAssumption`); a chunk is a multiple of 8 and can be a block, and the
heap has room for the first one (`HeapAssumption`; `mm_init()` fails otherwise);
the sizes in a trace are positive, as in those of the lab (`SizesAssumption`). Traces
end where `mm_realloc()` goes wrong (`ReallocBreaks`, section 4): there nothing is
claimed.

### Pipeline

`CS311_proofs` is about every program, any number of registers, width of a byte, place
and size of text and data, contents of the memory and limit of instructions:

| Theorem | Property |
|---|---|
| `PipelineInvariant` | `MipsSpec => []MipsInv` |
| `PipelineInLockStep` | `[]LockStep` |
| `PipelineHaltsTogether` | `[]HaltsTogether` |

The properties compare the two machines when an instruction leaves. What it
leaves behind was made over the four cycles before, from registers that older instructions
had not written yet. `MipsInv` therefore compares every stage with a
single-step machine that has run ahead. `PastMEM` is that machine when the instruction
in `MEM` has left, `PastEX` when the one in `EX` has. Of an instruction that has
passed `EX` the latch holds what it makes of the registers of that machine
(`BehindInv`); what has passed `MEM` is in memory or about to be in its register
(`MemoryInv`). What is in front of it is what that machine comes to next: unless a branch in `EX` has
gone the other way (`Missed`), `ID` and `IF` have the instructions at its PC and
behind it, or what is predicted to follow (`FrontInv`). The parts are nested, from the last stage
to the first, because each holds only if no instruction in the stages after it is
one that the two machines do differently (`Unlike`, section 4).

The other parts hold whatever the instructions in the pipeline are, also those
of a wrong path: a latch asks for what its instruction asks for (`MEM_WBInv`,
`EX_MEMInv`, `ID_EXInv`), the registers are those of the single-step machine
(`RegisterInv`), and register 31 is ahead of it while a `jal` is under way
(`LinkInv`). `PaceInv` counts the cycles by the last stage that is busy; `HaltInv`
says that a run ends at the end of the program.

The proof first says field by field what the stages of a cycle make of a state
(`MemoryFields`, `ExecuteFields`, `DecodeFields`, collected in `NextState`), and goes on from
these equations only. `Forwarding` is its centre: the operand that `EX` takes, from one of
two latches or from what `ID` has read, is the register of the machine that has
run ahead past both instructions before it; it rests on the stall after a load, and
on the choice of the younger latch. `FrontMissed`, `FrontIdle`, `FrontWaits`,
`FrontRedirected` and `FrontSequential` are the ways in which the front of the
pipeline moves.

What is claimed is claimed while `apart` is false, as of the run. Assumptions: a byte has
between 1 and 8 bits (`WordAssumption`; 8 in the code); registers 0 and 31 are
different ones (`RegisterAssumption`); the text begins above 0 at a multiple of 4 and
lies in the lowest sixteenth of the addresses, as from 0x400000 (`TextAssumption`: a PC
of 0 means a bubble, and a jump keeps the upper four bits); a program has an
instruction at least and fits the text, its immediates have 16 bits, its registers
exist, and the memory consists of bytes (`ProgramsAssumption`).

### Cache simulator

`CS311_proofs` is about any number of sets and ways, block size, trace and
either policy: `CacheInvariant` (`CacheSpec => []CacheInv`), `PolicyIsKept`
(`[]PolicyKept`) and `WritesAreSaved` (`[]WritesSaved`).

`PolicyKept` speaks of which blocks a policy would have kept, the code has ages
that every access to the set changes and resets. `CacheInv` connects them: of two
lines the one that has aged more is the one whose block was used earlier, no two
have the same age, and the counts are the numbers of uses (`Matches`). The ways of
a set are filled in order and a block is in the set and under the tag of its
address, in one line only (`Placed`), so that the search finds it if it is there.
Index and tag come from shifts; `AddressLemma` and its neighbours show that
together they determine the block.

Assumptions: the block size is a power of two; the sets times the block size is
at least 2, or a shift by 32 would be undefined (section 4); sizes, their
product and the length of the trace are `int`s. That `get_bit()` returns a power
of two that does not exceed the number of sets is assumed too: it is a fact of
arithmetic about every `int`, which TLC evaluates for the instance and which the
provers, who know nothing of exponents, cannot show.

### Server and clients

`Caesar_proofs` is about any number of clients, header, chunk and buffer size, and
any way the streams are cut: `EchoInvariant` (`CaesarSpec => []EchoInv`) and
`TextsEchoed` (`[]Echoed`).

`EchoInv` says where a text is. While a client waits for a header, its request is
whole in the stream up, or the child has the header and what it has read and
the rest of the stream up make the text (`HeaderInv`), or the answer is whole in
the stream down; while it waits for the rest, what it has and the rest of the
stream down make the enciphered text (`BodyInv`). The parts hold whoever has
gone: a client whose child is gone or was never forked gets nothing, and a child
without a client is of no interest (`OpenInv`). `WaitingInv` says that a
connection waits for `accept()` once, has no child yet and is open. A lemma for
each action speaks of one client's records only; `Others` says that the rest is
not touched. `Chunk` and `HeaderLemma` are the facts on sequences: taking a piece
from a stream to a buffer loses nothing, and a message is its header and its text.
`CaesarLemma` is the arithmetic: the two numbers the server adds rotate a letter
on, or back, including the difference `26 - shift` in 16 bits.

Assumptions (`ScriptAssumption`): a text fits the client's buffer, is not empty,
has no zero byte, and the shift is in 0..25, as the remainder of a number that is
not negative (section 4); two texts at most, since what the client prints behind
the second depends on memory it has used before.

### Sorts

`Sorts_proofs` is about every array, either merge sort and each of the four pivots:
`SortsInvariant` (`SortsSpec => []SortsInv`) and `SortedInParts`
(`[]PartsInOrder`). At the end no call is left to come, and then `PartsInOrder`
says that the array is a permutation of the one that came, sorted, and for the
merge and insertion sorts with equal elements in their old order.

That an element is in order for good cannot be seen from the two elements that a
step moves; it follows from where the calls to come may still move them.
`TaskInv` and `OrderInv` say that the calls have parts that do not overlap in
the order they come: one is left of the next, or within a half of what is then
merged. `Rearranged` is what all steps have in common: within a part every
element is one that was there, and outside nothing changes. `StepLemma` then
replaces the first call by those it makes (`Replaces`) in one argument for all
actions but those of `isort()`; of the calls to come, each still has in its part, or on its side of the
part, the elements it had (`Untouched`), which is what keeps equal elements in
their order. `SortLoop` and `MergeLoop` are the loop invariants: what `i` and
`j` have passed is on its side of the pivot, also where the indices meet at equal
keys or at an end of the part; `tmp` holds what has been passed, in order, and before
all that is left. `PivotPlaced` and `CopyBackStep` end the two loops.

Assumption (`ArraysAssumption`): an array has at least one element (section 4).

### Model-checked only

* Liveness: `EventualDelivery`, `EventualReturn` and the fairness in
  `ImplementsByteStream`, `ZombiesReaped`, `PromptReturns`, `Drains`. Fairness and
  `ENABLED` are beyond the prover.
* `Assembler` (`AssembledAsWritten`): what a symbol list holds and what a word of
  32 characters stands for are inductions over data.
* `Fiber` (`Agrees`): it has recursive operators, with which the prover loses its
  arithmetic, and what they compute is an induction over terms.
* `Blacklist` (`TopWords`): the table is a structure of chains, and what a walk
  along them yields is an induction over data.
* Violated properties, and everything that holds only of a bound.

## 6. Not modelled

* HTTP proxy (`EE323/lab2/proxy.c`): what decides its behaviour is outside the
  repository: the resolver, the web servers, the text of requests. Its children
  return to `accept()` after a request, and read into buffers that nothing
  initialises: a model would choose freely at most of its steps.
* Data lab puzzles (`CS230/datalab/bits.c`): straight-line functions of 32-bit
  words without any state, wider than TLC's integers; over narrower words their
  constants mean something else.
* Fabric (`CS320/fabric`): a type checker and an interpreter for a large
  grammar. What goes wrong there depends on deep terms, which cannot be
  enumerated.
* The parsers of the interpreters (`Expr.scala`) and of the shell's command
  line, and the reading of the assembler's lines: text, taken as already split.
* The child programs of the shell lab: only what they do to the shell (end,
  stop, be signalled) is in `Tsh`.
* Harnesses (`btest.c`, `sdriver.pl`, the timers), front ends, notebooks and data.
  Of `mdriver.c`, the judging of traces is modelled; timing and reports are not.

## 7. Plan

Done: STCP, the shell and the router with their abstract specifications; the
allocator under its driver; both MIPS simulators and the assembler; the cache
simulator, the blacklist, the sorts, the interpreters and the server. Proved:
every safety property of STCP, the shell, the router, the allocator, the cache
simulator, the pipeline, the sorts and the server, that the router implements `Delivery`, and
that STCP implements `ByteStream` but for its fairness.
