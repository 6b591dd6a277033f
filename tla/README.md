# AIPL in TLA+

AIPL is a small s-expression language with a resolver, generics, a checker, an
interpreter (`src/vm.rs`), a WebAssembly compiler (`src/compiler/wasm.rs`), native
back ends written in AIPL (`aipl_src/native`), a wasm runner (`src/bin/aipl_run.rs`)
and a standard library written in AIPL (`aipl_src/std`). Two things in it are hard to
test. One is underneath every program that has threads, processes or sockets: the
locks, the thread records, two layers of allocator and the host's tables, which exist
two or three times and are meant to behave the same everywhere. The other is that
every program has two meanings, the interpreter's and the compiled code's, with five
rewritings before either, and they have to be one. This directory models both.

    concurrency                                   the language

    Mutex <--implements-- FutexLock   (proofs)    Language = Programs, Projects, Templates
    Mutex <--implements-- VMThreads   (proofs)      Resolver   (Projects) (proofs)
                          BumpAlloc   (proofs)      Generics   (Templates)
                          CompiledThreads (proofs)  Consts, Lowering, Checker
    Allocator <--implements-- Heap    (proofs)      Interp     | both over Syntax, Words
                          SizeClasses (proofs)      Codegen -> WasmMachine
    Host = HostProcs | NetRelay | ServeFresh | VMThreads   (proofs)
                          HostNet     (proofs)

`tlc -config X.cfg M` checks a run (the runs and their modules are listed below and in
`PROJECT.json`); `tlapm M_proofs.tla` checks the proofs of a module.

## Inventory

### Modelled: underneath the program

**Lock words** (`atomic.lock`, `atomic.unlock`; AIPL_SPEC.md 4.D).
- State: one i32 in shared memory, 0 free, 1 held; in compiled code also the threads
  asleep on its address.
- Operations: compiled code (`compiler/wasm.rs`, `OpCode::AtomicLock`,
  `AtomicUnlock`) loops compare-and-swap then `memory.atomic.wait32`; unlock is a swap
  and then a notify of all. In native executables wait and notify are futex calls
  (`aipl_src/native/lower.aipl`, `emit_futex_wait`). The interpreter (`vm.rs`) tests
  and sets under a mutex and spins with a yield.
- Hard: the gaps between swap and notify, and between compare-and-swap and wait; waits
  that signals cut short; a word that is neither 0 nor 1; a thread that unlocks
  what it does not hold.
- Correct when: one thread at a time is inside; no sleeper is forgotten; a free lock
  that is wanted is taken; the traps never fire on a disciplined program.

**Bump allocation** (`mem.alloc`, `mem.grow`, the records of `thread.spawn`).
- State: the cursor (the word at address 0), the size of memory.
- Operations: an atomic add claims a block; then, without a lock, the cursor and
  `memory.size` are loaded, compared, loaded again, and memory is grown by the
  difference in pages (`emit_grow_or_stop`; `emit_grow_to_cursor` for thread
  records, which drops a failed grow).
- Hard: every load is stale by the time it is used; the difference may be negative in
  unsigned arithmetic; a claim is added before it is known to fit.
- Correct when: blocks never overlap; a block that is returned is in memory;
  "out of memory" is reported only when memory is out.

**Threads of compiled code** (`thread.spawn`, `thread.join`, `wasi_thread_start`).
- State: a record `[done result fn arg]` in shared memory for each thread; the host's
  threads; the process.
- Operations: spawn makes the record and asks the host for a thread; a worker stores
  its result, then `done`, then notifies; join tests `done` and waits on it, and
  then reads the result. Hosts: a native executable (`native.aipl`,
  `emit_thread_spawn`, `proc_exit`), or the runner (`aipl_run.rs`, `thread-spawn`).
- Hard: joiners between test and wait; many joiners; a worker that traps, exits,
  or cannot be started, while others wait for it.
- Correct when: a join returns the worker's result and only after it; nobody waits
  for ever; a failure anywhere ends the program.

**Threads of the interpreter** (`vm.rs`, `ThreadSpawn`, `ThreadJoin`, `spawn_child`).
- State: each VM's `thread_handles`; a worker's outcome, `Ok` or `Err`.
- Operations: spawn puts the handle in the spawner's table; join takes it out (so a
  handle is joined once, by its spawner) and passes a failure on.
- Hard: failure is a value that waits for a joiner, where compiled code stops at once.

**The heap** (`aipl_src/std/heap.aipl`), the allocator with per-object free that every
collection uses.
- State: the `Heap` struct (lock, a free list for each of 107 size classes, the
  current chunk, three counters), the 8-byte headers before blocks, the links and
  junk inside freed blocks.
- Operations: `raw` (reuse or `carve`, header, zeroing, counts), `free_raw` (three
  checks on the header, then header, junk, link, counts), `written_after_free`.
- Hard: the checks of `free_raw` come before its lock; reuse of a block for another
  size, heap or owner; the boundaries of chunks, junk and zeroing.
- Correct when: no two blocks held overlap; free lists are lists of freed blocks of
  their class; no block is lost; counts are right; misuse is reported before it
  corrupts anything; a correct program is never accused.

**Size classes** (`class_of`, `class_size`): i32 arithmetic with shifts. Correct when
`class_of` returns, for every size `raw` accepts, the smallest class that holds it.

**Processes of the hosts** (`sys_procs.rs`, used by `vm.rs` and the runner).
- State: a table of pipe handles and one of process handles; of each process a status
  under a mutex and a `reaped` flag; the system's processes and pipes.
- Operations: spawn, wait, try_wait, kill, read, write, poll, exec, close.
- Hard: calls keep an `Arc` and go on without the table; `wait` sleeps with the status
  locked; a kill between a reaping and its note; copies of pipe ends.
- Correct when: every call whose end the world allows returns; a status, once given, is
  the program's and stays; bytes are neither lost nor repeated.

**Sockets of the hosts** (`net.rs`).
- State: the table of listeners, plain and secure connections; descriptors, which the
  system uses again; a lock for each secure connection.
- Operations: listen, connect, accept, tls_connect, recv, send, poll, close.
- Hard: poll keeps bare descriptor numbers; recv sleeps on a clone; tls_connect takes a
  stream out of the table and puts another in.
- Correct when: what was closed stays closed; what a peer sent arrives; poll answers
  for the connection it was asked about; every call that can return does.

**Connections by name of native executables** (`bin/aipl_net.rs`, `std/net.aipl`): a
relay program between two pipes and a connection. Correct when bytes keep and flow both
ways, whoever stops first.

**Fresh instances** (`aipl_run.rs`, `serve_fresh`): a new instance for each connection.
Correct when a client gets its own answer, whole, or the bare 500, and every client is
served though instances trap and clients leave.

### Modelled: the way of a program

**Resolver** (`resolver.rs`). Files that import files, depth first and each once; every
name is rewritten with its module before it; what a module does not show is refused in
names, fields, type arguments, values and exposed types. Hard: one file by several
paths, aliases and modules of one name, and a list of modules taken while it still grows.

**Generics** (`generics.rs`). Templates are made once at placeholders and checked there,
then the program and each instance it makes are walked. Hard: what `archetypes` lets pass
has to be good for every application; instances that make instances; interfaces with
implementations in several modules.

**Constants** (`consts.rs`). Constants in terms of constants, folded and put in. Hard:
the arithmetic at its boundaries, written here a second time; cycles and order.

**Scopes and lowering** (`scopes.rs`, `formats.rs`). A local that is declared again gets
a name of its own; `try` becomes a match with a return, and `defer` becomes its
statements before every way out. Hard: returns in operands, in loops and in branches;
the value that is returned is computed before the defers.

**Checker** (`checker.rs`). The types of expressions, with branches that leave.

**Interpreter** (`vm.rs`). Evaluation with a *pending jump*: a break or return is a flag,
what encloses it goes on with void operands, and its errors are thrown away.

**Code generation** (`compiler/wasm.rs`). Values of several scalars in groups of locals,
structured branches and jumps, contracts, pointer checks, and loops in two versions, of
which one has its checks before it.

### Not modelled

| component | what is hard, and what would make it correct |
|---|---|
| Generations (`std/gen.aipl`) | the counter skips reserved values by mapping them to 1, which it reaches too; `retire` checks and stores without a lock. An object is retired once |
| Default allocator (`std/alloc.aipl`, `std/arena.aipl`) | two first users: all must end with one heap |
| Processes of native executables (`native/procs.aipl`) | 64 slots without a lock: a slot published before its pid; close under a waiter; two waiters |
| `std/proc.aipl` | SIGTERM, poll, SIGKILL against a program that ends by itself |
| Sockets of native executables (`native/sockets.aipl`) | check, then transfer, against close and reuse of a descriptor |
| HTTP (`std/serve.aipl`, `std/http.aipl`, `native/fresh.aipl`) | requests in pieces; a fork and a pipe for each request |
| Thread helpers (`std/thread.aipl`, `std/par.aipl`) | the pieces cover the array exactly once |
| Collections (`std/map.aipl`, `vec`, `set`, `buf`), streams | a table of tombstones; growth between probe and insert |
| Leak analysis (`leaks.rs`) | the fixed point is reachability |
| `watch` (`watch.rs`) | a file that changes between being read and being stamped |

Left out for good, with the reasons in `PROJECT.json` "components": the parser and
printer, the self-hosted twins of the Rust (held equal to it by tests), the encoding of
machine code, the text, number and format modules of the library, the command
drivers and the bootstrap.

Of the components that are modelled, these parts are left out: floats, `str`, narrow
integers and byte-level memory; `ptr.cast` without its check of the generation; results
in results; locals of input and output; `inv` contracts; the check of write addresses
(the programs here have no others); in the resolver interfaces, tests, match arms and
field paths of several steps; in generics positions and the parsing of signatures.

### How the parts interact

A program's `heap.raw` takes a lock word (FutexLock, or VMThreads' lock), finds or
carves a block, and on a new chunk calls `mem.alloc` (BumpAlloc). `thread.spawn`
claims its record from the same cursor without going through `mem.alloc`.
`thread.join` and `atomic.lock` share wait32/notify. A contract failure anywhere is
a trap in compiled code, which the host turns into the end of the process
(CompiledThreads), and an `Err` in the interpreter, which ends the thread and
is kept for its joiner (VMThreads).

`Module::resolve` (`resolver.rs:193`) makes a flat program of files, has its archetypes
checked, expands generics (which renames locals on its way out) and constants, and
lowers what checks; the drivers check the result, and run it or compile it. Each
of these hands a tree to the next and keeps nothing, which is why Language may let a
behaviour go through the names (Resolver), or the types (Generics), or the expressions
(the rest) of a program.

The host's process table, the relay, the server of fresh instances and the
interpreter's threads share no state: Host runs them side by side, one in a behaviour.

## The modules

### Concurrency

**Mutex** is the abstract lock: an owner, and the threads that want it. It
promises exclusion and, under its fairness, that a free and wanted lock is taken by
*somebody*; neither implementation promises to whom.

**FutexLock** has one action per atomic instruction: `Try` is the
`i32.atomic.rmw.cmpxchg` with its two branches and its trap, `Wait` the comparison
and sleep of wait32 (one atomic step: that is the promise of a futex),
`Unlock` the swap with its trap, `Notify` the notify; `Interrupted` is the
spurious wakeup that `emit_futex_wait` reports as woken. Threads in `rogues` (chosen
in `Init` from `Undisciplined`) may also unlock without holding, or store data in
the word (`Scribble`: it is not in the code, but what a faulty program does).

**BumpAlloc** has a program counter for each thread through claim, load, compare, reload,
pages, grow, use; a spawned thread first claims its scratch cells (`ClaimScratch`).
`GrowBytes` keeps the wrap of the subtraction and the
unsigned shift. `kind` tells a `mem.alloc` (stops on a failed grow) from
a record's claim (ignores it; then the write of the record may trap) and a scratch claim
(ignores it too, and writes nothing until a later host call). Memory is
counted in bytes; `Page`, `Modulus`, `MaxBytes` and `Align` are constants.

**CompiledThreads** has the record of each worker, the worker's three stores and
the joiner's loop as separate steps, and what the host does at the end
of a thread (`HostEnds`: all of the program ends, or, under the runner, a thread that
exits with 0 or unwinds only `left`). `host` is chosen initially, so that one run covers
both. A thread spawns and joins only threads with higher numbers: a
program that joins in a cycle waits for itself, which is its own mistake.

**VMThreads** has handle tables, the spin lock, and failure as a state of a
worker that its joiner meets. `FailsAt` says where a contract may fail:
outside the lock, or with it held.

**Heap** is concrete where it matters: memory is a function from 8-byte cells to
what they hold (header, link, junk, zero, data), so a free list *is* the links stored in
freed blocks and a wrong link is a wrong link. The steps are call, lock, take
(reuse or carve), fill, unlock for `raw`, and call, check, lock, put, unlock for
`free_raw`; the body under the lock is cut only where the properties look, which
is sound because nothing outside the lock reads the heap struct, and `free_raw`'s
check, the one unlocked read of a header, is a step of its own. The lock
itself is atomic here; FutexLock is the reason. `mem.alloc` of a chunk is atomic
and contiguous here; BumpAlloc is the reason for the first, and for the second
another allocation between two chunks would only leave a gap. Faulty programs
are given by `Misuse`: `"again"` (double free), `"race"` (double free by two threads at
once), `"wrong"` (another size or heap), `"write"` (write after free to the
checked words), `"link"` and `"spare"` (to the words the code does not check).

**Allocator** is what a heap promises: a set of disjoint intervals.

**SizeClasses** runs `class_of` with its loop as steps, in W-bit wrapping arithmetic with
shift counts modulo W, and relates it to `class_size`.

**HostProcs**, **HostNet**: a call is cut where the code lets go of a lock or goes into
the system: look up, lock a status or a secure connection, the system call, the
note of what it gave. `TakeStatus` and `TakeLock` are the acquisitions. The other side
(programs that run, write and exit, pids and descriptors that are used again, peers
that send and close) is modelled as actions of its own, with no fairness.

**NetRelay**: the program, `aipl-net` and the host beyond it, with bytes counted in each
pipe and buffer. **ServeFresh**: the accept loop, the instance with its kept output
and its end (0, failure, trap), the clients.

### The language

**Syntax** is `ast.rs`'s expressions, with children in evaluation order, and the layout
of the types the programs use (a struct `P` behind a pointer, a value struct `V` of an
i32 and an i64, a value in a value, a union in a union, results). **Words** is Rust's
integer arithmetic at any width.

**Interp**, **Codegen**, **Checker**, **Lowering**, **Consts** are the functions of
`vm.rs`, `wasm.rs`, `checker.rs`, `scopes.rs` and `formats.rs`, `consts.rs` as
operators, one per function or match arm. Interp's state has the pending jump as the
code has it, and does not cut evaluation short where the code goes on. Codegen makes
instructions; **WasmMachine**, which is not part of the repository, validates them (each
instruction's operands, labels, locals) and runs them. Addresses
hold scalars, and a pointer is `gen * Word + address`.

**Language** is the pipeline: a stage for each function (`ExpandConsts`, `Check`,
`LowerIt`, `Interpret`, `Compile`, `Execute`), on programs that **Programs** makes.
A refused program stops where it is refused. `Meant` is a third reading of a program, as
it is written, without renaming or lowering: a defer is noted when it is reached.

**Resolver** has the work list of `resolve_import` as a stack, an action for each
outcome of reading an import (`Enter`, `Again`, `Circular`, `NotFound`, `TwoOfOneName`)
and one for a finished module (`Emit`: check it, rename it, add it to the flat
program). The code keeps the program in two lists, types and constants before functions,
and what it knows of what has been read in two records; here each is one. `IsProject` is
what parsed files are like: lists of imports and items, no two items of a name (the checker
refuses others), and of forms, each with what its kind is written with. **Projects** makes files. The entry is not among the files in progress, so
"main" may be imported again as a module; the code is so.

**Generics** has `expand_with` twice, for archetypes and for the program, with an action
for each item of its work list. A type is its tokens in preorder, and an
instance's name is its application. **Templates** makes the programs.

Every module with properties has, before its actions, *faulty variants* of some of them:
the bugs one could plausibly have written. `PROJECT.json` "mutants" pairs each property
with the variant that breaks it, so no property is there that cannot fail.

## The runs

| run | instance | what it shows |
|---|---|---|
| `FutexLock` | 4 threads, one possibly rogue | `MutualExclusion` and `ImplementsMutex` (with liveness) for disciplined programs; `NoLostWakeup` for all |
| `BumpAlloc` | 2 threads, pages of 4 bytes, memory of 4 pages, requests of 1 and 10, records of 4, scratch cells of 6, `mem.grow` on | `BlocksDisjoint`, `BlocksInMemory`; `CursorNeverWraps`, which the two rest on, for these sizes |
| `Heap` | 2 threads, 1 heap, 2 classes, 12 cells, chunk of 6 | for correct programs: no block is lost and counts are right, blocks are zero, nobody is accused, and `ImplementsAllocator` |
| `HeapMisuse` | 1 thread, 2 heaps, 8 cells, double free, wrong size or heap, write after free | a faulty program is stopped before a block is handed out twice or a free list is corrupted |
| `SizeClasses` | W = 16, every request `raw` accepts (to 28664) | `SmallestClass`, and `class_of` returns for exactly those to `Largest` = 2^14 - 8 |
| `CompiledThreads` | main and 2 workers, two results, both hosts | joins return the right result; a failure that ends the program ends it though others wait (`FailuresAreSeen`); who joins a worker that has come to any other end gets on |
| `RunnerExit` | the same, the runner | **violated**: finding 1 |
| `HostNet` | 2 threads, 2 sockets on 2 descriptors, one data item and one empty one a peer | `ClosedStaysClosed`, `NothingLost`, `PollIsTrue`, `CallsReturn` |
| `Host` | 2 threads on one program with two pipes of one byte; the relay with 3 bytes to send, and answers without end, through pipes of 2; 2 clients, answers up to one unit past the cap; main and 2 workers | statuses, bytes and answers are kept; calls, bytes and clients go on; the interpreter's lock implements `Mutex` |
| `Language` | 10,618 programs, 4,440 projects, 7,184 generic programs | see below |
| `JumpInOperand` | jumps in operands of `sys.print`, put and arr.set | **violated**: finding 2 |
| `UnimportedName` | modules that name what they do not import | **violated**: finding 3 |

`Language` checks, of every program on every input: constants mean what their
definitions mean, and are refused only for a fault (`ConstantsMeanTheirValue`); one
declaration, one name (`DeclaredOnce`); renaming and lowering keep the meaning
(`LoweringKeepsMeaning`); what the checker accepts never gets stuck in the interpreter
(`NeverStuck`), compiles to valid code (`AcceptedCompiles`), and does the same both ways:
output, memory, result and kind of failure (`CompiledAsInterpreted`); no freed object is
read, in a loop whose checks were moved before it either (`NoStaleAccess`). Of every
project: each item once, every name the item meant where it was written
(`NamesMeanTheSame`), and refusals for their cause (`RefusedForCause`). Of every generic
program: an instance for what is applied, once, and no other (also in `NamesMeanTheSame`);
and once archetypes are through, no template is at fault (`TemplatesCheckedOnce`).
`EachInstanceOnce` and the readings in Projects are written from what is meant
(closures over the program as text), without the work lists of the code.

Why these bounds are enough. *FutexLock*: an owner about to notify, a sleeper, a
barger and a rogue are four roles; a fifth thread repeats one of them (and the
safety part is proved for any number). *BumpAlloc*: two threads suffice for every
pair of stale loads, the sizes are chosen so that one request fits in what is left of a
page, another crosses two pages, two large ones cross the limit, and a grow by
another thread can put memory past the loaded cursor. *Heap*: in cells of 2 bytes a
request of 2 takes one cell of a block of two, and leaves one spare, and a request of
5 fills a block of three but for a byte. `HeapMisuse` adds a request of 3 bytes, which
shares the class of two cells with the request of 2, so that a block is reused for another
size and the cells that are junked, checked and zeroed differ. Two chunks fit, and a
chunk runs out with a rest that is abandoned. *SizeClasses*: all that
`raw` accepts, at half the width; the shape of the arithmetic (three small classes, four quarters
for each doubling, the sign bit) does not depend on the width. *CompiledThreads*,
*VMThreads*: main and a worker can both join the second worker, a worker can fail
while another waits for it. *HostProcs*, *HostNet*: a call of one thread is in any of its
gaps while the other makes any number of calls; one program (with one pid) and two sockets on two
descriptors make reuse happen. *NetRelay*: three bytes through buffers of two fill
every buffer on the way out; the host's answers have no bound but room on the way
(`answered` counts those the program has not received). *ServeFresh*: an instance follows one that ended in any way.

*Language*. An i32 has 8 bits and an i64 16, so that every sum, product and shift of the
`numbers` is at a boundary of both; `Word` = 256 keeps the generation and the address
of a pointer apart; `Fuel` bounds a loop that runs on (`NeverStuck` says that none
does). n is 0, 1 or 2, and a pointer is live, stale or null. The families:
`jumps` (break, continue and return in every place an expression has, in
each kind of loop), `values` (made, passed, stored, matched and returned, alone and
one in another), `pointers` (loops over pointers and arrays that something in
them frees, assigns or passes on), `exits` (defers, tries and contracts before
every way out), `mixed` (two of these at once), `numbers` (each operation at each
boundary, 1,196 programs) and `constants` (3,568, of which 3,053 are
refused, as they should be). A text that is printed stands for a number. *Projects*: an entry that imports up
to two of five files, which import one another (`graphs`); every item a module has and
every way to use it, from three places, with an alias and without (`uses`); every item
that shows another (`exposed`). A second module of the same items with the opposite
marks shows that it is the right module whose marks count. *Templates*: a template that calls a
template with a type made from its own, under every pair of clauses, at eight types
(`chains`); every form that takes a type, in a template and in main (`usings`); interfaces and
implementations as they may and may not be (`declared`). `MaxName` = 7 tokens stops
runaways after three levels, and `MaxInstances` = 12 is more than any program here makes
without being one; `Depth` = 4 is deeper than their values.

Programs known to be read in two ways (below, *Known divergences*) are not in these
families, but for `operands` and `unnamed`, which are two runs of their own: one
counterexample would hide the rest.

Deadlock is not checked (`CHECK_DEADLOCK FALSE`) because all these systems may stop:
the program ends, a memory is used up, a worker's callers are done.
That something must go on is said by the liveness properties instead.

### Fairness

- *FutexLock*: weak fairness of each thread's own steps, from its compare-and-swap
  to its notify, and of the unlock of a thread inside: the operating system runs
  threads that can run, and a critical section ends. Calling
  `atomic.lock` and spurious wakeups are owed by nobody. No thread is promised the
  lock, since the code has no queue.
- *Mutex*: what follows from it: a wanted free lock is taken, owners give it back.
- *CompiledThreads*: the steps inside spawn, join and the end of a thread, for each
  thread. What the program decides (to spawn, to join, to return, to fail) is not.
- *VMThreads*: the steps inside join and the lock.
- *SizeClasses*: the loop goes on.
- *HostProcs*, *HostNet*: weak fairness of each thread's steps inside a call, and strong
  fairness of taking the lock of a status or of a secure connection: the
  standard library's mutexes are futexes, and a waiter that finds them free again and
  again gets them in the end. Programs, peers and the decision to call owe nothing, so the
  properties say "returns, or waits for what the world has not done".
- *NetRelay*: the relay's own steps, the step of a call the program has made, and the far
  host reading what arrives.
- *ServeFresh*: the host's steps, that an instance ends, and that a client that connected
  asks. Without the second, nothing is promised: the host runs one instance at a time. An
  instance may write, leave things open and end before it has read anything; that it ends is
  owed only when its input has come, since it may wait for that.
- *BumpAlloc*, *Heap*, *Language*: none; they have no liveness property.

## What is proved

All for every value of the constants, from the named assumptions about constants in the
modules (which TLC evaluates on the runs) and the hypotheses named here. TLC checked
each inductive invariant on the run of its module before it was proved.

- `FutexLock_proofs`. `TypeCorrect`. `NoWakeupLost`: that a sleeper on a free word
  has somebody about to notify is inductive with the type invariant alone, since
  `Unlock` frees the word and enters `notify` in one step, and `Wait` compares and
  sleeps in one; it holds with rogues. `MutualExclusionHolds` and
  `DisciplineSuffices`: exclusion is not inductive (nothing in it says that the word is
  1 while a thread is inside, so `Try` could let a second one in); `LockInv`
  adds that the word is 1 exactly while somebody is inside. `ImplementsMutexSafety`:
  every step of a program without rogues is a step of `Mutex` or leaves it alone
  (Try with the word free is `Take`, Unlock is `Give`, the rest of the loop stutters).
- `BumpAlloc_proofs`. `ConcurrentAllocationSafe`: `BlocksDisjoint` and `BlocksInMemory`
  (and types) for any threads, sizes, page and limit, **under the hypothesis
  `CursorNeverWraps`**; `ReturnedBlocksInMemory` is its second half, that a block
  `mem.alloc` returned is in memory to its last byte, on its own. The invariant says that
  everything claimed ends at or before the cursor (`BelowCursor`) and that what a thread
  has loaded, or will grow by, covers its own block (`Covered`): the cursor and memory
  only go up, so a stale load is still enough. `GrowEnough` is the arithmetic: growing by
  `GrowBytes(c, s)` from `s` or from more covers `c`, also in the case where `s` is past `c`
  and the subtraction wraps. The hypothesis is needed: without it claims
  of nearly 2 GiB made by several threads at once wrap the cursor, before any of them has
  found out that memory cannot grow, and later blocks overlap earlier ones.
  `CursorKeepsBelow` says when it is met (`RoomFor`): if the memory limit, and for each
  thread the largest request and its scratch cells, are together below 2^32. The cursor may pass the
  limit, but a block past it is never handed out, so every such block is one that a
  thread is claiming, and that thread claims no other: `AboutToWrap` has the cursor past the
  limit by at most a block for each thread in `Past`. Scratch cells are handed out past it
  too (nothing is written to them), but once to a thread: `Begun` counts those. Then all of
  `ConcurrentAllocationSafe` holds with nothing assumed of the behaviour.
- `CompiledThreads_proofs`. `JoinsAreRight` and `NoJoinerSleepsOn`, for any number
  of threads, results and either host. `RecordInv` ties the stores of a worker to its
  place (returned, then flag, then notify), `JoinerInv` says that a joiner reads
  only when `done` is set.
- `Heap_proofs`. Seven results, from one invariant, `HInv`:
  - `BlocksHandedOutOnce` (`HandedOutOnce`), `BlocksReturnedZeroed` (`ReturnsZeroed`),
    `WritesAfterFreeAreReported` (`WriteAfterFreeReported`), `CorrectProgramsPass`
    (`NoFalseAlarm`), `FreeListsAreSound` (`FreeListsSound`), `NothingIsLost` (`NothingLost`:
    no block is lost, and live and live_bytes are what the program holds), and `HeapIsAllocator`
    (`ImplementsAllocator`: the step of a raw that finds its block, `TakeFreed` or `Carve`, is
    the Allocator's `Allocate`, the `Put` of a free_raw its `Free`, the rest stutters).
  - None of them is inductive. `HandedOutOnce` says nothing of blocks that nobody holds, so
    the next `TakeFreed` or `Carve` could give out anything. `HInv` says what the memory is cut
    into: every block, one being filled included, lies from its header to the end of its
    class, apart from every other and from what is left of each heap's chunk, below `brk`
    (`Rests`, `Layout`); a LIVE header has one user, the program or one call (`Owners`,
    `OneUser`); a FREED one that nobody fills is on the list of its heap and class, linked
    from its head or from exactly one other (`Links`); a freed block holds the junk pattern
    unless it was written to (`Junk`); who is past the lock has it (`Locks`).
  - That a list reaches all its blocks is said without recursion: every set that has the
    list's head and is closed under links has every block of the list. The walk of
    `FreeList` is then followed step by step (`WalkFollows`), ends because a walk that did
    not would meet a block twice (`WalkEnds`, by the pigeonhole principle), and covers its list.
  - The counts need one more conjunct (`Counts`): at every moment, calls under way
    included, live and live_bytes are the number and the sum of the LIVE headers. The sums
    are finite folds, and a section of the module proves what is needed of them (any order,
    unions, images), by least counterexample.
  - The hypothesis is `Detectable`: the misuses are among "again", "wrong" and "write", and
    the first two only with one thread; `NothingIsLost` allows "write" alone, since the
    counts leave out a call of free_raw that is about to be refused, and `CorrectProgramsPass`
    and `HeapIsAllocator` are about correct programs. It is what the code can tell: with several
    threads a pointer that was freed may be freed again just after the block was given to
    somebody else, and no header shows the difference; `"link"`, `"spare"` and `"race"` are
    misuses the code does not look for (see *Known divergences*).
- `SizeClasses_proofs`. `SmallestClassFound` (`SmallestClass`), for every width from 8 to 32
  bits and every request that raw accepts; the run has every request, but one width. `SizeInv`
  follows `class_of`: while the loop doubles, all smaller classes are too small
  (`Going`), and what it returns is the `Smallest` (`Done`). A request for which the loop never
  ends is never answered, so it is no exception to it, but one to `AcceptedIsFound` (see *Known
  divergences*). `QuarterSpareAtMost` is the comment at heap.aipl:20, that at most a quarter is
  spare. `ClassesServeTheHeap` is what Heap assumes of its classes: they rise, are whole
  words that an i32 can say, and every request has one. A power of two whose exponent is not a
  number is opaque to the provers, so `PowersOfTwo` gives them a table of the 33 that fit, and the
  rest follows from doubling.
- `Resolver_proofs`. For every project: any files, imports of any shape, cyclic too.
  `ItemsOnce` (`EachItemOnce`): a program that is resolved has every item of every file reached
  from the entry, each once, and no two under one name. `RefusedAsItReads` (`ReadForCause`):
  imports are refused only for a file that is not there, two modules of one name, or one beyond
  itself, each said of the files alone (`ImportsRight`, by the least closed set of files,
  `Closure`), and a program that is resolved has none of these, nor a public item that shows a
  private type. Neither is inductive: nothing in them says what the files in progress are, or
  that what is in is closed. `ReadInv` adds that each file in progress is beyond those below
  it (`Chain`: so an import of a busy file is a cycle), that what each has imported so far is in,
  or is the next file in progress (`Handled`: so what is past its imports has all of them in),
  that what is in is closed under imports and none of it beyond itself (`Done`), that a name is
  that of one known file (`NamesKept`), and that the program has the items of what is in, each
  once (`FlatSoFar`). When the entry is past its imports, what is in is then all its modules.
  `PrivateStaysPrivate` (`PrivateKept`): in a program that is resolved, a name that only an item of
  another file can have (`Clear`: its qualifier is an import's and no item of the file, and the entry
  is not called like one of its modules; for the rest see *Known divergences*) is that of an item
  which is public, whatever kind of form it is in, and a field reached through it is one that the
  struct shows, for writing where it is written. `Meant` says which item that is by the files and
  their imports; the checks go by the marks of what has been emitted so far. So `ReadInv` has that
  each mark is of an item of a file that is in (`Marks`), and that each file that is in has kept
  to it (`Kept`); `RenamedFor` ties the two: the module that an alias is rewritten to has the name
  of the file that the import found.
- `Host_proofs`. The parts of Host share no state. The module takes HostProcs and ServeFresh by
  INSTANCE (`Procs`, `Fresh`), proves what a step of each part keeps, and that a step of `Host`
  is, for each part, a step of it or none.
  - `OneStatus` (`StatusKept`): agreement of answers is not inductive, because an answer is
    given long after the status was read. `ProcsInv` follows the status through a call
    (`HoldsRight`: who is past the lock has it, and has noted the process before it stores the
    status) and a kill from its beginning (`KillsRight`: if an answer had been given, the process
    is noted).
  - `RelayKeepsBytes` (`BytesKept`): `OneBuffer` says that the relay's buffer is empty
    wherever it does not hand bytes on, `NothingMoved` that no byte moves before it has connected.
  - `AnswersAreOwn` (`OwnAnswerWhole`): `OneAtATime` and `NotYet` say whose answer is being
    made; `Tally` counts the connections taken up, and gives that the server ends.
  - `SpinLockIsMutex`: the safety half of the interpreter's `ImplementsMutex`. A thread that
    unlocks and one that fails inside both map to `Give`: the failing one leaves the word 1, so
    nobody takes the lock after it, which a Mutex allows. `OneInside` says that who is inside
    set the word. `WorkersJoinedOnce`
    (`JoinedOnce`): a handle is in one table, or in one join, or was joined (`HandleOnce`).
- `HostNet_proofs`. `ClosedForGood` (`ClosedStaysClosed`), `AllReceivedOnce` (`NothingLost`) and
  `PollsAreTrue` (`PollIsTrue`), from `NetInv`: an entry has a descriptor of its own
  (`Entries`, so a descriptor used again belongs to one handle), a call is on a handle that
  was made and holds what it locked (`Calls`), and of a thread that has a connection to itself,
  what poll found is still there (`Alone`). `PollIsTrue` says nothing between the poll and the
  recv, so it is `PollsAlone`, of a poll under way, that makes it inductive. Data on a wire is
  counted as items of a sequence, so removing and appending them are lemmas of their own.

Assumptions about constants: `HostAssumption`, `NetAssumption` and `HeapAssumption` say that
numbers are numbers, that handles and descriptors can be told from none (and there are as many
descriptors as sockets), that exit codes fit a byte; of the heap, that size classes are numbered
from 1, hold something, and that every request has one. `ProcsConstants` and `FreshConstants` are
the same for the two parts, and follow from `HostAssumption` where they are used.

Only model-checked:
- liveness (the fairness half of the two `ImplementsMutex`, `JoinReturns`, `FailuresAreSeen`,
  `ClassFound`, `CallsReturn`, `ProcessCallsReturn`, `BothWaysFlow`, `EveryoneServed`), which is
  out of the prover's reach;
- `CursorNeverWraps` of sizes that `RoomFor` leaves out;
- the language, whose definitions recur over trees, except for what `Resolver_proofs` has of it:
  that a name means the same, that a value struct is made whole and in order, and that uses are
  refused only for cause (the rest of `NamesMeanTheSame` and `RefusedForCause`), are checked on
  the files of Projects.

## Findings

1. `RunnerExit` (`aipl_run.rs:732`). Under the runner `sys.exit 0` on a spawned thread
   ends only that thread, without setting its record: a join of it waits for ever. The
   comment above says "a thread that exits or traps ends the whole program".
2. `JumpInOperand` (`vm.rs:1899`). While a jump is pending, `sys.print` prints the void
   operand, and put or `arr.set` of a value struct stores the fields before the
   one that jumped; compiled code leaves at once. `vm.rs:477` says "an operand that jumped
   stops its enclosing expression ... as in wasm".
3. `UnimportedName` (`resolver.rs:536`). The modules a name can belong to are those read
   *so far*: with `(import a) (import b)` in the entry, `a` may name what is in `b`, what `b`
   keeps to itself too, without importing it; with the imports the other way round it is
   refused. AIPL_SPEC.md:1678 says "Every module a file names, it imports".

### Known divergences

Met while modelling, and without a run of their own. Where a predicate in a
module says what the documentation does, TLC refutes it; the runs leave the programs or
scenarios out.

Of the host and the library:
- `OnlyTrulyOutOfMemory` (BumpAlloc; `wasm.rs:3008`): two threads past the end of memory both
  compute the growth that covers both blocks; at the limit the second is refused and
  the program stops with "Out of memory" though every block is in memory. AIPL_SPEC.md:228 has
  it stop "when it cannot" grow.
- Two frees of one block at once (Heap with `Misuse` = {"race"}; `heap.aipl:136`): both find it live
  before either locks, and the free list becomes a cycle. `heap.aipl:13` says freeing
  twice is checked on every free, `:27` that threads can share a heap.
- `WriteAfterFreeReported` (Heap with `Misuse` = {"link"} or {"spare"}; `heap.aipl:128`): a write after
  free into the first word, which holds the free list's link, or past the size freed last, is not
  looked for, and the block is handed out; what the first word then says is taken for the next
  block of the list. `heap.aipl:16` says "checked when the block is handed out again: a write after free
  is reported then".
- `AcceptedIsFound` (SizeClasses; `heap.aipl:75`): for a request above `Largest`, 2^30 - 8 bytes, the
  loop's shift reaches the sign bit, and `class_of` never returns; it runs with the heap's lock
  held. `raw` (`:89`) accepts sizes to 1879048184. `ClassFound` states the bound.
- `RefusedSpawnEndsProgram` (CompiledThreads; `aipl_run.rs:717`): when the system refuses the runner a
  thread, `std::thread::spawn` panics. In the main thread that ends the program; in a worker it
  unwinds that worker alone, its record is never set, and whoever joins it waits for ever.
  `wasm.rs:2458` says "a negative thread id traps", as it does natively, and a trap ends the program.
  `FailuresAreSeen` has this end of a worker as the one, with finding 1, that leaves joiners behind.
- `FailureInLockStops` (VMThreads; `vm.rs:1625`): in the interpreter a contract that fails
  with a lock held leaves the word 1, and a main thread that wants the lock spins for ever:
  the failure that should "stop the program" (`heap.aipl:13`) is never seen.
- `ClosesWhatWasMeant` (HostProcs; `sys_procs.rs:236`): pipe handles count up from 3 and process
  handles from 1024; after 1021 pipes one number means both, and close takes the wrong
  one away. `sys_procs.rs:31` has them in
  tables of their own, but close looks in both.
- A kill between a reaping and its note (HostProcs, `StrayPossible`; `sys_procs.rs:305`) may signal
  another program with the same pid.
- `PollIsTrueBesideSenders` (HostNet): poll of a secure connection that another thread is sending
  on answers for an instant at which the lock was taken.
- close of a secure connection sends close_notify with the table locked (HostNet, `Close`;
  `net.rs:356`): a peer that takes nothing in may hold it up, and every call of every thread
  with it. The model has the close in one step, so `CallsReturn` does not see that.
- `MovesBothWays` (NetRelay; `aipl_net.rs:95`): while the host keeps sending, the relay stays in the loop
  that hands its bytes on, and what the program sends is not read, though the program takes all it
  is given. The comment at `:88` says "moves bytes both ways until one side ends".
  `BothWaysFlow` promises the sending of a host that stops.
- `CloseReturns` (NetRelay; `close` in `net.aipl`): close waits for a relay that waits for the program
  to read; it returns if what is left fits in the pipe (`CloseReturnsIfRead`).
- `NothingOutlives` (ServeFresh; `aipl_run.rs:583`): an instance's sockets and processes stay in the
  tables that the next instance is given.

Of the language, between the interpreter and compiled code:
- `eq` of results is accepted (`checker.rs:1590`; of unions and value structs it is refused, `:1616`)
  and does not compile (`wasm.rs:1510`).
- A break in a while's *condition* leaves the outer loop in the interpreter and the inner one
  in compiled code (`checker.rs:1245`, `wasm.rs:2522`; AIPL_SPEC.md:1316).
- A value `if` both of whose branches leave, or whose first one does, may compile to code that is not
  valid (`wasm.rs:1786`; AIPL_SPEC.md:1114).
- put and `arr.set` check the pointer before the value is computed, in both; a value that frees
  the object is then stored into it (AIPL_SPEC.md:219).
- A contract's match binder is a local of the whole function (`wasm.rs:151`; AIPL_SPEC.md:1222); so is
  `res`, and a local of that name and another type breaks a function with `ens` (`wasm.rs:200`).
- `(return e)` with a void e under a defer loses e (`formats.rs:976`).
- A try of a try of a result in a result is not compiled (`wasm.rs:3031`).
- `arr.set` checks the write address before the value in compiled code and after it in the
  interpreter; a versioned loop does not see unchecked writes or other threads.

Of resolver and generics:
- An entry whose declared name is an imported module's is checked for nothing it uses of it;
  two imports under one alias are accepted, and the last counts; an alias named
  `alloc` captures the `alloc.create` that `new` becomes; `new S` inside module alloc itself leaves
  S as it is; a generic name falls back to a module of the alias's name
  (`template_ref`); a public constant may have a private type (`check_exposure` looks at no
  constants).
- `is_plain` (`generics.rs:1019`) does not end on a union that holds ever larger instances of
  itself, as `(union (N T) [(node n:(N (N T)))])`, nor `zero_of` (`:609`) on a value struct
  that holds itself: the compiler's stack overflows, where AIPL_SPEC.md:572 and :896 promise an
  error.

## Plan

Done: locks, allocation, threads, the heap, the hosts' processes and sockets, the relay, fresh
instances, and the way of a program from its files to its two results.

To model, in this order: `leaks.rs` (its fixed point over the call graph against
reachability); generations and the default allocator (`Gen` at reduced width, the
compare-and-swap of `std/alloc`); the native process table (`native/procs.aipl`) against the
same promises as HostProcs; `std/map` against a finite function. In the language: interfaces
and tests in the resolver, `str` and floats in Interp and Codegen.

To prove: of Resolver, that each name in a program that is resolved means what it did where it
was written (the other half of `NamesMeanTheSame`): `RenamedFor` has it of one name, and what is
left is each form of the flat program, and the names a file gives its own items. The other modules of the
language have RECURSIVE operators (their trees do); what they compute stays with TLC.
