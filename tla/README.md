# A verification project for zaqaru's kernel

zaqaru runs an unmodified x86-64 Linux program inside a WebAssembly sandbox: an
interpreter (`crates/cpu`, `crates/x87`) executes instructions, a kernel
(`crates/kernel`) answers system calls, and a small host (`crates/host`,
`crates/web`) provides a clock, a network and a store.  What decides whether a
program behaves is mostly the kernel: it has processes, threads, pipes, signals,
sockets, epoll, files, a memory and a scheduler, all in one thread of control; and
under it an engine that runs decoded and compiled copies of code the program may be
rewriting.  This directory models both in TLA+, checks the models with TLC and proves
theorems about them with TLAPS.

A definition's comment says what it is in the code; `PROJECT.json` maps every
definition to source lines (paths below are under `src/crates/kernel/src/`
unless they say otherwise).

## 1. Inventory

The kernel never runs two things at once.  A turn of `System::turn_toward`
(system.rs:402) steps the current process: it first finishes whatever waits of
that process can be finished, chooses a thread, delivers a signal and runs
instructions until a syscall, a fault or the end of a quantum.  Then it chooses
who is next.  Inside a turn nothing interleaves; what interleaves is *whose* turn
it is and *which thread's* next call comes first.  A blocking call does not block
the kernel: it parks its thread with a description of what it waits for, and the
wait is polled on the process's own later turns.  Almost every hard behaviour
follows from that: a parked description is stale by the time it is used, and
something has to make sure that it is looked at again.

| Part | State | Operations | Talks to | What must hold |
|---|---|---|---|---|
| Rings (ring.rs) | arena of bounded byte rings, reader, writer and attachment counts | make, take, give, acquire, release, free, advance a transfer | descriptor tables count on it; sockets use two of them | bytes kept in order; a count is the number of descriptors; a slot is freed once nobody is on it and not before |
| Pipes and descriptor tables (pipe.rs, fd.rs, file.rs) | per process: descriptor to open file, close-on-exec | pipe2, dup, dup3, fcntl, close, close_range, census and reconcile | rings; fork, execve, exit | every path that changes a table moves the counts by exactly the difference |
| Process tree and scheduler (system.rs, run.rs) | the table, who is current, the slice, the shutdown request | fork, execve, wait4, kill, finish, reap, schedule, idle | every part, through a process's turn | each end told once to the right parent; among programs that use up their quanta whoever can run does |
| Threads and futexes (thread.rs, syscall.rs) | threads of a process, state of each, futex waiters | clone, exit, schedule, wake, futex wait and wake | memory, signals, deadlines | a parked thread is not interpreted; a wake is not lost |
| Signals (signal.rs, syscall.rs, machine.rs) | dispositions, masks, pending sets, frames on the stack | sigaction, sigprocmask, sigsuspend, kill, tgkill, deliver, return | waits they interrupt; process ends | a signal raised is delivered, once, under the right mask |
| poll, select, epoll (poll.rs) | interest sets, what was last reported, parked waits | add, modify, delete, wait, report | rings, eventfds, sockets, deadlines | readiness is not missed and not invented |
| eventfd (eventfd.rs) | counter, descriptor count | read, write, poll | epoll | no count lost, blocked readers return |
| Sockets and the host edge (socket.rs) | socket states, backlog, ring pairs, edge handles | create, bind, listen, connect, accept, shutdown, pump | rings, the host's network, idle | connections match, closing reaches the peer, nothing leaks |
| Timers and deadlines (run.rs, system.rs) | deadlines of sleepers, interval timers | sleep, setitimer, expire | the idle pass | whoever sleeps wakes; the timer fires |
| Address space (space.rs, mmap.rs, memory.rs) | intervals with rights | mmap, munmap, mprotect, brk | faults, fork | disjoint sorted intervals; rights of a page are those last asked for |
| Resident pages (resident.rs) | whose bytes are in a page now, saved copies | fork, activate, claim, retire | the address space, every switch | each process sees its own memory |
| File rows, overlay, mounts, resolution (file.rs, write.rs, overlay.rs, vfs.rs, mount.rs, paths.rs) | nodes in memory over a read-only image | open, write, rename, unlink, link | descriptors, store | link counts, unlinked-but-open files, names |
| Store protocol (abi.rs, server.rs, `src/crates/host/src/store.rs`) | the tape of calls | record, replay | the host | a replay answers as the run did |
| Dispatcher (lib.rs, syscall.rs, errno.rs), loading (exec.rs, vdso.rs), random.rs | none of their own to speak of | syscall numbers to handlers; ELF to memory; a seed to bytes | | |
| Interpreter and traces (`src/crates/cpu`: lib.rs, exec.rs, bytecode.rs, flags.rs) | registers, a lazy flags record, the budget | interpret a block, run a trace, stop | the block cache, guest memory, the kernel between two calls | both engines leave the machine where the bytes say; a call stops where it was asked to |
| Block cache (block.rs, space.rs of `src/crates/cpu`) | decoded blocks, compiled traces, marks on pages, shortcuts | decode, find, evict, invalidate | every store | no block older than its bytes is entered |
| x87 (`src/crates/x87`) | a register stack | arithmetic | the interpreter | the results of the hardware |
| Host, image, guest start, tools | | | | |

`PROJECT.json` lists all of them under `components`, with what is modelled or why
it is not, and under `hazards` what can go wrong in each that a unit test would
hardly reach, at the line where it bites.

## 2. The plan

In order, the most important behaviour first.

| | Modules | About | State |
|---|---|---|---|
| 1 | `Ring`, `Pipes`, `PipesContract`, `PipesProofs` | bytes and counts of pipes | checked, and its safety proved, refinement included |
| 2 | `Processes`, `ProcessTree`, `ProcessesProofs` | ends, turns, waits | checked, the refinement proved |
| 3 | `Epoll`, `EpollProofs` | counters, interest sets, parked waits | checked, and its safety proved |
| 4 | `Memory` over `AddressSpace`, `PrivateMemory`, `MemoryProofs` | one linear memory shared by all processes, as one memory each | checked, and proved, refinement included |
| 5 | `Files` over `Vfs` over `Overlay`, `NameTree` | a writable layer over an image, as one tree of names | checked, refinement included |
| 6 | `Sockets` over `Ring` and `Edge`, `SocketsProofs`, `StreamsProofs` | connections, counts, and the host on the other side | checked, and its safety proved |
| 7 | `Cpu` over `X86`, `Flags`, `Blocks`, `BlockCache`, `CpuProofs` | two engines and a cache, as the machine the bytes describe | checked, and the cache proved |
| 8 | `Signals`, `SignalsProofs` | masks, frames, suspends, futexes and clocks of one process | checked, its masks and frames proved |
| 9 | proofs for 5 | the counts of `Overlay` | to do |
| 10 | epoll over pipes and sockets; the store's tape | readiness of rings in interest sets; a replay answers as the run did | to do |

Composition: `Pipes` and `Sockets` share `Ring`, whose `attached` count only sockets
move; `Memory`, `Files` and `Cpu` each stand on modules of operators that say what one
table does, and add who calls them in what order.  `Processes` and `Signals` meet at
the scheduler: the first has many processes with coarse signals, the second one
process with masks, frames and clocks.  Bounds are two or three actors, one or two
shared objects and buffers of one to three units, chosen so that a full buffer, a
reused slot or identifier, an orphan and two waiters on one thing occur.  Where one
instance that makes every call would be too large, a behaviour first chooses a *menu*,
the calls it will make and their arguments, and each menu is a kind of program; the
`MC` module lists them with what each is for.

## 3. Pipes

### The model

`Ring` is one ring as a record with the operators of ring.rs on it: `Readable`
and `Writable` are the readiness the scheduler asks for, `Taken`, `AfterTake`,
`Accepted` and `AfterGive` are the loop of `advance_transfer`, `Reconciled` is
what `reconcile_shared` does to one ring, `FreeIfUnused` its last release.

`Pipes` is the arena of rings, one descriptor table per process, which threads
are parked in what transfer, and who has the turn.  One action is one syscall, one resumed
transfer or one switch:

| Action | Code |
|---|---|
| `Read`, `Write` | the pipe rows of file.rs, `advance_transfer` of ring.rs |
| `Resume` | `resume_transfers` (run.rs:659), once per parked thread and step, in thread order |
| `MakePipe`, `MakePipeRefused` | `pipe2` (pipe.rs), with the undo of EMFILE |
| `Dup`, `Dup3`, `DupFd`, `Close`, `CloseRange`, `SetCloexec` | fd.rs and `reconcile_shared` of file.rs |
| `Fork`, `Execve`, `ExecveRefused`, `Exit`, `Kill` | system.rs and syscall.rs, as they move descriptors |
| `Turn` | `schedule` (system.rs:222), round the processes in table order |

A byte is the pair of the write call it came from and its place in it, so an
order, a loss or a repetition shows.  The history variables are read by no
action.  `PipesContract` is what a pipe promises with no ring, slot, count,
table or turn in it: a stream per pipe, appended to in one piece if the write is
at most PIPE_BUF, taken from in order, end of file and EPIPE only once nobody is
on the other end, and a call's answer the number of bytes it moved.

### The runs

| Run | Shows |
|---|---|
| `pipes_bytes` | two processes, two pipes one after the other in one slot, writes of 2 and 3 into a ring of 3 with PIPE_BUF 2 (so one write is atomic and one is not, and either may find the ring too full): the contract is kept, counts and bytes are right, and nobody who can go on stays parked |
| `pipes_threads` | two threads of one table and another process; one thread closes or unmaps what the other is parked on.  No ring is freed under a descriptor, and none is leaked |

`Spec` is the kernel without the two calls that break the counts; `FcntlSpec` and
`ExecveSpec` add one each (section 11).  Everything else that is checked and proved of pipes is of
`Spec`, so it is about programs that neither copy a pipe end by `F_DUPFD` nor have an
execve fail while pipe ends are marked close-on-exec.

Two processes suffice for an end held in two tables, and two pipes in one slot
for reuse; a third write of the same kind adds nothing to a ring of three.
`pipes_threads` makes one pipe, so it says nothing of a slot given to another one under a
descriptor: `pipes_bytes` reuses the slot, and `SlotsAreRight` proves it of any number.

### Fairness

`FairSpec` asks for weak fairness of `Resuming` and of `Switching`.  The first is
the code's order: `step_with` resumes transfers before it enters the engine
(run.rs:289-303).  The second is `schedule`: a process that cannot go on gives up the
turn at once, one that runs gives it up after its slice.  `NobodyIsForgotten` says that
whoever could be resumed infinitely often without end is resumed.  Whether a
process really reaches the end of its slice is assumed here: one that makes a syscall
within every quantum need not (section 4).

### Proofs

`PipesProofs` proves, for any number of processes, threads, descriptors and slots
and any capacity, `TypeOK`, `EndsAreCounted` and `SlotsAreOwned`.  The invariant is their
conjunction, and neither half is inductive alone: `reconcile_shared`
does nothing to a freed slot, so the counts are right only because no descriptor
names a free slot; and no descriptor names a free slot only because the counts
that free it are right.  The lemma the argument turns on is `CountMoves`:
replacing one process's table moves the whole tree's number of descriptors on an
end by the difference of that table's two censuses, which is why the code may
look at one table only.

Its second half proves `BytesAreKept` where no two threads share a descriptor table
(`Single`).  A transfer moves bytes by the index of a slot, and a parked one uses the index
again later, with no count of its own on the slot; so what was drained and what the
ring holds add up to what was accepted only if the slot is still its pipe's.  Two
facts make that inductive: no two slots in use are one pipe's (`PipesAreDistinct`), and
a parked thread's process still holds the descriptor it parked on (`ParkedHolds`).  The
second is where `Single` is needed: with two threads, one can close what the
other is parked on, free the slot and give it to another pipe (hazard at
ring.rs:345).  `ParkedIsRight` says it of the transfers themselves.

The third part proves that `Pipes` implements `PipesContract` (`ContractIsKept`, which
states `KeepsContract`), again where no two threads share a table.  The mapping drops
the slot of a transfer and reads the open ends off the descriptor tables, so the work
is to show that what the code decides by a slot's counts and bytes, the contract
decides the same way by who has what open: a count is zero exactly when no process has
that end open (`EndsAre`, from the counts and the distinct pipes), and what the ring
holds is what was written and not read yet.  One thing is added to the invariant:
a write of at most PIPE_BUF bytes is parked only before its first byte (`ParkedWhole`),
since the readiness of the rest of a shorter write would be judged by another rule.  A
thread that is parked on nothing is a constant the mapping shares with the contract,
hence the second assumption on it (`RequestAssumption`).

`ReadyOnesMove` is the action property `ReadyMoves`, with no assumption on threads: no
call is made and no turn handed on while a parked transfer is ready, and a ready one
that is looked at is answered or moves bytes (`Writable` and `Accepted` agree at every
boundary of capacity, PIPE_BUF and length).

Only model-checked: liveness.

## 4. The process tree and the scheduler

### The model

`Processes` has the table (every process that has not been reaped, oldest first),
the index of the current one, each process's threads with what they are parked in and
what signals are pending on them, dispositions, the slice, and `phase`: where in a
turn the loop is.

| Phase and action | Code |
|---|---|
| `Step` | the head of `step_with` (run.rs:289-325): signals wake who waits for one, a thread is chosen, its lowest pending signal delivered or fatal |
| `Preempt`, `Call`, `Pause`, `Sleep`, `Sigaction`, `Fork`, `Execve`, `Clone`, `ExitGroup`, `Exit`, `Fault`, `KillSelf`, `Kill`, `Wait` | what the thread does with its turn |
| `RunsOn` | a turn of a process that has ended already |
| `Schedule` | the slice and `schedule` (system.rs:222) |
| `Collect` | `collect` (system.rs:315): a parked wait4 completed where its process is current |
| `TakeShutdown`, `Idle` | system.rs:802, 640 |

Signals have no masks or frames here (section 10 has them): a caught one is pending
until its thread has a turn.  Deadlines have no clock: in the idle pass any set of them may have
passed.  The host edge and interval timers are left out of the idle pass.

`ProcessTree` is what wait4 and kill promise, with no table, index, slice or parked
thread: a process ends once; its children go to the first process; each
end is told once, to its parent, with its status; ECHILD only to who has no child.
`KeepsTheTree` maps the table to it: a process's life, parent and status are read
off the table entry it has, or from `next` when it has none.

### The runs

| Run | Shows |
|---|---|
| `procs_tree` | three processes of one thread, so there is an orphan, its dead parent and its adopter; SIGCHLD caught or not; a slice of two quanta: the tree is kept, nobody is orphaned, waiters have somebody to wait for, and, among programs that use up their quanta, whoever can run, be answered or be woken is |
| `procs_threads` | two processes of two threads that sleep, and a shutdown request: a parked thread is never interpreted |

In `procs_tree` nobody sleeps, a process has one thread and the first process is
killed by nobody but itself, because each of these meets a defect of its own: a zombie that is given
another turn (section 11); a second thread waiting for an only child that is never told ECHILD
(hazard at system.rs:322); and a first process that is killed from outside,
whose container goes on without it (hazard at system.rs:792).

### Fairness

`TurningSpec` is weak fairness of the whole next-state relation: the loop goes
round.  Nothing else is assumed of the kernel.

That is not enough for everybody to run: only a quantum run to its end counts towards the slice,
so a process that makes a syscall within every quantum keeps the processor, and
`TurnsComeRound`, which asks for a turn whatever the others do, does not hold
(`MCProcessesPolling.cfg`, section 11).  What holds is about programs, and
`EveryoneRuns`, `WaitersReturn` and `PausesEnd` say so themselves: their premise is that
each process `Computes`, that is, if it keeps the processor for good it uses up quantum after
quantum.  Nothing is asked of a process that blocks, ends or has its turn taken, nor of how
many syscalls it makes between two quanta.

### Proofs

`ProcessesProofs` proves, for any number of processes and threads, any slice and any
handled signals, `TypeOK` (the current index is always an index of the table, nobody
has more than a slice), `OnlyTheRunnableRun`, and `EveryParentLives` when the host asks
for no shutdown and nobody kills the first process.  The invariant is the
shape of the table (`Rooted`): it is sorted, the first process is at its head with
no parent, and every other entry has a parent in it that is alive or is
the first process.  That parent is why `reap` can remove an entry at all: nobody's
parent goes with it, and what goes is never the entry the current index is at, as
it is somebody's child and that somebody is current.

Its second half proves that the table implements `ProcessTree` when nobody
sleeps and the host asks for no shutdown.  The assumption is what keeps a
process that has ended from having another turn (`NoTurnForTheDead`); without
it the claim is false (section 11).

`WaitersHaveChildren` is proved where a process has one thread (`MaxThread = 1`): a second
thread may reap the child the first is waiting for.  It is stated of processes
rather than of indices (`Answerable`), so that removing an entry moves nothing: a
child leaves a table only for its parent's own wait4, which is answered in that
step, and a child adopted by the first process is one child more for who already
lives.

Only model-checked: liveness.

## 5. poll, select, epoll and eventfd

### The model

`Epoll` is one process whose threads share a table, and another that reaches only the
counters a fork handed it.  It has the arena of counters, the open
file descriptions with their reference counts, the descriptors, the arena of
interest sets, and what each thread is parked in.  A set is either an epoll instance,
which descriptors name, or what one parked poll or select waits for; both live
in one arena and are freed by the same count, which is the interesting part.

A step of the process (`step_with`) first looks once at every parked wait, the watches
in thread order and then the counters in thread order (`todo`), and then one
thread makes a call.

| Action | Code |
|---|---|
| `Transfer`, `ResumeEvent`, `Elsewhere` | `transfer_event`, `complete_event` (eventfd.rs), `resume_events` (run.rs:517) |
| `MakeEventfd`, `EpollCreate` | eventfd.rs, poll.rs:567, through `FdTable::open` |
| `Close`, `Dup`, `Dup2` | file.rs: the table, then `reconcile_shared`, then `forget_description` |
| `Fork` | syscall.rs:1279: the child's descriptors counted on the parent's sets |
| `Add`, `Mod`, `Del` | `epoll_control` (poll.rs:597) |
| `EpollWait`, `PollOrSelect` | `begin_wait` (poll.rs:708): report, and so record, then park |
| `ResumeWatch`, `TimesOut` | `resume_watches` (run.rs:446) |
| `Expire` | `expire` (run.rs:592), in the idle pass |
| `TakeTurn`, `EndTurn` | the scheduler, with one other process |

Readiness is computed, never stored, as in the code; what is stored is
`reported`, for an edge-triggered registration.  The differences from the code: only
counters are registered in an epoll instance (a poll or a select may ask of
either kind); a call that fails, or would answer EAGAIN, changes nothing and is no
step; which registrations are written out when there are more than `max` is any
choice, where the code goes by the order they were made in; execve,
F_DUPFD and close_range are left out (the first two are in `hazards`).

### The runs

| Run | Shows |
|---|---|
| `epoll_tables` | one thread, three numbers, two sets, waits with a timeout: no registration outlives its description, no set is freed while it is named or held, and no count is off, over every sequence of calls |
| `epoll_waits` | two threads, two numbers, no timeouts, edge-triggered and one-shot registrations, another process at the counter: a one-shot event is delivered once, an epoll_wait or a select with no timeout never comes back with zero, and whoever could be answered is |

Three numbers are two descriptors on one description and one more to replace or to
reuse it; two sets are an instance and a held poll, or two instances; a count of at
most one makes a counter both full and empty; `MaxReferences` bounds what forks leave
behind.  `NoFalseTimeout` leaves poll out, which can come back with zero after another
thread moved the number it asked about (hazard at poll.rs:760).

### Fairness

`FairSpec` asks that what can be resumed is (`step_with` does it before the
engine runs), that an engine run ends (by the quantum), and that the process
is given the turn when it is runnable.  The last is what the other process owes: it
parks or its slice ends, as a program that `Computes` (section 4) does.

### Proofs

`EpollProofs` proves, for any number of threads, descriptor numbers, counters and
sets and any ceiling, `TypeOK`, `RegistrationsAreLive` and `SetsAreHeld`.  The invariant
(`IInv`) adds what the code never writes down:

- `ReferencesAreRight`: a description's count is the number of descriptors on it.
  `forget_description` runs when that count reaches zero, so this is what makes
  "gone" mean "no descriptor names it".  The argument is `NamersMove`: one
  descriptor that changes its description moves two counts by one.  In `dup2` the
  close comes first, and `NamersTwo` is why it cannot free what is about to be
  copied.
- `WatchedAreOpen`: registrations are on open descriptions.  With the above it is
  `RegistrationsAreLive`.
- `SetsAreHeld`, per set (`HeldIn`): descriptors and holders together never pass the
  count.  A held set is named by nobody, and `StillUnnamed` says that no change of
  the table can name it, so `reconcile_shared` leaves it alone; a count may be
  too high, after a fork, but never too low.
- `WaitsHaveCounters` and `LookingAtParked`: what is parked on a counter, or is
  still to be looked at, exists.

`OneshotIsOnce` follows with one fact more, `TellsOnce`: what was told is disarmed.  A
disarmed registration still asks for NVAL, as every registration does, and stays silent
only because none is ever left on a closed description, which is the invariant
above.

`NoFalseTimeout` (`ZeroIsATimeout`) is an action property over the same invariant, with
`MaxesArePositive` beside it: an epoll_wait is parked with room for something.  Whoever
is answered was ready in that same step, so something fires in its set; it is written
out, or is a bit a select counts.  The second needs `WatchedAreOpen` again: NVAL wakes a
select and is no bit of its answer.

Only model-checked: liveness.

## 6. Memory

### The model

All processes live in one linear memory.  A page holds the bytes of the process that
owns it; any other process that maps the same number has its bytes in a saved copy,
and a switch swaps them.  `AddressSpace` is one process's table of mappings, its pool
of free ranges and its break, as operators (space.rs): `AtFixed`, `AtHint` and
`Anywhere` place a request, `Punched` takes a range out of what overlaps it, and
each answers the set of what the call may become, empty when it refuses.  `Memory` has
the address spaces, the page tables that say what each page allows
(`sync_pages`), the owner table with its copies (resident.rs), and the bytes, a page at
a time.

| Action | Code |
|---|---|
| `Mmap`, `Munmap`, `Mprotect`, `Madvise`, `Mremap`, `Brk` | the memory rows of mmap.rs, with the tree, the pool, the page table and the owners each leaves |
| `Store` | the running program, where its page table lets it |
| `Switch` | `Residency::activate` |
| `Fork` | `space` copied, `copy_for` |
| `Execve`, `ExecveFails` | exec.rs, `reset`: the old image goes before the new one is known to load |
| `Finish` | `retire` |

`PrivateMemory` is the promise: each process has a memory of its own, and a step
changes one process's.  What appears in a page is zeros, a file's bytes or the
process's own, never what somebody else left there.  `KeepsPrivateMemory` reads a
process's memory off the bytes where it owns a page, off its copy where it does not.

### The run

`memory_rows`: two tokens (a process and a fork of it, or an execve's), pages 2 to 5
for mappings below a ceiling of 6, an arena of one page whose brk heap can grow, requests of one and two
pages, one file of one page, and at most two rows, with stores, switches, forks and
ends in any number between them.  Two rows are enough to split, join, replace, or grow
a mapping, and to hand a range of the pool to another; a third process would displace
from a second in the same way.  Checked are the owner table's own
three rules (`EveryByteHasAPlace`), the agreement of the tree, the pool, the heap and the
page table (`SpaceIsPartitioned`), and the refinement.

`Wild` is empty: two kinds of step are set apart, because the code does there something
other than its comments say.  `"holes"` are rows that go over holes or over the heap, the
first entries under Memory in section 11.  `"growth"` is a growth in place past
the ceiling, or over a range the pool holds a part of and goes on holding
(`Growable`, `MCMemoryPool.cfg`).

### Proofs

`MemoryProofs` proves, for programs without those steps (`Tame`) and for every number
of processes, any programs, requests and sizes, and any number of rows:
`EveryByteHasAPlace`, `SpaceIsPartitioned`, `OthersAreUntouched` (with holes it is false,
`MCMemoryWild.cfg`), and the refinement
`KeepsPrivateMemory`.  The invariant (`IInv`) says of the two halves of the system:

- `Tidy`, of one process's space.  Mappings are apart from each other and outside the
  arena; the ranges of the pool do not even touch (`release` joins what does), lie
  outside the arena and, unless empty, apart from every mapping; all is below the
  ceiling.  That the pool stays off the arena is written nowhere in the code and
  is what makes `brk`, which asks neither tree nor pool, safe.
- `Told`: the page table says of every page what the tree, or the heap, says.
- `Keeps`, of the owner table, given what each process maps (`MapOf`): what a live process owns it
  maps; it holds a copy of exactly what it maps and does not own; the dead hold none.  `Owns`: the
  running process owns all it maps.

The two are proved apart and meet in one place.  Each operation on a space takes a tidy one to a
tidy one and is described by the pages at which it changes what is shown (`Changes`, `Maps`,
`Resizes`, `Moves`), never by the intervals it cuts.  Each operation on the owner table keeps
`Keeps` and is described by what processes read (`ReadAt`): nobody but one notices
(`OthersSame`).  `sync_pages` over a range that holds every change of the tree joins them
(`SyncHolds`), which is where a row that synchronised too little would fail.  Every row
is then `Stepped`: the running process is left in order, and each of its pages
is one it had, or shows zeros or a file's bytes (`Fills`), or was carried from where it
lay before (`Carries`, a move), which are the abstract `Map` and `Move`.  A load builds a space
for a process that nobody is yet (`Builds`), segment by segment; it may stop anywhere, and
what it displaced comes back with the `Activate` of `ExecveFailsIs`.

The proof changed the model twice.  `Growable` came from the step that could not be
proved, and TLC then found its counterexample in three states; the assumptions on
programs (`ProgramAssumption`, the loader's `check_region`: below the block, and not at page zero)
were silent in the instance and had to be said.

## 7. Files

### The model

`Overlay` is the writable layer over an image (overlay.rs), as operators on a record: a
node is one of the image's or one of the arena above it, and a directory above may stand for one
below.  `CopyUp`, `SetEntry` with the counts it adjusts, `Detach` with its whiteouts,
`Link`, `Rename`, `Release`.  `Vfs` resolves a path over it (vfs.rs): symbolic links
with a limit, `.` and `..`, and mounts.  `Files` is one process with a working
directory, descriptors and open file descriptions; one action is one call.

| Action | Code |
|---|---|
| `Mkdir`, `Symlink`, `Unlinkat`, `Linkat`, `Renameat`, `Truncate`, `Chmod`, `Chown` | write.rs, by path |
| `Openat`, `Close`, `Dup`, `Dup2` | file.rs, fd.rs, `reclaim_after_close` |
| `Read`, `Write`, `Pwrite`, `SendFile`, `Lseek`, `Ftruncate`, `Fchmod` | file.rs and write.rs, by descriptor |
| `Getdents64`, `Chdir`, `Fchdir` | file.rs, vfs.rs |

A call that answers an errno is a step too (`refused`), so what it leaves behind is
seen.  One process suffices: a fork copies both the table and the writable layer, so
no other process reaches either.

`NameTree` is what a filesystem promises with no layers: a set of names and what each
leads to.  A call makes one name, removes one, moves a tree of names, or changes one
object.  It has the one exception the overlay's source states: changing a file of the
image through one of its names separates it from the others.

### The run

`files`: an image of five nodes with a file of two names, a directory in a directory,
a symbolic link and a mount; seven menus, each of about five calls over two to five
paths, with at most four nodes above and two descriptors.  The menus pair what can
disturb one another: names and links; a scan with what is made and removed under it; a
file's last name and its last descriptor; and two descriptors on one file.  `CountsAreTrue` says that a
directory's size and link count, which the code adjusts and never recounts, are those
of the merged listing; `KeptWhileHeld` that bytes go when the last name and
the last descriptor have gone, and not before; `ListsSurvivors` that a scan shows once what
survives it; `RefusedChangesNothing` that a refused call changed nothing; and
`KeepsTree` the refinement.

`Wild` is FALSE: calls relative to a directory copied up or removed since it was
opened, an O_CREAT through a dangling link, an open with no descriptor left, a
truncate beyond the size limit, a dup2 that closes the last holder of a file
without a name, and a seek into the middle of a directory are set apart (section 11).

## 8. Sockets and the host edge

### The model

A connection is two rings and two sockets, each of which holds a reading count on one and
a writing count on the other *for every descriptor that names it*; a connection from the host
has one socket, and the host is the other end of both rings.  `Edge` is the host's
side (`crates/host/src/net.rs`): connections, their bytes, a queue of events a read
takes whole.  `Sockets` has the arena of sockets, the rings, one descriptor table per process,
the bound names, and the batch of events the pump is at.

| Action | Code |
|---|---|
| `MakeSocket`, `MakeSocketpair`, `BindInet`, `BindUnix`, `Listen`, `ConnectInet`, `ConnectUnix` | the rows of socket.rs |
| `Accept`, `ParkOnAccept`, `ResumeAccept` | `accept`, with its failures after the connection was taken |
| `Send`, `Receive`, `Shutdown` | socket.rs over `Ring` |
| `Dup`, `Dup2`, `Close`, `Fork`, `Exit`, `Execve` | file.rs's census and reconciliation, as they move sockets |
| `Pump`, `AcceptEdge`, `Data`, `Eof`, `Flush` | the pump: a batch is taken, then applied event by event |
| `PeerConnects`, `PeerSends`, `PeerFinishes` | the host's threads, at any moment |

A byte is its place in its stream, so a loss, a repetition or another connection's byte
shows.  A send or a receive answers at once, since what parks is section 3's.

### The runs

| Run | Shows |
|---|---|
| `sockets` | eleven menus, two processes, up to four sockets, four descriptors each, rings of two bytes: counts are the descriptors', each stream is whole and its own, what the guest wrote is sent before the host is told of the end, and a hang-up is final |
| `sockets_end` (violation) | a peer sends more than the ring has room for and closes: the guest reads end of file before bytes that are still at the host |

Four steps leave a count wrong in the code: a shutdown, or a connect, of a socket that several
descriptors name; an accept that fails after it took a connection; and an
execve or a last close that drops a listener with connections in its queue or marked
sockets.  They are *not* removed from the model: each records the streams and sockets it
touches (`skewed`, `adrift`), and `EndsAgree` and `HangupIsFinal` are asked of all others.
So is what happens when the backlog is full.  Section 11 lists them.

Rings of two bytes are full and empty within a behaviour, three bytes do not fit; two
connections reuse a slot; two processes hold an end twice.  Nothing is checked
under fairness here: the pump runs in the idle pass and between turns, and its own
progress is that of section 4.

### Proofs

`SocketsProofs` and `StreamsProofs` prove every property of the `sockets` run.  The first of them
proves `EveryCountIsTrue`: `EndsAgree` holds of every reachable state, for any number of processes,
descriptors, sockets, rings, connections, ports and paths, any ring size and any menus.  The invariant (`Inv`) is that the model's types hold
(`TypesAre`) and that its tables agree, which is written as one conjunct per pair of tables:

- `DescriptorsLive`: a descriptor names a socket of the arena.  `QueuesAre`: only listeners have
  queues; what waits is connected, waits in one place, and no descriptor names it.
- `ReferencesAre`: an unmarked socket has as many references as holders (descriptors that name
  it, and a queue it waits in), a marked one more.  `CountsAre`: the readers of a ring whose
  stream is not given up are the holders of sockets that hear it, and one where the host does;
  likewise its writers.
- `AttachedAre`: a ring's `attached` is how often joined sockets name it, so that a slot which
  is free again is nobody's.
- `CarriedAre`: a ring carries one stream and a stream is in one ring; what a socket hears no
  other socket hears, what it says no other says, and the host is an end of exactly the
  streams of connections from outside.
- `EventsAre`: what the pump has in hand and what is in the queue speak of connections the host
  knows; an open and an end of file are said once each; a connection has at most one
  socket, and until its end of file is applied the host writes to what that hears.

`EndsAgree` alone is not inductive: a close counts descriptors, an accept trusts the
queue, the pump trusts what the last event left.  The steps fall into a few shapes, each proved
once: a table that changes hands and the counts that follow it (`Retabled`), a socket opened
(`Opened`), an entry queued or taken (`Enqueued`, `Dequeued`), two sockets joined by
new rings (`Laid`, `WiredTo`), a side shut (`Shuts`), and steps that touch bytes only
(`RingsStay`).  A row of the table of actions is then a chain of one to three shapes.  That the
counts are those of the holders is arithmetic on cardinalities, hence the assumption
that the sets of processes and descriptors are finite.

Over it `StreamsProofs` puts `Flow`, and `FlowInv` (`Inv` and `Flow`) is inductive too.  `Flow` says of every
connection that what its ring holds, with what waits at the host where the other end is
there, is a `Run`: the numbers after those taken, all up to those sent.  A put grows one run at
its end, a take shrinks one at its front, `drain_edge` moves bytes over the edge without
changing what both sides hold together; everything that ends a connection of the host, and a
flush, is one shape (`Ending`): what is ended was emptied into the host first, what nobody names may
go, and the rest keeps its bytes.  That two steps do not meet in one ring is `Apart`, which
follows from `CarriedAre`; that new rings are nobody's is `AttachedAre`; that a new connection's
host still has all its peer sent is the open clause of `EventsAre`.  From it:

- `StreamsAreWhole`: `StreamsStayWhole`, for any interleaving of calls, pump and host.
- `EveryReplyArrives`: `RepliesArrive`; a stream whose end the host was told is never put to again,
  since the socket that says it has its writing side shut.
- `HangupsAreFinal`: the action property `HangupIsFinal`.  No shape but a changed table raises a
  count of a ring in use, and a table gets copies of descriptors somebody had: where
  `CountsAre` finds no holder, no copy can be made.

`EndOfFileIsTheEnd` is what the code breaks (section 11).

## 9. The engine: two ways to run, one cache

### The model

The engine decodes the bytes at an address into a block, keeps it, and may keep a trace
compiled from it.  A store into a page that blocks came from queues the page, and the blocks go
at the next turn of the loop.  `X86` is a machine of eight words of memory, five
registers and a small instruction set that has each kind the engine treats
differently: arithmetic whose flags may be dead, compare and branch fused, increments that keep
the carry, shifts and products, loads, stores and operations on memory, push, pop,
call and return, division that traps, repeated stores, vectors, instructions only the
interpreter runs, and bytes that are no instruction.  It runs alongside as `m`,
fetches every instruction from memory, and is never read by the engine.

| Module | Code (`crates/cpu/src`) |
|---|---|
| `Flags` | the flags record and how a flag is computed from it when asked (flags.rs) |
| `Blocks` | decoding, the scan for dead flags, fusing, and lowering to a trace (block.rs, bytecode/transpile.rs) |
| `BlockCache` | blocks, their pages' marks, the shortcuts, eviction, invalidation (block.rs, space.rs) |
| `Cpu` | the run loop (lib.rs), the interpreter (exec.rs) and the traces (bytecode.rs), one instruction or op a step; and the kernel, which calls with a budget, writes memory, and changes rights between calls |

### The run

`cpu`: fourteen programs, each of at most eight instructions, that are the hard cases by name
(`Counted`, `Looped`, `Unread`, `Deferred`, `Modifies`, `Called`, `Refusing`,
`Divides`, `Handed`, `Patched`, `Crossed`, `StoresOver`, `Chained`, `Vectored`), a
cache of two blocks, three calls with quanta of 1, 2 and 5, exact or not, and two
meddlings between them.  `LeavesAgree` is what the source claims of every trace: it leaves the
machine exactly where the interpreter would.  `StopsAgree` says it of the outcome and,
where the engine vouches for them, of the flags.  `MarksHold` is why no stale block
runs.  `QuantaEnd` is that a call comes back.

It is a check of programs and not of all programs: four more, in `MCCpu` and left out of the run,
end differently in the two engines (section 11).

### Fairness

`EngineRuns`: a call of the engine goes on as long as it can.  It is one call of one
function, and nothing suspends it.

### Proofs

`CpuProofs` proves, for any guest code (`Programs` is any list of memories, rights and decoders
of their words), any capacity of the cache, any size of its small table and any mixture of calls,
stores over code, writes by the kernel and changes of rights:

- `MarksAreRight`: `MarksHold` always;
- `EnteredIsCurrent`: whenever the loop enters a block or its trace, it is the one at `rip`,
  and each of its instructions is the one memory holds at that moment.

`ProgramsAssumption` says only that a program's memory and rights are functions on the addresses
and pages there are; TLC evaluates it on the fourteen programs.

The inductive invariant `Holding` is `MarksHold` with the shapes of the two records: a block has
at least one instruction and ends before the last address, no page lists a slot that
was given up.  Registers, flags, traces and budgets appear nowhere in it, which is why nothing has to be
assumed of the instructions: a step reaches the cache and the marks only through a few
operations, and each keeps `Holding` whatever it is called on.  A store takes a marked page out of the marks and
into the queue at once, so a page is never neither (`WrittenHolds`), and `clean` short-cuts
only stores to pages that have no mark.  Rights taken away queue the page
(`SyncHolds`); what is remembered as permitted was permitted (`UpToHolds`).  Draining removes every block
from all its pages (`DrainHolds`), so what is decoded next meets an empty queue, and is what
memory says (`DecodeIs`, `AddedHolds`), in a full cache too (`FlushHolds`).  `EnteredIsCurrent` is that last
fact and needs nothing else of the engine.

Inside a block nothing of the kind holds, and the theorem does not say it: the bytes may change under a trace
that goes on, which is what section 11 says of vector stores.  `LeavesAgree` and
`StopsAgree` compare what two evaluators make of a block, by induction on its length, and
stay with TLC.

## 10. Signals, futexes and time in one process

### The model

`Signals` is one process: up to three threads with their masks, pending sets, stacks and
frames, the dispositions, futex words, the interval timer and a clock.  A
handler runs on a frame written to the guest's own stack and its return believes what is
there, so a frame is in the model at the place it was written to, and one written over
another takes its place.

| Action | Code |
|---|---|
| `Step` | the head of `step_with` (run.rs:289): waiters with a signal are woken, a thread is chosen, its lowest deliverable signal is delivered |
| `SignalMask`, `SignalAction`, `SigAltStack`, `Suspend`, `Pause`, `Sleep`, `IntervalTimer`, `Kill`, `Tgkill` | the rows of syscall.rs |
| `SignalReturn`, `LongJump` | rt_sigreturn; a program that leaves a handler without it |
| `FaultHere` | `fault` (run.rs): delivered or fatal at once |
| `Clone`, `ExitThread`, `FutexWait`, `FutexWake`, `Store` | thread.rs, with the word cleared and woken at the end |
| `Idle`, `Tick` | the idle pass, where alone deadlines are looked at; the clock |
| `Sent` | another process |

### The run

`signals`: four menus.  *Nesting*: handlers over handlers on two stacks, with every flag,
left by return and by jump.  *Suspending*: two threads with masks and sigsuspend.  *Timing*:
sleeps, timed futex waits and an alarm that repeats.  *Joining*: three threads that
wait for one another's end.  Two frames fit on a stack, so one handler nests in another
and a third finds no room; a clock of three ticks passes every deadline there is.
`HandlersNest` says what a handler will return to never changes while it
runs.  `MasksAreGivenBack` says that a thread's own code always runs under the mask it last
chose.  `WaitsEnd` is the liveness: nobody is left waiting for a thread that has ended, and
whoever's time is up goes on.

`Wild` is FALSE: a return from a handler nested on the alternate stack to another on it,
an action changed so that a pending signal no longer does anything to a suspended thread,
and a suspend in a handler with no room for another frame are set apart; with TRUE each
breaks one of the two safety properties (section 11).  So does a program that both suspends
and resets the handler of a signal ignored by default (`SA_RESETHAND` on SIGCHLD): a thread
woken for a signal whose handler another thread's delivery has just reset drops it, and runs
on under the suspend's mask.  No menu has both.

### Fairness

`FairSpec` is weak fairness of `Kernel` (the loop goes round) and of `Tick` (the clock
does).  Nothing is assumed of the program.  The second half of `WaitsEnd` is asked only of a
process that keeps coming to rest, because the kernel looks at deadlines in the idle
pass and nowhere else.

### Proofs

`SignalsProofs` proves `TypeOK`, `MasksAreGivenBack` and `HandlersNest` for any number of
threads, signals and menus and stacks of any room, of programs that keep off what is set apart
(`Tame`).
The invariant (`IInv`) says where the mask a thread's own code chose is kept meanwhile
(`Owed`): in the mask itself while that code runs, in the cell a suspend left it in, or in the
frame of the outermost handler, which is the first on the thread's own stack or the first
on the alternate one.  To know that frame it says where all of them are (`StackSound`): own ones
from the bottom up, alternate ones over one of those.  And the cell is empty
whenever the thread runs, because what wakes a suspend is always delivered: there is room for a
frame (`Interruptible`) and a handler for whatever is pending (`NothingDropped`).  A
deadline never wakes a suspend, as a parked one has none (`Timeless`).

`HandlersNest` needs no more than `StackSound`.  What unwinds from a stack is defined by a
recursive walk over its frames (`ReturnsTo`), and that a walk is what `Under` says (the frames
on the alternate stack downwards, then those on the thread's own) is proved by looking at the
first return where the two would differ, since induction itself is out of the provers' reach.
A delivery then writes its frame at a place `Under` does not name and puts it on top
(`PushedNests`); a return takes off the innermost (`PoppedNests`); a jump and a new thread are at
the bottom (`BottomNests`); every other action leaves each stack pointer and every frame alone
(`Still`), the alarm, the wakes and other processes' signals included.

Only model-checked: `WaitsEnd`, which is liveness.

## 11. Known disagreements

Where the code does something other than a comment, a document or a test of the
repository says, or than its own other paths do.  One of them is a run that is
expected to fail, `sockets_end`.  Others are shown by configurations kept beside the runs, each of which
TLC finds violated:

| Configuration | Shows |
|---|---|
| `MCPipesFcntl.cfg`: `EndsAreTrue` | `F_DUPFD` copies a pipe end without the census every other path takes (file.rs:1959, against file.rs:2301): a reader is told of the end of file while a writer is open |
| `MCPipesExecve.cfg`: `EndsAreTrue` | an execve that fails has released the close-on-exec ends already (syscall.rs:1400, against system.rs:841): the table is kept and its counts are gone |
| `MCPipesShared.cfg`: `ParkedKeepsItsRing` | a parked transfer names a slot and holds no count on it (ring.rs:345, against ring.rs:84): the slot is reused and the thread waits on a pipe it never opened |
| `MCEpollEdges.cfg`: `EdgesAreNotMissed` | written, reported, drained and written again with no wait between: the second edge is missed (poll.rs:402, against poll.rs:383) |
| `MCProcessesZombie.cfg`: `ZombiesStayAsTheyDied` | a child exits while its parent sleeps: the idle pass gives the zombie another turn and its status changes before it was asked for (system.rs:417, against system.rs:949) |
| `MCProcessesPolling.cfg`: `TurnsComeRound` | a program that makes a syscall within every quantum is never preempted (run.rs:289, system.rs:229, against `docs/architecture.md`:136, which says round-robin "across processes and threads alike") |
| `MCMemoryWild.cfg`: `OthersAreUntouched` | madvise over a hole zeroes pages a live process owns (space.rs, the comment at 642) |
| `MCMemoryPool.cfg`: `SpaceIsPartitioned` | a mapping shrunk and grown back past the high-water mark: the pool held part of the range and keeps it (space.rs:804, against 801: "If the pool holds it, take it out; otherwise it has to be fresh space above everything"), so the part can be given again |
| `MCFilesWild.cfg`: `AppendLandsAtTheEnd` | an appending write moves its description to the old position plus what was written, not to the end (syscall.rs:3645) |
| `MCSignals.cfg` with `Wild = TRUE`: `HandlersNest`, `MasksAreGivenBack` | a return clears the mark that the alternate stack is in use while an outer handler is on it, and the next delivery overwrites that handler's frame (against thread.rs:151); a suspend's mask outlives its call |
| `MCCpu.cfg` with `Programs` one of `MCCarriedOut`, `MCVectorOver`, `MCStoredLast` (with `Quanta = {9}`), `MCPoppedTwice`: `LeavesAgree` | flags taken for dead are read past a branch in the middle of a block (transpile.rs:286, against `docs/fidelity.md`:114); a vector store over the code after it goes on with the old code (bytecode.rs:1010); a block's last store leads to a stale trace (bytecode.rs:467, against `docs/architecture.md`:58); a pop into memory that faults has moved the stack pointer when it is run again (run.rs:810) |

The rest were met while modelling, and no run is about them.  Each is in the model as
the code has it, unless said to be left out.

- **Memory.**  A hinted mmap whose range is clear takes nothing from the pool, so the range can be
  given again, and is not held to the ceiling (space.rs:386, against 357 and 372).  mremap in place grows past the ceiling
  (space.rs:792).  munmap, madvise and a growing mremap over the brk heap unmap its
  pages under it (mmap.rs:227).  A munmap of what was never mapped feeds the pool.  The
  gap of a position-independent program is reserved without its pages (exec.rs:1241), which a
  fork's assertion (resident.rs:257) can meet.
- **Files.**  A vnode taken before its directory is copied up keeps the lower number
  (against mount.rs:179), so an exclusive create can succeed twice and one in a removed
  lower directory brings it back; `HandlesSeeTheirDirectory` states what is meant.  dup2, dup3 and
  execve close without reclaiming (write.rs:559).  An open that finds no descriptor
  has created or emptied its file.  A truncate that is refused for its length has copied
  the file up (write.rs:62).  O_CREAT replaces a dangling link.  write and sendfile do not
  ask for O_PATH (syscall.rs:3770).  getdents64 after a seek past the second entry counts
  twice.
- **Sockets.**  The four steps of section 8 (socket.rs:771, 1246, 344 with 341, and
  syscall.rs:1405), and a host connection that finds the backlog full (1895).  A batch's data event
  that finds no room leaves the bytes waiting for the next.  Rings of ended edges
  are not released.  Two sockets may be bound to one port by wildcard and by loopback.
  Names of unix sockets are compared by the vnode numbers of per-process layers (133).  A
  parked accept holds its listener's index and no reference.
- **Signals.**  raise of a pending signal that has since been ignored still kills
  (run.rs:783).  A signal sent to the process is lost when every thread blocks it
  (machine.rs:513), and a tgkill of a blocked one although its comment says it stays
  pending (syscall.rs:3193).  A new thread has an empty mask.  Signals interrupt pauses,
  suspends and sleeps, and no futex wait, transfer, poll, accept or wait4.  A sleeper with a signal
  pending does not count as runnable (run.rs:429).
- **Processes and waits.**  deliver drops what the end of the first process answers
  (system.rs:792).  Two threads in wait4 for one child: one waits for ever (system.rs:322).
  A read resumed with its buffer unmapped loses the bytes it took (ring.rs:392), and the count of an
  eventfd (eventfd.rs:232).
- **poll and epoll.**  execve leaves registrations behind (syscall.rs:1400).  An
  epoll_wait holds no reference on its set (poll.rs:680).  A poll is woken by
  description and answered by number (poll.rs:760).  What fires beyond maxevents is recorded as
  reported (poll.rs:834).  A fork counts the child's epoll descriptors on sets it never
  gives back (syscall.rs:1281).  Two instances that watch each other recurse (poll.rs:615).
- **The engine.**  A store that rewrites the instruction that made earlier flags dead
  leaves them unwritten.  A byte that is no instruction refuses the whole block before
  it (block.rs:431).  adc and sbb on memory record their flags, and xadd writes
  its register, before the store that may fault.

## 12. What stays with TLC, and what is not modelled

Liveness under fairness and ENABLED are beyond the proof system, and so is
induction over data, hence what recursive definitions compute: that a trace does what
its block does (section 9) is checked on programs.  Of section 7 nothing is proved yet: the plan's ninth step.

Left out of the parts that are modelled, besides what each section says: wording and
layout of what a call writes back (stat, siginfo, addresses, `/proc`), socket options
and MSG_PEEK, locks, extended attributes and times of files, special and generated
files, readiness of pipes and sockets in an interest set, the debugger's stop, most of the
instruction set.

Not modelled: the arithmetic of x87 and of vectors (data far beyond a model checker, and
tested against an oracle); ELF parsing and the initial stack; random bytes (a
pure expansion of a seed); the dispatcher; image packing, wire formats, the command line and the web
page (batch transformations and plain input and output); and the store's tape, which is planned.

## 13. Running

`tlc -config MCPipesBytes.cfg MCPipes`, and so on for the runs in `PROJECT.json`; the
slowest, `signals` and `files`, take about two minutes.
`tlapm PipesProofs.tla`, and so on for the other modules named `...Proofs`; most take a minute or
two, `MemoryProofs` four and `SocketsProofs` ten.
Definitions whose comment begins
"Mutant" are deliberately wrong variants of the definition below them: put in its place, TLC
has to find a named property violated (`mutants` in `PROJECT.json`), which shows
that the property can fail.
