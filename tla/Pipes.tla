------------------------------- MODULE Pipes -------------------------------
(***************************************************************************)
(* Pipes of the kernel: the arena of rings every process shares (ring.rs), *)
(* the descriptor tables that name their ends (fd.rs, pipe.rs, the census  *)
(* of file.rs), the threads parked part-way through a transfer, and the    *)
(* scheduler's rule that a parked transfer is finished on its own          *)
(* process's turn (run.rs, system.rs).                                     *)
(*                                                                         *)
(* The kernel is one thread of control: a step below is one syscall, one   *)
(* resumed transfer or one switch, and nothing interleaves inside it.      *)
(* What interleaves is which process has the turn and which of its threads *)
(* makes the next call.                                                    *)
(*                                                                         *)
(* A byte is a pair <<write call, position>>.  `pipe`, `made`, `calls`,    *)
(* `sent`, `drained` and the fields `pipe` and `call` of descriptors and   *)
(* transfers are history: no action of the kernel reads them.              *)
(***************************************************************************)
EXTENDS Ring, Integers, FiniteSets

CONSTANTS
  Procs,      (* process identifiers 1..n; 1 is the first process          *)
  Threads,    (* thread numbers, in the order Threads::all lists them      *)
  Home,       (* the process each thread belongs to                        *)
  Fds,        (* descriptor numbers                                        *)
  Slots,      (* indices of the arena the pipes of a run fit into          *)
  Lengths,    (* lengths a read or a write may name                        *)
  Cloexec,    (* values of the close-on-exec flag a call may set           *)
  MaxPipes,   (* bound: pipes made                                         *)
  MaxWrites,  (* bound: write calls made                                   *)
  NoFile,     (* a descriptor number that is not open                      *)
  NoTransfer  (* a thread that is not parked on a ring                     *)

ASSUME PipesAssumption ==
  /\ Procs \subseteq Nat /\ IsFiniteSet(Procs) /\ 1 \in Procs
  /\ Threads \subseteq Nat /\ IsFiniteSet(Threads)
  /\ Home \in [Threads -> Procs]
  /\ Fds \subseteq Nat /\ IsFiniteSet(Fds)
  /\ Slots \subseteq Nat
  /\ Lengths \subseteq Nat \ {0}
  /\ Cloexec \subseteq BOOLEAN
  /\ MaxPipes \in Nat /\ MaxWrites \in Nat

VARIABLES
  rings,    (* the arena                                                   *)
  files,    (* each process's descriptor table                             *)
  live,     (* threads that have not exited                                *)
  next,     (* the identifier the next fork hands out                      *)
  cur,      (* the process that has the turn                               *)
  parked,   (* what each thread is parked on, if anything                  *)
  todo,     (* parked threads this turn has not looked at yet              *)
  rax,      (* the last answer a transfer gave, and the thread it gave it to *)
  pipe, made, calls, sent, drained

history == <<pipe, made, calls, sent, drained>>
vars    == <<rings, files, live, next, cur, parked, todo, rax,
             pipe, made, calls, sent, drained>>

\* What %rax holds when a transfer fails.
EAGAIN == -11
EFAULT == -14
EMFILE == -24
EPIPE  == -32

Serials     == 1..MaxPipes
Byte        == (0..MaxWrites) \X Nat
Descriptor  == [ring : Slots, end : End, cloexec : BOOLEAN, pipe : Serials]
Transfer    == {x \in [ring : Slots, end : End, length : Lengths, done : Nat,
                       pipe : Serials, call : 0..MaxWrites] : x.done < x.length}
RingRecord  == {r \in [bytes : Seq(Byte), readers : Nat, writers : Nat,
                       attached : {0}] : Queued(r) <= Capacity}
Table       == [Fds -> Descriptor \cup {NoFile}]
EmptyTable  == [fd \in Fds |-> NoFile]

ASSUME NothingAssumption ==
  NoFile \notin Descriptor /\ NoTransfer \notin Transfer

---------------------------------------------------------------------------
(* Descriptor tables.                                                      *)

Open(table)          == {fd \in Fds : table[fd] # NoFile}
Naming(table, s, e)  == {fd \in Open(table) : table[fd].ring = s /\ table[fd].end = e}
Without(table, S)    == [fd \in Fds |-> IF fd \in S THEN NoFile ELSE table[fd]]
Marked(table, S, value) ==
  [fd \in Fds |-> IF fd \in S \cap Open(table)
                  THEN [table[fd] EXCEPT !.cloexec = value]
                  ELSE table[fd]]
LowestFree(table, fd) ==
  /\ fd \notin Open(table)
  /\ \A lower \in Fds \ Open(table) : fd <= lower

\* Mutant: counts each ring once, however many descriptors are on it.
CensusOfRings(table, s) ==
  [e \in End |-> IF Naming(table, s, e) = {} THEN 0 ELSE 1]

\* shared_census: once per descriptor.
Census(table, s) == [e \in End |-> Cardinality(Naming(table, s, e))]

(***************************************************************************)
(* reconcile_shared: process p's table becomes `table`, and every ring's   *)
(* counts move by the difference of the two censuses.                      *)
(***************************************************************************)
SetTable(p, table) ==
  /\ files' = [files EXCEPT ![p] = table]
  /\ rings' = [s \in Slots |->
       Reconciled(rings[s], Census(files[p], s), Census(table, s))]

---------------------------------------------------------------------------
(* Turns.                                                                  *)

Ready(t) ==
  LET x == parked[t] IN
  /\ x # NoTransfer
  /\ IF x.end = "Read"
     THEN Readable(rings[x.ring])
     ELSE Writable(rings[x.ring], x.length - x.done)

ParkedIn(p)     == {t \in live : Home[t] = p /\ parked[t] # NoTransfer}
ProcReady(p)    == \E t \in live : Home[t] = p /\ (parked[t] = NoTransfer \/ Ready(t))
NothingToResume == \A t \in todo : ~Ready(t)

\* Every transfer a turn can move is moved before the engine runs, so a
\* thread makes a call only once nothing is left to resume.
CanCall(t) ==
  /\ t \in live /\ Home[t] = cur
  /\ parked[t] = NoTransfer
  /\ NothingToResume

\* The step after a call starts again with the transfers parked by then.
LookAgain == todo' = {t \in live' : Home[t] = cur /\ parked'[t] # NoTransfer}

Distance(p) == IF p > cur THEN p - cur ELSE p - cur + Cardinality(Procs)

\* schedule: the next ready process in table order, the current one last.
Turn(p) ==
  /\ NothingToResume
  /\ ProcReady(p)
  /\ \A q \in Procs : ProcReady(q) => Distance(p) <= Distance(q)
  /\ cur' = p
  /\ todo' = ParkedIn(p)
  /\ UNCHANGED <<rings, files, live, next, parked, rax, history>>

---------------------------------------------------------------------------
(* Transfers.  A transfer's buffer can only vanish under it when another   *)
(* thread of the process unmaps it while it is parked.                     *)

CanUnmap(t) == \E u \in live : u # t /\ Home[u] = Home[t]

Answer(t, value) ==
  /\ rax' = [thread |-> t, value |-> value]
  /\ parked' = [parked EXCEPT ![t] = NoTransfer]

\* A transfer that cannot finish: EAGAIN or a short count where the
\* descriptor does not block, a parked thread where it does.
Wait(t, x, nonblock) ==
  IF nonblock
  THEN Answer(t, IF x.done = 0 THEN EAGAIN ELSE x.done)
  ELSE parked' = [parked EXCEPT ![t] = x] /\ UNCHANGED rax

AdvanceRead(t, x, nonblock, fault) ==
  LET r   == rings[x.ring]
      got == Taken(r, x.length)
  IN /\ rings' = [rings EXCEPT ![x.ring] = AfterTake(r, x.length)]
     /\ drained' = [drained EXCEPT ![x.pipe] = @ \o got]
     /\ IF Readable(r)
        THEN Answer(t, IF fault /\ got # << >> THEN EFAULT ELSE Len(got))
        ELSE Wait(t, x, nonblock)
     /\ UNCHANGED sent

Chunk(x, n) == [i \in 1..n |-> <<x.call, x.done + i>>]

(***************************************************************************)
(* `killed` says that SIGPIPE is at its default, whose action would end    *)
(* the process: advance_transfer answers EPIPE then whatever has moved.    *)
(***************************************************************************)
AdvanceWrite(t, x, nonblock, fault, killed) ==
  LET r    == rings[x.ring]
      left == x.length - x.done
      n    == IF r.readers = 0 \/ fault THEN 0 ELSE Accepted(r, left)
  IN /\ rings' = [rings EXCEPT ![x.ring] = AfterGive(r, Chunk(x, n))]
     /\ sent' = [sent EXCEPT ![x.pipe] = @ \o Chunk(x, n)]
     /\ CASE r.readers = 0 ->
               Answer(t, IF killed \/ x.done = 0 THEN EPIPE ELSE x.done)
          [] r.readers > 0 /\ fault -> Answer(t, EFAULT)
          [] r.readers > 0 /\ ~fault /\ n = left -> Answer(t, x.length)
          [] OTHER -> Wait(t, [x EXCEPT !.done = @ + n], nonblock)
     /\ UNCHANGED drained

NewTransfer(d, length, call) ==
  [ring |-> d.ring, end |-> d.end, length |-> length, done |-> 0,
   pipe |-> d.pipe, call |-> call]

Read(t, fd, length, nonblock) ==
  LET d == files[cur][fd] IN
  /\ CanCall(t)
  /\ d # NoFile /\ d.end = "Read"
  /\ AdvanceRead(t, NewTransfer(d, length, 0), nonblock, FALSE)
  /\ UNCHANGED <<files, live, next, cur, pipe, made, calls>>
  /\ LookAgain

Write(t, fd, length, nonblock, killed) ==
  LET d == files[cur][fd] IN
  /\ CanCall(t)
  /\ d # NoFile /\ d.end = "Write"
  /\ calls < MaxWrites
  /\ calls' = calls + 1
  /\ AdvanceWrite(t, NewTransfer(d, length, calls + 1), nonblock, FALSE, killed)
  /\ UNCHANGED <<files, live, next, cur, pipe, made>>
  /\ LookAgain

\* resume_transfers: in thread order, and each looked at once per step.
Resume(t, fault, killed) ==
  /\ t \in todo
  /\ Ready(t)
  /\ \A u \in todo : u < t => ~Ready(u)
  /\ fault => CanUnmap(t)
  /\ IF parked[t].end = "Read"
     THEN AdvanceRead(t, parked[t], FALSE, fault)
     ELSE AdvanceWrite(t, parked[t], FALSE, fault, killed)
  /\ todo' = {u \in todo : u > t}
  /\ UNCHANGED <<files, live, next, cur, pipe, made, calls>>

---------------------------------------------------------------------------
(* Descriptors.                                                            *)

\* A call that only changes the caller's table.
Retable(t, table) ==
  /\ CanCall(t)
  /\ SetTable(cur, table)
  /\ UNCHANGED <<live, next, cur, parked, rax, history>>
  /\ LookAgain

LowestFreeSlot(s) ==
  /\ rings[s] = FreeRing
  /\ \A lower \in Slots : rings[lower] = FreeRing => s <= lower

\* pipe2: one ring, and the two lowest free descriptors onto its ends.
MakePipe(t, cloexec) ==
  LET table == files[cur] IN
  /\ CanCall(t)
  /\ made < MaxPipes
  /\ \E s \in Slots, r, w \in Fds :
       LET d(e)   == [ring |-> s, end |-> e, cloexec |-> cloexec, pipe |-> made + 1]
           opened == [table EXCEPT ![r] = d("Read")]
       IN /\ LowestFreeSlot(s)
          /\ made' = made + 1
          /\ LowestFree(table, r)
          /\ LowestFree(opened, w)
          /\ files' = [files EXCEPT ![cur] = [opened EXCEPT ![w] = d("Write")]]
          /\ rings' = [rings EXCEPT ![s] = NewRing]
          /\ pipe' = [pipe EXCEPT ![s] = made + 1]
  /\ UNCHANGED <<live, next, cur, parked, rax, calls, sent, drained>>
  /\ LookAgain

\* EMFILE: whichever descriptor did not fit, both ends of the ring that was
\* made are given back and it is freed again.
MakePipeRefused(t) ==
  /\ CanCall(t)
  /\ Cardinality(Fds \ Open(files[cur])) < 2
  /\ \E s \in Slots :
       /\ LowestFreeSlot(s)
       /\ rings' = [rings EXCEPT ![s] =
            FreeIfUnused([NewRing EXCEPT !.readers = SaturatingSub(@, 1),
                                         !.writers = SaturatingSub(@, 1)])]
  /\ rax' = [thread |-> t, value |-> EMFILE]
  /\ UNCHANGED <<files, live, next, cur, parked, history>>
  /\ LookAgain

\* dup: the lowest free descriptor, and the copy survives an execve.
Dup(t, old) ==
  LET table == files[cur] IN
  /\ old \in Open(table)
  /\ \E new \in Fds :
       /\ LowestFree(table, new)
       /\ Retable(t, [table EXCEPT ![new] = [table[old] EXCEPT !.cloexec = FALSE]])

\* dup3 closes whatever the target was; with equal descriptors it is EINVAL.
Dup3(t, old, new, cloexec) ==
  LET table == files[cur] IN
  /\ old \in Open(table)
  /\ old # new
  /\ Retable(t, [table EXCEPT ![new] = [table[old] EXCEPT !.cloexec = cloexec]])

(***************************************************************************)
(* fcntl's F_DUPFD: the lowest free descriptor that is not below `floor`.  *)
(* The one call that changes a table and takes no census; FcntlSpec is the *)
(* kernel with it, Spec the kernel without.                                *)
(***************************************************************************)
DupFd(t, old, floor, cloexec) ==
  LET table == files[cur]
      free  == {fd \in Fds \ Open(table) : floor <= fd}
  IN /\ CanCall(t)
     /\ old \in Open(table)
     /\ \E new \in free :
          /\ \A fd \in free : new <= fd
          /\ files' = [files EXCEPT ![cur] =
               [table EXCEPT ![new] = [table[old] EXCEPT !.cloexec = cloexec]]]
     /\ UNCHANGED <<rings, live, next, cur, parked, rax, history>>
     /\ LookAgain

Close(t, fd) ==
  /\ fd \in Open(files[cur])
  /\ Retable(t, Without(files[cur], {fd}))

\* close_range: with CLOSE_RANGE_CLOEXEC it marks what it would close.
CloseRange(t, first, last) ==
  LET span == {fd \in Fds : first <= fd /\ fd <= last} IN
  /\ span \cap Open(files[cur]) # {}
  /\ \/ Retable(t, Without(files[cur], span))
     \/ TRUE \in Cloexec /\ Retable(t, Marked(files[cur], span, TRUE))

\* fcntl's F_SETFD.
SetCloexec(t, fd, cloexec) ==
  /\ fd \in Open(files[cur])
  /\ Retable(t, Marked(files[cur], {fd}, cloexec))

---------------------------------------------------------------------------
(* Processes.                                                              *)

ThreadsOf(p) == {t \in Threads : Home[t] = p}

\* The threads in S are gone, and with them whatever they were waiting for.
Ended(S) ==
  /\ live' = live \ S
  /\ parked' = [t \in Threads |-> IF t \in S THEN NoTransfer ELSE parked[t]]

\* fork copies the table and counts every descriptor the copy holds again.
\* The child is one thread.
Fork(t) ==
  /\ CanCall(t)
  /\ next \in Procs
  /\ SetTable(next, files[cur])
  /\ live' = live \cup ThreadsOf(next)
  /\ next' = next + 1
  /\ UNCHANGED <<cur, parked, rax, history>>
  /\ LookAgain

\* execve closes what is marked, and only the calling thread goes on.
Execve(t) ==
  LET table  == files[cur]
      marked == {fd \in Open(table) : table[fd].cloexec}
  IN /\ CanCall(t)
     /\ SetTable(cur, Without(table, marked))
     /\ Ended(ThreadsOf(cur) \ {t})
     /\ UNCHANGED <<next, cur, rax, history>>
     /\ LookAgain

(***************************************************************************)
(* An execve whose program does not load returns to the caller, with its   *)
(* table untouched; the rings of what is marked were released before the   *)
(* load was tried.  ExecveSpec is the kernel with it, Spec the kernel      *)
(* without.                                                                *)
(***************************************************************************)
ExecveRefused(t) ==
  LET table  == files[cur]
      marked == {fd \in Open(table) : table[fd].cloexec}
  IN /\ CanCall(t)
     /\ rings' = [s \in Slots |->
          Reconciled(rings[s], Census(table, s), Census(Without(table, marked), s))]
     /\ UNCHANGED <<files, live, next, cur, parked, rax, history>>
     /\ LookAgain

\* finish_at: a process that ends lets go of every descriptor, and is never
\* ready again.
Ends(p) ==
  /\ SetTable(p, EmptyTable)
  /\ Ended(ThreadsOf(p))
  /\ UNCHANGED <<next, cur, rax, history>>

Exit(t) == CanCall(t) /\ Ends(cur) /\ LookAgain

\* kill, of another process that has the signal at its default action.
Kill(t, p) ==
  /\ CanCall(t)
  /\ p # cur
  /\ \E u \in live : Home[u] = p
  /\ Ends(p)
  /\ LookAgain

---------------------------------------------------------------------------
Init ==
  /\ rings = [s \in Slots |-> FreeRing]
  /\ files = [p \in Procs |-> EmptyTable]
  /\ live = ThreadsOf(1)
  /\ next = 2
  /\ cur = 1
  /\ parked = [t \in Threads |-> NoTransfer]
  /\ todo = {}
  /\ rax \in [thread : ThreadsOf(1), value : {0}]
  /\ pipe = [s \in Slots |-> 0]
  /\ made = 0
  /\ calls = 0
  /\ sent = [g \in Serials |-> << >>]
  /\ drained = [g \in Serials |-> << >>]

Transferring(t) ==
  \E fd \in Fds, length \in Lengths, nonblock \in BOOLEAN :
    \/ Read(t, fd, length, nonblock)
    \/ \E killed \in BOOLEAN : Write(t, fd, length, nonblock, killed)

Describing(t) ==
  \/ \E cloexec \in Cloexec : MakePipe(t, cloexec)
  \/ MakePipeRefused(t)
  \/ \E fd \in Fds : Dup(t, fd) \/ Close(t, fd)
  \/ \E old, new \in Fds, cloexec \in Cloexec : Dup3(t, old, new, cloexec)
  \/ \E first, last \in Fds : CloseRange(t, first, last)
  \/ \E fd \in Fds, cloexec \in Cloexec : SetCloexec(t, fd, cloexec)

Becoming(t) ==
  \/ Fork(t)
  \/ Execve(t)
  \/ Exit(t)
  \/ \E p \in Procs : Kill(t, p)

Resuming  == \E t \in Threads, fault, killed \in BOOLEAN : Resume(t, fault, killed)
Switching == \E p \in Procs : Turn(p)

Next ==
  \/ \E t \in Threads : Transferring(t) \/ Describing(t) \/ Becoming(t)
  \/ Resuming
  \/ Switching

Fcntl ==
  \E t \in Threads, old, floor \in Fds, cloexec \in Cloexec :
    DupFd(t, old, floor, cloexec)

Refusing == \E t \in Threads : ExecveRefused(t)

Spec       == Init /\ [][Next]_vars
FcntlSpec  == Init /\ [][Next \/ Fcntl]_vars
ExecveSpec == Init /\ [][Next \/ Refusing]_vars

(***************************************************************************)
(* A step resumes before it does anything else, and a process that runs    *)
(* on for a slice of quanta, or that cannot run, hands the turn on.        *)
(***************************************************************************)
FairSpec == Spec /\ WF_vars(Resuming) /\ WF_vars(Switching)

---------------------------------------------------------------------------
(* Invariants.                                                             *)

\* Every variable stays in its domain: a ring never holds more than its
\* capacity, and a parked transfer has always something left to move.
TypeOK ==
  /\ rings \in [Slots -> RingRecord]
  /\ files \in [Procs -> Table]
  /\ live \subseteq Threads
  /\ next \in Nat /\ cur \in Procs
  /\ parked \in [Threads -> Transfer \cup {NoTransfer}]
  /\ todo \subseteq Threads
  /\ rax \in [thread : Threads, value : Int]
  /\ pipe \in [Slots -> 0..MaxPipes]
  /\ made \in 0..MaxPipes /\ calls \in 0..MaxWrites
  /\ sent \in [Serials -> Seq(Byte)] /\ drained \in [Serials -> Seq(Byte)]

\* The descriptors of the whole process tree that are on an end of a ring.
Holders(s, e) ==
  {h \in Procs \X Fds : h[2] \in Naming(files[h[1]], s, e)}

(***************************************************************************)
(* A ring's readers and writers are exactly the descriptors on its ends,   *)
(* in every process: file.rs:2305 "getting it wrong does not corrupt       *)
(* anything: it hangs, or it reports end-of-file to a reader whose writer  *)
(* is still there".  Every path that changes a table has to keep it.       *)
(***************************************************************************)
EndsAreCounted ==
  \A s \in Slots :
    /\ rings[s].readers = Cardinality(Holders(s, "Read"))
    /\ rings[s].writers = Cardinality(Holders(s, "Write"))

(***************************************************************************)
(* A reader is told of the end of file, and a writer of a broken pipe,     *)
(* only when nobody is left on the other end: file.rs:2301 "A pipe's       *)
(* readers and writers are counted in descriptors".                        *)
(***************************************************************************)
EndsAreTrue ==
  \A s \in Slots :
    /\ rings[s].readers = 0 => Holders(s, "Read") = {}
    /\ rings[s].writers = 0 => Holders(s, "Write") = {}

(***************************************************************************)
(* A slot is given out again only once no descriptor names it, and a slot  *)
(* no descriptor names is free: neither a reused ring under somebody's     *)
(* descriptor nor a leaked one.  `pipe` says whose ring is in the slot.    *)
(***************************************************************************)
SlotsAreOwned ==
  \A s \in Slots :
    /\ \A e \in End : \A h \in Holders(s, e) :
         /\ rings[s] # FreeRing
         /\ files[h[1]][h[2]].pipe = pipe[s]
    /\ Holders(s, "Read") = {} /\ Holders(s, "Write") = {} => rings[s] = FreeRing

(***************************************************************************)
(* Bytes are neither lost, nor repeated, nor reordered between the writers *)
(* and the readers of one pipe.                                            *)
(***************************************************************************)
BytesAreKept ==
  \A s \in Slots :
    rings[s] # FreeRing => sent[pipe[s]] = drained[pipe[s]] \o rings[s].bytes

(***************************************************************************)
(* The slot a parked transfer names still holds the ring it was parked on, *)
(* or nothing: ring.rs:84 "an identifier is an index and stays valid while *)
(* anything holds it".                                                     *)
(***************************************************************************)
ParkedKeepsItsRing ==
  \A t \in Threads :
    parked[t] # NoTransfer =>
      LET s == parked[t].ring IN rings[s] = FreeRing \/ pipe[s] = parked[t].pipe

---------------------------------------------------------------------------
(* Properties.                                                             *)

\* What a caller knows of its transfer: no ring's index.
Request == [end : End, length : Lengths, done : Nat, pipe : Serials,
            call : 0..MaxWrites]

ASSUME RequestAssumption == NoTransfer \notin Request

RequestOf(t) ==
  LET x == parked[t] IN
  IF x = NoTransfer
  THEN NoTransfer
  ELSE [end |-> x.end, length |-> x.length, done |-> x.done,
        pipe |-> x.pipe, call |-> x.call]

OpenEnds(g) ==
  {e \in End : \E p \in Procs : \E fd \in Open(files[p]) :
     files[p][fd].pipe = g /\ files[p][fd].end = e}

Contract ==
  INSTANCE PipesContract WITH
    NoRequest <- NoTransfer,
    open <- [g \in Serials |-> OpenEnds(g)],
    stream <- sent, taken <- drained, writes <- calls, answer <- rax,
    request <- [t \in Threads |-> RequestOf(t)]

(***************************************************************************)
(* The kernel's pipes keep the contract: the counts, the parking and the   *)
(* turns never tell a caller something the open descriptors of the process *)
(* tree contradict.                                                        *)
(***************************************************************************)
KeepsContract == Contract!Spec

(***************************************************************************)
(* A transfer the scheduler takes for ready moves: a process is never      *)
(* given the turn for a transfer that then waits again having done         *)
(* nothing, which would keep the container from ever going idle.           *)
(***************************************************************************)
ReadyMoves ==
  [][\A t \in Threads :
       (t \in todo /\ t \notin todo' /\ Ready(t) /\ cur' = cur) =>
         parked'[t] # parked[t]]_vars

\* What the open descriptors say about a parked call: it could return.
CouldReturn(t) ==
  LET x == parked[t]
      ahead == Len(sent[x.pipe]) - Len(drained[x.pipe])
  IN /\ x # NoTransfer
     /\ IF x.end = "Read"
        THEN ahead > 0 \/ "Write" \notin OpenEnds(x.pipe)
        ELSE ahead = 0 \/ "Read" \notin OpenEnds(x.pipe)

(***************************************************************************)
(* Nobody is forgotten: a parked reader is not left waiting for ever with  *)
(* bytes in its pipe or with its last writer gone, nor a parked writer     *)
(* with its pipe empty or with its last reader gone.                       *)
(***************************************************************************)
NobodyIsForgotten == \A t \in Threads : []<>~CouldReturn(t)
===========================================================================
