----------------------------- MODULE Processes -----------------------------
(***************************************************************************)
(* The process table and the scheduler of crates/kernel/src/system.rs,     *)
(* with what a turn of a process is (run.rs) and which thread of it runs   *)
(* (thread.rs): fork, execve, clone, exit, kill, wait4, pause and sleep,   *)
(* the slice, the idle pass and the host's shutdown request.               *)
(*                                                                         *)
(* One turn of the loop is the phases Step, Run, Schedule and Collect, and *)
(* Idle when nobody can be chosen; nothing interleaves inside a turn.      *)
(* What a program does with its turn is free.  Signal masks and handler    *)
(* frames are left out: a pending signal is one the thread does not block. *)
(***************************************************************************)
EXTENDS Integers, Sequences, FiniteSets, SequencesExt

CONSTANTS
  MaxPid,    (* bound: processes ever made                                 *)
  MaxThread, (* bound: threads a process ever has                          *)
  SLICE,     (* quanta a process holds the processor for                   *)
  Codes,     (* exit codes                                                 *)
  Handled,   (* signals a program may change the disposition of            *)
  Handlers,  (* dispositions it may give them                              *)
  Targets,   (* processes a program may kill                               *)
  Sleeps,    (* whether a program may sleep                                *)
  Asks,      (* whether the host may ask for a shutdown                    *)
  Alive,     (* the status of a process that has not ended                 *)
  Deadlocked (* the container's outcome when nothing can ever run          *)

FIRST   == 1
SIGSEGV == 11
SIGTERM == 15
SIGCHLD == 17
ESRCH   == -3
ECHILD  == -10

Pids    == 1..MaxPid
Threads == 1..MaxThread
Signals == {SIGTERM, SIGCHLD}
Endings == [how : {"Exited"}, number : Codes \cup {128 + SIGTERM}]
             \cup [how : {"Signalled"}, number : {SIGTERM, SIGSEGV}]
Exited(code)      == [how |-> "Exited", number |-> code]
Signalled(signal) == [how |-> "Signalled", number |-> signal]

ASSUME ProcessesAssumption ==
  /\ MaxPid \in Nat \ {0} /\ SLICE \in Nat \ {0}
  /\ MaxThread \in Nat \ {0}
  /\ Codes \subseteq 0..255
  /\ Handled \subseteq Signals
  /\ Handlers \subseteq {"Default", "Ignored", "Caught"}
  /\ Sleeps \in BOOLEAN /\ Asks \in BOOLEAN
  /\ Alive \notin Endings /\ Deadlocked \notin Endings \cup {Alive}

VARIABLES
  table,         (* every process that has not been reaped, oldest first   *)
  at,            (* the index of the one that has the turn                 *)
  next,          (* the identifier the next fork hands out                 *)
  slice,         (* quanta it has used since it was given the turn         *)
  threads,       (* each process's threads                                 *)
  turn,          (* which of them the process is advancing                 *)
  dispositions,
  phase, why,    (* where in a turn the loop is, and why the step stopped  *)
  stopping,      (* the shutdown request was delivered                     *)
  outcome,       (* what the container ended with, once it has             *)
  answer         (* what wait4 or kill answered since the step began       *)

vars == <<table, at, next, slice, threads, turn, dispositions, phase, why,
          stopping, outcome, answer>>

Terminates(signal) == signal # SIGCHLD

NoAnswer == [to |-> 0, call |-> "none", about |-> 0, value |-> 0, status |-> Alive]

NoThread == [state |-> "None", wanted |-> 0, pending |-> {}]
NewThread == [state |-> "Runnable", wanted |-> 0, pending |-> {}]
OneThread(thread) == [t \in Threads |-> IF t = 1 THEN thread ELSE NoThread]
Defaults == [s \in Signals |-> "Default"]
Nobody == [t \in Threads |-> NoThread]

Current   == table[at].pid
Me        == turn[Current]
Living(i) == table[i].status = Alive
Exists(p) == \E i \in DOMAIN table : table[i].pid = p
IndexOf(p) == CHOOSE i \in DOMAIN table : table[i].pid = p

---------------------------------------------------------------------------
(* Children.                                                               *)

\* Mutant: anybody's child will do.
ChildrenOfAnybody(p, wanted) == {i \in DOMAIN table : wanted = 0 \/ table[i].pid = wanted}

Children(p, wanted) ==
  {i \in DOMAIN table : table[i].parent = p /\ (wanted = 0 \/ table[i].pid = wanted)}

Reapable(p, wanted) == {i \in Children(p, wanted) : ~Living(i)}

Oldest(S) == CHOOSE i \in S : \A j \in S : i <= j

\* The running process moves down with the table.
Shifted(i) == IF at > i THEN at - 1 ELSE at

Tells(call, about, value, status) ==
  answer' = [to |-> table'[at'].pid, call |-> call, about |-> about,
             value |-> value, status |-> status]

\* reap: the oldest finished child goes, with everything it was, and whoever
\* is current is told.
Reap(wanted, ths) ==
  LET i == Oldest(Reapable(Current, wanted)) IN
  /\ table' = RemoveAt(table, i)
  /\ threads' = [ths EXCEPT ![table[i].pid] = Nobody]
  /\ dispositions' = [dispositions EXCEPT ![table[i].pid] = Defaults]
  /\ turn' = [turn EXCEPT ![table[i].pid] = 1]
  /\ at' = Shifted(i)
  /\ Tells("wait4", wanted, table[i].pid, table[i].status)

---------------------------------------------------------------------------
(* Signals and endings.                                                    *)

\* signal_process: caught, it is pending on the thread its process is
\* advancing; ignored, it leaves nothing behind.
Raised(ths, p, signal) ==
  IF dispositions[p][signal] = "Caught"
  THEN [ths EXCEPT ![p][turn[p]].pending = @ \cup {signal}]
  ELSE ths

Fatal(p, signal) == dispositions[p][signal] = "Default" /\ Terminates(signal)

\* Mutants: orphans keep a parent that is gone, and everybody is adopted.
NotAdopted(parent, gone) == parent
AllAdopted(parent, gone) == FIRST

Adopted(parent, gone) == IF parent = gone THEN FIRST ELSE parent

(***************************************************************************)
(* finish_at: the status, the orphans, and SIGCHLD at the parent.  Its     *)
(* threads stay as they are; `ths` is what they are.                       *)
(***************************************************************************)
FinishAt(i, ending, ths) ==
  /\ table' = [j \in DOMAIN table |->
       [table[j] EXCEPT !.parent = Adopted(@, table[i].pid),
                        !.status = IF j = i THEN ending ELSE @]]
  /\ threads' = IF \E j \in DOMAIN table : table[j].pid = table[i].parent /\ Living(j)
                THEN Raised(ths, table[i].parent, SIGCHLD)
                ELSE ths

\* The container is over with the first process, and with nobody else.
Finish(ending, ths) ==
  /\ FinishAt(at, ending, ths)
  /\ why' = "Given"
  /\ IF Current = FIRST
     THEN outcome' = ending /\ phase' = "Over"
     ELSE phase' = "Schedule" /\ UNCHANGED outcome

\* deliver: what a finish_at says of the container is not looked at.
Deliver(p, signal) ==
  IF Exists(p) /\ Living(IndexOf(p))
  THEN IF Fatal(p, signal)
       THEN FinishAt(IndexOf(p), Signalled(signal), threads)
       ELSE threads' = Raised(threads, p, signal) /\ UNCHANGED table
  ELSE UNCHANGED <<table, threads>>

---------------------------------------------------------------------------
(* The head of a step: signals wake who waits for one, a thread is chosen, *)
(* and its lowest pending signal is delivered.                             *)

Woken(p) ==
  [t \in Threads |->
     LET thread == threads[p][t] IN
     IF thread.state \in {"Paused", "Sleeping"} /\ thread.pending # {}
     THEN [thread EXCEPT !.state = "Runnable"]
     ELSE thread]

RunnableIn(ths) == {t \in Threads : ths[t].state = "Runnable"}

\* Threads::schedule: round robin, the current one last.
After(t, u) == IF u > t THEN u - t ELSE u - t + Cardinality(Threads)
Following(ths, t) ==
  CHOOSE u \in RunnableIn(ths) : \A v \in RunnableIn(ths) : After(t, u) <= After(t, v)

\* Mutant: goes on with the thread it stopped at, parked or not.
ChosenAnyhow(ths) == Me

\* A turn can come back to a process whose own thread is still parked.
Chosen(ths) == IF ths[Me].state = "Runnable" THEN Me ELSE Following(ths, Me)

Step ==
  LET ths == Woken(Current)
      t   == Chosen(ths)
      signal == CHOOSE s \in ths[t].pending : \A r \in ths[t].pending : s <= r
      taken  == [threads EXCEPT ![Current] =
                   [ths EXCEPT ![t].pending = @ \ {signal}]]
  IN /\ phase = "Step"
     /\ IF RunnableIn(ths) = {}
        THEN /\ phase' = "Schedule" /\ why' = "Given"
             /\ UNCHANGED <<table, threads, turn, outcome>>
        ELSE /\ turn' = [turn EXCEPT ![Current] = t]
             /\ CASE ths[t].pending = {} ->
                       /\ threads' = [threads EXCEPT ![Current] = ths]
                       /\ phase' = "Run"
                       /\ UNCHANGED <<table, why, outcome>>
                  [] ths[t].pending # {} /\ ~Fatal(Current, signal) ->
                       /\ threads' = taken
                       /\ phase' = "Run"
                       /\ UNCHANGED <<table, why, outcome>>
                  [] OTHER -> Finish(Signalled(signal), taken)
     /\ answer' = NoAnswer
     /\ UNCHANGED <<at, next, slice, dispositions, stopping>>

---------------------------------------------------------------------------
(* What the thread does with its turn.                                     *)

\* A zombie's thread is not expected here, and is a case of its own below.
Running == phase = "Run" /\ Living(at)

Stops(reason) == phase' = "Schedule" /\ why' = reason

\* A quantum of instructions without a syscall.
Preempt ==
  /\ Running
  /\ turn' = [turn EXCEPT ![Current] = Following(threads[Current], Me)]
  /\ Stops("Quantum")
  /\ UNCHANGED <<table, at, next, slice, threads, dispositions, stopping, outcome, answer>>

\* A syscall that returns at once, a failed execve among them.
Call ==
  /\ Running
  /\ Stops("Kept")
  /\ UNCHANGED <<table, at, next, slice, threads, turn, dispositions,
                 stopping, outcome, answer>>

\* The thread can go no further: another of its process does, or nobody.
Parks(thread) ==
  LET ths == [threads[Current] EXCEPT ![Me] = thread] IN
  /\ threads' = [threads EXCEPT ![Current] = ths]
  /\ IF RunnableIn(ths) = {}
     THEN Stops("Given") /\ UNCHANGED turn
     ELSE Stops("Kept") /\ turn' = [turn EXCEPT ![Current] = Following(ths, Me)]
  /\ UNCHANGED <<table, at, next, slice, dispositions, stopping, outcome, answer>>

Pause == Running /\ Parks([threads[Current][Me] EXCEPT !.state = "Paused"])

Sleep ==
  /\ Running /\ Sleeps
  /\ Parks([threads[Current][Me] EXCEPT !.state = "Sleeping"])

Sigaction(signal, handler) ==
  /\ Running
  /\ dispositions' = [dispositions EXCEPT ![Current][signal] = handler]
  /\ Stops("Kept")
  /\ UNCHANGED <<table, at, next, slice, threads, turn, stopping, outcome, answer>>

\* The child is a copy with one thread, and goes to the end of the table.
Fork ==
  /\ Running
  /\ next <= MaxPid
  /\ next' = next + 1
  /\ table' = Append(table, [pid |-> next, parent |-> Current, status |-> Alive])
  /\ threads' = [threads EXCEPT ![next] = OneThread(threads[Current][Me])]
  /\ turn' = [turn EXCEPT ![next] = 1]
  /\ dispositions' = [dispositions EXCEPT ![next] = dispositions[Current]]
  /\ Stops("Kept")
  /\ UNCHANGED <<at, slice, stopping, outcome, answer>>

\* One new thread, nothing pending, and what was caught back at its default.
Execve ==
  /\ Running
  /\ threads' = [threads EXCEPT ![Current] = OneThread(NewThread)]
  /\ turn' = [turn EXCEPT ![Current] = 1]
  /\ dispositions' = [dispositions EXCEPT ![Current] =
       [s \in Signals |-> IF @[s] = "Ignored" THEN "Ignored" ELSE "Default"]]
  /\ Stops("Kept")
  /\ UNCHANGED <<table, at, next, slice, stopping, outcome, answer>>

Clone(t) ==
  /\ Running
  /\ threads[Current][t] = NoThread
  /\ \A u \in 1..(t - 1) : threads[Current][u] # NoThread
  /\ threads' = [threads EXCEPT ![Current][t] = NewThread]
  /\ Stops("Kept")
  /\ UNCHANGED <<table, at, next, slice, turn, dispositions, stopping, outcome, answer>>

Ending(ending, ths) ==
  /\ Finish(ending, ths)
  /\ UNCHANGED <<at, next, slice, turn, dispositions, stopping, answer>>

ExitGroup(code) == Running /\ Ending(Exited(code), threads)
Fault           == Running /\ Ending(Signalled(SIGSEGV), threads)

\* exit: the last thread takes the process with it.
Exit(code) ==
  LET gone == [threads[Current][Me] EXCEPT !.state = "Exited"] IN
  /\ Running
  /\ IF \E t \in Threads \ {Me} : threads[Current][t].state \notin {"None", "Exited"}
     THEN Parks(gone)
     ELSE Ending(Exited(code), [threads EXCEPT ![Current][Me] = gone])

\* kill, of the caller: a default action ends it with a code.
KillSelf(signal) ==
  /\ Running
  /\ IF Fatal(Current, signal)
     THEN Ending(Exited(128 + signal), threads)
     ELSE /\ threads' = Raised(threads, Current, signal)
          /\ Stops("Kept")
          /\ UNCHANGED <<table, at, next, slice, turn, dispositions,
                         stopping, outcome, answer>>

Kill(p, signal) ==
  /\ Running
  /\ p \in Targets \ {Current}
  /\ Deliver(p, signal)
  /\ UNCHANGED at
  /\ Tells("kill", p, IF Exists(p) THEN 0 ELSE ESRCH, Alive)
  /\ Stops("Kept")
  /\ UNCHANGED <<next, slice, turn, dispositions, stopping, outcome>>

\* wait4: answered at once, or parked with what to answer later.
Wait(wanted, nohang) ==
  /\ Running
  /\ IF Reapable(Current, wanted) # {}
     THEN Reap(wanted, threads)
     ELSE /\ UNCHANGED <<table, at, turn, dispositions>>
          /\ IF Children(Current, wanted) # {} /\ ~nohang
             THEN /\ threads' = [threads EXCEPT ![Current][Me] =
                       [@ EXCEPT !.state = "WaitingForChild", !.wanted = wanted]]
                  /\ UNCHANGED answer
             ELSE /\ Tells("wait4", wanted,
                           IF Children(Current, wanted) = {} THEN ECHILD ELSE 0, Alive)
                  /\ UNCHANGED threads
  /\ Stops("Kept")
  /\ UNCHANGED <<next, slice, stopping, outcome>>

(***************************************************************************)
(* A process that ended by exit_group keeps its thread Runnable and its    *)
(* place as the current one until somebody else is chosen.  Given another  *)
(* turn it runs on behind the call, where a C library has a trap or        *)
(* another exit.                                                           *)
(***************************************************************************)
RunsOn ==
  /\ phase = "Run" /\ ~Living(at)
  /\ \E ending \in {table[at].status, Signalled(SIGSEGV)} : Ending(ending, threads)

---------------------------------------------------------------------------
(* Who has the next turn.                                                  *)

Waiting(i) ==
  {t \in Threads : threads[table[i].pid][t].state = "WaitingForChild"}

Collectable(i) ==
  {t \in Waiting(i) : Reapable(table[i].pid, threads[table[i].pid][t].wanted) # {}}

\* Mutant: a signal is no reason for a turn.
RunnableAwake(p) == \E t \in Threads : threads[p][t].state = "Runnable"

\* Process::runnable: a sleeper is not, whatever is pending on it.
RunnableProcess(p) ==
  \E t \in Threads :
    LET thread == threads[p][t] IN
    thread.state = "Runnable" \/ (thread.state = "Paused" /\ thread.pending # {})

\* Mutant: a parked waiter is no reason for a turn.
ReadyToRun(i) == Living(i) /\ RunnableProcess(table[i].pid)

Ready(i) == Living(i) /\ (RunnableProcess(table[i].pid) \/ Collectable(i) # {})

\* Mutant: one quantum too many.
RotatesTooLate(used) == why = "Given" \/ used > SLICE

\* A process that cannot go on, and one that has had its slice.
Rotates(used) == why = "Given" \/ used >= SLICE

\* Mutant: looks at the current process first, whatever it has had.
StepsFromItself(i, rotate) == (i - at) % Len(table)

\* How far round the table a process is: the current one comes first, and
\* last when it gives up its turn.
StepsTo(i, rotate) == (i - at - (IF rotate THEN 1 ELSE 0)) % Len(table)

Schedule ==
  LET used   == IF why = "Quantum" THEN slice + 1 ELSE slice
      rotate == Rotates(used)
      ready  == {i \in DOMAIN table : Ready(i)}
  IN /\ phase = "Schedule"
     /\ IF ready = {}
        THEN /\ phase' = "Idle"
             /\ slice' = IF rotate THEN 0 ELSE used
             /\ UNCHANGED at
        ELSE /\ phase' = "Collect"
             /\ at' = CHOOSE i \in ready :
               \A j \in ready : StepsTo(i, rotate) <= StepsTo(j, rotate)
             /\ slice' = IF rotate \/ at' # at THEN 0 ELSE used
     /\ why' = "Kept"
     /\ UNCHANGED <<table, next, threads, turn, dispositions, stopping,
                    outcome, answer>>

\* collect: a parked wait4 is completed where its process is current.
Collect ==
  /\ phase = "Collect"
  /\ IF Collectable(at) = {}
     THEN phase' = "Step" /\ UNCHANGED <<table, at, threads, turn, dispositions, answer>>
     ELSE LET t == Oldest(Collectable(at)) IN
          /\ Reap(threads[Current][t].wanted,
                  [threads EXCEPT ![Current][t] =
                     [@ EXCEPT !.state = "Runnable", !.wanted = 0]])
          /\ UNCHANGED phase
  /\ UNCHANGED <<next, slice, why, stopping, outcome>>

\* The host's request is looked for once a slice and whenever all is idle.
TakeShutdown ==
  /\ Asks /\ ~stopping
  /\ phase = "Idle" \/ (phase = "Schedule" /\ why = "Quantum" /\ slice = 0)
  /\ stopping' = TRUE
  /\ Deliver(FIRST, SIGTERM)
  /\ UNCHANGED <<at, next, slice, turn, dispositions, phase, why, outcome, answer>>

Sleepers == {h \in Pids \X Threads :
               /\ Exists(h[1]) /\ Living(IndexOf(h[1]))
               /\ threads[h[1]][h[2]].state = "Sleeping"}

\* idle: some deadlines have passed, or none has yet; with no deadline to
\* wait for, nothing will ever change.
Idle ==
  /\ phase = "Idle"
  /\ IF stopping /\ \E i \in DOMAIN table : Ready(i)
     THEN phase' = "Step" /\ UNCHANGED <<threads, outcome>>
     ELSE IF Sleepers = {}
     THEN phase' = "Over" /\ outcome' = Deadlocked /\ UNCHANGED threads
     ELSE /\ phase' = "Step"
          /\ \E expired \in SUBSET Sleepers :
               threads' = [p \in Pids |-> [t \in Threads |->
                 IF <<p, t>> \in expired
                 THEN [threads[p][t] EXCEPT !.state = "Runnable"]
                 ELSE threads[p][t]]]
          /\ UNCHANGED outcome
  /\ UNCHANGED <<table, at, next, slice, turn, dispositions, why, stopping, answer>>

---------------------------------------------------------------------------
Init ==
  /\ table = << [pid |-> FIRST, parent |-> 0, status |-> Alive] >>
  /\ at = 1
  /\ next = FIRST + 1
  /\ slice = 0
  /\ threads = [p \in Pids |-> IF p = FIRST THEN OneThread(NewThread) ELSE Nobody]
  /\ turn = [p \in Pids |-> 1]
  /\ dispositions = [p \in Pids |-> Defaults]
  /\ phase = "Step" /\ why = "Kept"
  /\ stopping = FALSE
  /\ outcome = Alive
  /\ answer = NoAnswer

Program ==
  \/ Preempt \/ Call \/ Pause \/ Sleep \/ Fork \/ Execve \/ Fault
  \/ \E t \in Threads : Clone(t)
  \/ \E code \in Codes : ExitGroup(code) \/ Exit(code)
  \/ \E signal \in Signals :
       \/ KillSelf(signal)
       \/ \E p \in Pids : Kill(p, signal)
  \/ \E signal \in Handled, handler \in Handlers : Sigaction(signal, handler)
  \/ \E wanted \in Pids \cup {0}, nohang \in BOOLEAN : Wait(wanted, nohang)

Kernel == Step \/ RunsOn \/ Schedule \/ Collect \/ TakeShutdown \/ Idle

Next == Program \/ Kernel

Spec == Init /\ [][Next]_vars

\* The loop goes round for as long as the container runs.
TurningSpec == Spec /\ WF_vars(Next)
---------------------------------------------------------------------------
(* Invariants.                                                             *)

Entry  == [pid : Pids, parent : Pids \cup {0}, status : Endings \cup {Alive}]
Thread == [state : {"None", "Runnable", "WaitingForChild", "Sleeping", "Paused", "Exited"},
           wanted : Pids \cup {0}, pending : SUBSET Signals]

\* Every variable stays in its domain: the current process is in the table,
\* and nobody uses more than a slice.
TypeOK ==
  /\ table \in Seq(Entry)
  /\ at \in DOMAIN table
  /\ next \in 2..(MaxPid + 1) /\ slice \in 0..(SLICE - 1)
  /\ threads \in [Pids -> [Threads -> Thread]]
  /\ turn \in [Pids -> Threads]
  /\ dispositions \in [Pids -> [Signals -> {"Default", "Ignored", "Caught"}]]
  /\ phase \in {"Step", "Run", "Schedule", "Collect", "Idle", "Over"}
  /\ why \in {"Kept", "Quantum", "Given"}
  /\ stopping \in BOOLEAN
  /\ outcome \in Endings \cup {Alive, Deadlocked}
  /\ answer \in [to : Pids, call : {"wait4", "kill"}, about : Pids \cup {0},
                  value : Int, status : Endings \cup {Alive}] \cup {NoAnswer}

(***************************************************************************)
(* Every process but the first has a parent that is alive to reap it:      *)
(* system.rs:992 "a parent that no longer exists would leave the child a   *)
(* zombie nothing could ever collect".                                     *)
(***************************************************************************)
EveryParentLives ==
  phase # "Over" =>
    \A i \in DOMAIN table :
      table[i].pid # FIRST =>
        \E j \in DOMAIN table : table[j].pid = table[i].parent /\ Living(j)

(***************************************************************************)
(* A thread parked in wait4 has a child to wait for: system.rs:339 "the    *)
(* difference between ECHILD and `wait a moment`" is still true of it      *)
(* while others end, are reaped and are adopted.                           *)
(***************************************************************************)
WaitersHaveChildren ==
  \A i \in DOMAIN table : \A t \in Threads :
    LET thread == threads[table[i].pid][t] IN
    Living(i) /\ thread.state = "WaitingForChild" =>
      \E j \in DOMAIN table :
        table[j].parent = table[i].pid /\ thread.wanted \in {0, table[j].pid}

(***************************************************************************)
(* No thread is interpreted in the middle of a call it is parked in:       *)
(* run.rs:306, whatever happened to the process while it had no turn.      *)
(***************************************************************************)
OnlyTheRunnableRun == phase = "Run" => threads[Current][Me].state = "Runnable"

---------------------------------------------------------------------------
(* Properties.                                                             *)

\* What ProcessTree's variables are, in a table.
ParentOf == [p \in Pids |-> IF Exists(p) THEN table[IndexOf(p)].parent ELSE 0]
StatusOf == [p \in Pids |-> IF Exists(p) THEN table[IndexOf(p)].status ELSE Alive]
LifeOf ==
  [p \in Pids |->
     IF Exists(p)
     THEN IF Living(IndexOf(p)) THEN "Alive" ELSE "Zombie"
     ELSE IF p >= next THEN "Unborn" ELSE "Gone"]

Tree == INSTANCE ProcessTree WITH parent <- ParentOf, status <- StatusOf, life <- LifeOf

(***************************************************************************)
(* The table keeps what wait4 and kill promise: each end told once, to the *)
(* right parent, with its status, through removals that move the table     *)
(* under the running process and calls completed a long time after.        *)
(***************************************************************************)
KeepsTheTree == Tree!Spec

(***************************************************************************)
(* A zombie's status is what its parent will be told: system.rs:950 "A     *)
(* zombie is a status and a process id: it exists so a parent can still    *)
(* ask what happened, and nothing more".                                   *)
(***************************************************************************)
ZombiesStayAsTheyDied ==
  [][\A i \in DOMAIN table : \A j \in DOMAIN table' :
       ~Living(i) /\ table'[j].pid = table[i].pid => table'[j].status = table[i].status]_vars

(***************************************************************************)
(* Whoever can run is given a turn, whatever the others do.  The code does *)
(* not keep this: a process that makes a syscall within every quantum uses *)
(* none up, and keeps the processor.                                       *)
(***************************************************************************)
TurnsComeRound ==
  \A p \in Pids :
    []<>(phase = "Over" \/ ~Exists(p) \/ Current = p \/ ~Ready(IndexOf(p)))

\* A program that computes: one that keeps the processor for good uses up
\* quantum after quantum, whatever syscalls it makes between them.
Computes(p) == <>[](Current = p) => []<><<Preempt>>_vars

(***************************************************************************)
(* Among programs that compute, whoever can run is given a turn, through   *)
(* forks, ends and reaps that renumber the table: architecture.md:136      *)
(* "round-robin on a quantum of retired instructions, across processes and *)
(* threads alike, so two compute-bound threads make progress".  Nothing is *)
(* asked of a program that gives its turn up.                              *)
(***************************************************************************)
EveryoneRuns == (\A p \in Pids : Computes(p)) => TurnsComeRound

(***************************************************************************)
(* Among such programs, a parked wait4 whose child has ended returns, and  *)
(* a pause that a signal has come for does, whoever ended or sent it.      *)
(***************************************************************************)
WaitersReturn ==
  (\A p \in Pids : Computes(p)) =>
    \A p \in Pids :
      []<>(phase = "Over" \/ ~Exists(p) \/ ~Living(IndexOf(p)) \/ Collectable(IndexOf(p)) = {})

PausesEnd ==
  (\A p \in Pids : Computes(p)) =>
    \A p \in Pids : \A t \in Threads :
      []<>(phase = "Over" \/ ~Exists(p) \/ ~Living(IndexOf(p))
           \/ threads[p][t].state # "Paused" \/ threads[p][t].pending = {})
============================================================================
