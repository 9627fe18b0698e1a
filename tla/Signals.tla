------------------------------ MODULE Signals ------------------------------
(***************************************************************************)
(* The threads of one process and what interrupts them: run.rs (step_with, *)
(* resume_paused, expire, raise, fault), syscall.rs (deliver,              *)
(* signal_return, the masks, the suspend, the timers, the futexes),        *)
(* thread.rs and signal.rs.  A handler runs on a frame written to the      *)
(* guest's own memory, and its return believes whatever is there, so the   *)
(* frames are in the model: a stack is a place and a number of frames, and *)
(* a frame written where another one is takes its place.                   *)
(* Other processes are outside: they send signals (Sent).                  *)
(***************************************************************************)
EXTENDS Integers, FiniteSets, Sequences

CONSTANTS
  MaxThread,   \* how many threads the process may make
  Signals,     \* the signals the model has
  SIGSEGV,     \* the one a fault raises
  SIGALRM,     \* the one the interval timer raises
  Ignorable,   \* those whose default action is to do nothing
  Words,       \* futex words
  Bits,        \* the bits of a futex bitset
  Room,        \* frames that fit on a stack before its guard page
  MaxTime,     \* bound on the clock
  Menus,       \* what a program may do, each a record of sets of arguments
  Wild,        \* whether programs may take the steps the README sets apart
  None         \* no mask, no word, no deadline, no alarm

Actions == [handler : {"Default", "Ignore", "Handler"}, onstack : BOOLEAN,
            nodefer : BOOLEAN, resethand : BOOLEAN, mask : SUBSET Signals]

ASSUME SignalsAssumption ==
  /\ MaxThread \in Nat \ {0} /\ Room \in Nat \ {0} /\ MaxTime \in Nat
  /\ Signals \subseteq Nat \ {0} /\ IsFiniteSet(Signals)
  /\ {SIGSEGV, SIGALRM} \subseteq Signals /\ Ignorable \subseteq Signals
  /\ \A mask \in SUBSET Signals : mask # None
  /\ Wild \in BOOLEAN

\* What a program asks for: no mask holds what is not a signal.
ASSUME MenusAssumption ==
  \A m \in Menus :
    /\ m.masks \subseteq SUBSET Signals /\ m.suspends \subseteq SUBSET Signals
    /\ m.actions \subseteq Signals \X Actions /\ m.altstacks \subseteq BOOLEAN
    /\ m.kills \subseteq Signals /\ m.tgkills \subseteq Signals /\ m.sent \subseteq Signals
    /\ m.sleeps \subseteq Nat /\ m.timers \subseteq Nat \X Nat
    /\ m.timeouts \subseteq {None} \cup Nat
    /\ m.clones \subseteq Words /\ m.stores \subseteq Words \X Nat
    /\ m.waits \subseteq Words \X Nat /\ m.wakes \subseteq Words
    /\ m.bits \subseteq SUBSET Bits

VARIABLES
  threads,       \* Threads::threads, their cells and their stacks
  turn,          \* Threads::current
  dispositions,  \* Kernel::dispositions
  words,         \* the guest's futex words
  alarm,         \* Kernel::alarm
  now,           \* the host's monotonic clock
  phase,         \* "Step", "Run" (guest code), "Idle" or "Over"
  menu,          \* what this behaviour's program does
  chosen         \* history: the mask each thread's own code last chose

vars == <<threads, turn, dispositions, words, alarm, now, phase, menu, chosen>>

Threads == 1..MaxThread
Terminates(s) == s \notin Ignorable

---------------------------------------------------------------------------
(* Threads.                                                                *)

Bottom == <<"own", 0>>
Places == {"own", "alt"} \X (1..Room)
NoFrame == [sp |-> Bottom, mask |-> {}]

Blank(state) ==
  [state |-> state, word |-> None, bits |-> {}, deadline |-> None,
   blocked |-> {}, pending |-> {}, suspended |-> None, clear |-> None,
   alt |-> FALSE, onAlt |-> FALSE, sp |-> Bottom,
   frames |-> [a \in Places |-> NoFrame]]

NewThread == Blank("Runnable")
NoThread  == Blank("None")

Deliverable(th) == th.pending \ th.blocked
Lowest(S) == CHOOSE s \in S : \A r \in S : s <= r

RunnableIn(ths) == {t \in Threads : ths[t].state = "Runnable"}
Live(ths) == {t \in Threads : ths[t].state \notin {"None", "Exited"}}
Made == {t \in Threads : threads[t].state # "None"}

\* Threads::schedule: round robin, the current one last.
After(t, u) == IF u > t THEN u - t ELSE u - t + MaxThread
Following(ths, t) ==
  CHOOSE u \in RunnableIn(ths) : \A v \in RunnableIn(ths) : After(t, u) <= After(t, v)

Awake(th) == [th EXCEPT !.state = "Runnable", !.word = None, !.bits = {}, !.deadline = None]

\* Threads::wake: in thread order, so many of those the bits reach.
Reached(ths, word, bits) ==
  {t \in Threads : /\ ths[t].state = "Waiting" /\ ths[t].word = word
                   /\ ths[t].bits \cap bits # {}}
Wakes(ths, word, bits, count) ==
  LET reached == Reached(ths, word, bits)
      Before(t) == {u \in reached : u < t} IN
  [t \in Threads |-> IF t \in reached /\ Cardinality(Before(t)) < count
                     THEN Awake(ths[t]) ELSE ths[t]]

\* Interpreted::raise_process: the current thread if it takes it, else the
\* first that does; blocked by all, the signal is gone.
Takers(ths, s) == {t \in Threads : ths[t].state # "None" /\ s \notin ths[t].blocked}
RaiseProcess(ths, s) ==
  LET taker == IF turn \in Takers(ths, s) THEN turn ELSE Lowest(Takers(ths, s)) IN
  IF Takers(ths, s) = {} THEN ths ELSE [ths EXCEPT ![taker].pending = @ \cup {s}]

Caught(s) == dispositions[s].handler = "Handler"

\* Kernel::signal_process: what it pends, and whether it ends the process.
Signalled(ths, s) == IF Caught(s) THEN RaiseProcess(ths, s) ELSE ths
Fatal(s) == dispositions[s].handler = "Default" /\ Terminates(s)

---------------------------------------------------------------------------
(* Delivery: a frame is written, and the handler runs on it.               *)

\* Mutant: the mask in force now, whatever a suspend put aside.
BlockedBefore(th) == th.blocked
\* The mask the handler's return puts back.
Before(th) == IF th.suspended = None THEN th.blocked ELSE th.suspended

\* Mutant: the stack is started again under a handler already on it.
UsesAltAgain(th, d) == d.onstack /\ th.alt
UsesAlt(th, d) == d.onstack /\ th.alt /\ ~th.onAlt
PlaceOf(th, d) == IF UsesAlt(th, d) THEN <<"alt", 1>> ELSE <<th.sp[1], th.sp[2] + 1>>

\* NotCaught and NoStack; every handler here has a restorer.
Delivers(th, s) == Caught(s) /\ PlaceOf(th, dispositions[s]) \in Places

Interrupted(th, s) ==
  LET d  == dispositions[s]
      at == PlaceOf(th, d) IN
  [th EXCEPT !.frames[at] = [sp |-> th.sp, mask |-> Before(th)],
             !.sp = at,
             !.blocked = Before(th) \cup d.mask \cup (IF d.nodefer THEN {} ELSE {s}),
             !.suspended = None,
             !.pending = @ \ {s},
             !.onAlt = @ \/ UsesAlt(th, d)]

Default == [handler |-> "Default", onstack |-> FALSE, nodefer |-> FALSE,
            resethand |-> FALSE, mask |-> {}]

AfterDelivery(s) ==
  IF dispositions[s].resethand THEN [dispositions EXCEPT ![s] = Default] ELSE dispositions

\* deliver, for a thread of ths: the handler runs, or it does not.
Deliver(ths, t, s) ==
  /\ Delivers(ths[t], s)
  /\ threads' = [ths EXCEPT ![t] = Interrupted(@, s)]
  /\ dispositions' = AfterDelivery(s)

---------------------------------------------------------------------------
(* The loop's own steps.                                                   *)

\* resume_paused
Woken ==
  [t \in Threads |->
     IF threads[t].state \in {"Paused", "Sleeping"} /\ Deliverable(threads[t]) # {}
     THEN Awake(threads[t]) ELSE threads[t]]

Over == phase' = "Over" /\ UNCHANGED dispositions

\* step_with, up to the engine; raise is its middle.
Step ==
  LET ths == Woken
      t   == IF ths[turn].state = "Runnable" THEN turn ELSE Following(ths, turn)
      s   == Lowest(Deliverable(ths[t]))
      dropped == [ths EXCEPT ![t].pending = @ \ {s}] IN
  /\ phase = "Step"
  /\ IF RunnableIn(ths) = {}
     THEN /\ phase' = "Idle"
          /\ UNCHANGED <<threads, turn, dispositions>>
     ELSE /\ turn' = t
          /\ \/ /\ Deliverable(ths[t]) = {}
                /\ threads' = ths
                /\ phase' = "Run" /\ UNCHANGED dispositions
             \/ /\ Deliverable(ths[t]) # {}
                /\ Deliver(ths, t, s)
                /\ phase' = "Run"
             \/ /\ Deliverable(ths[t]) # {} /\ ~Delivers(ths[t], s)
                /\ threads' = dropped
                /\ IF Terminates(s) THEN Over ELSE phase' = "Run" /\ UNCHANGED dispositions
  /\ UNCHANGED <<words, alarm, now, menu, chosen>>

Deadlines == {threads[t].deadline : t \in Threads} \cup
             (IF alarm = None THEN {} ELSE {alarm.deadline})

Passed(deadline) == deadline # None /\ now >= deadline

\* Process::expire: the alarm first, then whoever's time has run out.
Expired ==
  LET rings == alarm # None /\ Passed(alarm.deadline)
      ths == IF rings THEN Signalled(threads, SIGALRM) ELSE threads IN
  /\ alarm' = IF ~rings THEN alarm
              ELSE IF alarm.interval = 0 THEN None
              ELSE [alarm EXCEPT !.deadline = now + alarm.interval]
  /\ threads' = [t \in Threads |-> IF Passed(ths[t].deadline) THEN Awake(ths[t]) ELSE ths[t]]

\* Process::runnable
CanRun == \E t \in Threads : \/ threads[t].state = "Runnable"
                             \/ threads[t].state = "Paused" /\ Deliverable(threads[t]) # {}

\* System::idle: the only place the clock is looked at for its own sake.
Idle ==
  /\ phase = "Idle"
  /\ \/ CanRun /\ UNCHANGED <<threads, alarm>>
     \/ ~CanRun /\ Deadlines \ {None} # {} /\ Expired
  /\ phase' = "Step"
  /\ UNCHANGED <<turn, dispositions, words, now, menu, chosen>>

Tick ==
  /\ phase # "Over" /\ now < MaxTime /\ menu.timed
  /\ now' = now + 1
  /\ UNCHANGED <<threads, turn, dispositions, words, alarm, phase, menu, chosen>>

\* System::signal_process, for another process's kill, between two steps.
Sent(s) ==
  /\ phase \in {"Step", "Idle"}
  /\ IF Fatal(s)
     THEN Over /\ UNCHANGED threads
     ELSE threads' = Signalled(threads, s) /\ UNCHANGED <<phase, dispositions>>
  /\ UNCHANGED <<turn, words, alarm, now, menu, chosen>>

---------------------------------------------------------------------------
(* What a thread does with its turn.                                       *)

Me == threads[turn]
Running == phase = "Run"

Becomes(th) == threads' = [threads EXCEPT ![turn] = th]
Continues == phase' = "Step" /\ UNCHANGED turn

\* Not runnable any more: another thread is, or nobody.
Leaves(ths) ==
  /\ threads' = ths
  /\ IF RunnableIn(ths) = {}
     THEN phase' = "Idle" /\ UNCHANGED turn
     ELSE phase' = "Step" /\ turn' = Following(ths, turn)

Parks(th) == Leaves([threads EXCEPT ![turn] = th])

Preempt ==
  /\ Running
  /\ turn' = Following(threads, turn) /\ phase' = "Step"
  /\ UNCHANGED <<threads, dispositions, words, alarm, now, menu, chosen>>

\* At the bottom of its stack the mask is the one its own code lives with.
Chooses(mask) ==
  chosen' = IF Me.sp = Bottom THEN [chosen EXCEPT ![turn] = mask] ELSE chosen

\* rt_sigprocmask, which can set any mask.
SignalMask(mask) ==
  /\ Running /\ mask # Me.blocked
  /\ Becomes([Me EXCEPT !.blocked = mask])
  /\ Chooses(mask)
  /\ Continues
  /\ UNCHANGED <<dispositions, words, alarm, now, menu>>

\* rt_sigaction
SignalAction(s, d) ==
  /\ Running /\ d # dispositions[s]
  /\ Wild \/ d.handler = "Handler" \/ Terminates(s) \/ \A t \in Threads : s \notin threads[t].pending
  /\ dispositions' = [dispositions EXCEPT ![s] = d]
  /\ Continues
  /\ UNCHANGED <<threads, words, alarm, now, menu, chosen>>

\* sigaltstack, refused while the flag says a handler is on it.
SigAltStack(on) ==
  /\ Running /\ ~Me.onAlt
  /\ Becomes([Me EXCEPT !.alt = on])
  /\ Continues
  /\ UNCHANGED <<dispositions, words, alarm, now, menu, chosen>>

\* rt_sigsuspend and pause
Suspend(mask) ==
  /\ Running
  /\ Wild \/ Me.sp[2] < Room
  /\ Parks([Me EXCEPT !.state = "Paused", !.suspended = Me.blocked, !.blocked = mask])
  /\ UNCHANGED <<dispositions, words, alarm, now, menu, chosen>>

Pause ==
  /\ Running
  /\ Parks([Me EXCEPT !.state = "Paused"])
  /\ UNCHANGED <<dispositions, words, alarm, now, menu, chosen>>

\* nanosleep, whose deadline is ahead.
Sleep(time) ==
  /\ Running
  /\ Parks([Me EXCEPT !.state = "Sleeping", !.deadline = now + time])
  /\ UNCHANGED <<dispositions, words, alarm, now, menu, chosen>>

\* alarm and setitimer; a zero disarms.
IntervalTimer(time, interval) ==
  /\ Running
  /\ alarm' = IF time = 0 THEN None ELSE [deadline |-> now + time, interval |-> interval]
  /\ Continues
  /\ UNCHANGED <<threads, dispositions, words, now, menu, chosen>>

\* rt_sigreturn: whatever is where the stack pointer is.
SignalReturn ==
  LET frame == Me.frames[Me.sp] IN
  /\ Running /\ Me.sp # Bottom
  /\ Wild \/ Me.sp[1] = "own" \/ frame.sp[1] = "own"
  /\ Becomes([Me EXCEPT !.sp = frame.sp, !.blocked = frame.mask, !.onAlt = FALSE])
  /\ Continues
  /\ UNCHANGED <<dispositions, words, alarm, now, menu, chosen>>

\* longjmp out of every handler, in user code: no frame is read.
LongJump ==
  /\ Running /\ Me.sp # Bottom
  /\ Becomes([Me EXCEPT !.sp = Bottom])
  /\ chosen' = [chosen EXCEPT ![turn] = Me.blocked]
  /\ Continues
  /\ UNCHANGED <<dispositions, words, alarm, now, menu>>

\* kill of the process itself, which a blocked default does not survive.
Kill(s) ==
  /\ Running
  /\ IF Fatal(s)
     THEN phase' = "Over" /\ UNCHANGED <<threads, turn>>
     ELSE threads' = Signalled(threads, s) /\ Continues
  /\ UNCHANGED <<dispositions, words, alarm, now, menu, chosen>>

\* tgkill of the caller: blocked, it is dropped.
Tgkill(s) ==
  /\ Running
  /\ IF s \notin Me.blocked /\ Fatal(s)
     THEN phase' = "Over" /\ UNCHANGED <<threads, turn>>
     ELSE /\ threads' = IF s \notin Me.blocked /\ Caught(s)
                        THEN [threads EXCEPT ![turn].pending = @ \cup {s}] ELSE threads
          /\ Continues
  /\ UNCHANGED <<dispositions, words, alarm, now, menu, chosen>>

\* A trap: delivered at once, blocked or not.
FaultHere ==
  /\ Running
  /\ \/ Deliver(threads, turn, SIGSEGV) /\ Continues
     \/ ~Delivers(Me, SIGSEGV) /\ Over /\ UNCHANGED <<threads, turn>>
  /\ UNCHANGED <<words, alarm, now, menu, chosen>>

---------------------------------------------------------------------------
(* Futexes, and threads that come and go.  A word holds 0 or not: a        *)
(* thread's word is its identifier while it lives.                         *)

Store(word, value) ==
  /\ Running /\ words[word] # value
  /\ words' = [words EXCEPT ![word] = value]
  /\ Continues
  /\ UNCHANGED <<threads, dispositions, alarm, now, menu, chosen>>

\* Mutant: parks whatever the word holds by then.
ParksUnseen(word, expected) == TRUE
\* The word is compared as the thread parks.
ParksOn(word, expected) == words[word] = expected

FutexWait(word, expected, bits, deadline) ==
  /\ Running
  /\ IF ParksOn(word, expected)
     THEN Parks([Me EXCEPT !.state = "Waiting", !.word = word, !.bits = bits, !.deadline = deadline])
     ELSE Continues /\ UNCHANGED threads
  /\ UNCHANGED <<dispositions, words, alarm, now, menu, chosen>>

FutexWake(word, bits, count) ==
  /\ Running
  /\ threads' = Wakes(threads, word, bits, count)
  /\ Continues
  /\ UNCHANGED <<dispositions, words, alarm, now, menu, chosen>>

\* clone: nothing of the caller's cells, and its word set to its identifier.
Clone(word) ==
  LET t == Cardinality(Made) + 1 IN
  /\ Running /\ t <= menu.most
  /\ threads' = [threads EXCEPT ![t] = [NewThread EXCEPT !.clear = word]]
  /\ words' = [words EXCEPT ![word] = 1]
  /\ chosen' = [chosen EXCEPT ![t] = {}]
  /\ Continues
  /\ UNCHANGED <<dispositions, alarm, now, menu>>

\* Mutant: one waiter goes on.
ClearsForOne(ths, word) == Wakes(ths, word, Bits, 1)
\* Its word is cleared, and all who wait there go on.
Clears(ths, word) == Wakes(ths, word, Bits, MaxThread)

\* exit: the last thread takes the process with it.
ExitThread ==
  LET gone == [threads EXCEPT ![turn] = [Awake(Me) EXCEPT !.state = "Exited"]]
      ths  == IF Me.clear = None THEN gone ELSE Clears(gone, Me.clear) IN
  /\ Running
  /\ words' = IF Me.clear = None THEN words ELSE [words EXCEPT ![Me.clear] = 0]
  /\ IF Live(ths) = {}
     THEN threads' = ths /\ phase' = "Over" /\ UNCHANGED turn
     ELSE Leaves(ths)
  /\ UNCHANGED <<dispositions, alarm, now, menu, chosen>>

---------------------------------------------------------------------------
Init ==
  /\ menu \in Menus
  /\ threads = [t \in Threads |-> IF t = 1 THEN NewThread ELSE NoThread]
  /\ turn = 1
  /\ dispositions = [s \in Signals |-> Default]
  /\ words = [w \in Words |-> 0]
  /\ alarm = None
  /\ now = 0
  /\ phase = "Step"
  /\ chosen = [t \in Threads |-> {}]

Program ==
  \/ Preempt
  \/ \E mask \in menu.masks : SignalMask(mask)
  \/ \E mask \in menu.suspends : Suspend(mask)
  \/ \E act \in menu.actions : SignalAction(act[1], act[2])
  \/ \E on \in menu.altstacks : SigAltStack(on)
  \/ SignalReturn
  \/ "jump" \in menu.calls /\ LongJump
  \/ "pause" \in menu.calls /\ Pause
  \/ "fault" \in menu.calls /\ FaultHere
  \/ "exit" \in menu.calls /\ ExitThread
  \/ \E s \in menu.kills : Kill(s)
  \/ \E s \in menu.tgkills : Tgkill(s)
  \/ \E time \in menu.sleeps : Sleep(time)
  \/ \E t \in menu.timers : IntervalTimer(t[1], t[2])
  \/ \E word \in menu.clones : Clone(word)
  \/ \E f \in menu.stores : Store(f[1], f[2])
  \/ \E f \in menu.waits, bits \in menu.bits, time \in menu.timeouts :
       FutexWait(f[1], f[2], bits, IF time = None THEN None ELSE now + time)
  \/ \E word \in menu.wakes, bits \in menu.bits, count \in 1..2 : FutexWake(word, bits, count)

Kernel == Step \/ Idle

Next == Program \/ Kernel \/ Tick \/ \E s \in menu.sent : Sent(s)

Spec == Init /\ [][Next]_vars

\* The loop goes round, and so does the clock.
FairSpec == Spec /\ WF_vars(Kernel) /\ WF_vars(Tick)

---------------------------------------------------------------------------
(* Properties.                                                             *)

States == {"None", "Runnable", "Paused", "Sleeping", "Waiting", "Exited"}
Stacks == Places \cup {Bottom}
Thread ==
  [state : States, word : {None} \cup Words, bits : SUBSET Bits, deadline : {None} \cup Nat,
   blocked : SUBSET Signals, pending : SUBSET Signals,
   suspended : {None} \cup SUBSET Signals, clear : {None} \cup Words,
   alt : BOOLEAN, onAlt : BOOLEAN, sp : Stacks,
   frames : [Places -> [sp : Stacks, mask : SUBSET Signals]]]

\* The types.
TypeOK ==
  /\ threads \in [Threads -> Thread]
  /\ turn \in Threads
  /\ dispositions \in [Signals -> Actions]
  /\ words \in [Words -> Nat]
  /\ alarm \in {None} \cup [deadline : Nat, interval : Nat]
  /\ now \in Nat
  /\ phase \in {"Step", "Run", "Idle", "Over"}
  /\ menu \in Menus
  /\ chosen \in [Threads -> SUBSET Signals]

\* Where n returns from here lead, believing every frame on the way.
ReturnsTo(th) ==
  LET to[n \in Nat] == IF n = 0 THEN th.sp
                       ELSE IF to[n - 1] = Bottom THEN Bottom
                       ELSE th.frames[to[n - 1]].sp
  IN to

\* The frames a debugger would unwind, the innermost first.
Unwound(th) ==
  LET to == ReturnsTo(th)
      ends == {n \in 0..(2 * Room) : to[n] = Bottom}
      depth == IF ends = {} THEN 2 * Room + 1 ELSE Lowest(ends) IN
  [n \in 1..depth |-> th.frames[to[n - 1]]]

\* The handlers a step leaves: all of them, one more, or only outer ones.
NestsFrom(old, new) ==
  \/ new # <<>> /\ Tail(new) = old
  \/ \E n \in 1..(Len(old) + 1) : new = SubSeq(old, n, Len(old))

\* What an interrupted piece of a thread's code goes back to, its place and its
\* mask, is what it was when the signal came: no later delivery, on whichever
\* stack, and no return changes it (deliver, signal_return, signal::frame).
HandlersNest ==
  [][\A t \in Threads : NestsFrom(Unwound(threads[t]), Unwound(threads'[t]))]_vars

\* A thread's own code always runs under the mask it chose last: whatever a
\* suspend replaced and whatever handlers added has been put back by the time
\* it runs again (suspend, deliver, signal_return, resume_paused).
MasksAreGivenBack ==
  Running /\ Me.sp = Bottom => Me.blocked = chosen[turn] /\ Me.suspended = None

\* Waiting on the word of a thread that has ended.
JoinsTheGone(t) == threads[t].state = "Waiting" /\ words[threads[t].word] = 0
TimeIsUp(t) == Passed(threads[t].deadline)

\* Nobody is left waiting on the word of a thread that has ended, whichever of
\* the two was first (futex, exit_thread, Threads::wake); and in a process that
\* keeps coming to rest whoever's time has run out goes on (expire, idle).
WaitsEnd ==
  \A t \in Threads :
    /\ JoinsTheGone(t) ~> ~JoinsTheGone(t)
    /\ []<>(phase = "Idle") => (TimeIsUp(t) ~> ~TimeIsUp(t))
============================================================================
