------------------------------- MODULE Epoll -------------------------------
(***************************************************************************)
(* Waiting for descriptors: eventfd counters (eventfd.rs), the open file   *)
(* descriptions and descriptors that name them (fd.rs, the census of       *)
(* file.rs), the interest sets epoll keeps in the kernel and poll and      *)
(* select hold for one call (poll.rs), and how a parked wait is answered   *)
(* on its own process's turn (run.rs).                                     *)
(*                                                                         *)
(* One process, whose threads share the table and the sets, and another    *)
(* that can only reach the counters a fork handed it: `turn` says which of *)
(* the two the scheduler has chosen.                                       *)
(*                                                                         *)
(* A set keeps its registrations in the order they were made, which only   *)
(* decides which are written out when more than `max` have something to    *)
(* say; here they are kept by number, and any `max` of them are written.   *)
(*                                                                         *)
(* A call that fails changes nothing and is not a step.  The field `told`  *)
(* of a registration is history: no action of the kernel reads it.         *)
(***************************************************************************)
EXTENDS Integers, FiniteSets

CONSTANTS
  Threads,       (* the threads, in the order Threads::all lists them      *)
  Numbers,       (* descriptor numbers; its size stands for MAX_DESCRIPTORS *)
  Counters,      (* indices of the eventfd arena a run fits into           *)
  Sets,          (* indices of the process's own arena of interest sets    *)
  Ceiling,       (* the largest count, CEILING                             *)
  Initials,      (* counts a counter may be made with                      *)
  Values,        (* what a write may add                                   *)
  Semaphores,    (* values of EFD_SEMAPHORE a call may set                 *)
  Interests,     (* event masks a call may ask about                       *)
  Triggers,      (* values of EPOLLET                                      *)
  Shots,         (* values of EPOLLONESHOT                                 *)
  Most,          (* values of epoll_wait's maxevents                       *)
  Timeouts,      (* "now", "until" some time, or "forever"                 *)
  Asked,         (* sets of numbers a poll or a select may name            *)
  MaxReferences, (* bound: references forks may leave on a set             *)
  None           (* a free slot, a closed number, a thread not parked      *)

Bits == {"IN", "OUT"}

ASSUME EpollAssumption ==
  /\ Threads \subseteq Nat /\ IsFiniteSet(Threads)
  /\ Numbers \subseteq Nat /\ IsFiniteSet(Numbers)
  /\ Counters \subseteq Nat /\ Sets \subseteq Nat
  /\ Ceiling \in Nat \ {0}
  /\ Initials \subseteq 0..Ceiling /\ Values \subseteq 0..Ceiling
  /\ Semaphores \subseteq BOOLEAN
  /\ Triggers \subseteq BOOLEAN /\ Shots \subseteq BOOLEAN
  /\ Interests \subseteq SUBSET Bits
  /\ Most \subseteq Nat \ {0}
  /\ Timeouts \subseteq {"now", "until", "forever"}
  /\ Asked \subseteq (SUBSET Numbers) \ {{}}
  /\ MaxReferences \in Nat

VARIABLES
  events,        (* the eventfd arena, which every process shares          *)
  descriptions,  (* open file descriptions                                 *)
  files,         (* the description each descriptor names                  *)
  sets,          (* interest sets: epoll instances and parked polls        *)
  parked,        (* what each thread waits for, if anything                *)
  shared,        (* counters another process has a descriptor on           *)
  turn,          (* TRUE while it is this process's turn                   *)
  todo,          (* parked threads this step has not looked at yet         *)
  rax            (* what a thread that was parked is answered by this step *)

vars == <<events, descriptions, files, sets, parked, shared, turn, todo, rax>>

EFAULT == -14

Slots      == 1..Cardinality(Numbers)
Backing    == [kind : {"event"}, id : Counters] \cup [kind : {"epoll"}, id : Sets]
Event      == [count : 0..Ceiling, semaphore : BOOLEAN]
OpenFile   == [backing : Backing, references : Nat \ {0}]
Watched    == [description : Slots, reported : SUBSET (Bits \cup {"NVAL"}),
               events : SUBSET Bits, edge : BOOLEAN, oneshot : BOOLEAN, told : 0..2]
EpollSet   == [watched : [Numbers -> Watched \cup {None}], references : Nat \ {0}]
Watching   == [call : {"poll", "select", "epoll"}, set : Sets, asked : SUBSET Numbers,
               interest : SUBSET Bits, max : Nat, deadline : BOOLEAN]
Eventing   == [call : {"event"}, event : Counters, writing : BOOLEAN, value : 0..Ceiling]

ASSUME NoneAssumption ==
  None \notin Slots \cup Event \cup OpenFile \cup Watched \cup EpollSet \cup Watching \cup Eventing

---------------------------------------------------------------------------
(* Tables of slots, and the lowest free one.                               *)

InUse(table)  == {i \in DOMAIN table : table[i] # None}
Free(table)   == DOMAIN table \ InUse(table)
Lowest(S, i)  == i \in S /\ \A j \in S : i <= j

Open          == InUse(files)
BackingOf(fd) == descriptions[files[fd]].backing

---------------------------------------------------------------------------
(* Readiness: computed from what is behind a description, never stored.    *)

EventBits(e) == {b \in Bits : IF b = "IN" THEN e.count > 0 ELSE e.count < Ceiling}

\* readiness_of, where no interest set is behind the description.
BitsOf(d) ==
  CASE descriptions[d] = None -> {"NVAL"}
    [] descriptions[d] # None /\ descriptions[d].backing.kind = "event" ->
         EventBits(events[descriptions[d].backing.id])
    [] OTHER -> {}

Reportable(w, ready) == IF w.edge THEN ready \ w.reported ELSE ready

\* An epoll descriptor is ready to read when its own set has something.
Nested(d) ==
  /\ descriptions[d] # None
  /\ descriptions[d].backing.kind = "epoll"
  /\ LET s == sets[descriptions[d].backing.id] IN
     /\ s # None
     /\ \E fd \in InUse(s.watched) :
          LET w == s.watched[fd] IN
          Reportable(w, BitsOf(w.description) \cap (w.events \cup {"NVAL"})) # {}

Readiness(d, interest) ==
  (BitsOf(d) \cup (IF Nested(d) THEN {"IN"} ELSE {})) \cap (interest \cup {"NVAL"})

ReadyNow(w) == Readiness(w.description, w.events)
Fires(w)    == Reportable(w, ReadyNow(w))

Firing(s) ==
  IF sets[s] = None THEN {}
  ELSE {fd \in InUse(sets[s].watched) : Fires(sets[s].watched[fd]) # {}}

\* Mutant: asks a set what is true of it, not what there is to report.
ReadyUnfiltered(t) ==
  LET x == parked[t] IN
  /\ x # None
  /\ IF x.call = "event"
     THEN IF x.writing
          THEN events[x.event].count + x.value <= Ceiling
          ELSE events[x.event].count > 0
     ELSE sets[x.set] # None /\ \E fd \in InUse(sets[x.set].watched) :
                                  ReadyNow(sets[x.set].watched[fd]) # {}

\* watch_ready, from the kernel's own copy of the set and never from the
\* caller's array; and the same question of a parked eventfd transfer.
Ready(t) ==
  LET x == parked[t] IN
  /\ x # None
  /\ IF x.call = "event"
     THEN IF x.writing
          THEN events[x.event].count + x.value <= Ceiling
          ELSE events[x.event].count > 0
     ELSE Firing(x.set) # {}

---------------------------------------------------------------------------
(* Steps.  A step first answers the parked waits that can be answered, the *)
(* watches in thread order and then the eventfd transfers in thread order, *)
(* each looked at once; then one thread makes one call.                    *)

IsWatch(t) == parked[t].call # "event"

Before(u, t) ==
  \/ IsWatch(u) /\ ~IsWatch(t)
  \/ (IsWatch(u) <=> IsWatch(t)) /\ u < t

NextToLookAt(t) ==
  /\ t \in todo
  /\ \A u \in todo : Before(u, t) => ~Ready(u)

LookedAt(t) == todo' = {u \in todo : Before(t, u)}

NothingToResume == \A t \in todo : ~Ready(t)

CanCall(t) == turn /\ parked[t] = None /\ NothingToResume

LookAgain == todo' = InUse(parked')

Answers(t, value) ==
  /\ rax' = value
  /\ parked' = [parked EXCEPT ![t] = None]

Parks(t, wait) ==
  /\ rax' = 0
  /\ parked' = [parked EXCEPT ![t] = wait]

\* A call that is answered at once, with what no property looks at.
Done == rax' = 0 /\ UNCHANGED parked

\* A parked wait's buffer can vanish only if another thread unmaps it.
CanUnmap == Cardinality(Threads) > 1

---------------------------------------------------------------------------
(* eventfd.                                                                *)

\* Events::take: one from a semaphore, everything from any other.
Taken(e) == [e EXCEPT !.count = IF e.semaphore THEN @ - 1 ELSE 0]

Given(e, value) == [e EXCEPT !.count = @ + value]

\* complete_event.
Moved(x) ==
  IF x.writing THEN Given(events[x.event], x.value) ELSE Taken(events[x.event])

\* transfer_event.  A write may wait too: for room.
Transfer(t, fd, writing, value) ==
  LET id == BackingOf(fd).id
      x  == [call |-> "event", event |-> id, writing |-> writing, value |-> value]
  IN /\ CanCall(t)
     /\ fd \in Open
     /\ BackingOf(fd).kind = "event"
     /\ IF (IF writing THEN events[id].count + value <= Ceiling ELSE events[id].count > 0)
        THEN events' = [events EXCEPT ![id] = Moved(x)] /\ Done
        ELSE Parks(t, x) /\ UNCHANGED events
     /\ LookAgain
     /\ UNCHANGED <<descriptions, files, sets, shared, turn>>

\* resume_events.  A read whose buffer has gone loses what it took.
ResumeEvent(t) ==
  /\ NextToLookAt(t)
  /\ Ready(t)
  /\ ~IsWatch(t)
  /\ events' = [events EXCEPT ![parked[t].event] = Moved(parked[t])]
  /\ \E value \in IF CanUnmap /\ ~parked[t].writing THEN {8, EFAULT} ELSE {8} :
       Answers(t, value)
  /\ LookedAt(t)
  /\ UNCHANGED <<descriptions, files, sets, shared, turn>>

\* Another process, on its own turn, through a descriptor it inherited.
Elsewhere(id) ==
  /\ ~turn
  /\ id \in shared
  /\ \/ \E value \in Values :
          /\ events[id].count + value <= Ceiling
          /\ events' = [events EXCEPT ![id] = Given(@, value)]
     \/ events[id].count > 0 /\ events' = [events EXCEPT ![id] = Taken(@)]
  /\ rax' = 0
  /\ UNCHANGED <<descriptions, files, sets, parked, shared, turn, todo>>

---------------------------------------------------------------------------
(* Descriptors.                                                            *)

\* FdTable::open: a new description at the lowest free index, and the lowest
\* free descriptor onto it.
Opens(backing) ==
  \E fd \in Numbers, d \in Slots :
    /\ Lowest(Free(files), fd)
    /\ Lowest(Free(descriptions), d)
    /\ files' = [files EXCEPT ![fd] = d]
    /\ descriptions' = [descriptions EXCEPT ![d] = [backing |-> backing, references |-> 1]]

Retained(table, d) == [table EXCEPT ![d].references = @ + 1]

\* Mutant: a count that has reached zero is looked for before it is taken down.
ReleasedLate(table, d) ==
  [table EXCEPT ![d] = IF table[d].references = 0 THEN None
                       ELSE [table[d] EXCEPT !.references = @ - 1]]

Released(table, d) ==
  [table EXCEPT ![d] = IF table[d].references = 1 THEN None
                       ELSE [table[d] EXCEPT !.references = @ - 1]]

\* shared_census, of one interest set: once per descriptor.
Census(table, opened, s) ==
  Cardinality({fd \in InUse(table) :
    opened[table[fd]].backing = [kind |-> "epoll", id |-> s]})

\* Mutant: gives back what was closed and never counts what was opened.
ReconciledDown(table, opened) ==
  [s \in Sets |->
     IF sets[s] = None THEN None
     ELSE LET before == Census(files, descriptions, s)
              after  == Census(table, opened, s)
              left   == sets[s].references - (IF after < before THEN before - after ELSE 0)
          IN IF left <= 0 THEN None ELSE [sets[s] EXCEPT !.references = left]]

\* reconcile_shared, for interest sets; a set nobody names is freed.
Reconciled(table, opened) ==
  [s \in Sets |->
     IF sets[s] = None THEN None
     ELSE LET left == sets[s].references + Census(table, opened, s)
                        - Census(files, descriptions, s)
          IN IF left <= 0 THEN None ELSE [sets[s] EXCEPT !.references = left]]

\* What is left of a set without the registrations on a description.
Without(watched, d) ==
  [fd \in Numbers |-> IF watched[fd] # None /\ watched[fd].description = d
                      THEN None ELSE watched[fd]]

\* Mutant: forgets only what the number that was closed still names.
ForgottenByNumber(held, opened, d) ==
  [s \in Sets |->
     IF held[s] = None \/ opened[d] # None THEN held[s]
     ELSE [held[s] EXCEPT !.watched =
             [fd \in Numbers |-> IF files[fd] = d THEN None ELSE held[s].watched[fd]]]]

\* Mutant: and a set with nothing left to watch goes with them.
ForgottenWhole(held, opened, d) ==
  [s \in Sets |->
     IF held[s] = None \/ opened[d] # None THEN held[s]
     ELSE IF InUse(Without(held[s].watched, d)) = {} THEN None
          ELSE [held[s] EXCEPT !.watched = Without(held[s].watched, d)]]

\* forget_description: registrations on a description that has just gone.
Forgotten(held, opened, d) ==
  [s \in Sets |->
     IF held[s] = None \/ opened[d] # None THEN held[s]
     ELSE [held[s] EXCEPT !.watched = Without(held[s].watched, d)]]

Close(t, fd) ==
  LET table  == [files EXCEPT ![fd] = None]
      opened == Released(descriptions, files[fd])
  IN /\ CanCall(t)
     /\ fd \in Open
     /\ files' = table
     /\ descriptions' = opened
     /\ sets' = Forgotten(Reconciled(table, opened), opened, files[fd])
     /\ Done
     /\ LookAgain
     /\ UNCHANGED <<events, shared, turn>>

Dup(t, old) ==
  /\ CanCall(t)
  /\ old \in Open
  /\ \E new \in Numbers :
       LET table  == [files EXCEPT ![new] = files[old]]
           opened == Retained(descriptions, files[old])
       IN /\ Lowest(Free(files), new)
          /\ files' = table
          /\ descriptions' = opened
          /\ sets' = Reconciled(table, opened)
  /\ Done
  /\ LookAgain
  /\ UNCHANGED <<events, shared, turn>>

\* dup2 and dup3: whatever the target was is closed first.
Dup2(t, old, new) ==
  LET table  == [files EXCEPT ![new] = files[old]]
      closed == IF new \in Open THEN Released(descriptions, files[new]) ELSE descriptions
      opened == Retained(closed, files[old])
      kept   == Reconciled(table, opened)
  IN /\ CanCall(t)
     /\ old \in Open /\ old # new
     /\ files' = table
     /\ descriptions' = opened
     /\ sets' = IF new \in Open THEN Forgotten(kept, opened, files[new]) ELSE kept
     /\ Done
     /\ LookAgain
     /\ UNCHANGED <<events, shared, turn>>

\* eventfd2.  Nothing ever gives the counter's slot back.
MakeEventfd(t, count, semaphore) ==
  /\ CanCall(t)
  /\ \E id \in Counters :
       /\ Lowest(Free(events), id)
       /\ events' = [events EXCEPT ![id] = [count |-> count, semaphore |-> semaphore]]
       /\ Opens([kind |-> "event", id |-> id])
  /\ Done
  /\ LookAgain
  /\ UNCHANGED <<sets, shared, turn>>

(***************************************************************************)
(* fork, as the parent sees it: the child's table is a copy and every      *)
(* epoll descriptor in it is counted on the parent's own set, which the    *)
(* child has a private copy of and never releases.  The child may not use  *)
(* that copy; what it shares is the counters.                              *)
(***************************************************************************)
Fork(t) ==
  LET raised(s) == sets[s].references + Census(files, descriptions, s) IN
  /\ CanCall(t)
  /\ \A s \in InUse(sets) : raised(s) <= MaxReferences
  /\ sets' = [s \in Sets |-> IF sets[s] = None THEN None
                             ELSE [sets[s] EXCEPT !.references = raised(s)]]
  /\ shared' = shared \cup
       {id \in Counters : \E fd \in Open : BackingOf(fd) = [kind |-> "event", id |-> id]}
  /\ Done
  /\ LookAgain
  /\ UNCHANGED <<events, descriptions, files, turn>>

---------------------------------------------------------------------------
(* Interest sets.  The model registers only counters in an epoll instance; *)
(* a poll or a select may name either kind.                                *)

Registration(fd, interest, edge, oneshot) ==
  [description |-> files[fd], reported |-> {}, events |-> interest,
   edge |-> edge, oneshot |-> oneshot, told |-> 0]

SetOf(fd)      == BackingOf(fd).id
IsEpoll(fd)    == fd \in Open /\ BackingOf(fd).kind = "epoll"
IsCounter(fd)  == fd \in Open /\ BackingOf(fd).kind = "event"
Entries(s)     == sets[s].watched
NoEntries      == [fd \in Numbers |-> None]

EpollCreate(t) ==
  /\ CanCall(t)
  /\ \E s \in Sets :
       /\ Lowest(Free(sets), s)
       /\ sets' = [sets EXCEPT ![s] = [watched |-> NoEntries, references |-> 1]]
       /\ Opens([kind |-> "epoll", id |-> s])
  /\ Done
  /\ LookAgain
  /\ UNCHANGED <<events, shared, turn>>

\* epoll_ctl, which finds a registration by the number it was made with.
Control(t, ep, fd, entry) ==
  /\ CanCall(t)
  /\ IsCounter(fd)
  /\ sets' = [sets EXCEPT ![SetOf(ep)].watched[fd] = entry]
  /\ Done
  /\ LookAgain
  /\ UNCHANGED <<events, descriptions, files, shared, turn>>

Add(t, ep, fd, interest, edge, oneshot) ==
  /\ IsEpoll(ep)
  /\ Entries(SetOf(ep))[fd] = None
  /\ Control(t, ep, fd, Registration(fd, interest, edge, oneshot))

\* MOD re-arms, and moves the registration to what the number names now.
Mod(t, ep, fd, interest, edge, oneshot) ==
  /\ IsEpoll(ep)
  /\ Entries(SetOf(ep))[fd] # None
  /\ Control(t, ep, fd, Registration(fd, interest, edge, oneshot))

Del(t, ep, fd) ==
  /\ IsEpoll(ep)
  /\ Entries(SetOf(ep))[fd] # None
  /\ Control(t, ep, fd, None)

---------------------------------------------------------------------------
(* Waits.                                                                  *)

\* What may be written out: as much of what fires as there is room for.
Written(s, max) ==
  {D \in SUBSET Firing(s) :
     Cardinality(D) = IF Cardinality(Firing(s)) <= max THEN Cardinality(Firing(s)) ELSE max}

\* Mutant: a one-shot entry stays armed.
RecordArmed(w, delivered) ==
  [w EXCEPT !.reported = IF w.edge THEN ReadyNow(w) ELSE @,
            !.told     = IF delivered /\ w.oneshot /\ @ < 2 THEN @ + 1 ELSE @]

\* Epolls::record: the current state remembered, a one-shot entry disarmed.
Record(w, delivered) ==
  [w EXCEPT !.reported = IF w.edge THEN ReadyNow(w) ELSE @,
            !.events   = IF Fires(w) # {} /\ w.oneshot THEN {} ELSE @,
            !.told     = IF delivered /\ w.oneshot /\ @ < 2 THEN @ + 1 ELSE @]

\* report_ready, for epoll: every entry is recorded, whatever is written out.
Recorded(s, delivered) ==
  [sets EXCEPT ![s].watched =
     [fd \in Numbers |-> IF Entries(s)[fd] = None THEN None
                         ELSE Record(Entries(s)[fd], fd \in delivered)]]

\* report_ready, for poll: by number, afresh; a closed number is NVAL.
PollAnswer(asked, interest) ==
  Cardinality({fd \in asked :
    IF files[fd] = None THEN TRUE ELSE Readiness(files[fd], interest) # {}})

\* report_ready, for select: bits of the set held for the call.
SelectAnswer(watched) ==
  Cardinality({x \in InUse(watched) \X Bits : x[2] \in ReadyNow(watched[x[1]])})

Wait(call, s, asked, interest, max, timeout) ==
  [call |-> call, set |-> s, asked |-> asked, interest |-> interest, max |-> max,
   deadline |-> timeout = "until"]

\* begin_wait, which reports, and so records, before it parks.
EpollWait(t, ep, max, timeout) ==
  LET s == SetOf(ep) IN
  /\ CanCall(t)
  /\ IsEpoll(ep)
  /\ \E delivered \in Written(s, max) :
       /\ sets' = Recorded(s, delivered)
       /\ IF delivered # {} \/ timeout = "now"
          THEN Done
          ELSE Parks(t, Wait("epoll", s, {}, {}, max, timeout))
  /\ LookAgain
  /\ UNCHANGED <<events, descriptions, files, shared, turn>>

\* hold_poll, and the set select makes before it looks.
Held(asked, interest) ==
  [fd \in Numbers |-> IF fd \in asked THEN Registration(fd, interest, FALSE, FALSE) ELSE None]

\* poll and select: a set that lives for one call, if the call parks.
PollOrSelect(t, call, asked, interest, timeout) ==
  LET n == IF call = "poll" THEN PollAnswer(asked, interest)
           ELSE SelectAnswer(Held(asked, interest))
  IN /\ CanCall(t)
     /\ call = "select" => asked \subseteq Open
     /\ IF n > 0 \/ timeout = "now"
        THEN Done /\ UNCHANGED sets
        ELSE \E s \in Sets :
               /\ Lowest(Free(sets), s)
               /\ sets' = [sets EXCEPT ![s] =
                    [watched |-> Held(asked, interest), references |-> 1]]
               /\ Parks(t, Wait(call, s, asked, interest, 0, timeout))
     /\ LookAgain
     /\ UNCHANGED <<events, descriptions, files, shared, turn>>

\* release_watch, of the waits of the threads in S.
LetGo(S) ==
  [s \in Sets |->
     IF \E t \in S : parked[t].call # "epoll" /\ parked[t].set = s
     THEN Released(sets, s)[s] ELSE sets[s]]

\* resume_watches, of a wait whose answer has come.  Nothing is delivered, and
\* everything recorded, when the buffer has gone.
ResumeWatch(t) ==
  LET x == parked[t] IN
  /\ NextToLookAt(t)
  /\ Ready(t)
  /\ IsWatch(t)
  /\ \/ /\ x.call = "epoll"
        /\ \E delivered \in Written(x.set, x.max) :
             /\ sets' = Recorded(x.set, delivered)
             /\ Answers(t, Cardinality(delivered))
     \/ /\ x.call = "poll"
        /\ sets' = LetGo({t})
        /\ Answers(t, PollAnswer(x.asked, x.interest))
     \/ /\ x.call = "select"
        /\ sets' = LetGo({t})
        /\ Answers(t, SelectAnswer(Entries(x.set)))
     \/ /\ CanUnmap
        /\ sets' = IF x.call = "epoll" THEN Recorded(x.set, {}) ELSE LetGo({t})
        /\ Answers(t, EFAULT)
  /\ LookedAt(t)
  /\ UNCHANGED <<events, descriptions, files, shared, turn>>

\* resume_watches, of a wait whose time is up when its process has the turn.
TimesOut(t) ==
  /\ NextToLookAt(t)
  /\ ~Ready(t)
  /\ IsWatch(t) /\ parked[t].deadline
  /\ sets' = LetGo({t})
  /\ Answers(t, 0)
  /\ LookedAt(t)
  /\ UNCHANGED <<events, descriptions, files, shared, turn>>

\* Mutant: only a thread that is not parked makes a process runnable.
RunnableUnparked == \E t \in Threads : parked[t] = None

\* runnable: a deadline is not readiness.
Runnable == \E t \in Threads : parked[t] = None \/ Ready(t)

\* expire, in the idle pass: nobody can run, and the time of some is up.
Expire(S) ==
  /\ ~turn
  /\ ~Runnable
  /\ S # {}
  /\ \A t \in S : IsWatch(t) /\ parked[t].deadline
  /\ sets' = LetGo(S)
  /\ parked' = [t \in Threads |-> IF t \in S THEN None ELSE parked[t]]
  /\ rax' = 0
  /\ UNCHANGED <<events, descriptions, files, shared, turn, todo>>

---------------------------------------------------------------------------
TakeTurn ==
  /\ ~turn
  /\ Runnable
  /\ turn' = TRUE
  /\ todo' = InUse(parked)
  /\ rax' = 0
  /\ UNCHANGED <<events, descriptions, files, sets, parked, shared>>

EndTurn ==
  /\ turn
  /\ NothingToResume
  /\ turn' = FALSE
  /\ todo' = {}
  /\ rax' = 0
  /\ UNCHANGED <<events, descriptions, files, sets, parked, shared>>

Init ==
  /\ events = [id \in Counters |-> None]
  /\ descriptions = [d \in Slots |-> None]
  /\ files = [fd \in Numbers |-> None]
  /\ sets = [s \in Sets |-> None]
  /\ parked = [t \in Threads |-> None]
  /\ shared = {}
  /\ turn = TRUE
  /\ todo = {}
  /\ rax = 0

Describing(t) ==
  \/ \E count \in Initials, semaphore \in Semaphores : MakeEventfd(t, count, semaphore)
  \/ EpollCreate(t)
  \/ \E fd \in Numbers : Close(t, fd) \/ Dup(t, fd)
  \/ \E old, new \in Numbers : Dup2(t, old, new)
  \/ Fork(t)

Registering(t) ==
  \E ep, fd \in Numbers :
    \/ \E interest \in Interests, edge \in Triggers, oneshot \in Shots :
         Add(t, ep, fd, interest, edge, oneshot) \/ Mod(t, ep, fd, interest, edge, oneshot)
    \/ Del(t, ep, fd)

Asking(t) ==
  \E timeout \in Timeouts :
    \/ \E ep \in Numbers, max \in Most : EpollWait(t, ep, max, timeout)
    \/ \E call \in {"poll", "select"}, asked \in Asked, interest \in Interests :
         PollOrSelect(t, call, asked, interest, timeout)

Moving(t) ==
  \E fd \in Numbers :
    \/ Transfer(t, fd, FALSE, 0)
    \/ \E value \in Values : Transfer(t, fd, TRUE, value)

Resuming == \E t \in Threads : ResumeEvent(t) \/ ResumeWatch(t)

Next ==
  \/ \E t \in Threads : Describing(t) \/ Registering(t) \/ Asking(t) \/ Moving(t)
  \/ Resuming
  \/ \E t \in Threads : TimesOut(t)
  \/ \E S \in SUBSET InUse(parked) : Expire(S)
  \/ \E id \in Counters : Elsewhere(id)
  \/ TakeTurn
  \/ EndTurn

Spec == Init /\ [][Next]_vars

\* What is resumed is resumed before the engine runs, an engine run ends, and
\* the other process gives up its turn.
Fairness ==
  /\ WF_vars(Resuming)
  /\ WF_vars(TakeTurn)
  /\ WF_vars(EndTurn)

FairSpec == Spec /\ Fairness

---------------------------------------------------------------------------
(* Properties.                                                             *)

(***************************************************************************)
(* Every variable has its type: no count passes the ceiling and no         *)
(* reference count reaches zero in use (fd.rs, eventfd.rs, poll.rs).       *)
(***************************************************************************)
TypeOK ==
  /\ events \in [Counters -> Event \cup {None}]
  /\ descriptions \in [Slots -> OpenFile \cup {None}]
  /\ files \in [Numbers -> Slots \cup {None}]
  /\ sets \in [Sets -> EpollSet \cup {None}]
  /\ parked \in [Threads -> Watching \cup Eventing \cup {None}]
  /\ shared \subseteq Counters
  /\ turn \in BOOLEAN
  /\ todo \subseteq Threads
  /\ rax \in Int

(***************************************************************************)
(* A registration, of an epoll instance or of a parked poll, is always on  *)
(* a description some descriptor still names, whatever is closed, copied   *)
(* or replaced under it by whichever thread (forget_description): a slot   *)
(* is reused, and a registration left behind would report the next file    *)
(* under the old caller's word.                                            *)
(***************************************************************************)
RegistrationsAreLive ==
  \A s \in InUse(sets) : \A fd \in InUse(Entries(s)) :
    Entries(s)[fd].description \in {files[n] : n \in Open}

(***************************************************************************)
(* An interest set is not freed, and so not given to anyone else, while a  *)
(* descriptor names it or a parked poll or select holds it; and a set held *)
(* for one call is that call's alone (Epolls::hold, reconcile_shared,      *)
(* release_watch).                                                         *)
(***************************************************************************)
HoldersOf(s) ==
  {t \in InUse(parked) : IsWatch(t) /\ parked[t].call # "epoll" /\ parked[t].set = s}

SetsAreHeld ==
  \A s \in Sets :
    LET named == Census(files, descriptions, s)
        held  == Cardinality(HoldersOf(s))
    IN /\ named + held <= IF sets[s] = None THEN 0 ELSE sets[s].references
       /\ held > 0 => named = 0 /\ held = 1 /\ sets[s].references = 1

(***************************************************************************)
(* A one-shot registration is handed to one waiter once until it is armed  *)
(* again, however many threads wait on the set (Epolls::record).           *)
(***************************************************************************)
OneshotIsOnce ==
  \A s \in InUse(sets) : \A fd \in InUse(Entries(s)) : Entries(s)[fd].told <= 1

(***************************************************************************)
(* An epoll_wait or a select that parked with no timeout never comes back  *)
(* with zero, "a timeout that did not happen", although what woke it may   *)
(* have been taken by another thread's wait in the same step               *)
(* (resume_watches, report_ready).                                         *)
(***************************************************************************)
NoFalseTimeout ==
  [][\A t \in Threads :
       parked[t] # None /\ parked'[t] = None /\ IsWatch(t)
       /\ parked[t].call \in {"epoll", "select"} /\ ~parked[t].deadline
       => rax' # 0]_vars

(***************************************************************************)
(* No thread stays parked on a wait or a counter that could answer it,     *)
(* whichever of poll, select, epoll_wait, read and write parked it         *)
(* (runnable, resume_watches, resume_events).                              *)
(***************************************************************************)
ReadyWaitersReturn ==
  \A t \in Threads : ~ <>[](parked[t] # None /\ Ready(t))

(***************************************************************************)
(* An edge is a transition of the kernel's own state, so it "cannot report *)
(* one that did not happen or miss one that did" (poll.rs, epoll_ready):   *)
(* a bit that becomes true of an armed edge-triggered registration can be  *)
(* reported.                                                               *)
(***************************************************************************)
EdgesAreNotMissed ==
  [][\A s \in InUse(sets) : \A fd \in InUse(Entries(s)) :
       LET w == Entries(s)[fd]
           now == EventBits(events'[descriptions[w.description].backing.id])
       IN w.edge /\ sets' = sets /\ descriptions' = descriptions
          => (now \ BitsOf(w.description)) \cap w.events \cap w.reported = {}]_vars
=============================================================================
