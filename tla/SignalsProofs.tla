--------------------------- MODULE SignalsProofs ---------------------------
(***************************************************************************)
(* What is proved of the masks and the frames of a process's threads, for  *)
(* any number of threads, any signals, stacks of any room and any programs *)
(* that take no step set apart by Wild.                                    *)
(*                                                                         *)
(* A thread's mask is owed back from one of three places: the mask itself  *)
(* while its own code runs, the cell a suspend left it in, or the frame of *)
(* the outermost handler.  The invariant says where the frames are (on the *)
(* thread's own stack from its bottom, or on the alternate stack over one  *)
(* of those), that the outermost of them holds the mask the code chose,    *)
(* and that a suspend's cell is empty whenever the thread runs.  The last  *)
(* holds because what wakes a suspend is always delivered: there is room   *)
(* for the frame and a handler for the signal.                             *)
(*                                                                         *)
(* From where the frames are follows what a debugger would unwind: the     *)
(* recursive walk of ReturnsTo is that list of places (shown at the least  *)
(* number of returns where they would differ), so a step's effect on it is *)
(* its effect on the stack pointer and on one frame.                       *)
(***************************************************************************)
EXTENDS Signals, SequenceTheorems, NaturalsInduction, WellFoundedInduction, TLAPS

OwnFrames(th, n) == \A i \in 1..n : th.frames[<<"own", i>>].sp = <<"own", i - 1>>
AltFrames(th, n) == \A i \in 2..n : th.frames[<<"alt", i>>].sp = <<"alt", i - 1>>

\* How many frames the thread's own stack holds.
Ground(th) == IF th.sp[1] = "own" THEN th.sp[2] ELSE th.frames[<<"alt", 1>>].sp[2]

StackSound(th) ==
  /\ th.sp[1] = "alt" => /\ th.onAlt
                         /\ th.frames[<<"alt", 1>>].sp[1] = "own"
                         /\ AltFrames(th, th.sp[2])
  /\ OwnFrames(th, Ground(th))

\* The mask the thread's own code will run under next.
Outermost(th) == IF Ground(th) = 0 THEN <<"alt", 1>> ELSE <<"own", 1>>
Owed(th) == IF th.sp = Bottom THEN Before(th) ELSE th.frames[Outermost(th)].mask

\* A suspended thread has room for a frame, and is parked or about to be
\* delivered what woke it.
Interruptible(th) ==
  th.suspended # None =>
    /\ th.sp[2] < Room
    /\ \/ th.state = "Paused"
       \/ th.state = "Runnable" /\ Deliverable(th) # {}

Timeless(th) == th.state \in {"None", "Runnable", "Paused", "Exited"} => th.deadline = None

ThreadOK(th, mask) == StackSound(th) /\ Owed(th) = mask /\ Interruptible(th) /\ Timeless(th)
ThreadsOK == \A t \in Threads : ThreadOK(threads[t], chosen[t])

\* Where a program suspends, nothing that could wake it is dropped.
NothingDropped ==
  menu.suspends # {} =>
    \A s \in Signals :
      /\ dispositions[s].resethand => Terminates(s)
      /\ (\E t \in Threads : s \in threads[t].pending) => Caught(s) \/ Terminates(s)

WhoSuspends == \A t \in Threads : threads[t].suspended # None => menu.suspends # {}
WhoRuns == Running => Me.state = "Runnable" /\ Me.suspended = None

Sound == ThreadsOK /\ NothingDropped /\ WhoSuspends /\ WhoRuns
IInv == TypeOK /\ (phase # "Over" => Sound)

\* What is supposed of the programs: they take no step set apart, and one that
\* suspends resets no handler of a signal whose default is to do nothing.
Tame ==
  /\ ~Wild
  /\ \A m \in Menus : m.suspends # {} =>
       \A act \in m.actions : act[2].resethand => Terminates(act[1])

---------------------------------------------------------------------------
(* Choices.                                                                *)

\* A set of natural numbers has a least one.
LEMMA LeastExists ==
  ASSUME NEW S, S \subseteq Nat, S # {}
  PROVE  \E x \in S : \A y \in S : x <= y
<1> DEFINE R == OpToRel(<, Nat)
<1>1. \A x, y \in Nat : x < y => <<x, y>> \in R
  <2> SUFFICES ASSUME NEW x \in Nat, NEW y \in Nat, x < y
               PROVE  <<x, y>> \in R
    OBVIOUS
  <2>1. <<x, y>> \in Nat \X Nat /\ <<x, y>>[1] = x /\ <<x, y>>[2] = y
    OBVIOUS
  <2> QED BY <2>1 DEF OpToRel
<1>2. \E x \in S : \A y \in S : <<y, x>> \notin R
  BY NatLessThanWellFounded, WFMin
<1> HIDE DEF R
<1>3. PICK x \in S : \A y \in S : <<y, x>> \notin R
  BY <1>2
<1>4. \A y \in S : ~(y < x)
  BY <1>1, <1>3
<1>5. \A y \in S : x <= y
  BY <1>4
<1> QED BY <1>5

\* The lowest of some signals, or of some threads, is one of them.
LEMMA LowestIsOne ==
  ASSUME NEW S, S \subseteq Nat, S # {}
  PROVE  Lowest(S) \in S
BY LeastExists DEF Lowest

\* Round robin chooses a thread that can run, whenever there is one.
LEMMA FollowingRuns ==
  ASSUME NEW ths, NEW t \in Threads, RunnableIn(ths) # {}
  PROVE  Following(ths, t) \in RunnableIn(ths)
<1> DEFINE S == {After(t, u) : u \in RunnableIn(ths)}
<1>1. \A u \in Threads : After(t, u) \in Nat
  BY SignalsAssumption DEF After, Threads
<1>2. S \subseteq Nat /\ S # {}
  BY <1>1 DEF RunnableIn
<1>3. PICK x \in S : \A y \in S : x <= y
  BY <1>2, LeastExists
<1>4. \E u \in RunnableIn(ths) : \A v \in RunnableIn(ths) : After(t, u) <= After(t, v)
  BY <1>3
<1> QED BY <1>4 DEF Following

---------------------------------------------------------------------------
(* One thread.                                                             *)

\* Where the frames are is read off the stack alone.
LEMMA SameFrames ==
  ASSUME NEW old, NEW new, StackSound(old),
         new.sp = old.sp, new.frames = old.frames, new.onAlt = old.onAlt
  PROVE  StackSound(new) /\ Ground(new) = Ground(old) /\ Outermost(new) = Outermost(old)
<1>1. Ground(new) = Ground(old)
  BY DEF Ground
<1>2. StackSound(new)
  BY <1>1 DEF StackSound, OwnFrames, AltFrames
<1> QED BY <1>1, <1>2 DEF Outermost

\* What is owed is read off the stack, the mask and a suspend's cell.
LEMMA SameStack ==
  ASSUME NEW old, NEW new, StackSound(old),
         new.sp = old.sp, new.frames = old.frames, new.onAlt = old.onAlt,
         new.blocked = old.blocked, new.suspended = old.suspended
  PROVE  StackSound(new) /\ Owed(new) = Owed(old)
BY DEF StackSound, Owed, Ground, OwnFrames, AltFrames, Outermost, Before

\* Threads nobody touches are as they were.
LEMMA SameThreadsAreOK ==
  ASSUME ThreadsOK, UNCHANGED <<threads, chosen>>
  PROVE  ThreadsOK'
<1> DEFINE OK(ths, cs) == \A t \in Threads : ThreadOK(ths[t], cs[t])
<1>1. OK(threads, chosen)
  BY DEF ThreadsOK
<1>2. OK(threads', chosen')
  BY <1>1
<1>3. ThreadsOK' = OK(threads', chosen')
  BY DEF ThreadsOK
<1> QED BY <1>2, <1>3

\* A thread no suspend holds can be woken.
LEMMA AwakeIsOK ==
  ASSUME NEW th \in Thread, NEW mask, ThreadOK(th, mask),
         th.suspended = None \/ (th.state = "Paused" /\ Deliverable(th) # {})
  PROVE  /\ Awake(th) \in Thread /\ ThreadOK(Awake(th), mask)
         /\ Awake(th).suspended = th.suspended /\ Awake(th).pending = th.pending
<1> DEFINE new == Awake(th)
<1>1. /\ new.sp = th.sp /\ new.frames = th.frames /\ new.onAlt = th.onAlt
      /\ new.blocked = th.blocked /\ new.suspended = th.suspended /\ new.pending = th.pending
      /\ new.state = "Runnable" /\ new.deadline = None
  BY DEF Awake, Thread
<1>2. new \in Thread
  BY DEF Awake, Thread, States
<1> HIDE DEF new
<1>3. StackSound(new) /\ Owed(new) = Owed(th)
  BY <1>1, SameStack DEF ThreadOK
<1>4. Interruptible(new) /\ Timeless(new)
  BY <1>1 DEF ThreadOK, Interruptible, Timeless, Deliverable
<1> QED BY <1>1, <1>2, <1>3, <1>4 DEF ThreadOK, new

\* A signal may be added to those pending.
LEMMA PendedIsOK ==
  ASSUME NEW th \in Thread, NEW mask, ThreadOK(th, mask), NEW s \in Signals
  PROVE  /\ [th EXCEPT !.pending = @ \cup {s}] \in Thread
         /\ ThreadOK([th EXCEPT !.pending = @ \cup {s}], mask)
<1> DEFINE new == [th EXCEPT !.pending = @ \cup {s}]
<1>1. /\ new.sp = th.sp /\ new.frames = th.frames /\ new.onAlt = th.onAlt
      /\ new.blocked = th.blocked /\ new.suspended = th.suspended
      /\ new.state = th.state /\ new.deadline = th.deadline
      /\ new.pending = th.pending \cup {s}
  BY DEF Thread
<1>2. new \in Thread
  BY DEF Thread
<1> HIDE DEF new
<1>3. StackSound(new) /\ Owed(new) = Owed(th)
  BY <1>1, SameStack DEF ThreadOK
<1>4. Interruptible(new) /\ Timeless(new)
  BY <1>1 DEF ThreadOK, Interruptible, Timeless, Deliverable
<1> QED BY <1>2, <1>3, <1>4 DEF ThreadOK, new

\* So may one be dropped, by a thread that no suspend holds.
LEMMA DroppedIsOK ==
  ASSUME NEW th \in Thread, NEW mask, ThreadOK(th, mask), th.suspended = None, NEW s
  PROVE  /\ [th EXCEPT !.pending = @ \ {s}] \in Thread
         /\ ThreadOK([th EXCEPT !.pending = @ \ {s}], mask)
<1> DEFINE new == [th EXCEPT !.pending = @ \ {s}]
<1>1. /\ new.sp = th.sp /\ new.frames = th.frames /\ new.onAlt = th.onAlt
      /\ new.blocked = th.blocked /\ new.suspended = th.suspended
      /\ new.state = th.state /\ new.deadline = th.deadline
  BY DEF Thread
<1>2. new \in Thread
  BY DEF Thread
<1> HIDE DEF new
<1>3. StackSound(new) /\ Owed(new) = Owed(th)
  BY <1>1, SameStack DEF ThreadOK
<1>4. Interruptible(new) /\ Timeless(new)
  BY <1>1 DEF ThreadOK, Interruptible, Timeless
<1> QED BY <1>2, <1>3, <1>4 DEF ThreadOK, new

\* The stack pointer is a stack and a height.
LEMMA PlacesAndHeights ==
  ASSUME NEW a \in Stacks
  PROVE  /\ a = <<a[1], a[2]>> /\ a[1] \in {"own", "alt"} /\ a[2] \in Nat
         /\ a[2] <= Room
         /\ a[1] = "alt" => a[2] >= 1
         /\ a = Bottom <=> a[1] = "own" /\ a[2] = 0
         /\ a # Bottom => a \in Places
         /\ a \in Places => a[2] >= 1
BY SignalsAssumption DEF Stacks, Places, Bottom

\* A frame is pushed: on top of the last, or first on the alternate stack.
LEMMA PushedIsSound ==
  ASSUME NEW th \in Thread, NEW new \in Thread, StackSound(th), NEW at \in Places,
         new.sp = at, new.frames[at] = [sp |-> th.sp, mask |-> Before(th)],
         \A a \in Places : a # at => new.frames[a] = th.frames[a],
         \/ at = <<"alt", 1>> /\ th.sp[1] = "own" /\ new.onAlt
         \/ at = <<th.sp[1], th.sp[2] + 1>> /\ new.onAlt = th.onAlt
  PROVE  StackSound(new) /\ Owed(new) = Owed(th)
<1> DEFINE p == th.sp[1]
           n == th.sp[2]
           g == Ground(th)
<1>1. th.sp \in Stacks /\ at \in Stacks /\ at # Bottom
  BY SignalsAssumption DEF Thread, Stacks, Places, Bottom
<1>2. /\ th.sp = <<p, n>> /\ p \in {"own", "alt"} /\ n \in Nat
      /\ p = "alt" => n >= 1
      /\ th.sp = Bottom <=> p = "own" /\ n = 0
  BY <1>1, PlacesAndHeights
<1>3. new.frames[at].sp = th.sp /\ new.frames[at].mask = Before(th)
  OBVIOUS
<1>4. \A q \in {"own", "alt"} : \A i \in 1..n : <<q, i>> \in Places
  <2>1. n <= Room
    BY <1>1, PlacesAndHeights
  <2> QED BY <2>1, <1>2, SignalsAssumption DEF Places
<1> HIDE DEF p, n
<1>5. CASE p = "own"
  <2>1. g = n /\ OwnFrames(th, n)
    BY <1>5 DEF Ground, StackSound, p, n
  <2>2. \A i \in 1..n : th.frames[<<"own", i>>].sp = <<"own", i - 1>>
    BY <2>1 DEF OwnFrames
  <2>3. CASE at = <<"alt", 1>> /\ new.onAlt
    <3>1. new.sp[1] = "alt" /\ new.sp[2] = 1 /\ new.sp # Bottom
      BY <2>3 DEF Bottom
    <3>2. Ground(new) = n /\ new.frames[<<"alt", 1>>].sp[1] = "own"
      BY <1>3, <1>5, <2>3, <3>1 DEF Ground, p, n
    <3>3. ASSUME NEW i \in 1..n
          PROVE  new.frames[<<"own", i>>] = th.frames[<<"own", i>>]
      <4>1. <<"own", i>> # <<"alt", 1>>
        OBVIOUS
      <4> QED BY <4>1, <1>4, <2>3
    <3>4. OwnFrames(new, n) /\ AltFrames(new, 1)
      BY <2>2, <3>3 DEF OwnFrames, AltFrames
    <3>5. Owed(new) = Owed(th)
      <4>1. CASE n = 0
        BY <4>1, <1>2, <1>3, <1>5, <2>3, <3>1, <3>2 DEF Owed, Outermost
      <4>2. CASE n >= 1
        <5>1. new.frames[<<"own", 1>>] = th.frames[<<"own", 1>>]
          BY <4>2, <1>2, <3>3
        <5> QED BY <4>2, <5>1, <1>2, <1>5, <2>1, <3>1, <3>2 DEF Owed, Outermost
      <4> QED BY <4>1, <4>2, <1>2
    <3> QED BY <2>3, <3>1, <3>2, <3>4, <3>5 DEF StackSound
  <2>4. CASE at = <<"own", n + 1>>
    <3>1. new.sp[1] = "own" /\ new.sp[2] = n + 1 /\ new.sp # Bottom
      BY <2>4, <1>2 DEF Bottom
    <3>2. Ground(new) = n + 1
      BY <3>1 DEF Ground
    <3>3. ASSUME NEW i \in 1..n
          PROVE  new.frames[<<"own", i>>] = th.frames[<<"own", i>>]
      <4>1. <<"own", i>> # <<"own", n + 1>>
        BY <1>2
      <4> QED BY <4>1, <1>4, <2>4
    <3>4. OwnFrames(new, n + 1)
      <4> SUFFICES ASSUME NEW i \in 1..(n + 1)
                   PROVE  new.frames[<<"own", i>>].sp = <<"own", i - 1>>
        BY DEF OwnFrames
      <4>1. CASE i = n + 1
        BY <4>1, <1>2, <1>3, <1>5, <2>4
      <4>2. CASE i \in 1..n
        BY <4>2, <2>2, <3>3
      <4> QED BY <4>1, <4>2, <1>2
    <3>5. Owed(new) = Owed(th)
      <4>1. CASE n = 0
        BY <4>1, <1>2, <1>3, <1>5, <2>4, <3>1, <3>2 DEF Owed, Outermost
      <4>2. CASE n >= 1
        <5>1. new.frames[<<"own", 1>>] = th.frames[<<"own", 1>>]
          BY <4>2, <1>2, <3>3
        <5> QED BY <4>2, <5>1, <1>2, <1>5, <2>1, <3>1, <3>2 DEF Owed, Outermost
      <4> QED BY <4>1, <4>2, <1>2
    <3> QED BY <3>1, <3>2, <3>4, <3>5 DEF StackSound
  <2> QED BY <2>3, <2>4, <1>5 DEF p, n
<1>6. CASE p = "alt"
  <2>1. at = <<"alt", n + 1>> /\ new.onAlt /\ AltFrames(th, n) /\ OwnFrames(th, g)
    BY <1>2, <1>6 DEF StackSound, p, n
  <2>2. /\ new.sp[1] = "alt" /\ new.sp[2] = n + 1 /\ new.sp # Bottom /\ th.sp # Bottom
        /\ g = th.frames[<<"alt", 1>>].sp[2] /\ th.frames[<<"alt", 1>>].sp[1] = "own"
        /\ n \in Nat /\ n >= 1
    BY <2>1, <1>2, <1>6 DEF Bottom, Ground, StackSound, p
  <2>3. /\ \A i \in 1..n : new.frames[<<"alt", i>>] = th.frames[<<"alt", i>>]
        /\ \A i \in 1..n : i >= 2 => th.frames[<<"alt", i>>].sp = <<"alt", i - 1>>
    BY <1>4, <2>1, <2>2 DEF AltFrames
  <2>4. new.frames[<<"alt", 1>>] = th.frames[<<"alt", 1>>]
    BY <2>2, <2>3
  <2>5. Ground(new) = g
    BY <2>2, <2>4 DEF Ground
  <2>6. AltFrames(new, n + 1)
    <3> SUFFICES ASSUME NEW i \in 2..(n + 1)
                 PROVE  new.frames[<<"alt", i>>].sp = <<"alt", i - 1>>
      BY DEF AltFrames
    <3>1. CASE i = n + 1
      BY <3>1, <1>2, <1>3, <1>6, <2>1, <2>2
    <3>2. CASE i \in 1..n
      BY <3>2, <2>3
    <3> QED BY <3>1, <3>2, <2>2
  <2>7. g \in Nat /\ \A i \in 1..g : <<"own", i>> \in Places
    <3>1. <<"alt", 1>> \in Places
      BY <1>4, <2>2
    <3>2. th.frames[<<"alt", 1>>].sp \in Stacks
      BY <3>1 DEF Thread
    <3>3. g \in Nat /\ g <= Room
      BY <2>2, <3>2, PlacesAndHeights
    <3> QED BY <3>3, SignalsAssumption DEF Places
  <2>8. \A i \in 1..g : new.frames[<<"own", i>>] = th.frames[<<"own", i>>]
    <3> SUFFICES ASSUME NEW i \in 1..g
                 PROVE  new.frames[<<"own", i>>] = th.frames[<<"own", i>>]
      OBVIOUS
    <3>1. <<"own", i>> # <<"alt", n + 1>>
      OBVIOUS
    <3> QED BY <3>1, <2>1, <2>7
  <2>9. OwnFrames(new, g)
    BY <2>1, <2>8 DEF OwnFrames
  <2>10. Outermost(new) = Outermost(th)
    BY <2>5 DEF Outermost
  <2>11. new.frames[Outermost(th)] = th.frames[Outermost(th)]
    <3>1. CASE g = 0
      BY <3>1, <2>4 DEF Outermost
    <3>2. CASE g >= 1
      BY <3>2, <2>7, <2>8 DEF Outermost
    <3> QED BY <3>1, <3>2, <2>7
  <2>12. Owed(new) = Owed(th)
    BY <2>2, <2>10, <2>11 DEF Owed
  <2> QED BY <2>1, <2>2, <2>4, <2>5, <2>6, <2>9, <2>12 DEF StackSound
<1> QED BY <1>2, <1>5, <1>6

\* A frame is popped, and not one that lies on another on the alternate stack.
LEMMA PoppedIsSound ==
  ASSUME NEW th \in Thread, NEW new \in Thread, StackSound(th), th.sp # Bottom,
         th.sp[1] = "own" \/ th.frames[th.sp].sp[1] = "own",
         new.sp = th.frames[th.sp].sp, new.frames = th.frames,
         new.blocked = th.frames[th.sp].mask, new.suspended = None
  PROVE  StackSound(new) /\ Owed(new) = Owed(th)
<1> DEFINE n == th.sp[2]
           g == Ground(th)
<1>1. /\ th.sp \in Places /\ th.sp = <<th.sp[1], n>> /\ th.sp[1] \in {"own", "alt"}
      /\ n \in Nat /\ n >= 1
  BY PlacesAndHeights DEF Thread
<1> HIDE DEF n
<1>2. CASE th.sp[1] = "own"
  <2>1. g = n /\ th.sp = <<"own", n>> /\ OwnFrames(th, n)
    BY <1>1, <1>2 DEF Ground, StackSound, n
  <2>2. new.sp = <<"own", n - 1>>
    BY <1>1, <2>1 DEF OwnFrames
  <2>3. Ground(new) = n - 1
    BY <2>2 DEF Ground
  <2>4. OwnFrames(new, n - 1)
    <3>1. \A i \in 1..(n - 1) : i \in 1..n
      BY <1>1
    <3> QED BY <2>1, <3>1 DEF OwnFrames
  <2>5. Owed(new) = Owed(th)
    <3>1. CASE n = 1
      BY <3>1, <2>1, <2>2 DEF Owed, Outermost, Before, Bottom
    <3>2. CASE n # 1
      <4>1. new.sp # Bottom
        BY <3>2, <1>1, <2>2 DEF Bottom
      <4> QED BY <4>1, <3>2, <1>1, <2>1, <2>3 DEF Owed, Outermost
    <3> QED BY <3>1, <3>2
  <2> QED BY <2>2, <2>3, <2>4, <2>5 DEF StackSound
<1>3. CASE th.sp[1] = "alt"
  <2>1. th.sp = <<"alt", n>> /\ AltFrames(th, n) /\ OwnFrames(th, g)
    BY <1>1, <1>3 DEF StackSound, n
  <2>2. n = 1
    <3> SUFFICES ASSUME n # 1 PROVE FALSE
      OBVIOUS
    <3>1. th.frames[<<"alt", n>>].sp = <<"alt", n - 1>>
      BY <1>1, <2>1 DEF AltFrames
    <3> QED BY <3>1, <2>1, <1>3
  <2>3. /\ new.sp \in Stacks /\ new.sp[1] = "own" /\ new.sp[2] = g
        /\ new.blocked = th.frames[<<"alt", 1>>].mask
    BY <1>3, <2>1, <2>2 DEF Thread, Ground
  <2>4. Ground(new) = g /\ OwnFrames(new, g)
    BY <2>1, <2>3 DEF Ground, OwnFrames
  <2>5. new.sp = Bottom <=> g = 0
    BY <2>3, PlacesAndHeights
  <2>6. Owed(new) = Owed(th)
    BY <2>3, <2>4, <2>5 DEF Owed, Outermost, Before
  <2> QED BY <2>3, <2>4, <2>6 DEF StackSound
<1> QED BY <1>1, <1>2, <1>3

\* A handler is called: the frame it returns to is under it, and the mask that
\* was owed is in the outermost.
LEMMA DeliveredIsOK ==
  ASSUME NEW th \in Thread, NEW mask, ThreadOK(th, mask), th.state = "Runnable",
         NEW s \in Signals, Delivers(th, s), dispositions \in [Signals -> Actions]
  PROVE  LET new == Interrupted(th, s) IN
         /\ new \in Thread /\ ThreadOK(new, mask)
         /\ new.suspended = None /\ new.state = "Runnable" /\ new.pending \subseteq th.pending
<1> DEFINE d == dispositions[s]
           at == PlaceOf(th, d)
           frame == [sp |-> th.sp, mask |-> Before(th)]
           new == Interrupted(th, s)
           n == th.sp[2]
<1>1. d \in Actions /\ at \in Places /\ th.sp \in Stacks
  BY DEF Delivers, Thread
<1>2. Before(th) \in SUBSET Signals
  BY DEF Before, Thread
<1>3. /\ new.sp = at /\ new.frames = [th.frames EXCEPT ![at] = frame]
      /\ new.onAlt = (th.onAlt \/ UsesAlt(th, d))
      /\ new.suspended = None /\ new.state = "Runnable"
      /\ new.pending = th.pending \ {s}
      /\ new.deadline = th.deadline
  BY DEF Interrupted, Thread
<1>4. new \in Thread
  <2>1. frame \in [sp : Stacks, mask : SUBSET Signals]
    BY <1>1, <1>2
  <2>2. Before(th) \cup d.mask \cup (IF d.nodefer THEN {} ELSE {s}) \in SUBSET Signals
    BY <1>1, <1>2 DEF Actions
  <2>3. at \in Stacks
    BY <1>1 DEF Stacks
  <2>4. UsesAlt(th, d) \in BOOLEAN
    BY DEF UsesAlt
  <2> DEFINE fs == [th.frames EXCEPT ![at] = frame]
             bs == Before(th) \cup d.mask \cup (IF d.nodefer THEN {} ELSE {s})
             ps == th.pending \ {s}
             on == th.onAlt \/ UsesAlt(th, d)
  <2>5. new = [th EXCEPT !.frames = fs, !.sp = at, !.blocked = bs, !.suspended = None,
                         !.pending = ps, !.onAlt = on]
    BY DEF Interrupted, Thread
  <2>6. fs \in [Places -> [sp : Stacks, mask : SUBSET Signals]]
    <3> HIDE DEF frame, at
    <3> QED BY <2>1 DEF Thread
  <2>7. ps \in SUBSET Signals /\ on \in BOOLEAN
    BY <2>4 DEF Thread
  <2> HIDE DEF fs, bs, ps, on, at, new
  <2>8. bs \in SUBSET Signals
    BY <2>2 DEF bs
  <2> QED BY <2>3, <2>5, <2>6, <2>7, <2>8 DEF Thread
<1>5. /\ th.frames \in [Places -> [sp : Stacks, mask : SUBSET Signals]]
      /\ new.frames[at] = frame
      /\ \A a \in Places : a # at => new.frames[a] = th.frames[a]
  BY <1>1, <1>3 DEF Thread
<1>6. StackSound(th) /\ Owed(th) = mask
  BY DEF ThreadOK
<1>7. StackSound(new) /\ Owed(new) = mask
  <2>1. th.sp[1] = "own" \/ th.onAlt
    BY <1>1, <1>6, PlacesAndHeights DEF StackSound
  <2>2. \/ at = <<"alt", 1>> /\ th.sp[1] = "own" /\ new.onAlt
        \/ at = <<th.sp[1], th.sp[2] + 1>> /\ new.onAlt = th.onAlt
    BY <2>1, <1>3 DEF PlaceOf, UsesAlt, Thread
  <2> HIDE DEF new, at
  <2> QED BY <2>2, <1>1, <1>3, <1>4, <1>5, <1>6, PushedIsSound
<1>8. Interruptible(new) /\ Timeless(new)
  BY <1>3 DEF ThreadOK, Interruptible, Timeless
<1> QED BY <1>3, <1>4, <1>7, <1>8 DEF ThreadOK

---------------------------------------------------------------------------
(* What may happen to all the threads at once.                             *)

\* These threads could be those of the next state.
Harmless(ths) ==
  /\ ths \in [Threads -> Thread]
  /\ \A t \in Threads :
       /\ ThreadOK(ths[t], chosen[t])
       /\ ths[t].suspended # None => menu.suspends # {}
       /\ \A s \in ths[t].pending : Caught(s) \/ s \in threads[t].pending

LEMMA TheseAreHarmless ==
  ASSUME TypeOK, Sound
  PROVE  Harmless(threads)
BY DEF TypeOK, Sound, Harmless, ThreadsOK, WhoSuspends

LEMMA WakesAreHarmless ==
  ASSUME NEW ths, Harmless(ths), NEW word, NEW bits, NEW count
  PROVE  Harmless(Wakes(ths, word, bits, count))
<1> DEFINE new == Wakes(ths, word, bits, count)
<1>1. DOMAIN new = Threads
  BY DEF Wakes
<1>2. ASSUME NEW t \in Threads
      PROVE  /\ new[t] \in Thread /\ ThreadOK(new[t], chosen[t])
             /\ new[t].suspended = ths[t].suspended
             /\ new[t].pending = ths[t].pending
  <2>1. ths[t] \in Thread /\ ThreadOK(ths[t], chosen[t])
    BY DEF Harmless
  <2>2. CASE new[t] = ths[t]
    BY <2>1, <2>2
  <2>3. CASE new[t] # ths[t]
    <3>1. new[t] = Awake(ths[t]) /\ ths[t].state = "Waiting"
      BY <2>3 DEF Wakes, Reached
    <3>2. ths[t].suspended = None
      BY <2>1, <3>1 DEF ThreadOK, Interruptible
    <3> QED BY <2>1, <3>1, <3>2, AwakeIsOK
  <2> QED BY <2>2, <2>3
<1>3. new \in [Threads -> Thread]
  BY <1>2 DEF Wakes
<1> HIDE DEF new
<1>4. Harmless(new)
  BY <1>2, <1>3 DEF Harmless
<1> QED BY <1>4 DEF new

\* A signal with a handler comes to a thread.
LEMMA PendingIsHarmless ==
  ASSUME NEW ths, Harmless(ths), NEW s \in Signals, Caught(s), NEW u
  PROVE  Harmless([ths EXCEPT ![u].pending = @ \cup {s}])
<1> DEFINE new == [ths EXCEPT ![u].pending = @ \cup {s}]
<1>1. ASSUME NEW t \in Threads
      PROVE  /\ new[t] \in Thread /\ ThreadOK(new[t], chosen[t])
             /\ new[t].suspended = ths[t].suspended
             /\ new[t].pending \subseteq ths[t].pending \cup {s}
  <2>1. ths \in [Threads -> Thread] /\ ths[t] \in Thread /\ ThreadOK(ths[t], chosen[t])
    BY DEF Harmless
  <2>2. CASE t # u
    BY <2>1, <2>2
  <2>3. CASE t = u
    <3>1. new[t] = [ths[t] EXCEPT !.pending = @ \cup {s}]
      BY <2>1, <2>3
    <3> QED BY <2>1, <3>1, PendedIsOK DEF Thread
  <2> QED BY <2>2, <2>3
<1>2. new \in [Threads -> Thread]
  BY <1>1 DEF Harmless
<1> HIDE DEF new
<1>3. Harmless(new)
  BY <1>1, <1>2 DEF Harmless
<1> QED BY <1>3 DEF new

\* raise_process
LEMMA SignalledIsHarmless ==
  ASSUME NEW ths, Harmless(ths), NEW s \in Signals
  PROVE  Harmless(Signalled(ths, s))
BY PendingIsHarmless DEF Signalled, RaiseProcess

\* resume_paused
LEMMA WokenIsHarmless ==
  ASSUME Harmless(threads)
  PROVE  Harmless(Woken)
<1>1. ASSUME NEW t \in Threads
      PROVE  /\ Woken[t] \in Thread /\ ThreadOK(Woken[t], chosen[t])
             /\ Woken[t].suspended = threads[t].suspended
             /\ Woken[t].pending = threads[t].pending
  <2>1. threads[t] \in Thread /\ ThreadOK(threads[t], chosen[t])
    BY DEF Harmless
  <2>2. CASE Woken[t] = threads[t]
    BY <2>1, <2>2
  <2>3. CASE Woken[t] # threads[t]
    <3>1. /\ Woken[t] = Awake(threads[t]) /\ Deliverable(threads[t]) # {}
          /\ threads[t].state \in {"Paused", "Sleeping"}
      BY <2>3 DEF Woken
    <3>2. threads[t].suspended = None \/ threads[t].state = "Paused"
      BY <2>1, <3>1 DEF ThreadOK, Interruptible
    <3> QED BY <2>1, <3>1, <3>2, AwakeIsOK
  <2> QED BY <2>2, <2>3
<1>2. Woken \in [Threads -> Thread]
  BY <1>1 DEF Woken
<1> QED BY <1>1, <1>2 DEF Harmless

\* One thread changes, and no signal comes.
LEMMA OneIsHarmless ==
  ASSUME NEW ths, Harmless(ths), NEW t, NEW new \in Thread,
         t \in Threads => /\ ThreadOK(new, chosen[t])
                          /\ new.suspended # None => menu.suspends # {}
                          /\ new.pending \subseteq ths[t].pending
  PROVE  Harmless([ths EXCEPT ![t] = new])
<1> DEFINE all == [ths EXCEPT ![t] = new]
<1>1. all \in [Threads -> Thread] /\ \A u \in Threads : all[u] = IF u = t THEN new ELSE ths[u]
  BY DEF Harmless
<1> HIDE DEF all
<1>2. Harmless(all)
  BY <1>1 DEF Harmless
<1> QED BY <1>2 DEF all

\* What makes the next state sound.
LEMMA HarmlessIsSound ==
  ASSUME TypeOK, Sound, NEW ths, Harmless(ths), NEW ds,
         menu.suspends # {} => \A s \in Signals : ds[s] = dispositions[s] \/ Terminates(s),
         threads' = ths, dispositions' = ds, menu' = menu, chosen' = chosen,
         phase' = "Run" => ths[turn'].state = "Runnable" /\ ths[turn'].suspended = None
  PROVE  Sound'
<1>1. ThreadsOK' /\ WhoSuspends'
  BY DEF Harmless, ThreadsOK, WhoSuspends, ThreadOK, StackSound, Owed, Interruptible, Timeless,
         Ground, OwnFrames, AltFrames, Outermost, Before, Deliverable
<1>2. NothingDropped'
  <2> SUFFICES ASSUME menu.suspends # {}, NEW s \in Signals, ~Terminates(s)
               PROVE  /\ ~ds[s].resethand
                      /\ (\E t \in Threads : s \in ths[t].pending) => ds[s].handler = "Handler"
    BY DEF NothingDropped, Caught, Terminates
  <2>1. ds[s] = dispositions[s]
    OBVIOUS
  <2> QED BY <2>1 DEF Harmless, Sound, NothingDropped, Caught
<1>3. WhoRuns'
  BY DEF WhoRuns, Running, Me
<1> QED BY <1>1, <1>2, <1>3 DEF Sound

\* The same, when the dispositions stay and nobody's own code is let run.
LEMMA QuietIsSound ==
  ASSUME TypeOK, Sound, NEW ths, Harmless(ths), threads' = ths,
         dispositions' = dispositions, menu' = menu, chosen' = chosen, phase' # "Run"
  PROVE  Sound'
BY HarmlessIsSound

---------------------------------------------------------------------------
(* The loop's own steps.                                                   *)

\* A thread with room on its stack takes what has a handler.
LEMMA RoomToDeliver ==
  ASSUME NEW th \in Thread, th.sp[2] < Room, NEW s \in Signals, Caught(s)
  PROVE  Delivers(th, s)
<1>1. th.sp \in Stacks
  BY DEF Thread
<1>2. th.sp[1] \in {"own", "alt"} /\ th.sp[2] \in Nat
  BY <1>1, PlacesAndHeights
<1> QED BY <1>2, SignalsAssumption DEF Delivers, PlaceOf, Places

\* A delivery leaves the dispositions that matter to a suspend.
LEMMA AfterDeliveryIsTyped ==
  ASSUME TypeOK, Sound, NEW s \in Signals
  PROVE  /\ AfterDelivery(s) \in [Signals -> Actions]
         /\ menu.suspends # {} =>
              \A r \in Signals : AfterDelivery(s)[r] = dispositions[r] \/ Terminates(r)
<1>1. dispositions \in [Signals -> Actions] /\ Default \in Actions
  BY DEF TypeOK, Default, Actions
<1>2. dispositions[s].resethand /\ menu.suspends # {} => Terminates(s)
  BY DEF Sound, NothingDropped
<1> QED BY <1>1, <1>2 DEF AfterDelivery

LEMMA StepKeeps ==
  ASSUME TypeOK, Sound, Step
  PROVE  TypeOK' /\ (phase' # "Over" => Sound')
<1> DEFINE t == IF Woken[turn].state = "Runnable" THEN turn ELSE Following(Woken, turn)
           th == Woken[t]
           s == Lowest(Deliverable(th))
<1>1. Harmless(Woken)
  BY TheseAreHarmless, WokenIsHarmless
<1>2. UNCHANGED <<words, alarm, now, menu, chosen>>
  BY DEF Step
<1>3. CASE RunnableIn(Woken) = {}
  <2>1. phase' = "Idle" /\ UNCHANGED <<threads, turn, dispositions>>
    BY <1>3 DEF Step
  <2>2. Sound'
    BY <1>2, <2>1, TheseAreHarmless, QuietIsSound
  <2> QED BY <1>2, <2>1, <2>2 DEF TypeOK
<1>4. CASE RunnableIn(Woken) # {}
  <2>1. turn \in Threads
    BY DEF TypeOK
  <2>2. t \in Threads /\ th.state = "Runnable" /\ turn' = t
    BY <1>4, <2>1, FollowingRuns DEF RunnableIn, Step
  <2>3. /\ Woken \in [Threads -> Thread] /\ th \in Thread /\ ThreadOK(th, chosen[t])
        /\ th.suspended # None => menu.suspends # {}
        /\ \A r \in th.pending : Caught(r) \/ r \in threads[t].pending
    BY <1>1, <2>2 DEF Harmless
  <2>4. Deliverable(th) # {} => s \in Signals /\ s \in th.pending
    <3>1. Deliverable(th) \subseteq th.pending /\ th.pending \subseteq Signals
      BY <2>3 DEF Deliverable, Thread
    <3> QED BY <3>1, LowestIsOne, SignalsAssumption
  <2>5. CASE Deliverable(th) = {} /\ threads' = Woken /\ phase' = "Run" /\ UNCHANGED dispositions
    <3>1. th.suspended = None
      BY <2>2, <2>3, <2>5 DEF ThreadOK, Interruptible
    <3>2. Sound'
      BY <1>1, <1>2, <2>2, <2>5, <3>1, HarmlessIsSound
    <3> QED BY <1>2, <2>2, <2>3, <2>5, <3>2 DEF TypeOK
  <2>6. CASE Deliverable(th) # {} /\ Deliver(Woken, t, s) /\ phase' = "Run"
    <3> DEFINE new == Interrupted(th, s)
               ths == [Woken EXCEPT ![t] = new]
    <3>1. /\ Delivers(th, s) /\ s \in Signals
          /\ threads' = ths /\ dispositions' = AfterDelivery(s)
      BY <2>4, <2>6 DEF Deliver
    <3>2. /\ new \in Thread /\ ThreadOK(new, chosen[t])
          /\ new.suspended = None /\ new.state = "Runnable" /\ new.pending \subseteq th.pending
      BY <2>2, <2>3, <3>1, DeliveredIsOK DEF TypeOK
    <3> HIDE DEF new
    <3>3. Harmless(ths)
      BY <1>1, <3>2, OneIsHarmless
    <3>4. ths[t] = new /\ ths \in [Threads -> Thread]
      BY <2>2, <2>3, <3>2
    <3> HIDE DEF ths, t, s
    <3>5. Sound'
      BY <1>2, <2>2, <2>6, <3>1, <3>2, <3>3, <3>4, AfterDeliveryIsTyped, HarmlessIsSound
    <3> QED BY <1>2, <2>2, <2>6, <3>1, <3>4, <3>5, AfterDeliveryIsTyped DEF TypeOK
  <2>7. CASE /\ Deliverable(th) # {} /\ ~Delivers(th, s)
             /\ threads' = [Woken EXCEPT ![t].pending = @ \ {s}]
             /\ IF Terminates(s) THEN Over ELSE phase' = "Run" /\ UNCHANGED dispositions
    <3> DEFINE new == [th EXCEPT !.pending = @ \ {s}]
               ths == [Woken EXCEPT ![t] = new]
    <3>1. threads' = ths /\ dispositions' = dispositions /\ phase' \in {"Over", "Run"}
      BY <2>3, <2>7 DEF Over
    <3>2. new \in Thread
      BY <2>3 DEF Thread
    <3>3. ths[t] = new /\ ths \in [Threads -> Thread]
      BY <2>2, <2>3, <3>2
    <3>4. ASSUME phase' # "Over"
          PROVE  Sound'
      <4>1. ~Terminates(s)
        BY <2>7, <3>4 DEF Over
      <4>2. th.suspended = None
        <5> SUFFICES ASSUME th.suspended # None PROVE FALSE
          OBVIOUS
        <5>1. Caught(s)
          BY <2>2, <2>3, <2>4, <2>7, <4>1 DEF Sound, NothingDropped
        <5>2. th.sp[2] < Room
          BY <2>3 DEF ThreadOK, Interruptible
        <5> QED BY <2>3, <2>4, <2>7, <5>1, <5>2, RoomToDeliver
      <4>3. ThreadOK(new, chosen[t])
        BY <2>3, <4>2, DroppedIsOK
      <4>4. new.suspended = None /\ new.state = "Runnable" /\ new.pending \subseteq th.pending
        BY <2>2, <2>3, <4>2 DEF Thread
      <4> HIDE DEF new
      <4>5. Harmless(ths)
        BY <1>1, <3>2, <4>3, <4>4, OneIsHarmless
      <4> HIDE DEF ths, t, s
      <4> QED BY <1>2, <2>2, <3>1, <3>3, <4>4, <4>5, HarmlessIsSound
    <3> HIDE DEF ths, t, s, new
    <3> QED BY <1>2, <2>2, <3>1, <3>3, <3>4 DEF TypeOK
  <2> QED BY <1>4, <2>5, <2>6, <2>7 DEF Step
<1> QED BY <1>3, <1>4

\* A step that touches neither the dispositions nor what anybody chose.
LEMMA HarmlessKeeps ==
  ASSUME TypeOK, Sound, NEW ths, Harmless(ths), threads' = ths,
         turn' \in Threads, phase' \in {"Step", "Idle", "Over"},
         words' \in [Words -> Nat],
         alarm' \in {None} \cup [deadline : Nat, interval : Nat], now' \in Nat,
         UNCHANGED <<dispositions, menu, chosen>>
  PROVE  TypeOK' /\ Sound'
<1>1. Sound'
  BY QuietIsSound
<1>2. ths \in [Threads -> Thread]
  BY DEF Harmless
<1> QED BY <1>1, <1>2 DEF TypeOK

\* expire
LEMMA ExpiredIsHarmless ==
  ASSUME TypeOK, Sound, Expired
  PROVE  /\ Harmless(threads')
         /\ alarm' \in {None} \cup [deadline : Nat, interval : Nat]
<1> DEFINE rings == alarm # None /\ Passed(alarm.deadline)
           ths == IF rings THEN Signalled(threads, SIGALRM) ELSE threads
           new == [t \in Threads |-> IF Passed(ths[t].deadline) THEN Awake(ths[t]) ELSE ths[t]]
<1>1. threads' = new
  BY DEF Expired
<1>2. alarm' \in {None} \cup [deadline : Nat, interval : Nat]
  BY DEF Expired, TypeOK
<1>3. Harmless(ths)
  BY TheseAreHarmless, SignalledIsHarmless, SignalsAssumption
<1> HIDE DEF ths
<1>4. ASSUME NEW t \in Threads
      PROVE  /\ new[t] \in Thread /\ ThreadOK(new[t], chosen[t])
             /\ new[t].suspended = ths[t].suspended
             /\ new[t].pending = ths[t].pending
  <2>1. ths[t] \in Thread /\ ThreadOK(ths[t], chosen[t])
    BY <1>3 DEF Harmless
  <2>2. CASE ~Passed(ths[t].deadline)
    BY <2>1, <2>2
  <2>3. CASE Passed(ths[t].deadline)
    <3>1. new[t] = Awake(ths[t]) /\ ths[t].deadline # None
      BY <2>3 DEF Passed
    <3>2. ths[t].suspended = None
      BY <2>1, <3>1 DEF ThreadOK, Interruptible, Timeless
    <3> HIDE DEF new
    <3> QED BY <2>1, <3>1, <3>2, AwakeIsOK
  <2> QED BY <2>2, <2>3
<1>5. new \in [Threads -> Thread]
  BY <1>4
<1> HIDE DEF new
<1>6. Harmless(new)
  BY <1>3, <1>4, <1>5 DEF Harmless
<1> QED BY <1>1, <1>2, <1>6

LEMMA IdleKeeps ==
  ASSUME TypeOK, Sound, Idle
  PROVE  TypeOK' /\ Sound'
<1>1. UNCHANGED <<turn, dispositions, words, now, menu, chosen>> /\ phase' = "Step"
  BY DEF Idle
<1>2. CASE UNCHANGED <<threads, alarm>>
  BY <1>1, <1>2, TheseAreHarmless, HarmlessKeeps DEF TypeOK
<1>3. CASE Expired
  BY <1>1, <1>3, ExpiredIsHarmless, HarmlessKeeps DEF TypeOK
<1> QED BY <1>2, <1>3 DEF Idle

LEMMA TickKeeps ==
  ASSUME TypeOK, Sound, Tick
  PROVE  TypeOK' /\ Sound'
<1>1. UNCHANGED <<threads, turn, dispositions, words, alarm, phase, menu, chosen>>
  BY DEF Tick
<1>2. now' \in Nat
  BY DEF Tick, TypeOK
<1>3. phase' = "Run" => threads[turn].state = "Runnable" /\ threads[turn].suspended = None
  BY <1>1 DEF Sound, WhoRuns, Running, Me
<1>4. Sound'
  BY <1>1, <1>3, TheseAreHarmless, HarmlessIsSound
<1> QED BY <1>1, <1>2, <1>4 DEF TypeOK

LEMMA SentKeeps ==
  ASSUME TypeOK, Sound, NEW s \in Signals, Sent(s)
  PROVE  TypeOK' /\ Sound'
<1>1. UNCHANGED <<turn, dispositions, words, alarm, now, menu, chosen>>
  BY DEF Sent, Over
<1>2. CASE Fatal(s)
  <2>1. phase' = "Over" /\ UNCHANGED threads
    BY <1>2 DEF Sent, Over
  <2> QED BY <1>1, <2>1, TheseAreHarmless, HarmlessKeeps DEF TypeOK
<1>3. CASE ~Fatal(s)
  <2>1. threads' = Signalled(threads, s) /\ phase' \in {"Step", "Idle"}
    BY <1>3 DEF Sent
  <2>2. Harmless(Signalled(threads, s))
    BY TheseAreHarmless, SignalledIsHarmless
  <2> QED BY <1>1, <2>1, <2>2, HarmlessKeeps DEF TypeOK
<1> QED BY <1>2, <1>3

---------------------------------------------------------------------------
(* What a thread does with its turn.                                       *)

\* The thread whose code runs is held by nothing.
LEMMA MeRuns ==
  ASSUME TypeOK, Sound, Running
  PROVE  /\ turn \in Threads /\ Me = threads[turn] /\ Me \in Thread /\ ThreadOK(Me, chosen[turn])
         /\ Me.state = "Runnable" /\ Me.suspended = None /\ Me.deadline = None
BY DEF TypeOK, Sound, ThreadsOK, WhoRuns, Me, ThreadOK, Timeless

\* Where nothing suspends it, only its stack and its mask are owed anything.
LEMMA SameIsOK ==
  ASSUME NEW old, NEW mask, ThreadOK(old, mask), old.suspended = None, NEW new \in Thread,
         new.sp = old.sp, new.frames = old.frames, new.onAlt = old.onAlt,
         new.blocked = old.blocked, new.suspended = None,
         Timeless(new)
  PROVE  ThreadOK(new, mask)
<1>1. StackSound(new) /\ Owed(new) = Owed(old)
  BY SameStack DEF ThreadOK
<1> QED BY <1>1 DEF ThreadOK, Interruptible

\* The thread at its turn becomes another, and the step says what follows.
LEMMA MineIsHarmless ==
  ASSUME TypeOK, Sound, Running, NEW new \in Thread, ThreadOK(new, chosen[turn]),
         new.suspended # None => menu.suspends # {}, new.pending \subseteq Me.pending
  PROVE  Harmless([threads EXCEPT ![turn] = new])
BY MeRuns, TheseAreHarmless, OneIsHarmless

LEMMA LeavingKeeps ==
  ASSUME TypeOK, Sound, NEW ths, Harmless(ths), Leaves(ths), words' \in [Words -> Nat],
         UNCHANGED <<dispositions, alarm, now, menu, chosen>>
  PROVE  TypeOK' /\ Sound'
<1>1. threads' = ths /\ phase' \in {"Idle", "Step"} /\ turn' \in Threads
  BY FollowingRuns DEF Leaves, TypeOK, RunnableIn
<1> QED BY <1>1, HarmlessKeeps DEF TypeOK

LEMMA PreemptKeeps ==
  ASSUME TypeOK, Sound, Preempt
  PROVE  TypeOK' /\ Sound'
<1>1. turn \in RunnableIn(threads)
  BY MeRuns DEF RunnableIn, Preempt
<1>2. turn' \in Threads
  BY <1>1, FollowingRuns DEF Preempt, TypeOK, RunnableIn
<1> QED BY <1>2, TheseAreHarmless, HarmlessKeeps DEF Preempt, TypeOK

\* A thread changes together with what it chose; it may be a new one.
LEMMA ChoosingKeeps ==
  ASSUME TypeOK, Sound, NEW u, NEW new \in Thread, NEW mask \in SUBSET Signals,
         ThreadOK(new, mask), new.suspended = None,
         u \in Threads => new.pending \subseteq threads[u].pending,
         threads' = [threads EXCEPT ![u] = new], chosen' = [chosen EXCEPT ![u] = mask],
         words' \in [Words -> Nat], phase' = "Step",
         UNCHANGED <<turn, dispositions, alarm, now, menu>>
  PROVE  TypeOK' /\ Sound'
<1>1. /\ threads' \in [Threads -> Thread] /\ chosen' \in [Threads -> SUBSET Signals]
      /\ \A t \in Threads : /\ threads'[t] = IF t = u THEN new ELSE threads[t]
                            /\ chosen'[t] = IF t = u THEN mask ELSE chosen[t]
  BY DEF TypeOK
<1>2. TypeOK'
  BY <1>1 DEF TypeOK
<1>3. ASSUME NEW t \in Threads
      PROVE  /\ ThreadOK(threads'[t], chosen'[t])
             /\ threads'[t].suspended # None => menu.suspends # {}
             /\ threads'[t].pending \subseteq threads[t].pending
  BY <1>1 DEF Sound, ThreadsOK, WhoSuspends
<1>4. ThreadsOK'
  BY <1>3 DEF ThreadsOK, ThreadOK, StackSound, Owed, Interruptible, Timeless,
         Ground, OwnFrames, AltFrames, Outermost, Before, Deliverable
<1>5. WhoSuspends'
  BY <1>3 DEF WhoSuspends
<1>6. NothingDropped'
  BY <1>3 DEF Sound, NothingDropped, Caught
<1>7. WhoRuns'
  BY DEF WhoRuns, Running
<1> QED BY <1>2, <1>4, <1>5, <1>6, <1>7 DEF Sound

\* At the bottom the mask is chosen; in a handler it is not the one owed.
LEMMA SignalMaskKeeps ==
  ASSUME TypeOK, Sound, NEW mask \in SUBSET Signals, SignalMask(mask)
  PROVE  TypeOK' /\ Sound'
<1> DEFINE new == [Me EXCEPT !.blocked = mask]
           c == IF Me.sp = Bottom THEN mask ELSE chosen[turn]
<1>1. /\ Running /\ threads' = [threads EXCEPT ![turn] = new] /\ phase' = "Step"
      /\ UNCHANGED <<turn, dispositions, words, alarm, now, menu>>
  BY DEF SignalMask, Becomes, Continues
<1>2. /\ turn \in Threads /\ Me = threads[turn] /\ Me \in Thread
      /\ ThreadOK(Me, chosen[turn]) /\ Me.suspended = None /\ Me.deadline = None
  BY <1>1, MeRuns
<1>3. /\ new \in Thread /\ new.sp = Me.sp /\ new.frames = Me.frames /\ new.onAlt = Me.onAlt
      /\ new.blocked = mask /\ new.suspended = None /\ new.pending = Me.pending
      /\ new.deadline = None
  BY <1>2 DEF Thread
<1> HIDE DEF new
<1>4. c \in SUBSET Signals /\ chosen' = [chosen EXCEPT ![turn] = c]
  BY <1>2 DEF SignalMask, Chooses, TypeOK
<1>5. StackSound(new) /\ Owed(new) = c
  <2>1. StackSound(Me) /\ Owed(Me) = chosen[turn]
    BY <1>2 DEF ThreadOK
  <2>2. StackSound(new) /\ Outermost(new) = Outermost(Me)
    BY <1>3, <2>1, SameFrames
  <2>3. CASE Me.sp = Bottom
    BY <1>3, <2>2, <2>3 DEF Owed, Before
  <2>4. CASE Me.sp # Bottom
    BY <1>3, <2>1, <2>2, <2>4 DEF Owed
  <2> QED BY <2>2, <2>3, <2>4
<1> HIDE DEF c
<1>6. ThreadOK(new, c)
  BY <1>3, <1>5 DEF ThreadOK, Interruptible, Timeless
<1> QED BY <1>1, <1>2, <1>3, <1>4, <1>6, ChoosingKeeps DEF TypeOK

\* A jump to the bottom leaves no frame to read.
LEMMA LongJumpKeeps ==
  ASSUME TypeOK, Sound, LongJump
  PROVE  TypeOK' /\ Sound'
<1> DEFINE new == [Me EXCEPT !.sp = Bottom]
<1>1. /\ Running /\ threads' = [threads EXCEPT ![turn] = new] /\ phase' = "Step"
      /\ chosen' = [chosen EXCEPT ![turn] = Me.blocked]
      /\ UNCHANGED <<turn, dispositions, words, alarm, now, menu>>
  BY DEF LongJump, Becomes, Continues
<1>2. /\ turn \in Threads /\ Me = threads[turn] /\ Me \in Thread
      /\ Me.suspended = None /\ Me.deadline = None
  BY <1>1, MeRuns
<1>3. /\ new \in Thread /\ new.sp = Bottom /\ new.blocked = Me.blocked
      /\ new.suspended = None /\ new.pending = Me.pending /\ new.deadline = None
  BY <1>2 DEF Thread, Stacks
<1> HIDE DEF new
<1>4. Bottom[1] = "own" /\ Bottom[2] = 0
  BY DEF Bottom
<1>5. StackSound(new) /\ Owed(new) = Me.blocked
  BY <1>3, <1>4 DEF StackSound, Owed, Ground, OwnFrames, Before
<1>6. ThreadOK(new, Me.blocked) /\ Me.blocked \in SUBSET Signals
  BY <1>2, <1>3, <1>5 DEF ThreadOK, Interruptible, Timeless, Thread
<1> QED BY <1>1, <1>2, <1>3, <1>6, ChoosingKeeps DEF TypeOK

LEMMA CloneKeeps ==
  ASSUME TypeOK, Sound, NEW word \in Words, Clone(word)
  PROVE  TypeOK' /\ Sound'
<1> DEFINE u == Cardinality(Made) + 1
           new == [NewThread EXCEPT !.clear = word]
<1>1. /\ threads' = [threads EXCEPT ![u] = new] /\ chosen' = [chosen EXCEPT ![u] = {}]
      /\ words' = [words EXCEPT ![word] = 1] /\ phase' = "Step"
      /\ UNCHANGED <<turn, dispositions, alarm, now, menu>>
  BY DEF Clone, Continues
<1>2. /\ new \in Thread /\ new.sp = Bottom /\ new.blocked = {}
      /\ new.suspended = None /\ new.pending = {} /\ new.deadline = None
  BY DEF NewThread, Blank, Thread, States, Stacks, NoFrame
<1> HIDE DEF new, u
<1>3. Bottom[1] = "own" /\ Bottom[2] = 0
  BY DEF Bottom
<1>4. StackSound(new) /\ Owed(new) = {}
  BY <1>2, <1>3 DEF StackSound, Owed, Ground, OwnFrames, Before
<1>5. ThreadOK(new, {})
  BY <1>2, <1>4 DEF ThreadOK, Interruptible, Timeless
<1>6. words' \in [Words -> Nat]
  BY <1>1 DEF TypeOK
<1> QED BY <1>1, <1>2, <1>5, <1>6, ChoosingKeeps

LEMMA SuspendKeeps ==
  ASSUME TypeOK, Sound, ~Wild, NEW mask \in menu.suspends, mask \in SUBSET Signals, Suspend(mask)
  PROVE  TypeOK' /\ Sound'
<1> DEFINE new == [Me EXCEPT !.state = "Paused", !.suspended = Me.blocked, !.blocked = mask]
<1>1. /\ turn \in Threads /\ Me = threads[turn] /\ Me \in Thread /\ ThreadOK(Me, chosen[turn])
      /\ Me.suspended = None /\ Me.deadline = None /\ Me.sp[2] < Room
  BY MeRuns DEF Suspend
<1>2. Me.blocked \in SUBSET Signals /\ Me.blocked # None
  BY <1>1, SignalsAssumption DEF Thread
<1>3. /\ new \in Thread /\ new.sp = Me.sp /\ new.frames = Me.frames /\ new.onAlt = Me.onAlt
      /\ new.state = "Paused" /\ new.deadline = None /\ new.pending = Me.pending
      /\ new.suspended = Me.blocked
  BY <1>1, <1>2 DEF Thread, States
<1> HIDE DEF new
<1>4. StackSound(new) /\ Owed(new) = Owed(Me)
  <2>1. StackSound(Me)
    BY <1>1 DEF ThreadOK
  <2>2. StackSound(new) /\ Outermost(new) = Outermost(Me)
    BY <1>3, <2>1, SameFrames
  <2>3. Before(new) = Before(Me)
    BY <1>1, <1>2, <1>3 DEF Before
  <2> QED BY <1>3, <2>2, <2>3 DEF Owed
<1>5. ThreadOK(new, chosen[turn])
  BY <1>1, <1>3, <1>4 DEF ThreadOK, Interruptible, Timeless
<1>6. Harmless([threads EXCEPT ![turn] = new])
  BY <1>3, <1>5, MineIsHarmless DEF Suspend
<1> QED BY <1>6, LeavingKeeps DEF Suspend, Parks, TypeOK, new

LEMMA SignalActionKeeps ==
  ASSUME TypeOK, Sound, ~Wild, NEW s \in Signals, NEW d \in Actions, SignalAction(s, d),
         menu.suspends # {} /\ d.resethand => Terminates(s)
  PROVE  TypeOK' /\ Sound'
<1>1. /\ dispositions' = [dispositions EXCEPT ![s] = d] /\ phase' = "Step"
      /\ UNCHANGED <<threads, turn, words, alarm, now, menu, chosen>>
  BY DEF SignalAction, Continues
<1>2. ThreadsOK' /\ WhoSuspends' /\ WhoRuns'
  <2>1. ThreadsOK'
    BY <1>1, SameThreadsAreOK DEF Sound
  <2> QED BY <1>1, <2>1 DEF Sound, WhoSuspends, WhoRuns, Running
<1>3. NothingDropped'
  BY <1>1 DEF Sound, NothingDropped, SignalAction, Caught, Terminates, TypeOK
<1> QED BY <1>1, <1>2, <1>3 DEF TypeOK, Sound

LEMMA SigAltStackKeeps ==
  ASSUME TypeOK, Sound, NEW on \in BOOLEAN, SigAltStack(on)
  PROVE  TypeOK' /\ Sound'
<1> DEFINE new == [Me EXCEPT !.alt = on]
<1>1. Running /\ threads' = [threads EXCEPT ![turn] = new] /\ phase' = "Step"
  BY DEF SigAltStack, Becomes, Continues
<1>2. Me \in Thread /\ ThreadOK(Me, chosen[turn]) /\ Me.suspended = None
  BY <1>1, MeRuns
<1>3. /\ new \in Thread /\ new.sp = Me.sp /\ new.frames = Me.frames /\ new.onAlt = Me.onAlt
      /\ new.blocked = Me.blocked /\ new.suspended = None /\ new.pending = Me.pending
      /\ new.state = Me.state /\ new.deadline = Me.deadline
  BY <1>2 DEF Thread
<1> HIDE DEF new
<1>4. ThreadOK(new, chosen[turn])
  BY <1>2, <1>3, SameIsOK DEF ThreadOK, Timeless
<1>5. Harmless([threads EXCEPT ![turn] = new])
  BY <1>1, <1>3, <1>4, MineIsHarmless
<1> QED BY <1>1, <1>5, HarmlessKeeps DEF SigAltStack, Continues, TypeOK

LEMMA SignalReturnKeeps ==
  ASSUME TypeOK, Sound, ~Wild, SignalReturn
  PROVE  TypeOK' /\ Sound'
<1> DEFINE frame == Me.frames[Me.sp]
           new == [Me EXCEPT !.sp = frame.sp, !.blocked = frame.mask, !.onAlt = FALSE]
<1>1. /\ Running /\ threads' = [threads EXCEPT ![turn] = new] /\ phase' = "Step"
      /\ Me.sp # Bottom /\ (Me.sp[1] = "own" \/ frame.sp[1] = "own")
  BY DEF SignalReturn, Becomes, Continues
<1>2. Me \in Thread /\ ThreadOK(Me, chosen[turn]) /\ Me.suspended = None /\ Me.deadline = None
  BY <1>1, MeRuns
<1>3. Me.sp \in Places
  BY <1>1, <1>2 DEF Thread, Stacks
<1>4. /\ new \in Thread /\ new.sp = frame.sp /\ new.frames = Me.frames
      /\ new.blocked = frame.mask /\ new.suspended = None /\ new.pending = Me.pending
      /\ new.deadline = None
  BY <1>2, <1>3 DEF Thread
<1> HIDE DEF new
<1>5. StackSound(new) /\ Owed(new) = Owed(Me)
  BY <1>1, <1>2, <1>4, PoppedIsSound DEF ThreadOK
<1>6. ThreadOK(new, chosen[turn])
  BY <1>2, <1>4, <1>5 DEF ThreadOK, Interruptible, Timeless
<1>7. Harmless([threads EXCEPT ![turn] = new])
  BY <1>1, <1>4, <1>6, MineIsHarmless
<1> QED BY <1>1, <1>7, HarmlessKeeps DEF SignalReturn, Continues, TypeOK

\* Parked in another way than by a suspend.
LEMMA ParkingKeeps ==
  ASSUME TypeOK, Sound, Running, NEW new \in Thread,
         new.sp = Me.sp, new.frames = Me.frames, new.onAlt = Me.onAlt,
         new.blocked = Me.blocked, new.suspended = Me.suspended, new.pending = Me.pending,
         Timeless(new), Parks(new),
         UNCHANGED <<dispositions, words, alarm, now, menu, chosen>>
  PROVE  TypeOK' /\ Sound'
<1>1. Me \in Thread /\ ThreadOK(Me, chosen[turn]) /\ Me.suspended = None
  BY MeRuns
<1>2. ThreadOK(new, chosen[turn])
  BY <1>1, SameIsOK
<1>3. Harmless([threads EXCEPT ![turn] = new])
  BY <1>1, <1>2, MineIsHarmless
<1> QED BY <1>3, LeavingKeeps DEF Parks, TypeOK

LEMMA PauseKeeps ==
  ASSUME TypeOK, Sound, Pause
  PROVE  TypeOK' /\ Sound'
<1> DEFINE new == [Me EXCEPT !.state = "Paused"]
<1>1. Running /\ Parks(new) /\ UNCHANGED <<dispositions, words, alarm, now, menu, chosen>>
  BY DEF Pause
<1>2. Me \in Thread /\ Me.deadline = None
  BY <1>1, MeRuns
<1>3. /\ new \in Thread /\ new.sp = Me.sp /\ new.frames = Me.frames /\ new.onAlt = Me.onAlt
      /\ new.blocked = Me.blocked /\ new.suspended = Me.suspended /\ new.pending = Me.pending
      /\ new.deadline = None
  BY <1>2 DEF Thread, States
<1> HIDE DEF new
<1> QED BY <1>1, <1>3, ParkingKeeps DEF Timeless

LEMMA SleepKeeps ==
  ASSUME TypeOK, Sound, NEW time \in Nat, Sleep(time)
  PROVE  TypeOK' /\ Sound'
<1> DEFINE new == [Me EXCEPT !.state = "Sleeping", !.deadline = now + time]
<1>1. Running /\ Parks(new) /\ UNCHANGED <<dispositions, words, alarm, now, menu, chosen>>
  BY DEF Sleep
<1>2. Me \in Thread /\ now + time \in Nat
  BY <1>1, MeRuns DEF TypeOK
<1>3. /\ new \in Thread /\ new.sp = Me.sp /\ new.frames = Me.frames /\ new.onAlt = Me.onAlt
      /\ new.blocked = Me.blocked /\ new.suspended = Me.suspended /\ new.pending = Me.pending
      /\ new.state = "Sleeping"
  BY <1>2 DEF Thread, States
<1> HIDE DEF new
<1> QED BY <1>1, <1>3, ParkingKeeps DEF Timeless

LEMMA FutexWaitKeeps ==
  ASSUME TypeOK, Sound, NEW word \in Words, NEW expected, NEW bits \in SUBSET Bits,
         NEW deadline \in {None} \cup Nat, FutexWait(word, expected, bits, deadline)
  PROVE  TypeOK' /\ Sound'
<1> DEFINE new == [Me EXCEPT !.state = "Waiting", !.word = word, !.bits = bits,
                             !.deadline = deadline]
<1>1. Running /\ UNCHANGED <<dispositions, words, alarm, now, menu, chosen>>
  BY DEF FutexWait
<1>2. CASE Parks(new)
  <2>1. Me \in Thread
    BY <1>1, MeRuns
  <2>2. /\ new \in Thread /\ new.sp = Me.sp /\ new.frames = Me.frames /\ new.onAlt = Me.onAlt
        /\ new.blocked = Me.blocked /\ new.suspended = Me.suspended /\ new.pending = Me.pending
        /\ new.state = "Waiting"
    BY <2>1 DEF Thread, States
  <2> HIDE DEF new
  <2> QED BY <1>1, <1>2, <2>2, ParkingKeeps DEF Timeless
<1>3. CASE Continues /\ UNCHANGED threads
  BY <1>1, <1>3, TheseAreHarmless, HarmlessKeeps DEF Continues, TypeOK
<1> QED BY <1>2, <1>3 DEF FutexWait

LEMMA IntervalTimerKeeps ==
  ASSUME TypeOK, Sound, NEW time \in Nat, NEW interval \in Nat, IntervalTimer(time, interval)
  PROVE  TypeOK' /\ Sound'
<1>1. alarm' \in {None} \cup [deadline : Nat, interval : Nat]
  BY DEF IntervalTimer, TypeOK
<1> QED BY <1>1, TheseAreHarmless, HarmlessKeeps DEF IntervalTimer, Continues, TypeOK

LEMMA KillKeeps ==
  ASSUME TypeOK, Sound, NEW s \in Signals, Kill(s)
  PROVE  TypeOK' /\ Sound'
<1>1. UNCHANGED <<turn, dispositions, words, alarm, now, menu, chosen>>
  BY DEF Kill, Continues
<1>2. CASE Fatal(s)
  <2>1. phase' = "Over" /\ UNCHANGED threads
    BY <1>2 DEF Kill
  <2> QED BY <1>1, <2>1, TheseAreHarmless, HarmlessKeeps DEF TypeOK
<1>3. CASE ~Fatal(s)
  <2>1. threads' = Signalled(threads, s) /\ phase' = "Step"
    BY <1>3 DEF Kill, Continues
  <2>2. Harmless(Signalled(threads, s))
    BY TheseAreHarmless, SignalledIsHarmless
  <2> QED BY <1>1, <2>1, <2>2, HarmlessKeeps DEF TypeOK
<1> QED BY <1>2, <1>3

LEMMA StoreKeeps ==
  ASSUME TypeOK, Sound, NEW word \in Words, NEW value \in Nat, Store(word, value)
  PROVE  TypeOK' /\ Sound'
<1>1. words' \in [Words -> Nat]
  BY DEF Store, TypeOK
<1> QED BY <1>1, TheseAreHarmless, HarmlessKeeps DEF Store, Continues, TypeOK

LEMMA FutexWakeKeeps ==
  ASSUME TypeOK, Sound, NEW word, NEW bits, NEW count, FutexWake(word, bits, count)
  PROVE  TypeOK' /\ Sound'
<1>1. Harmless(Wakes(threads, word, bits, count))
  BY TheseAreHarmless, WakesAreHarmless
<1> QED BY <1>1, HarmlessKeeps DEF FutexWake, Continues, TypeOK

LEMMA TgkillKeeps ==
  ASSUME TypeOK, Sound, NEW s \in Signals, Tgkill(s)
  PROVE  TypeOK' /\ Sound'
<1>1. Running /\ UNCHANGED <<turn, dispositions, words, alarm, now, menu, chosen>>
  BY DEF Tgkill, Continues
<1>2. phase' \in {"Step", "Over"}
  BY DEF Tgkill, Continues
<1>3. CASE UNCHANGED threads
  BY <1>1, <1>2, <1>3, TheseAreHarmless, HarmlessKeeps DEF TypeOK
<1>4. CASE threads' # threads
  <2>1. Caught(s) /\ threads' = [threads EXCEPT ![turn].pending = @ \cup {s}]
    BY <1>4 DEF Tgkill
  <2>2. Harmless([threads EXCEPT ![turn].pending = @ \cup {s}])
    BY <2>1, TheseAreHarmless, PendingIsHarmless
  <2> QED BY <1>1, <1>2, <2>1, <2>2, HarmlessKeeps DEF TypeOK
<1> QED BY <1>3, <1>4

\* A handler that a fault calls runs next; without one the process is over.
LEMMA FaultHereKeeps ==
  ASSUME TypeOK, Sound, FaultHere
  PROVE  TypeOK' /\ Sound'
<1> DEFINE new == Interrupted(Me, SIGSEGV)
           ths == [threads EXCEPT ![turn] = new]
<1>1. Running /\ UNCHANGED <<turn, words, alarm, now, menu, chosen>> /\ SIGSEGV \in Signals
  BY SignalsAssumption DEF FaultHere, Continues
<1>2. /\ turn \in Threads /\ Me = threads[turn] /\ Me \in Thread
      /\ ThreadOK(Me, chosen[turn]) /\ Me.state = "Runnable"
  BY <1>1, MeRuns
<1>3. CASE Deliver(threads, turn, SIGSEGV) /\ Continues
  <2>1. /\ Delivers(Me, SIGSEGV) /\ phase' = "Step"
        /\ threads' = ths /\ dispositions' = AfterDelivery(SIGSEGV)
    BY <1>2, <1>3 DEF Deliver, Continues
  <2>2. /\ new \in Thread /\ ThreadOK(new, chosen[turn])
        /\ new.suspended = None /\ new.pending \subseteq Me.pending
    BY <1>1, <1>2, <2>1, DeliveredIsOK DEF TypeOK
  <2> HIDE DEF new
  <2>3. Harmless(ths)
    BY <1>1, <2>2, MineIsHarmless
  <2> HIDE DEF ths
  <2>4. Sound'
    BY <1>1, <2>1, <2>3, AfterDeliveryIsTyped, HarmlessIsSound
  <2> QED BY <1>1, <2>1, <2>3, <2>4, AfterDeliveryIsTyped DEF TypeOK, Harmless
<1>4. CASE Over /\ UNCHANGED threads
  BY <1>1, <1>4, TheseAreHarmless, HarmlessKeeps DEF Over, TypeOK
<1> QED BY <1>3, <1>4 DEF FaultHere

LEMMA ExitThreadKeeps ==
  ASSUME TypeOK, Sound, ExitThread
  PROVE  TypeOK' /\ Sound'
<1> DEFINE new == [Awake(Me) EXCEPT !.state = "Exited"]
           gone == [threads EXCEPT ![turn] = new]
           ths == IF Me.clear = None THEN gone ELSE Clears(gone, Me.clear)
<1>1. Running /\ UNCHANGED <<dispositions, alarm, now, menu, chosen>>
  BY DEF ExitThread
<1>2. /\ Me \in Thread /\ ThreadOK(Me, chosen[turn]) /\ Me.suspended = None
  BY <1>1, MeRuns
<1>3. /\ new \in Thread /\ new.sp = Me.sp /\ new.frames = Me.frames /\ new.onAlt = Me.onAlt
      /\ new.blocked = Me.blocked /\ new.suspended = None /\ new.pending = Me.pending
      /\ new.deadline = None
  BY <1>2 DEF Thread, States, Awake
<1>4. words' \in [Words -> Nat]
  BY DEF ExitThread, TypeOK
<1> HIDE DEF new
<1>5. ThreadOK(new, chosen[turn])
  BY <1>2, <1>3, SameIsOK DEF Timeless
<1>6. Harmless(gone)
  BY <1>1, <1>3, <1>5, MineIsHarmless
<1> HIDE DEF gone
<1>7. Harmless(ths)
  BY <1>6, WakesAreHarmless DEF Clears
<1>8. CASE threads' = ths /\ phase' = "Over" /\ UNCHANGED turn
  <2> HIDE DEF ths
  <2> QED BY <1>1, <1>4, <1>7, <1>8, HarmlessKeeps DEF TypeOK
<1>9. CASE Leaves(ths)
  <2> HIDE DEF ths
  <2> QED BY <1>1, <1>4, <1>7, <1>9, LeavingKeeps
<1> QED BY <1>8, <1>9 DEF ExitThread, ths, gone, new

---------------------------------------------------------------------------
(* The theorems.                                                           *)

LEMMA MenuIsTyped ==
  ASSUME TypeOK
  PROVE  /\ menu \in Menus
         /\ menu.masks \subseteq SUBSET Signals /\ menu.suspends \subseteq SUBSET Signals
         /\ menu.actions \subseteq Signals \X Actions /\ menu.altstacks \subseteq BOOLEAN
         /\ menu.kills \subseteq Signals /\ menu.tgkills \subseteq Signals
         /\ menu.sent \subseteq Signals
         /\ menu.sleeps \subseteq Nat /\ menu.timers \subseteq Nat \X Nat
         /\ menu.timeouts \subseteq {None} \cup Nat
         /\ menu.clones \subseteq Words /\ menu.stores \subseteq Words \X Nat
         /\ menu.waits \subseteq Words \X Nat /\ menu.wakes \subseteq Words
         /\ menu.bits \subseteq SUBSET Bits
BY MenusAssumption DEF TypeOK

\* Nothing happens to a process that is over.
LEMMA OverIsOver ==
  ASSUME phase = "Over", [Next]_vars
  PROVE  UNCHANGED vars
BY DEF Next, Program, Kernel, Preempt, SignalMask, Suspend, SignalAction, SigAltStack,
       SignalReturn, LongJump, Pause, FaultHere, ExitThread, Kill, Tgkill, Sleep,
       IntervalTimer, Clone, Store, FutexWait, FutexWake, Running, Step, Idle, Tick, Sent

LEMMA InitHolds ==
  ASSUME Init
  PROVE  IInv
<1>1. NewThread \in Thread /\ NoThread \in Thread
  BY DEF NewThread, NoThread, Blank, Thread, States, Stacks, NoFrame
<1>2. ASSUME NEW th \in {NewThread, NoThread}
      PROVE  ThreadOK(th, {}) /\ th.suspended = None /\ th.pending = {}
  <2>1. /\ th.sp = Bottom /\ th.blocked = {} /\ th.suspended = None
        /\ th.pending = {} /\ th.deadline = None
    BY DEF NewThread, NoThread, Blank
  <2>2. Bottom[1] = "own" /\ Bottom[2] = 0
    BY DEF Bottom
  <2> HIDE DEF NewThread, NoThread
  <2>3. StackSound(th) /\ Owed(th) = {}
    BY <2>1, <2>2 DEF StackSound, Owed, Ground, OwnFrames, Before
  <2> QED BY <2>1, <2>3 DEF ThreadOK, Interruptible, Timeless
<1>3. TypeOK
  <2>1. 1 \in Threads
    BY SignalsAssumption DEF Threads
  <2>2. Default \in Actions
    BY DEF Default, Actions
  <2> QED BY <1>1, <2>1, <2>2 DEF Init, TypeOK
<1>4. ThreadsOK /\ WhoSuspends
  BY <1>2 DEF Init, ThreadsOK, WhoSuspends
<1>5. NothingDropped
  BY <1>2 DEF Init, NothingDropped, Default
<1>6. WhoRuns
  BY DEF Init, WhoRuns, Running
<1> QED BY <1>3, <1>4, <1>5, <1>6 DEF IInv, Sound

LEMMA ProgramKeeps ==
  ASSUME Tame, TypeOK, Sound, Program
  PROVE  TypeOK' /\ Sound'
<1>1. ~Wild
  BY DEF Tame
<1>2. CASE Preempt
  BY <1>2, PreemptKeeps
<1>3. CASE \E mask \in menu.masks : SignalMask(mask)
  BY <1>3, MenuIsTyped, SignalMaskKeeps
<1>4. CASE \E mask \in menu.suspends : Suspend(mask)
  <2>1. PICK mask \in menu.suspends : Suspend(mask)
    BY <1>4
  <2>2. mask \in SUBSET Signals
    BY MenuIsTyped
  <2> QED BY <1>1, <2>1, <2>2, SuspendKeeps
<1>5. CASE \E act \in menu.actions : SignalAction(act[1], act[2])
  <2>1. PICK act \in menu.actions : SignalAction(act[1], act[2])
    BY <1>5
  <2>2. act[1] \in Signals /\ act[2] \in Actions
    BY MenuIsTyped
  <2>3. menu.suspends # {} /\ act[2].resethand => Terminates(act[1])
    BY MenuIsTyped DEF Tame
  <2> QED BY <1>1, <2>1, <2>2, <2>3, SignalActionKeeps
<1>6. CASE \E on \in menu.altstacks : SigAltStack(on)
  BY <1>6, MenuIsTyped, SigAltStackKeeps
<1>7. CASE SignalReturn
  BY <1>1, <1>7, SignalReturnKeeps
<1>8. CASE LongJump
  BY <1>8, LongJumpKeeps
<1>9. CASE Pause
  BY <1>9, PauseKeeps
<1>10. CASE FaultHere
  BY <1>10, FaultHereKeeps
<1>11. CASE ExitThread
  BY <1>11, ExitThreadKeeps
<1>12. CASE \E s \in menu.kills : Kill(s)
  BY <1>12, MenuIsTyped, KillKeeps
<1>13. CASE \E s \in menu.tgkills : Tgkill(s)
  BY <1>13, MenuIsTyped, TgkillKeeps
<1>14. CASE \E time \in menu.sleeps : Sleep(time)
  BY <1>14, MenuIsTyped, SleepKeeps
<1>15. CASE \E t \in menu.timers : IntervalTimer(t[1], t[2])
  <2>1. PICK t \in menu.timers : IntervalTimer(t[1], t[2])
    BY <1>15
  <2>2. t[1] \in Nat /\ t[2] \in Nat
    BY MenuIsTyped
  <2> QED BY <2>1, <2>2, IntervalTimerKeeps
<1>16. CASE \E word \in menu.clones : Clone(word)
  BY <1>16, MenuIsTyped, CloneKeeps
<1>17. CASE \E f \in menu.stores : Store(f[1], f[2])
  <2>1. PICK f \in menu.stores : Store(f[1], f[2])
    BY <1>17
  <2>2. f[1] \in Words /\ f[2] \in Nat
    BY MenuIsTyped
  <2> QED BY <2>1, <2>2, StoreKeeps
<1>18. CASE \E f \in menu.waits, bits \in menu.bits, time \in menu.timeouts :
              FutexWait(f[1], f[2], bits, IF time = None THEN None ELSE now + time)
  <2>1. PICK f \in menu.waits, bits \in menu.bits, time \in menu.timeouts :
          FutexWait(f[1], f[2], bits, IF time = None THEN None ELSE now + time)
    BY <1>18
  <2> DEFINE deadline == IF time = None THEN None ELSE now + time
  <2>2. f[1] \in Words /\ bits \in SUBSET Bits /\ deadline \in {None} \cup Nat
    BY MenuIsTyped DEF TypeOK
  <2>3. FutexWait(f[1], f[2], bits, deadline)
    BY <2>1
  <2> HIDE DEF deadline
  <2> QED BY <2>2, <2>3, FutexWaitKeeps
<1>19. CASE \E word \in menu.wakes, bits \in menu.bits, count \in 1..2 :
              FutexWake(word, bits, count)
  BY <1>19, FutexWakeKeeps
<1> QED
  BY <1>2, <1>3, <1>4, <1>5, <1>6, <1>7, <1>8, <1>9, <1>10, <1>11, <1>12, <1>13, <1>14,
     <1>15, <1>16, <1>17, <1>18, <1>19 DEF Program

LEMMA NextKeeps ==
  ASSUME Tame, IInv, [Next]_vars
  PROVE  IInv'
<1>1. CASE phase = "Over" \/ UNCHANGED vars
  <2>1. UNCHANGED vars
    BY <1>1, OverIsOver
  <2>2. TypeOK'
    BY <2>1 DEF vars, IInv, TypeOK
  <2>3. ASSUME Sound
        PROVE  Sound'
    <3>1. ThreadsOK'
      BY <2>1, <2>3, SameThreadsAreOK DEF vars, Sound
    <3>2. WhoSuspends' /\ NothingDropped'
      BY <2>1, <2>3 DEF vars, Sound, WhoSuspends, NothingDropped, Caught
    <3>3. WhoRuns'
      BY <2>1, <2>3 DEF vars, Sound, WhoRuns, Running, Me
    <3> QED BY <3>1, <3>2, <3>3 DEF Sound
  <2> QED BY <2>1, <2>2, <2>3 DEF vars, IInv
<1>2. CASE phase # "Over" /\ Next
  <2>1. TypeOK /\ Sound
    BY <1>2 DEF IInv
  <2>2. CASE Program
    BY <2>1, <2>2, ProgramKeeps DEF IInv
  <2>3. CASE Step
    BY <2>1, <2>3, StepKeeps DEF IInv
  <2>4. CASE Idle
    BY <2>1, <2>4, IdleKeeps DEF IInv
  <2>5. CASE Tick
    BY <2>1, <2>5, TickKeeps DEF IInv
  <2>6. CASE \E s \in menu.sent : Sent(s)
    BY <2>1, <2>6, MenuIsTyped, SentKeeps DEF IInv
  <2> QED BY <1>2, <2>2, <2>3, <2>4, <2>5, <2>6 DEF Next, Kernel
<1> QED BY <1>1, <1>2

\* The invariant holds, of programs that take no step set apart.
THEOREM Invariant ==
  ASSUME Tame
  PROVE  Spec => []IInv
BY InitHolds, NextKeeps, PTL DEF Spec

\* The types of the threads, their frames and the cells a step writes.
THEOREM TypeCorrect ==
  ASSUME Tame
  PROVE  Spec => []TypeOK
BY Invariant, PTL DEF IInv

\* A thread's own code always runs under the mask it chose last, however many
\* threads, signals and frames there are: what a suspend replaced and handlers
\* added has been put back by the time it runs again.
THEOREM MasksAreAlwaysGivenBack ==
  ASSUME Tame
  PROVE  Spec => []MasksAreGivenBack
<1>1. IInv => MasksAreGivenBack
  <2> SUFFICES ASSUME IInv, Running, Me.sp = Bottom
               PROVE  Me.blocked = chosen[turn] /\ Me.suspended = None
    BY DEF MasksAreGivenBack
  <2>1. TypeOK /\ Sound
    BY DEF IInv, Running
  <2>2. Owed(Me) = chosen[turn] /\ Me.suspended = None
    BY <2>1, MeRuns DEF ThreadOK
  <2> QED BY <2>2 DEF Owed, Before
<1> QED BY <1>1, Invariant, PTL

---------------------------------------------------------------------------
(* What a debugger would unwind.                                           *)

\* How many handlers a thread is under, and where each one's frame is.
Height(th) == IF th.sp[1] = "own" THEN th.sp[2] ELSE th.sp[2] + Ground(th)
Under(th, n) == IF th.sp[1] = "own" THEN <<"own", th.sp[2] - n>>
                ELSE IF n < th.sp[2] THEN <<"alt", th.sp[2] - n>>
                ELSE <<"own", Ground(th) - (n - th.sp[2])>>

\* Every frame on the way leads to the next, and the last to the bottom.
LEMMA FramesLeadDown ==
  ASSUME NEW th \in Thread, StackSound(th)
  PROVE  /\ Height(th) \in 0..(2 * Room)
         /\ Under(th, 0) = th.sp /\ Under(th, Height(th)) = Bottom
         /\ \A n \in 0..(Height(th) - 1) :
              /\ Under(th, n) \in Places /\ Under(th, n) # Bottom
              /\ th.frames[Under(th, n)].sp = Under(th, n + 1)
<1> DEFINE j == th.sp[2]
           g == Ground(th)
<1>1. /\ th.sp \in Stacks /\ th.sp = <<th.sp[1], j>> /\ th.sp[1] \in {"own", "alt"}
      /\ j \in Nat /\ j <= Room /\ (th.sp[1] = "alt" => j >= 1)
  BY PlacesAndHeights DEF Thread
<1>2. Room \in Nat /\ \A q \in {"own", "alt"} : \A i \in 1..Room : <<q, i>> \in Places /\ <<q, i>> # Bottom
  BY SignalsAssumption DEF Places, Bottom
<1>3. OwnFrames(th, g)
  BY DEF StackSound
<1>4. CASE th.sp[1] = "own"
  <2>1. g = j /\ Height(th) = j /\ \A n : Under(th, n) = <<"own", j - n>>
    BY <1>4 DEF Ground, Height, Under
  <2> HIDE DEF g, j
  <2>2. Under(th, 0) = th.sp
    BY <1>1, <1>4, <2>1
  <2>3. Under(th, j) = Bottom
    BY <1>1, <2>1 DEF Bottom
  <2>4. ASSUME NEW n \in 0..(j - 1)
        PROVE  /\ Under(th, n) \in Places /\ Under(th, n) # Bottom
               /\ th.frames[Under(th, n)].sp = Under(th, n + 1)
    <3>1. j - n \in 1..g /\ j - n \in 1..Room /\ (j - n) - 1 = j - (n + 1)
      BY <1>1, <1>2, <2>1
    <3>2. th.frames[<<"own", j - n>>].sp = <<"own", (j - n) - 1>>
      BY <1>3, <3>1 DEF OwnFrames
    <3> QED BY <1>2, <2>1, <3>1, <3>2
  <2> QED BY <1>1, <1>2, <2>1, <2>2, <2>3, <2>4
<1>5. CASE th.sp[1] = "alt"
  <2>1. /\ g = th.frames[<<"alt", 1>>].sp[2] /\ th.frames[<<"alt", 1>>].sp[1] = "own"
        /\ AltFrames(th, j) /\ Height(th) = j + g
    BY <1>5 DEF Ground, Height, StackSound
  <2>2. th.frames[<<"alt", 1>>].sp \in Stacks
    BY <1>2, SignalsAssumption DEF Thread
  <2>3. g \in Nat /\ g <= Room /\ th.frames[<<"alt", 1>>].sp = <<"own", g>>
    BY <2>1, <2>2, PlacesAndHeights
  <2>4. \A n : Under(th, n) = IF n < j THEN <<"alt", j - n>> ELSE <<"own", g - (n - j)>>
    BY <1>5 DEF Under
  <2> HIDE DEF g, j
  <2>5. Under(th, 0) = th.sp
    BY <1>1, <1>5, <2>4
  <2>6. Under(th, j + g) = Bottom
    BY <1>1, <2>3, <2>4 DEF Bottom
  <2>7. ASSUME NEW n \in 0..(j + g - 1)
        PROVE  /\ Under(th, n) \in Places /\ Under(th, n) # Bottom
               /\ th.frames[Under(th, n)].sp = Under(th, n + 1)
    <3>1. CASE n + 1 < j
      <4>1. /\ Under(th, n) = <<"alt", j - n>> /\ Under(th, n + 1) = <<"alt", j - (n + 1)>>
            /\ j - n \in 2..j /\ j - n \in 1..Room /\ (j - n) - 1 = j - (n + 1)
        BY <1>1, <1>2, <2>4, <3>1
      <4>2. th.frames[<<"alt", j - n>>].sp = <<"alt", (j - n) - 1>>
        BY <2>1, <4>1 DEF AltFrames
      <4> QED BY <1>2, <4>1, <4>2
    <3>2. CASE n + 1 = j
      <4>1. Under(th, n) = <<"alt", 1>> /\ Under(th, n + 1) = <<"own", g>>
        <5>1. n < j /\ j - n = 1 /\ ~(n + 1 < j) /\ g - ((n + 1) - j) = g
          BY <1>1, <2>3, <3>2
        <5> QED BY <2>4, <5>1
      <4> QED BY <1>2, <2>3, <4>1, SignalsAssumption
    <3>3. CASE n >= j
      <4>1. /\ Under(th, n) = <<"own", g - (n - j)>>
            /\ Under(th, n + 1) = <<"own", g - ((n + 1) - j)>>
            /\ g - (n - j) \in 1..g /\ g - (n - j) \in 1..Room
            /\ (g - (n - j)) - 1 = g - ((n + 1) - j)
        BY <1>1, <1>2, <2>3, <2>4, <3>3
      <4>2. th.frames[<<"own", g - (n - j)>>].sp = <<"own", (g - (n - j)) - 1>>
        BY <1>3, <4>1 DEF OwnFrames
      <4> QED BY <1>2, <4>1, <4>2
    <3> QED BY <3>1, <3>2, <3>3, <1>1, <2>3
  <2> QED BY <1>1, <1>2, <2>1, <2>3, <2>5, <2>6, <2>7
<1> QED BY <1>1, <1>4, <1>5

\* Returns lead where the frames say.
LEMMA ReturnsLeadDown ==
  ASSUME NEW th \in Thread, StackSound(th)
  PROVE  \A n \in Nat : ReturnsTo(th)[n] = IF n <= Height(th) THEN Under(th, n) ELSE Bottom
<1> DEFINE h == Height(th)
           Next1(f) == [n \in Nat |-> IF n = 0 THEN th.sp
                                      ELSE IF f[n - 1] = Bottom THEN Bottom
                                      ELSE th.frames[f[n - 1]].sp]
           way == [n \in Nat |-> IF n <= h THEN Under(th, n) ELSE Bottom]
           to == ReturnsTo(th)
<1>1. to = CHOOSE f : f = Next1(f)
  BY DEF ReturnsTo
<1>2. /\ h \in Nat /\ Under(th, 0) = th.sp /\ Under(th, h) = Bottom
      /\ \A n \in 0..(h - 1) : /\ Under(th, n) # Bottom
                               /\ th.frames[Under(th, n)].sp = Under(th, n + 1)
  BY FramesLeadDown, SignalsAssumption
<1> HIDE DEF h
<1>3. way = Next1(way)
  <2> SUFFICES ASSUME NEW n \in Nat
               PROVE  way[n] = IF n = 0 THEN th.sp
                               ELSE IF way[n - 1] = Bottom THEN Bottom
                               ELSE th.frames[way[n - 1]].sp
    OBVIOUS
  <2>1. CASE n = 0
    BY <1>2, <2>1
  <2>2. CASE n \in 1..h
    <3>1. n - 1 \in Nat /\ n - 1 \in 0..(h - 1) /\ n - 1 <= h /\ (n - 1) + 1 = n /\ n <= h /\ n # 0
      BY <1>2, <2>2
    <3>2. way[n - 1] = Under(th, n - 1) /\ way[n] = Under(th, n)
      BY <3>1
    <3> HIDE DEF way
    <3> QED BY <1>2, <3>1, <3>2
  <2>3. CASE n > h
    <3>1. n - 1 \in Nat /\ n # 0 /\ ~(n <= h)
      BY <1>2, <2>3
    <3>2. way[n] = Bottom
      BY <3>1
    <3>3. way[n - 1] = Bottom
      BY <1>2, <2>3, <3>1
    <3> HIDE DEF way
    <3> QED BY <3>1, <3>2, <3>3
  <2> QED BY <1>2, <2>1, <2>2, <2>3
<1>4. to = Next1(to)
  <2> HIDE DEF way, to, Next1
  <2> QED BY <1>1, <1>3
<1>5. \A n \in Nat : to[n] = IF n = 0 THEN th.sp
                             ELSE IF to[n - 1] = Bottom THEN Bottom
                             ELSE th.frames[to[n - 1]].sp
  <2> HIDE DEF to
  <2> QED BY <1>4
<1>6. \A n \in Nat : way[n] = IF n = 0 THEN th.sp
                              ELSE IF way[n - 1] = Bottom THEN Bottom
                              ELSE th.frames[way[n - 1]].sp
  <2> HIDE DEF way
  <2> QED BY <1>3
<1>7. \A n \in Nat : to[n] = way[n]
  <2> DEFINE S == {n \in Nat : to[n] # way[n]}
  <2> HIDE DEF to, way
  <2> SUFFICES ASSUME S # {}
               PROVE  FALSE
    OBVIOUS
  <2>1. PICK n \in S : \A m \in S : n <= m
    <3>1. S \subseteq Nat
      OBVIOUS
    <3> HIDE DEF S
    <3> QED BY <3>1, LeastExists
  <2>2. n \in Nat /\ to[n] # way[n] /\ n # 0
    BY <1>5, <1>6, <2>1
  <2>3. n - 1 \in Nat /\ ~(n <= n - 1)
    BY <2>2
  <2>4. to[n - 1] = way[n - 1]
    BY <2>1, <2>3
  <2> QED BY <1>5, <1>6, <2>2, <2>4
<1> QED BY <1>7 DEF h

\* What is unwound is the frames on the way, the innermost first.
LEMMA UnwoundIs ==
  ASSUME NEW th \in Thread, StackSound(th)
  PROVE  Unwound(th) = [n \in 1..Height(th) |-> th.frames[Under(th, n - 1)]]
<1> DEFINE h == Height(th)
           to == ReturnsTo(th)
           ends == {n \in 0..(2 * Room) : to[n] = Bottom}
           depth == IF ends = {} THEN 2 * Room + 1 ELSE Lowest(ends)
<1>1. /\ h \in 0..(2 * Room) /\ h \in Nat /\ Room \in Nat
      /\ Under(th, h) = Bottom /\ \A n \in 0..(h - 1) : Under(th, n) # Bottom
  BY FramesLeadDown, SignalsAssumption
<1>2. \A n \in 0..h : to[n] = Under(th, n)
  <2> HIDE DEF to
  <2>1. \A n \in Nat : to[n] = IF n <= h THEN Under(th, n) ELSE Bottom
    BY ReturnsLeadDown DEF to
  <2> HIDE DEF h
  <2> QED BY <1>1, <2>1
<1> HIDE DEF to, h
<1>3. h \in ends
  BY <1>1, <1>2
<1>4. \A n \in ends : h <= n
  <2> SUFFICES ASSUME NEW n \in ends, n < h
               PROVE  FALSE
    BY <1>1
  <2> QED BY <1>1, <1>2
<1>5. ends \subseteq Nat
  BY <1>1
<1> HIDE DEF ends
<1>6. Lowest(ends) = h
  <2>1. \E s \in ends : \A r \in ends : s <= r
    BY <1>3, <1>4
  <2>2. Lowest(ends) \in ends /\ \A r \in ends : Lowest(ends) <= r
    BY <2>1 DEF Lowest
  <2>3. Lowest(ends) \in Nat /\ Lowest(ends) <= h /\ h <= Lowest(ends)
    BY <1>3, <1>4, <1>5, <2>2
  <2> QED BY <1>1, <2>3
<1>7. depth = h
  BY <1>3, <1>6
<1>8. Unwound(th) = [n \in 1..depth |-> th.frames[to[n - 1]]]
  BY DEF Unwound, to, ends
<1>9. Unwound(th) = [n \in 1..h |-> th.frames[to[n - 1]]]
  BY <1>7, <1>8
<1>10. ASSUME NEW n \in 1..h
       PROVE  to[n - 1] = Under(th, n - 1)
  BY <1>1, <1>2
<1> QED BY <1>9, <1>10 DEF h

Frame == [sp : Stacks, mask : SUBSET Signals]

LEMMA UnwoundIsASequence ==
  ASSUME NEW th \in Thread, StackSound(th)
  PROVE  /\ Unwound(th) \in Seq(Frame) /\ Len(Unwound(th)) = Height(th)
         /\ \A n \in 1..Height(th) : Unwound(th)[n] = th.frames[Under(th, n - 1)]
<1> DEFINE h == Height(th)
           u == Unwound(th)
<1>1. h \in Nat /\ \A n \in 1..h : Under(th, n - 1) \in Places
  BY FramesLeadDown, SignalsAssumption
<1>2. u = [n \in 1..h |-> th.frames[Under(th, n - 1)]]
  BY UnwoundIs
<1>3. \A n \in 1..h : th.frames[Under(th, n - 1)] \in Frame
  BY <1>1 DEF Thread, Frame
<1> HIDE DEF h, u
<1>4. u \in [1..h -> Frame]
  BY <1>2, <1>3
<1>5. u \in Seq(Frame) /\ Len(u) = h
  BY <1>1, <1>4
<1> QED BY <1>2, <1>5 DEF h, u

\* The three ways to nest.
LEMMA NestsAsItIs ==
  ASSUME NEW S, NEW u \in Seq(S)
  PROVE  NestsFrom(u, u)
<1>1. Len(u) \in Nat /\ 1 \in 1..(Len(u) + 1)
  BY LenProperties
<1>2. u = SubSeq(u, 1, Len(u))
  BY SubSeqFull
<1> QED BY <1>1, <1>2, Zenon DEF NestsFrom

LEMMA NestsOneMore ==
  ASSUME NEW S, NEW u \in Seq(S), NEW v \in Seq(S), Len(v) = Len(u) + 1,
         \A n \in 1..Len(u) : v[n + 1] = u[n]
  PROVE  NestsFrom(u, v)
<1>1. v # <<>>
  BY LenProperties
<1>2. Tail(v) \in Seq(S) /\ Len(Tail(v)) = Len(u) /\ \A n \in 1..Len(u) : Tail(v)[n] = u[n]
  BY <1>1, HeadTailProperties, LenProperties
<1>3. Tail(v) = u
  BY <1>2, SeqEqual
<1> QED BY <1>1, <1>3 DEF NestsFrom

LEMMA NestsOneLess ==
  ASSUME NEW S, NEW u \in Seq(S), NEW v \in Seq(S), Len(v) = Len(u) - 1,
         \A n \in 1..Len(v) : v[n] = u[n + 1]
  PROVE  NestsFrom(u, v)
<1>1. Len(u) \in Nat /\ Len(v) \in Nat /\ u # <<>> /\ 2 \in 1..(Len(u) + 1)
  BY LenProperties
<1>2. Tail(u) \in Seq(S) /\ Len(Tail(u)) = Len(v) /\ \A n \in 1..Len(v) : Tail(u)[n] = v[n]
  BY <1>1, HeadTailProperties
<1>3. Tail(u) = v
  BY <1>2, SeqEqual
<1>4. v = SubSeq(u, 2, Len(u))
  BY <1>1, <1>3, TailIsSubSeq
<1> QED BY <1>1, <1>4 DEF NestsFrom

LEMMA NestsNone ==
  ASSUME NEW S, NEW u \in Seq(S), NEW v \in Seq(S), Len(v) = 0
  PROVE  NestsFrom(u, v)
<1>1. Len(u) \in Nat /\ Len(u) + 1 \in 1..(Len(u) + 1)
  BY LenProperties
<1>2. v = <<>>
  BY EmptySeq
<1>3. SubSeq(u, Len(u) + 1, Len(u)) = <<>>
  BY <1>1, SubSeqEmpty
<1> QED BY <1>1, <1>2, <1>3 DEF NestsFrom

\* What is unwound depends on the stack alone.
LEMMA SameUnwound ==
  ASSUME NEW old, NEW new, new.sp = old.sp, new.frames = old.frames
  PROVE  Unwound(new) = Unwound(old)
<1>1. ReturnsTo(new) = ReturnsTo(old)
  BY DEF ReturnsTo
<1> QED BY <1>1 DEF Unwound

\* A frame is pushed where none of those on the way is.
LEMMA PushedNests ==
  ASSUME NEW th \in Thread, NEW new \in Thread, StackSound(th), StackSound(new), NEW at \in Places,
         new.sp = at, new.frames[at].sp = th.sp,
         \A a \in Places : a # at => new.frames[a] = th.frames[a],
         \/ at = <<"alt", 1>> /\ th.sp[1] = "own"
         \/ at = <<th.sp[1], th.sp[2] + 1>>
  PROVE  NestsFrom(Unwound(th), Unwound(new))
<1> DEFINE n == th.sp[2]
           h == Height(th)
<1>1. /\ th.sp \in Stacks /\ th.sp = <<th.sp[1], n>> /\ th.sp[1] \in {"own", "alt"}
      /\ n \in Nat /\ (th.sp[1] = "alt" => n >= 1)
  BY PlacesAndHeights DEF Thread
<1>2. /\ h \in Nat
      /\ \A i \in 0..(h - 1) : Under(th, i) \in Places
  BY FramesLeadDown, SignalsAssumption
<1>3. /\ Height(new) = h + 1
      /\ \A i \in 1..h : Under(new, i) = Under(th, i - 1) /\ Under(th, i - 1) # at
  <2>1. CASE th.sp[1] = "own" /\ at = <<"own", n + 1>>
    <3>1. new.sp[1] = "own" /\ new.sp[2] = n + 1 /\ h = n /\ Height(new) = n + 1
      BY <2>1 DEF Height
    <3>2. ASSUME NEW i \in 1..n
          PROVE  Under(new, i) = Under(th, i - 1) /\ Under(th, i - 1) # at
      <4>1. Under(new, i) = <<"own", (n + 1) - i>> /\ Under(th, i - 1) = <<"own", n - (i - 1)>>
        BY <2>1, <3>1 DEF Under
      <4>2. (n + 1) - i = n - (i - 1) /\ n - (i - 1) # n + 1
        BY <1>1
      <4> HIDE DEF n
      <4> QED BY <2>1, <4>1, <4>2
    <3> QED BY <3>1, <3>2
  <2>2. CASE th.sp[1] = "own" /\ at = <<"alt", 1>>
    <3>1. /\ new.sp[1] = "alt" /\ new.sp[2] = 1 /\ h = n /\ Ground(new) = n
          /\ Height(new) = 1 + n
      BY <2>2 DEF Height, Ground
    <3>2. ASSUME NEW i \in 1..n
          PROVE  Under(new, i) = Under(th, i - 1) /\ Under(th, i - 1) # at
      <4>1. ~(i < 1)
        OBVIOUS
      <4>2. Under(new, i) = <<"own", n - (i - 1)>> /\ Under(th, i - 1) = <<"own", n - (i - 1)>>
        BY <2>2, <3>1, <4>1 DEF Under
      <4> QED BY <2>2, <4>2
    <3> QED BY <1>1, <3>1, <3>2
  <2>3. CASE th.sp[1] = "alt" /\ at = <<"alt", n + 1>>
    <3>1. new.sp[1] = "alt" /\ new.sp[2] = n + 1 /\ h = n + Ground(th)
      BY <2>3 DEF Height
    <3>2. Ground(new) = Ground(th)
      <4>1. <<"alt", 1>> # at /\ <<"alt", 1>> \in Places
        BY <1>1, <2>3, SignalsAssumption DEF Places
      <4> QED BY <2>3, <3>1, <4>1 DEF Ground
    <3>3. Ground(th) \in Nat
      <4>1. <<"alt", 1>> \in Places
        BY SignalsAssumption DEF Places
      <4>2. th.frames[<<"alt", 1>>].sp \in Stacks
        BY <4>1 DEF Thread
      <4> QED BY <2>3, <4>2, PlacesAndHeights DEF Ground
    <3>4. Height(new) = h + 1
      BY <1>1, <3>1, <3>2, <3>3 DEF Height
    <3>5. ASSUME NEW i \in 1..h
          PROVE  Under(new, i) = Under(th, i - 1) /\ Under(th, i - 1) # at
      <4> DEFINE g == Ground(th)
      <4>1. /\ Under(new, i) = IF i < n + 1 THEN <<"alt", (n + 1) - i>> ELSE <<"own", g - (i - (n + 1))>>
            /\ Under(th, i - 1) = IF i - 1 < n THEN <<"alt", n - (i - 1)>>
                                  ELSE <<"own", g - ((i - 1) - n)>>
        BY <2>3, <3>1, <3>2 DEF Under
      <4>2. /\ i < n + 1 <=> i - 1 < n
            /\ (n + 1) - i = n - (i - 1) /\ i - (n + 1) = (i - 1) - n
            /\ n - (i - 1) # n + 1
        BY <1>1, <1>2
      <4> HIDE DEF n, g
      <4> QED BY <2>3, <4>1, <4>2
    <3> QED BY <3>4, <3>5
  <2> QED BY <1>1, <2>1, <2>2, <2>3
<1> DEFINE u == Unwound(th)
           v == Unwound(new)
<1>4. /\ u \in Seq(Frame) /\ Len(u) = h
      /\ \A i \in 1..h : u[i] = th.frames[Under(th, i - 1)]
      /\ v \in Seq(Frame) /\ Len(v) = h + 1
      /\ \A i \in 1..(h + 1) : v[i] = new.frames[Under(new, i - 1)]
  BY <1>3, UnwoundIsASequence
<1> HIDE DEF u, v, h, n
<1>5. ASSUME NEW i \in 1..h
      PROVE  v[i + 1] = u[i]
  <2>1. i + 1 \in 1..(h + 1) /\ (i + 1) - 1 = i /\ i - 1 \in 0..(h - 1)
    BY <1>2
  <2>2. v[i + 1] = new.frames[Under(new, i)]
    BY <1>4, <2>1
  <2> QED BY <1>2, <1>3, <1>4, <2>1, <2>2
<1> QED BY <1>4, <1>5, NestsOneMore DEF u, v

\* A frame is popped, and not one that lies on another on the alternate stack.
LEMMA PoppedNests ==
  ASSUME NEW th \in Thread, NEW new \in Thread, StackSound(th), StackSound(new), th.sp # Bottom,
         th.sp[1] = "own" \/ th.frames[th.sp].sp[1] = "own",
         new.sp = th.frames[th.sp].sp, new.frames = th.frames
  PROVE  NestsFrom(Unwound(th), Unwound(new))
<1> DEFINE n == th.sp[2]
           h == Height(th)
<1>1. /\ th.sp \in Places /\ th.sp = <<th.sp[1], n>> /\ th.sp[1] \in {"own", "alt"}
      /\ n \in Nat /\ n >= 1
  BY PlacesAndHeights DEF Thread
<1>2. h \in Nat
  BY FramesLeadDown, SignalsAssumption
<1>3. /\ Height(new) = h - 1 /\ h >= 1
      /\ \A i \in 0..(h - 1) : Under(new, i) = Under(th, i + 1)
  <2>1. CASE th.sp[1] = "own"
    <3>1. OwnFrames(th, n)
      BY <2>1 DEF StackSound, Ground
    <3>2. new.sp = <<"own", n - 1>>
      <4> HIDE DEF n
      <4>1. n \in 1..n
        BY <1>1
      <4> QED BY <1>1, <2>1, <3>1, <4>1 DEF OwnFrames
    <3>3. h = n /\ Height(new) = n - 1 /\ new.sp[1] = "own" /\ new.sp[2] = n - 1
      BY <2>1, <3>2 DEF Height
    <3>4. ASSUME NEW i \in 0..(n - 1)
          PROVE  Under(new, i) = Under(th, i + 1)
      <4>1. Under(new, i) = <<"own", (n - 1) - i>> /\ Under(th, i + 1) = <<"own", n - (i + 1)>>
        BY <2>1, <3>3 DEF Under
      <4>2. (n - 1) - i = n - (i + 1)
        BY <1>1
      <4> QED BY <4>1, <4>2
    <3> QED BY <1>1, <3>3, <3>4
  <2>2. CASE th.sp[1] = "alt"
    <3>1. n = 1
      <4> SUFFICES ASSUME n # 1
                   PROVE  FALSE
        OBVIOUS
      <4>1. AltFrames(th, n) /\ n \in 2..n
        BY <1>1, <2>2 DEF StackSound
      <4> HIDE DEF n
      <4>2. th.frames[<<"alt", n>>].sp = <<"alt", n - 1>>
        BY <4>1 DEF AltFrames
      <4> QED BY <1>1, <2>2, <4>2
    <3>2. th.sp = <<"alt", 1>>
      BY <1>1, <2>2, <3>1
    <3>3. new.sp \in Stacks /\ new.sp[1] = "own" /\ new.sp[2] = Ground(th)
      BY <2>2, <3>2 DEF Ground, Thread
    <3>4. Ground(th) \in Nat
      BY <3>3, PlacesAndHeights
    <3>5. h = 1 + Ground(th) /\ Height(new) = Ground(th)
      BY <2>2, <3>1, <3>3 DEF Height
    <3>6. ASSUME NEW i \in 0..(h - 1)
          PROVE  Under(new, i) = Under(th, i + 1)
      <4>1. ~(i + 1 < 1) /\ (i + 1) - 1 = i
        BY <3>4, <3>5
      <4> QED BY <2>2, <3>1, <3>3, <4>1 DEF Under
    <3> QED BY <3>4, <3>5, <3>6
  <2> QED BY <1>1, <2>1, <2>2
<1> DEFINE u == Unwound(th)
           v == Unwound(new)
<1>4. /\ u \in Seq(Frame) /\ Len(u) = h
      /\ \A i \in 1..h : u[i] = th.frames[Under(th, i - 1)]
      /\ v \in Seq(Frame) /\ Len(v) = h - 1
      /\ \A i \in 1..(h - 1) : v[i] = th.frames[Under(new, i - 1)]
  BY <1>3, UnwoundIsASequence
<1> HIDE DEF u, v, h, n
<1>5. ASSUME NEW i \in 1..(h - 1)
      PROVE  v[i] = u[i + 1]
  <2>1. i + 1 \in 1..h /\ (i + 1) - 1 = i /\ i - 1 \in 0..(h - 1) /\ (i - 1) + 1 = i
    BY <1>2
  <2>2. u[i + 1] = th.frames[Under(th, i)]
    BY <1>4, <2>1
  <2> QED BY <1>3, <1>4, <2>1, <2>2
<1> QED BY <1>4, <1>5, NestsOneLess DEF u, v

\* A thread at the bottom of its own stack is in no handler.
LEMMA BottomNests ==
  ASSUME NEW th \in Thread, NEW new \in Thread, StackSound(th), StackSound(new), new.sp = Bottom
  PROVE  NestsFrom(Unwound(th), Unwound(new))
<1>1. Height(new) = 0
  BY DEF Height, Bottom
<1> QED BY <1>1, UnwoundIsASequence, NestsNone

---------------------------------------------------------------------------
(* What a step does to the stacks.                                         *)

Stays(th, new) == new.sp = th.sp /\ new.frames = th.frames /\ new.onAlt = th.onAlt
\* Nobody's stack is touched.
Still(ths) == /\ ths \in [Threads -> Thread]
              /\ \A t \in Threads : Stays(threads[t], ths[t])
Nests(ths) == \A t \in Threads : NestsFrom(Unwound(threads[t]), Unwound(ths[t]))

LEMMA StacksAreSound ==
  ASSUME TypeOK, Sound, NEW t \in Threads
  PROVE  threads[t] \in Thread /\ StackSound(threads[t])
BY DEF TypeOK, Sound, ThreadsOK, ThreadOK

LEMMA NextStacksAreSound ==
  ASSUME Sound', NEW t \in Threads
  PROVE  StackSound(threads'[t])
<1>1. StackSound(threads[t])'
  BY DEF Sound, ThreadsOK, ThreadOK
<1> QED BY <1>1 DEF StackSound, Ground, OwnFrames, AltFrames

LEMMA StillStays ==
  ASSUME NEW th \in Thread
  PROVE  /\ Stays(th, th) /\ Stays(th, Awake(th)) /\ Awake(th) \in Thread
         /\ \A s \in Signals : /\ [th EXCEPT !.pending = @ \cup {s}] \in Thread
                               /\ Stays(th, [th EXCEPT !.pending = @ \cup {s}])
         /\ \A s : /\ [th EXCEPT !.pending = @ \ {s}] \in Thread
                   /\ Stays(th, [th EXCEPT !.pending = @ \ {s}])
BY DEF Stays, Awake, Thread, States

LEMMA TheseAreStill ==
  ASSUME TypeOK
  PROVE  Still(threads)
BY DEF TypeOK, Still, Stays

\* Stacks nobody touches hold the handlers they held.
LEMMA StillNests ==
  ASSUME TypeOK, Sound, NEW ths, Still(ths)
  PROVE  Nests(ths)
<1> SUFFICES ASSUME NEW t \in Threads
             PROVE  NestsFrom(Unwound(threads[t]), Unwound(ths[t]))
  BY DEF Nests
<1>1. Unwound(ths[t]) = Unwound(threads[t])
  BY SameUnwound DEF Still, Stays
<1>2. Unwound(threads[t]) \in Seq(Frame)
  BY StacksAreSound, UnwoundIsASequence
<1> QED BY <1>1, <1>2, NestsAsItIs

\* Each thread keeps its stack, but one.
LEMMA AllButOneNest ==
  ASSUME TypeOK, Sound, NEW ths, Still(ths), NEW t, NEW new,
         t \in Threads => NestsFrom(Unwound(threads[t]), Unwound(new))
  PROVE  Nests([ths EXCEPT ![t] = new])
<1> DEFINE all == [ths EXCEPT ![t] = new]
<1>1. \A u \in Threads : all[u] = IF u = t THEN new ELSE ths[u]
  BY DEF Still
<1>2. Nests(ths)
  BY StillNests
<1> HIDE DEF all
<1>3. Nests(all)
  BY <1>1, <1>2 DEF Nests
<1> QED BY <1>3 DEF all

LEMMA OneIsStill ==
  ASSUME NEW ths, Still(ths), NEW t, NEW new \in Thread, t \in Threads => Stays(ths[t], new)
  PROVE  Still([ths EXCEPT ![t] = new])
<1> DEFINE all == [ths EXCEPT ![t] = new]
<1>1. all \in [Threads -> Thread] /\ \A u \in Threads : all[u] = IF u = t THEN new ELSE ths[u]
  BY DEF Still
<1> HIDE DEF all
<1>2. Still(all)
  BY <1>1 DEF Still, Stays
<1> QED BY <1>2 DEF all

LEMMA WakesAreStill ==
  ASSUME NEW ths, Still(ths), NEW word, NEW bits, NEW count
  PROVE  Still(Wakes(ths, word, bits, count))
<1> DEFINE new == Wakes(ths, word, bits, count)
<1>1. DOMAIN new = Threads /\ \A t \in Threads : new[t] \in {ths[t], Awake(ths[t])}
  BY DEF Wakes
<1>2. ASSUME NEW t \in Threads
      PROVE  new[t] \in Thread /\ Stays(ths[t], new[t])
  <2>1. ths[t] \in Thread
    BY DEF Still
  <2> HIDE DEF new
  <2> QED BY <1>1, <2>1, StillStays
<1>3. new \in [Threads -> Thread]
  BY <1>2 DEF Wakes
<1> HIDE DEF new
<1>4. Still(new)
  BY <1>2, <1>3 DEF Still, Stays
<1> QED BY <1>4 DEF new

LEMMA SignalledIsStill ==
  ASSUME NEW ths, Still(ths), NEW s \in Signals
  PROVE  Still(Signalled(ths, s))
<1>1. ASSUME NEW u
      PROVE  Still([ths EXCEPT ![u].pending = @ \cup {s}])
  <2> DEFINE new == [ths EXCEPT ![u].pending = @ \cup {s}]
  <2>1. ASSUME NEW t \in Threads
        PROVE  new[t] \in Thread /\ Stays(ths[t], new[t])
    <3>1. ths \in [Threads -> Thread] /\ ths[t] \in Thread
      BY DEF Still
    <3>2. new[t] = ths[t] \/ new[t] = [ths[t] EXCEPT !.pending = @ \cup {s}]
      BY <3>1
    <3> HIDE DEF new
    <3> QED BY <3>1, <3>2, StillStays
  <2>2. new \in [Threads -> Thread]
    BY <2>1 DEF Still
  <2> HIDE DEF new
  <2>3. Still(new)
    BY <2>1, <2>2 DEF Still, Stays
  <2> QED BY <2>3 DEF new
<1> QED BY <1>1 DEF Signalled, RaiseProcess

LEMMA WokenIsStill ==
  ASSUME TypeOK
  PROVE  Still(Woken)
<1>1. ASSUME NEW t \in Threads
      PROVE  Woken[t] \in Thread /\ Stays(threads[t], Woken[t])
  <2>1. threads[t] \in Thread
    BY DEF TypeOK
  <2>2. Woken[t] = threads[t] \/ Woken[t] = Awake(threads[t])
    BY DEF Woken
  <2> QED BY <2>1, <2>2, StillStays
<1>2. Woken \in [Threads -> Thread]
  BY <1>1 DEF Woken
<1> QED BY <1>1, <1>2 DEF Still

LEMMA ExpiredIsStill ==
  ASSUME TypeOK, Expired
  PROVE  Still(threads')
<1> DEFINE rings == alarm # None /\ Passed(alarm.deadline)
           ths == IF rings THEN Signalled(threads, SIGALRM) ELSE threads
           new == [t \in Threads |-> IF Passed(ths[t].deadline) THEN Awake(ths[t]) ELSE ths[t]]
<1>1. threads' = new
  BY DEF Expired
<1>2. Still(ths)
  BY TheseAreStill, SignalledIsStill, SignalsAssumption
<1> HIDE DEF ths
<1>3. ASSUME NEW t \in Threads
      PROVE  new[t] \in Thread /\ Stays(ths[t], new[t])
  <2>1. ths[t] \in Thread
    BY <1>2 DEF Still
  <2>2. new[t] = ths[t] \/ new[t] = Awake(ths[t])
    OBVIOUS
  <2> HIDE DEF new
  <2> QED BY <2>1, <2>2, StillStays
<1>4. new \in [Threads -> Thread]
  BY <1>3
<1> HIDE DEF new
<1>5. Still(new)
  BY <1>2, <1>3, <1>4 DEF Still, Stays
<1> QED BY <1>1, <1>5

\* The thread at its turn changes what is not its stack.
LEMMA MineIsStill ==
  ASSUME TypeOK, TypeOK', NEW new, Stays(Me, new), threads' = [threads EXCEPT ![turn] = new]
  PROVE  Still(threads')
<1>1. \A t \in Threads : threads'[t] = IF t = turn THEN new ELSE threads[t]
  BY DEF TypeOK
<1>2. threads' \in [Threads -> Thread]
  BY DEF TypeOK
<1> QED BY <1>1, <1>2 DEF Still, Stays, Me

\* deliver
LEMMA DeliverNests ==
  ASSUME TypeOK, Sound, NEW ths, Still(ths), NEW t \in Threads, NEW s \in Signals,
         Deliver(ths, t, s), TypeOK', Sound'
  PROVE  Nests(threads')
<1> DEFINE th == ths[t]
           d == dispositions[s]
           at == PlaceOf(th, d)
           new == Interrupted(th, s)
<1>1. /\ threads' = [ths EXCEPT ![t] = new] /\ at \in Places
      /\ ths \in [Threads -> Thread] /\ th \in Thread /\ Stays(threads[t], th)
  BY DEF Deliver, Delivers, Still
<1>2. /\ new.sp = at /\ new.frames = [th.frames EXCEPT ![at] = [sp |-> th.sp, mask |-> Before(th)]]
      /\ th.frames \in [Places -> Frame]
  BY <1>1 DEF Interrupted, Thread, Frame
<1>3. /\ new.frames[at].sp = th.sp
      /\ \A a \in Places : a # at => new.frames[a] = th.frames[a]
  BY <1>1, <1>2
<1>4. threads'[t] = new
  BY <1>1
<1>5. threads'[t] \in Thread /\ StackSound(threads'[t])
  BY NextStacksAreSound DEF TypeOK
<1>6. StackSound(th)
  <2>1. StackSound(threads[t])
    BY StacksAreSound
  <2> HIDE DEF th
  <2> QED BY <1>1, <2>1 DEF Stays, StackSound, Ground, OwnFrames, AltFrames
<1>7. \/ at = <<"alt", 1>> /\ th.sp[1] = "own"
      \/ at = <<th.sp[1], th.sp[2] + 1>>
  <2>1. th.sp \in Stacks
    BY <1>1 DEF Thread
  <2>2. th.sp[1] = "own" \/ th.onAlt
    BY <1>6, <2>1, PlacesAndHeights DEF StackSound
  <2> QED BY <2>2 DEF PlaceOf, UsesAlt
<1> HIDE DEF new, at, th
<1>8. NestsFrom(Unwound(th), Unwound(new))
  BY <1>1, <1>2, <1>3, <1>4, <1>5, <1>6, <1>7, PushedNests
<1>9. Unwound(th) = Unwound(threads[t])
  BY <1>1, SameUnwound DEF Stays
<1> QED BY <1>1, <1>8, <1>9, AllButOneNest

\* What a program does outside of handlers' beginnings and ends.
QuietProgram ==
  \/ Preempt \/ Pause \/ ExitThread
  \/ \E mask \in menu.masks : SignalMask(mask)
  \/ \E mask \in menu.suspends : Suspend(mask)
  \/ \E act \in menu.actions : SignalAction(act[1], act[2])
  \/ \E on \in menu.altstacks : SigAltStack(on)
  \/ \E s \in menu.kills : Kill(s)
  \/ \E s \in menu.tgkills : Tgkill(s)
  \/ \E time \in menu.sleeps : Sleep(time)
  \/ \E t \in menu.timers : IntervalTimer(t[1], t[2])
  \/ \E f \in menu.stores : Store(f[1], f[2])
  \/ \E f \in menu.waits, bits \in menu.bits, time \in menu.timeouts :
       FutexWait(f[1], f[2], bits, IF time = None THEN None ELSE now + time)
  \/ \E word \in menu.wakes, bits \in menu.bits, count \in 1..2 : FutexWake(word, bits, count)

LEMMA QuietProgramIsStill ==
  ASSUME TypeOK, TypeOK', QuietProgram
  PROVE  Still(threads')
<1>1. CASE UNCHANGED threads
  BY <1>1, TheseAreStill
<1>2. Me \in Thread /\ Me = threads[turn] /\ turn \in Threads
  BY DEF TypeOK, Me
<1>3. CASE Preempt
  BY <1>1, <1>3 DEF Preempt
<1>4. CASE Pause
  <2>1. Stays(Me, [Me EXCEPT !.state = "Paused"])
    BY <1>2 DEF Stays, Thread
  <2> QED BY <1>4, <2>1, MineIsStill DEF Pause, Parks, Leaves
<1>5. CASE ExitThread
  <2> DEFINE new == [Awake(Me) EXCEPT !.state = "Exited"]
             gone == [threads EXCEPT ![turn] = new]
             ths == IF Me.clear = None THEN gone ELSE Clears(gone, Me.clear)
  <2>1. new \in Thread /\ Stays(Me, new)
    BY <1>2 DEF Stays, Thread, Awake, States
  <2>2. threads' = ths
    BY <1>5 DEF ExitThread, Leaves
  <2> HIDE DEF new
  <2>3. Still(gone)
    BY <1>2, <2>1, TheseAreStill, OneIsStill
  <2> HIDE DEF gone
  <2>4. Still(ths)
    BY <2>3, WakesAreStill DEF Clears
  <2> QED BY <2>2, <2>4
<1>6. CASE \E mask \in menu.masks : SignalMask(mask)
  <2>1. PICK mask \in menu.masks : SignalMask(mask)
    BY <1>6
  <2>2. Stays(Me, [Me EXCEPT !.blocked = mask])
    BY <1>2 DEF Stays, Thread
  <2> QED BY <2>1, <2>2, MineIsStill DEF SignalMask, Becomes
<1>7. CASE \E mask \in menu.suspends : Suspend(mask)
  <2>1. PICK mask \in menu.suspends : Suspend(mask)
    BY <1>7
  <2>2. Stays(Me, [Me EXCEPT !.state = "Paused", !.suspended = Me.blocked, !.blocked = mask])
    BY <1>2 DEF Stays, Thread
  <2> QED BY <2>1, <2>2, MineIsStill DEF Suspend, Parks, Leaves
<1>8. CASE \E act \in menu.actions : SignalAction(act[1], act[2])
  BY <1>1, <1>8 DEF SignalAction
<1>9. CASE \E on \in menu.altstacks : SigAltStack(on)
  <2>1. PICK on \in menu.altstacks : SigAltStack(on)
    BY <1>9
  <2>2. Stays(Me, [Me EXCEPT !.alt = on])
    BY <1>2 DEF Stays, Thread
  <2> QED BY <2>1, <2>2, MineIsStill DEF SigAltStack, Becomes
<1>10. CASE \E s \in menu.kills : Kill(s)
  <2>1. PICK s \in menu.kills : Kill(s)
    BY <1>10
  <2>2. s \in Signals
    BY MenuIsTyped
  <2> QED BY <1>1, <2>1, <2>2, TheseAreStill, SignalledIsStill DEF Kill
<1>11. CASE \E s \in menu.tgkills : Tgkill(s)
  <2>1. PICK s \in menu.tgkills : Tgkill(s)
    BY <1>11
  <2> DEFINE new == [Me EXCEPT !.pending = @ \cup {s}]
  <2>2. CASE threads' = [threads EXCEPT ![turn].pending = @ \cup {s}]
    <3>1. threads' = [threads EXCEPT ![turn] = new]
      BY <2>2 DEF Me
    <3>2. Stays(Me, new)
      BY <1>2 DEF Stays, Thread
    <3> HIDE DEF new
    <3> QED BY <3>1, <3>2, MineIsStill
  <2> QED BY <1>1, <2>1, <2>2 DEF Tgkill
<1>12. CASE \E time \in menu.sleeps : Sleep(time)
  <2>1. PICK time \in menu.sleeps : Sleep(time)
    BY <1>12
  <2>2. Stays(Me, [Me EXCEPT !.state = "Sleeping", !.deadline = now + time])
    BY <1>2 DEF Stays, Thread
  <2> QED BY <2>1, <2>2, MineIsStill DEF Sleep, Parks, Leaves
<1>13. CASE \E t \in menu.timers : IntervalTimer(t[1], t[2])
  BY <1>1, <1>13 DEF IntervalTimer
<1>14. CASE \E f \in menu.stores : Store(f[1], f[2])
  BY <1>1, <1>14 DEF Store
<1>15. CASE \E f \in menu.waits, bits \in menu.bits, time \in menu.timeouts :
              FutexWait(f[1], f[2], bits, IF time = None THEN None ELSE now + time)
  <2>1. PICK word, expected, bits, deadline : FutexWait(word, expected, bits, deadline)
    BY <1>15
  <2>2. Stays(Me, [Me EXCEPT !.state = "Waiting", !.word = word, !.bits = bits,
                             !.deadline = deadline])
    BY <1>2 DEF Stays, Thread
  <2> QED BY <1>1, <2>1, <2>2, MineIsStill DEF FutexWait, Parks, Leaves
<1>16. CASE \E word \in menu.wakes, bits \in menu.bits, count \in 1..2 :
              FutexWake(word, bits, count)
  BY <1>16, TheseAreStill, WakesAreStill DEF FutexWake
<1> QED
  BY <1>3, <1>4, <1>5, <1>6, <1>7, <1>8, <1>9, <1>10, <1>11, <1>12, <1>13, <1>14, <1>15,
     <1>16 DEF QuietProgram

\* The thread at its turn changes its stack.
LEMMA MineNests ==
  ASSUME TypeOK, Sound, NEW t, NEW new, threads' = [threads EXCEPT ![t] = new], TypeOK', Sound',
         \A th : t \in Threads /\ th = threads[t] /\ th \in Thread /\ StackSound(th)
                 /\ new \in Thread /\ StackSound(new) => NestsFrom(Unwound(th), Unwound(new))
  PROVE  Nests(threads')
<1>1. ASSUME t \in Threads
      PROVE  /\ threads[t] \in Thread /\ StackSound(threads[t])
             /\ new \in Thread /\ StackSound(new)
  <2>1. threads'[t] = new
    BY <1>1 DEF TypeOK
  <2>2. StackSound(threads'[t])
    BY <1>1, NextStacksAreSound
  <2>3. threads'[t] \in Thread
    BY <1>1 DEF TypeOK
  <2> QED BY <1>1, <2>1, <2>2, <2>3, StacksAreSound
<1>2. t \in Threads => NestsFrom(Unwound(threads[t]), Unwound(new))
  BY <1>1
<1> QED BY <1>2, TheseAreStill, AllButOneNest

LEMMA SignalReturnNests ==
  ASSUME TypeOK, Sound, ~Wild, SignalReturn, TypeOK', Sound'
  PROVE  Nests(threads')
<1> DEFINE frame == Me.frames[Me.sp]
           new == [Me EXCEPT !.sp = frame.sp, !.blocked = frame.mask, !.onAlt = FALSE]
<1>1. /\ Me = threads[turn] /\ Me \in Thread
      /\ Me.sp # Bottom /\ (Me.sp[1] = "own" \/ Me.frames[Me.sp].sp[1] = "own")
      /\ threads' = [threads EXCEPT ![turn] = new]
  BY DEF SignalReturn, Becomes, Me, TypeOK
<1>2. new.sp = Me.frames[Me.sp].sp /\ new.frames = Me.frames
  BY <1>1 DEF Thread
<1> HIDE DEF new
<1> QED BY <1>1, <1>2, PoppedNests, MineNests

LEMMA LongJumpNests ==
  ASSUME TypeOK, Sound, LongJump, TypeOK', Sound'
  PROVE  Nests(threads')
<1> DEFINE new == [Me EXCEPT !.sp = Bottom]
<1>1. Me = threads[turn] /\ Me \in Thread /\ threads' = [threads EXCEPT ![turn] = new]
  BY DEF LongJump, Becomes, Me, TypeOK
<1>2. new.sp = Bottom
  BY <1>1 DEF Thread
<1> HIDE DEF new
<1> QED BY <1>1, <1>2, BottomNests, MineNests

LEMMA CloneNests ==
  ASSUME TypeOK, Sound, NEW word, Clone(word), TypeOK', Sound'
  PROVE  Nests(threads')
<1> DEFINE u == Cardinality(Made) + 1
           new == [NewThread EXCEPT !.clear = word]
<1>1. threads' = [threads EXCEPT ![u] = new]
  BY DEF Clone
<1>2. new.sp = Bottom
  BY DEF NewThread, Blank
<1> HIDE DEF new, u
<1> QED BY <1>1, <1>2, BottomNests, MineNests

LEMMA FaultHereNests ==
  ASSUME TypeOK, Sound, FaultHere, TypeOK', phase' # "Over" => Sound'
  PROVE  Nests(threads')
<1>1. CASE Deliver(threads, turn, SIGSEGV) /\ phase' = "Step"
  BY <1>1, TheseAreStill, DeliverNests, SignalsAssumption DEF TypeOK
<1>2. CASE UNCHANGED threads
  BY <1>2, TheseAreStill, StillNests
<1> QED BY <1>1, <1>2 DEF FaultHere, Continues

LEMMA StepNests ==
  ASSUME TypeOK, Sound, Step, TypeOK', phase' # "Over" => Sound'
  PROVE  Nests(threads')
<1> DEFINE t == IF Woken[turn].state = "Runnable" THEN turn ELSE Following(Woken, turn)
           th == Woken[t]
           s == Lowest(Deliverable(th))
<1>1. Still(Woken)
  BY WokenIsStill
<1>2. CASE RunnableIn(Woken) = {}
  BY <1>2, TheseAreStill, StillNests DEF Step
<1>3. CASE RunnableIn(Woken) # {}
  <2>1. t \in Threads /\ th \in Thread
    BY <1>1, <1>3, FollowingRuns DEF Still, RunnableIn, TypeOK
  <2>2. Deliverable(th) # {} => s \in Signals
    <3>1. Deliverable(th) \subseteq Signals
      BY <2>1 DEF Deliverable, Thread
    <3> QED BY <3>1, LowestIsOne, SignalsAssumption
  <2>3. CASE threads' = Woken
    BY <1>1, <2>3, StillNests
  <2>4. CASE Deliverable(th) # {} /\ Deliver(Woken, t, s) /\ phase' = "Run"
    <3> HIDE DEF t, s, th
    <3> QED BY <1>1, <2>1, <2>2, <2>4, DeliverNests
  <2>5. CASE threads' = [Woken EXCEPT ![t].pending = @ \ {s}]
    <3> DEFINE new == [th EXCEPT !.pending = @ \ {s}]
    <3>1. threads' = [Woken EXCEPT ![t] = new]
      BY <2>5
    <3>2. new \in Thread /\ Stays(Woken[t], new)
      BY <2>1, StillStays
    <3> HIDE DEF new, t, s, th
    <3> QED BY <1>1, <3>1, <3>2, OneIsStill, StillNests
  <2> QED BY <1>3, <2>3, <2>4, <2>5 DEF Step
<1> QED BY <1>2, <1>3

LEMMA NextNests ==
  ASSUME Tame, IInv, [Next]_vars, ~UNCHANGED vars
  PROVE  Nests(threads')
<1>1. phase # "Over" /\ Next
  BY OverIsOver
<1>2. TypeOK /\ Sound /\ ~Wild
  BY <1>1 DEF IInv, Tame
<1>3. TypeOK' /\ (phase' # "Over" => Sound')
  BY NextKeeps DEF IInv
<1>4. CASE QuietProgram
  BY <1>2, <1>3, <1>4, QuietProgramIsStill, StillNests
<1>5. CASE SignalReturn
  BY <1>2, <1>3, <1>5, SignalReturnNests DEF SignalReturn, Continues
<1>6. CASE LongJump
  BY <1>2, <1>3, <1>6, LongJumpNests DEF LongJump, Continues
<1>7. CASE \E word \in menu.clones : Clone(word)
  BY <1>2, <1>3, <1>7, CloneNests DEF Clone, Continues
<1>8. CASE FaultHere
  BY <1>2, <1>3, <1>8, FaultHereNests
<1>9. CASE Step
  BY <1>2, <1>3, <1>9, StepNests
<1>10. CASE Idle
  BY <1>2, <1>10, TheseAreStill, ExpiredIsStill, StillNests DEF Idle
<1>11. CASE Tick
  BY <1>2, <1>11, TheseAreStill, StillNests DEF Tick
<1>12. CASE \E s \in menu.sent : Sent(s)
  <2>1. PICK s \in menu.sent : Sent(s)
    BY <1>12
  <2>2. s \in Signals
    BY <1>2, MenuIsTyped
  <2>3. threads' = threads \/ threads' = Signalled(threads, s)
    BY <2>1 DEF Sent, Over
  <2> QED BY <1>2, <2>2, <2>3, TheseAreStill, SignalledIsStill, StillNests
<1> QED
  BY <1>1, <1>4, <1>5, <1>6, <1>7, <1>8, <1>9, <1>10, <1>11, <1>12
  DEF Next, Program, Kernel, QuietProgram

\* What an interrupted piece of a thread's code goes back to stays what it was
\* when the signal came: for any threads, signals and room on the stacks, no
\* step changes a frame under the handler that runs, on whichever stack it is:
\* it adds one on top, or takes off inner ones.
THEOREM WhatIsUnderStays ==
  ASSUME Tame
  PROVE  Spec => HandlersNest
<1>1. IInv /\ [Next]_vars => [\A t \in Threads : NestsFrom(Unwound(threads[t]), Unwound(threads'[t]))]_vars
  BY NextNests DEF Nests
<1> QED BY <1>1, Invariant, PTL DEF Spec, HandlersNest
=============================================================================
