-------------------------- MODULE ProcessesProofs --------------------------
(***************************************************************************)
(* What is proved of the process table for any number of processes and     *)
(* threads, any slice and any set of signals.                              *)
(*                                                                         *)
(* The invariant is about the shape of the table.  It is sorted by the     *)
(* order in which processes were made, the first process is at its head    *)
(* and belongs to nobody, and every other one has a parent in the table    *)
(* that is alive, or is the first process.  That parent is why reap can    *)
(* remove an entry: nobody's parent goes with it.  With it, the process    *)
(* the turn is at is never the one that is removed, so the index of the    *)
(* current process stays an index.                                         *)
(***************************************************************************)
EXTENDS Processes, FunctionTheorems, FiniteSetTheorems, SequenceTheorems,
        WellFoundedInduction, NaturalsInduction, TLAPS

Everybody == [Pids -> [Threads -> Thread]]

\* A table `tab` from which the next fork will take identifier n.
Rooted(tab, n) ==
  /\ 1 \in DOMAIN tab
  /\ tab[1].pid = FIRST /\ tab[1].parent = 0
  /\ \A i, j \in DOMAIN tab : i < j => tab[i].pid < tab[j].pid
  /\ \A i \in DOMAIN tab : tab[i].pid < n
  /\ \A i \in DOMAIN tab \ {1} :
       \E j \in DOMAIN tab :
         tab[j].pid = tab[i].parent /\ (tab[j].status = Alive \/ j = 1)

CollectsAlive == phase = "Collect" => Living(at)

IInv == TypeOK /\ Rooted(table, next) /\ OnlyTheRunnableRun /\ CollectsAlive

---------------------------------------------------------------------------
(* Choices.                                                                *)

\* A set of natural numbers has a least one.
LEMMA LeastExists ==
  ASSUME NEW S, S \subseteq Nat, S # {}
  PROVE  \E x \in S : \A y \in S : x <= y
<1> DEFINE R == OpToRel(<, Nat)
<1>1. \A x, y \in Nat : x < y => <<x, y>> \in R
  <2> SUFFICES ASSUME NEW x \in Nat, NEW y \in Nat, x < y
               PROVE  <<x, y>> \in R
    OBVIOUS
  <2>1. <<x, y>> \in Nat \X Nat /\ <<x, y>>[1] = x /\ <<x, y>>[2] = y
    OBVIOUS
  <2> QED BY <2>1 DEF OpToRel
<1>2. \E x \in S : \A y \in S : <<y, x>> \notin R
  BY NatLessThanWellFounded, WFMin
<1> HIDE DEF R
<1>3. PICK x \in S : \A y \in S : <<y, x>> \notin R
  BY <1>2
<1>4. \A y \in S : ~(y < x)
  BY <1>1, <1>3
<1>5. \A y \in S : x <= y
  BY <1>4
<1> QED BY <1>5

\* The oldest of some entries, or the lowest of some threads, is one of them.
LEMMA OldestIsOne ==
  ASSUME NEW S, S \subseteq Nat, S # {}
  PROVE  Oldest(S) \in S
BY LeastExists DEF Oldest

\* Round robin chooses a thread that can run, whenever there is one.
LEMMA FollowingRuns ==
  ASSUME NEW ths \in [Threads -> Thread], NEW t \in Threads, RunnableIn(ths) # {}
  PROVE  Following(ths, t) \in RunnableIn(ths)
<1> DEFINE S == {After(t, u) : u \in RunnableIn(ths)}
<1>1. Cardinality(Threads) = MaxThread
  BY FS_Interval, ProcessesAssumption DEF Threads
<1>2. \A u \in Threads : After(t, u) \in Nat
  BY <1>1, ProcessesAssumption DEF After, Threads
<1>3. S \subseteq Nat /\ S # {}
  BY <1>2 DEF RunnableIn
<1>4. PICK x \in S : \A y \in S : x <= y
  BY <1>3, LeastExists
<1>5. \E u \in RunnableIn(ths) : \A v \in RunnableIn(ths) : After(t, u) <= After(t, v)
  BY <1>4
<1> QED BY <1>5 DEF Following

\* So does the head of a step.
LEMMA ChosenRuns ==
  ASSUME NEW ths \in [Threads -> Thread], Me \in Threads, RunnableIn(ths) # {}
  PROVE  Chosen(ths) \in RunnableIn(ths)
BY FollowingRuns DEF Chosen, RunnableIn

\* IndexOf answers where a process is, when it is anywhere.
LEMMA IndexIsThere ==
  ASSUME NEW p, Exists(p)
  PROVE  IndexOf(p) \in DOMAIN table /\ table[IndexOf(p)].pid = p
BY DEF Exists, IndexOf

---------------------------------------------------------------------------
(* What an end, a fork and a reap do to the table.                         *)

EndedTable(tab, i, ending) ==
  [j \in DOMAIN tab |->
     [tab[j] EXCEPT !.parent = Adopted(@, tab[i].pid),
                    !.status = IF j = i THEN ending ELSE @]]

\* finish_at: the first process is always there to adopt.
LEMMA EndedIsRooted ==
  ASSUME NEW tab \in Seq(Entry), NEW n, Rooted(tab, n),
         NEW i \in DOMAIN tab, NEW ending \in Endings
  PROVE  /\ EndedTable(tab, i, ending) \in Seq(Entry)
         /\ Rooted(EndedTable(tab, i, ending), n)
         /\ DOMAIN EndedTable(tab, i, ending) = DOMAIN tab
<1> DEFINE new == EndedTable(tab, i, ending)
<1>1. DOMAIN tab = 1..Len(tab) /\ Len(tab) \in Nat
  OBVIOUS
<1>2. \A j \in DOMAIN tab : tab[j] \in Entry
  OBVIOUS
<1>3. FIRST \in Pids
  BY ProcessesAssumption DEF FIRST, Pids
<1>4. /\ DOMAIN new = DOMAIN tab
      /\ \A j \in DOMAIN tab :
           /\ new[j] \in Entry
           /\ new[j].pid = tab[j].pid
           /\ new[j].parent = Adopted(tab[j].parent, tab[i].pid)
           /\ new[j].status = IF j = i THEN ending ELSE tab[j].status
  BY <1>2, <1>3 DEF EndedTable, Entry, Adopted
<1>5. new \in Seq(Entry)
  <2>1. new \in [1..Len(tab) -> Entry]
    BY <1>1, <1>4 DEF EndedTable
  <2> HIDE DEF new
  <2> QED BY <2>1, <1>1
<1>6. tab[i].pid # 0
  BY <1>2 DEF Entry, Pids
<1>7. new[1].pid = FIRST /\ new[1].parent = 0
  BY <1>4, <1>6 DEF Rooted, Adopted
<1>8. ASSUME NEW k \in DOMAIN new \ {1}
      PROVE  \E j \in DOMAIN new :
               new[j].pid = new[k].parent /\ (new[j].status = Alive \/ j = 1)
  <2>1. PICK j \in DOMAIN tab :
          tab[j].pid = tab[k].parent /\ (tab[j].status = Alive \/ j = 1)
    BY <1>4, <1>8 DEF Rooted
  <2>2. CASE tab[k].parent = tab[i].pid
    <3>1. new[k].parent = FIRST
      BY <1>4, <1>8, <2>2 DEF Adopted
    <3> QED BY <3>1, <1>4, <1>7 DEF Rooted
  <2>3. CASE tab[k].parent # tab[i].pid
    <3>1. new[k].parent = tab[k].parent /\ j # i
      BY <1>4, <1>8, <2>1, <2>3 DEF Adopted
    <3> QED BY <3>1, <1>4, <2>1
  <2> QED BY <2>2, <2>3
<1> QED
  <2>1. Rooted(new, n)
    <3> HIDE DEF new
    <3> QED BY <1>4, <1>7, <1>8 DEF Rooted
  <2> QED BY <1>4, <1>5, <2>1

\* reap: what is left of a table without one entry.
LEMMA RemovedEntry ==
  ASSUME NEW tab \in Seq(Entry), NEW i \in 1..Len(tab)
  PROVE  /\ RemoveAt(tab, i) \in Seq(Entry)
         /\ Len(RemoveAt(tab, i)) = Len(tab) - 1
         /\ \A k \in 1..(Len(tab) - 1) :
              RemoveAt(tab, i)[k] = IF k < i THEN tab[k] ELSE tab[k + 1]
<1> DEFINE front == SubSeq(tab, 1, i - 1)
           back  == SubSeq(tab, i + 1, Len(tab))
<1>1. /\ front \in Seq(Entry) /\ Len(front) = i - 1
      /\ \A k \in 1..(i - 1) : front[k] = tab[k]
  OBVIOUS
<1>2. /\ back \in Seq(Entry) /\ Len(back) = Len(tab) - i
      /\ \A k \in 1..(Len(tab) - i) : back[k] = tab[k + i]
  OBVIOUS
<1>3. RemoveAt(tab, i) = front \o back
  BY DEF RemoveAt
<1> HIDE DEF front, back
<1>4. /\ front \o back \in Seq(Entry)
      /\ Len(front \o back) = Len(tab) - 1
      /\ \A k \in 1..(Len(tab) - 1) :
           (front \o back)[k] = IF k <= i - 1 THEN front[k] ELSE back[k - (i - 1)]
  BY <1>1, <1>2, ConcatProperties
<1>5. ASSUME NEW k \in 1..(Len(tab) - 1)
      PROVE  (front \o back)[k] = IF k < i THEN tab[k] ELSE tab[k + 1]
  <2>1. CASE k < i
    BY <2>1, <1>1, <1>4
  <2>2. CASE ~(k < i)
    <3>1. k - (i - 1) \in 1..(Len(tab) - i) /\ (k - (i - 1)) + i = k + 1
      BY <2>2
    <3> QED BY <3>1, <2>2, <1>2, <1>4
  <2> QED BY <2>1, <2>2
<1> QED BY <1>3, <1>4, <1>5

\* Nobody is the child of the entry that is reaped.
LEMMA ReapedIsRooted ==
  ASSUME NEW tab \in Seq(Entry), NEW n, Rooted(tab, n), NEW i \in DOMAIN tab,
         tab[i].status # Alive, tab[i].parent # 0
  PROVE  Rooted(RemoveAt(tab, i), n)
<1> DEFINE new == RemoveAt(tab, i)
           Old(k) == IF k < i THEN k ELSE k + 1
           New(k) == IF k < i THEN k ELSE k - 1
<1>1. DOMAIN tab = 1..Len(tab) /\ Len(tab) \in Nat
  OBVIOUS
<1>2. /\ DOMAIN new = 1..(Len(tab) - 1)
      /\ \A k \in DOMAIN new : new[k] = tab[Old(k)] /\ Old(k) \in DOMAIN tab
  <2>1. new \in Seq(Entry) /\ Len(new) = Len(tab) - 1
    BY <1>1, RemovedEntry
  <2>2. DOMAIN new = 1..(Len(tab) - 1)
    BY <2>1
  <2>3. ASSUME NEW k \in 1..(Len(tab) - 1)
        PROVE  new[k] = tab[Old(k)] /\ Old(k) \in DOMAIN tab
    <3>1. new[k] = IF k < i THEN tab[k] ELSE tab[k + 1]
      BY <1>1, RemovedEntry
    <3> QED BY <3>1, <1>1
  <2> QED BY <2>2, <2>3
<1>3. i # 1
  BY DEF Rooted
<1>4. i > 1 /\ i <= Len(tab)
  BY <1>1, <1>3
<1> HIDE DEF new
<1>5. 1 \in DOMAIN new /\ new[1] = tab[1]
  BY <1>1, <1>2, <1>4
<1>6. \A k, l \in DOMAIN new : k < l => new[k].pid < new[l].pid
  <2> SUFFICES ASSUME NEW k \in DOMAIN new, NEW l \in DOMAIN new, k < l
               PROVE  new[k].pid < new[l].pid
    OBVIOUS
  <2>1. Old(k) < Old(l)
    BY <1>1, <1>2, <1>4
  <2>2. /\ Old(k) \in DOMAIN tab /\ Old(l) \in DOMAIN tab
        /\ new[k] = tab[Old(k)] /\ new[l] = tab[Old(l)]
    BY <1>2
  <2> HIDE DEF Old
  <2> QED BY <2>1, <2>2 DEF Rooted
<1>7. ASSUME NEW k \in DOMAIN new \ {1}
      PROVE  \E j \in DOMAIN new :
               new[j].pid = new[k].parent /\ (new[j].status = Alive \/ j = 1)
  <2>1. Old(k) \in DOMAIN tab \ {1} /\ new[k] = tab[Old(k)]
    BY <1>1, <1>2, <1>4, <1>7
  <2>2. PICK j \in DOMAIN tab :
          tab[j].pid = tab[Old(k)].parent /\ (tab[j].status = Alive \/ j = 1)
    BY <2>1 DEF Rooted
  <2>3. j # i
    BY <1>3, <2>2
  <2>4. /\ New(j) \in DOMAIN new /\ Old(New(j)) = j
        /\ j = 1 => New(j) = 1
    BY <1>1, <1>2, <1>4, <2>3
  <2> QED BY <2>1, <2>2, <2>4, <1>2
<1>8. \A k \in DOMAIN new : new[k].pid < n
  BY <1>2 DEF Rooted
<1> QED BY <1>5, <1>6, <1>7, <1>8 DEF Rooted, new

\* fork: the newest goes to the end, and its parent is running.
LEMMA ForkedIsRooted ==
  ASSUME NEW tab \in Seq(Entry), NEW n \in Pids, Rooted(tab, n),
         NEW c \in DOMAIN tab, tab[c].status = Alive, NEW entry \in Entry,
         entry.pid = n, entry.parent = tab[c].pid
  PROVE  /\ Append(tab, entry) \in Seq(Entry)
         /\ Rooted(Append(tab, entry), n + 1)
<1> DEFINE new == Append(tab, entry)
<1>1. DOMAIN tab = 1..Len(tab) /\ Len(tab) \in Nat
  OBVIOUS
<1>2. /\ new \in Seq(Entry)
      /\ DOMAIN new = 1..(Len(tab) + 1)
      /\ \A k \in DOMAIN tab : new[k] = tab[k]
      /\ new[Len(tab) + 1] = entry
  OBVIOUS
<1> HIDE DEF new
<1>3. \A k \in DOMAIN tab : tab[k].pid \in Nat
  <2>1. \A k \in DOMAIN tab : tab[k] \in Entry
    OBVIOUS
  <2> QED BY <2>1 DEF Entry, Pids
<1>4. n \in Nat
  BY DEF Pids
<1>5. 1 \in DOMAIN new /\ new[1] = tab[1]
  BY <1>1, <1>2 DEF Rooted
<1>6. \A k, l \in DOMAIN new : k < l => new[k].pid < new[l].pid
  BY <1>1, <1>2 DEF Rooted
<1>7. \A k \in DOMAIN new : new[k].pid < n + 1
  BY <1>1, <1>2, <1>3, <1>4 DEF Rooted
<1>8. ASSUME NEW k \in DOMAIN new \ {1}
      PROVE  \E j \in DOMAIN new :
               new[j].pid = new[k].parent /\ (new[j].status = Alive \/ j = 1)
  <2>1. CASE k \in DOMAIN tab
    BY <2>1, <1>1, <1>2, <1>8 DEF Rooted
  <2>2. CASE k = Len(tab) + 1
    <3>1. c \in DOMAIN new /\ new[c] = tab[c] /\ new[k] = entry
      BY <2>2, <1>1, <1>2
    <3> QED BY <3>1
  <2> QED BY <2>1, <2>2, <1>1, <1>2, <1>8
<1>9. new[1].pid = FIRST /\ new[1].parent = 0
  BY <1>5 DEF Rooted
<1> QED BY <1>2, <1>9, <1>5, <1>6, <1>7, <1>8 DEF Rooted, new

---------------------------------------------------------------------------
(* The invariant, from one turn phase to the next.                         *)

\* The process that has the turn and the thread it advances are typed.
LEMMA Here ==
  ASSUME IInv
  PROVE  /\ table \in Seq(Entry) /\ at \in DOMAIN table
         /\ table[at] \in Entry /\ Current \in Pids /\ Me \in Threads
         /\ threads \in Everybody
         /\ threads[Current] \in [Threads -> Thread]
         /\ threads[Current][Me] \in Thread
<1>1. table \in Seq(Entry) /\ at \in DOMAIN table /\ threads \in Everybody
  BY DEF IInv, TypeOK, Everybody
<1>2. table[at] \in Entry
  BY <1>1
<1>3. Current \in Pids
  BY <1>2 DEF Current, Entry
<1>4. Me \in Threads
  BY <1>3 DEF Me, IInv, TypeOK
<1> QED BY <1>1, <1>2, <1>3, <1>4 DEF Everybody

LEMMA EveryEntry ==
  ASSUME IInv, NEW i \in DOMAIN table
  PROVE  /\ table[i] \in Entry /\ table[i].pid \in Pids
         /\ i # 1 => table[i].parent \in Pids
<1>1. \A j \in DOMAIN table : table[j] \in Entry
  BY Here
<1>2. ASSUME NEW j \in DOMAIN table
      PROVE  table[j].pid \in Pids
  <2>1. table[j] \in Entry
    BY <1>1
  <2> QED BY <2>1 DEF Entry
<1>3. i # 1 => \E j \in DOMAIN table : table[j].pid = table[i].parent
  BY DEF IInv, Rooted
<1> QED BY <1>1, <1>2, <1>3

LEMMA RaisedType ==
  ASSUME IInv, NEW ths \in Everybody, NEW p \in Pids, NEW signal \in Signals
  PROVE  Raised(ths, p, signal) \in Everybody
<1>1. turn[p] \in Threads
  BY DEF IInv, TypeOK
<1>2. ths[p] \in [Threads -> Thread] /\ ths[p][turn[p]] \in Thread
  BY <1>1 DEF Everybody
<1> DEFINE new == [ths[p][turn[p]] EXCEPT !.pending = ths[p][turn[p]].pending \cup {signal}]
<1>3. new \in Thread
  BY <1>2 DEF Thread
<1>4. Raised(ths, p, signal) =
        IF dispositions[p][signal] = "Caught"
        THEN [ths EXCEPT ![p] = [ths[p] EXCEPT ![turn[p]] = new]]
        ELSE ths
  BY DEF Raised
<1> HIDE DEF new
<1>5. [ths[p] EXCEPT ![turn[p]] = new] \in [Threads -> Thread]
  BY <1>2, <1>3
<1> QED BY <1>4, <1>5 DEF Everybody

\* finish_at, whoever it is that ends.
LEMMA FinishAtKeeps ==
  ASSUME IInv, NEW i \in DOMAIN table, NEW ending \in Endings,
         NEW ths \in Everybody, FinishAt(i, ending, ths)
  PROVE  /\ table' \in Seq(Entry) /\ DOMAIN table' = DOMAIN table
         /\ Rooted(table', next)
         /\ threads' \in Everybody
<1>1. table' = EndedTable(table, i, ending)
  BY DEF FinishAt, EndedTable
<1>2. /\ table' \in Seq(Entry) /\ DOMAIN table' = DOMAIN table
      /\ Rooted(table', next)
  BY <1>1, EndedIsRooted, Here DEF IInv
<1>3. threads' \in Everybody
  <2>1. CASE \E j \in DOMAIN table : table[j].pid = table[i].parent /\ Living(j)
    <3>1. table[i].parent \in Pids
      BY <2>1, EveryEntry
    <3>2. SIGCHLD \in Signals
      BY DEF Signals
    <3>3. threads' = Raised(ths, table[i].parent, SIGCHLD)
      BY <2>1 DEF FinishAt
    <3> QED BY <3>1, <3>2, <3>3, RaisedType
  <2>2. CASE ~\E j \in DOMAIN table : table[j].pid = table[i].parent /\ Living(j)
    BY <2>2 DEF FinishAt
  <2> QED BY <2>1, <2>2
<1> QED BY <1>2, <1>3

LEMMA DeliverKeeps ==
  ASSUME IInv, NEW p \in Pids, NEW signal \in Signals, Deliver(p, signal)
  PROVE  /\ table' \in Seq(Entry) /\ DOMAIN table' = DOMAIN table
         /\ Rooted(table', next)
         /\ threads' \in Everybody
<1> USE DEF Deliver
<1>1. threads \in Everybody /\ table \in Seq(Entry) /\ Rooted(table, next)
  BY Here DEF IInv
<1>2. CASE Exists(p) /\ Living(IndexOf(p)) /\ Fatal(p, signal)
  <2>1. IndexOf(p) \in DOMAIN table
    BY <1>2, IndexIsThere
  <2>2. Signalled(signal) \in Endings
    BY <1>2 DEF Endings, Signalled, Fatal, Terminates, Signals, SIGTERM, SIGCHLD
  <2>3. FinishAt(IndexOf(p), Signalled(signal), threads)
    BY <1>2
  <2> QED BY <1>1, <2>1, <2>2, <2>3, FinishAtKeeps
<1>3. CASE Exists(p) /\ Living(IndexOf(p)) /\ ~Fatal(p, signal)
  BY <1>1, <1>3, RaisedType
<1>4. CASE ~(Exists(p) /\ Living(IndexOf(p)))
  BY <1>1, <1>4
<1> QED BY <1>2, <1>3, <1>4

\* reap: the running process is alive, so the index stays an index.
LEMMA ReapKeeps ==
  ASSUME IInv, Living(at), NEW wanted \in Pids \cup {0},
         Reapable(Current, wanted) # {}, NEW ths \in Everybody, Reap(wanted, ths)
  PROVE  /\ table' \in Seq(Entry) /\ Rooted(table', next)
         /\ at' \in DOMAIN table' /\ table'[at'] = table[at] /\ Living(at)'
         /\ table'[1] = table[1]
         /\ threads' \in Everybody
         /\ dispositions' \in [Pids -> [Signals -> {"Default", "Ignored", "Caught"}]]
         /\ turn' \in [Pids -> Threads]
         /\ answer' \in [to : Pids, call : {"wait4", "kill"}, about : Pids \cup {0},
                         value : Int, status : Endings \cup {Alive}]
<1> DEFINE i == Oldest(Reapable(Current, wanted))
<1>1. DOMAIN table = 1..Len(table) /\ Len(table) \in Nat
  BY Here
<1>2. i \in Reapable(Current, wanted)
  <2>1. Reapable(Current, wanted) \subseteq Nat
    BY <1>1 DEF Reapable, Children
  <2> QED BY <2>1, OldestIsOne
<1>3. /\ i \in DOMAIN table /\ table[i].parent = Current /\ table[i].status # Alive
      /\ table[i].pid \in Pids /\ table[i].status \in Endings \cup {Alive}
  <2>1. i \in DOMAIN table /\ table[i].parent = Current /\ table[i].status # Alive
    BY <1>2 DEF Reapable, Children, Living
  <2>2. table[i] \in Entry
    BY <2>1, EveryEntry
  <2> QED BY <2>1, <2>2 DEF Entry
<1>4. i # at
  BY <1>3 DEF Living
<1>5. Current # 0
  BY Here DEF Pids
<1>6. /\ table' = RemoveAt(table, i) /\ at' = Shifted(i)
      /\ threads' = [ths EXCEPT ![table[i].pid] = Nobody]
      /\ dispositions' = [dispositions EXCEPT ![table[i].pid] = Defaults]
      /\ turn' = [turn EXCEPT ![table[i].pid] = 1]
      /\ Tells("wait4", wanted, table[i].pid, table[i].status)
  BY DEF Reap
<1> HIDE DEF i
<1>7. table' \in Seq(Entry) /\ Rooted(table', next)
  BY <1>1, <1>3, <1>5, <1>6, Here, RemovedEntry, ReapedIsRooted DEF IInv
<1>8. at' \in DOMAIN table' /\ table'[at'] = table[at] /\ table'[1] = table[1]
  <2>1. at \in 1..Len(table) /\ i \in 1..Len(table)
    BY <1>1, <1>3, Here
  <2>2. /\ DOMAIN table' = 1..(Len(table) - 1)
        /\ \A k \in 1..(Len(table) - 1) :
             table'[k] = IF k < i THEN table[k] ELSE table[k + 1]
    <3>1. Len(table') = Len(table) - 1
      BY <2>1, <1>6, Here, RemovedEntry
    <3>2. DOMAIN table' = 1..(Len(table) - 1)
      BY <3>1, <1>7
    <3> QED BY <2>1, <3>2, <1>6, Here, RemovedEntry
  <2>3. table'[1] = table[1]
    <3>1. i # 1
      BY <1>3, <1>5 DEF IInv, Rooted
    <3> QED BY <2>1, <2>2, <3>1
  <2>4. CASE at > i
    BY <2>1, <2>2, <2>3, <2>4, <1>1, <1>6 DEF Shifted
  <2>5. CASE at < i
    BY <2>1, <2>2, <2>3, <2>5, <1>1, <1>6 DEF Shifted
  <2> QED BY <2>1, <2>4, <2>5, <1>4, <1>1
<1>9. Living(at)'
  BY <1>8 DEF Living
<1>10. threads' \in Everybody
  <2>1. Nobody \in [Threads -> Thread]
    BY DEF Nobody, NoThread, Thread
  <2> QED BY <2>1, <1>3, <1>6 DEF Everybody
<1>11. dispositions' \in [Pids -> [Signals -> {"Default", "Ignored", "Caught"}]]
  <2>1. Defaults \in [Signals -> {"Default", "Ignored", "Caught"}]
    BY DEF Defaults
  <2> QED BY <2>1, <1>3, <1>6 DEF IInv, TypeOK
<1>12. turn' \in [Pids -> Threads]
  <2>1. 1 \in Threads
    BY ProcessesAssumption DEF Threads
  <2> QED BY <2>1, <1>3, <1>6 DEF IInv, TypeOK
<1>13. answer' \in [to : Pids, call : {"wait4", "kill"}, about : Pids \cup {0},
                    value : Int, status : Endings \cup {Alive}]
  <2>1. table'[at'].pid \in Pids
    BY <1>8, Here DEF Entry
  <2>2. table[i].pid \in Int
    BY <1>3 DEF Pids
  <2> QED BY <2>1, <2>2, <1>3, <1>6 DEF Tells
<1> QED BY <1>7, <1>8, <1>9, <1>10, <1>11, <1>12, <1>13

---------------------------------------------------------------------------
(* What a program does with its turn.                                      *)

\* A turn's own action leaves the engine, so only the table and the types
\* are left to look at.
LEMMA Leaves ==
  ASSUME IInv, TypeOK', Rooted(table', next'), phase' \notin {"Run", "Collect"}
  PROVE  IInv'
BY DEF IInv, OnlyTheRunnableRun, CollectsAlive

LEMMA ThreadPlaced ==
  ASSUME IInv, NEW p \in Pids, NEW t \in Threads, NEW thread \in Thread
  PROVE  [threads EXCEPT ![p] = [threads[p] EXCEPT ![t] = thread]] \in Everybody
<1>1. [threads[p] EXCEPT ![t] = thread] \in [Threads -> Thread]
  BY DEF IInv, TypeOK
<1> QED BY <1>1 DEF IInv, TypeOK, Everybody

LEMMA PreemptKeeps ==
  ASSUME IInv, Preempt
  PROVE  IInv'
<1>1. RunnableIn(threads[Current]) # {}
  BY Here DEF Preempt, Running, IInv, OnlyTheRunnableRun, RunnableIn
<1>2. Following(threads[Current], Me) \in Threads
  BY <1>1, Here, FollowingRuns DEF RunnableIn
<1>3. TypeOK'
  BY <1>2, Here DEF Preempt, Running, Stops, IInv, TypeOK
<1> QED BY <1>3, Leaves DEF Preempt, Stops, IInv

LEMMA CallKeeps ==
  ASSUME IInv, Call
  PROVE  IInv'
<1>1. TypeOK'
  BY DEF Call, Stops, IInv, TypeOK
<1> QED BY <1>1, Leaves DEF Call, Stops, IInv

LEMMA ParksKeeps ==
  ASSUME IInv, NEW thread \in Thread, Parks(thread)
  PROVE  IInv'
<1> DEFINE ths == [threads[Current] EXCEPT ![Me] = thread]
<1>1. ths \in [Threads -> Thread]
  BY Here
<1>2. [threads EXCEPT ![Current] = ths] \in Everybody
  BY Here, ThreadPlaced
<1>3. turn' \in [Pids -> Threads]
  <2>1. CASE RunnableIn(ths) = {}
    BY <2>1 DEF Parks, IInv, TypeOK
  <2>2. CASE RunnableIn(ths) # {}
    <3>1. Following(ths, Me) \in Threads
      BY <1>1, <2>2, Here, FollowingRuns DEF RunnableIn
    <3>2. turn' = [turn EXCEPT ![Current] = Following(ths, Me)]
      BY <2>2 DEF Parks
    <3> QED BY <3>1, <3>2, Here DEF IInv, TypeOK
  <2> QED BY <2>1, <2>2
<1>4. phase' = "Schedule" /\ why' \in {"Given", "Kept"}
  BY DEF Parks, Stops
<1>5. TypeOK'
  BY <1>2, <1>3, <1>4 DEF Parks, IInv, TypeOK, Everybody
<1> QED BY <1>4, <1>5, Leaves DEF Parks, IInv

LEMMA PauseKeeps ==
  ASSUME IInv, Pause
  PROVE  IInv'
<1>1. [threads[Current][Me] EXCEPT !.state = "Paused"] \in Thread
  BY Here DEF Thread
<1> QED BY <1>1, ParksKeeps DEF Pause

LEMMA SleepKeeps ==
  ASSUME IInv, Sleep
  PROVE  IInv'
<1>1. [threads[Current][Me] EXCEPT !.state = "Sleeping"] \in Thread
  BY Here DEF Thread
<1> QED BY <1>1, ParksKeeps DEF Sleep

LEMMA SigactionKeeps ==
  ASSUME IInv, NEW signal \in Handled, NEW handler \in Handlers,
         Sigaction(signal, handler)
  PROVE  IInv'
<1>1. signal \in Signals /\ handler \in {"Default", "Ignored", "Caught"}
  BY ProcessesAssumption
<1>2. dispositions' \in [Pids -> [Signals -> {"Default", "Ignored", "Caught"}]]
  <2>1. [dispositions[Current] EXCEPT ![signal] = handler]
          \in [Signals -> {"Default", "Ignored", "Caught"}]
    BY <1>1, Here DEF IInv, TypeOK
  <2>2. dispositions' = [dispositions EXCEPT ![Current] =
                           [dispositions[Current] EXCEPT ![signal] = handler]]
    BY DEF Sigaction
  <2> QED BY <2>1, <2>2 DEF IInv, TypeOK
<1>3. TypeOK'
  BY <1>2 DEF Sigaction, Stops, IInv, TypeOK
<1> QED BY <1>3, Leaves DEF Sigaction, Stops, IInv

LEMMA ForkKeeps ==
  ASSUME IInv, Fork
  PROVE  IInv'
<1> DEFINE entry == [pid |-> next, parent |-> Current, status |-> Alive]
<1>1. next \in Pids
  BY DEF Fork, IInv, TypeOK, Pids
<1>2. entry \in Entry
  BY <1>1, Here DEF Entry
<1>3. table' = Append(table, entry) /\ next' = next + 1
  BY DEF Fork
<1>4. table[at].status = Alive /\ entry.pid = next /\ entry.parent = table[at].pid
  BY DEF Fork, Running, Living, Current
<1> HIDE DEF entry
<1>5. table' \in Seq(Entry) /\ Rooted(table', next')
  BY <1>1, <1>2, <1>3, <1>4, Here, ForkedIsRooted DEF IInv
<1>6. at' \in DOMAIN table'
  BY <1>2, <1>3, Here DEF Fork
<1>7. next' \in 2..(MaxPid + 1)
  <2>1. next \in Int /\ 2 <= next /\ next <= MaxPid /\ MaxPid \in Int
    BY ProcessesAssumption DEF Fork, IInv, TypeOK
  <2> QED BY <2>1, <1>3
<1>8. threads' \in Everybody
  <2>1. OneThread(threads[Current][Me]) \in [Threads -> Thread]
    BY Here DEF OneThread, NoThread, Thread
  <2> QED BY <2>1, <1>1, Here DEF Fork, Everybody
<1>9. turn' \in [Pids -> Threads]
  BY <1>1, ProcessesAssumption DEF Fork, IInv, TypeOK, Threads
<1>10. dispositions' \in [Pids -> [Signals -> {"Default", "Ignored", "Caught"}]]
  BY <1>1, Here DEF Fork, IInv, TypeOK
<1>11. TypeOK'
  BY <1>5, <1>6, <1>7, <1>8, <1>9, <1>10 DEF Fork, Stops, IInv, TypeOK, Everybody
<1> QED BY <1>5, <1>11, Leaves DEF Fork, Stops

LEMMA ExecveKeeps ==
  ASSUME IInv, Execve
  PROVE  IInv'
<1>1. threads' \in Everybody
  <2>1. OneThread(NewThread) \in [Threads -> Thread]
    BY DEF OneThread, NewThread, NoThread, Thread
  <2> QED BY <2>1, Here DEF Execve, Everybody
<1>2. turn' \in [Pids -> Threads]
  BY Here, ProcessesAssumption DEF Execve, IInv, TypeOK, Threads
<1>3. dispositions' \in [Pids -> [Signals -> {"Default", "Ignored", "Caught"}]]
  BY Here DEF Execve, IInv, TypeOK
<1>4. TypeOK'
  BY <1>1, <1>2, <1>3 DEF Execve, Stops, IInv, TypeOK, Everybody
<1> QED BY <1>4, Leaves DEF Execve, Stops, IInv

LEMMA CloneKeeps ==
  ASSUME IInv, NEW t \in Threads, Clone(t)
  PROVE  IInv'
<1>1. NewThread \in Thread
  BY DEF NewThread, Thread
<1>2. threads' \in Everybody
  BY <1>1, Here, ThreadPlaced DEF Clone
<1>3. TypeOK'
  BY <1>2 DEF Clone, Stops, IInv, TypeOK, Everybody
<1> QED BY <1>3, Leaves DEF Clone, Stops, IInv

\* The running process ends.
LEMMA FinishKeeps ==
  ASSUME IInv, NEW ending \in Endings, NEW ths \in Everybody, Finish(ending, ths),
         UNCHANGED <<at, next, slice, dispositions, stopping>>,
         turn' \in [Pids -> Threads], answer' \in {answer, NoAnswer}
  PROVE  IInv'
<1>1. /\ table' \in Seq(Entry) /\ DOMAIN table' = DOMAIN table
      /\ Rooted(table', next')
      /\ threads' \in Everybody
  BY Here, FinishAtKeeps DEF Finish
<1>2. phase' \in {"Over", "Schedule"} /\ outcome' \in Endings \cup {Alive, Deadlocked}
  BY DEF Finish, IInv, TypeOK
<1>3. TypeOK'
  BY <1>1, <1>2 DEF Finish, IInv, TypeOK, Everybody
<1> QED BY <1>1, <1>2, <1>3, Leaves

LEMMA EndingKeeps ==
  ASSUME IInv, NEW ending \in Endings, NEW ths \in Everybody, Ending(ending, ths)
  PROVE  IInv'
<1>1. turn' \in [Pids -> Threads]
  BY DEF Ending, IInv, TypeOK
<1> QED BY <1>1, FinishKeeps DEF Ending

LEMMA ExitedIsAnEnding ==
  ASSUME NEW code \in Codes \cup {128 + SIGTERM}
  PROVE  Exited(code) \in Endings
BY DEF Exited, Endings

LEMMA SegvIsAnEnding == Signalled(SIGSEGV) \in Endings
BY DEF Signalled, Endings

LEMMA FatalIsAnEnding ==
  ASSUME NEW p, NEW signal \in Signals, Fatal(p, signal)
  PROVE  signal = SIGTERM /\ Signalled(signal) \in Endings
BY DEF Fatal, Terminates, Signals, SIGTERM, SIGCHLD, Signalled, Endings

LEMMA ExitKeeps ==
  ASSUME IInv, NEW code \in Codes, Exit(code)
  PROVE  IInv'
<1> DEFINE gone == [threads[Current][Me] EXCEPT !.state = "Exited"]
<1>1. gone \in Thread
  BY Here DEF Thread
<1>2. CASE Parks(gone)
  BY <1>1, <1>2, ParksKeeps
<1>3. CASE Ending(Exited(code), [threads EXCEPT ![Current][Me] = gone])
  <2>1. [threads EXCEPT ![Current][Me] = gone] \in Everybody
    BY <1>1, Here, ThreadPlaced
  <2> QED BY <1>3, <2>1, ExitedIsAnEnding, EndingKeeps
<1> QED BY <1>2, <1>3 DEF Exit

LEMMA KillSelfKeeps ==
  ASSUME IInv, NEW signal \in Signals, KillSelf(signal)
  PROVE  IInv'
<1>1. CASE Fatal(Current, signal)
  <2>1. Exited(128 + signal) \in Endings
    BY <1>1, FatalIsAnEnding, ExitedIsAnEnding
  <2> QED BY <1>1, <2>1, Here, EndingKeeps DEF KillSelf
<1>2. CASE ~Fatal(Current, signal)
  <2>1. threads' \in Everybody
    BY <1>2, Here, RaisedType DEF KillSelf
  <2>2. TypeOK'
    BY <1>2, <2>1 DEF KillSelf, Stops, IInv, TypeOK, Everybody
  <2> QED BY <1>2, <2>2, Leaves DEF KillSelf, Stops, IInv
<1> QED BY <1>1, <1>2

LEMMA KillKeeps ==
  ASSUME IInv, NEW p \in Pids, NEW signal \in Signals, Kill(p, signal)
  PROVE  IInv'
<1>1. /\ table' \in Seq(Entry) /\ DOMAIN table' = DOMAIN table
      /\ Rooted(table', next')
      /\ threads' \in Everybody
  BY DeliverKeeps DEF Kill
<1>2. at' \in DOMAIN table'
  BY <1>1, Here DEF Kill
<1>3. answer' \in [to : Pids, call : {"wait4", "kill"}, about : Pids \cup {0},
                   value : Int, status : Endings \cup {Alive}]
  <2>1. table'[at'] \in Entry
    BY <1>1, <1>2
  <2>2. table'[at'].pid \in Pids
    BY <2>1 DEF Entry
  <2>3. ESRCH \in Int
    BY DEF ESRCH
  <2> QED BY <2>2, <2>3 DEF Kill, Tells
<1>4. TypeOK'
  BY <1>1, <1>2, <1>3 DEF Kill, Stops, IInv, TypeOK, Everybody
<1> QED BY <1>1, <1>4, Leaves DEF Kill, Stops

LEMMA WaitKeeps ==
  ASSUME IInv, NEW wanted \in Pids \cup {0}, NEW nohang \in BOOLEAN,
         Wait(wanted, nohang)
  PROVE  IInv'
<1>1. phase' = "Schedule" /\ why' = "Kept" /\ Living(at)
      /\ UNCHANGED <<next, slice, stopping, outcome>>
  BY DEF Wait, Stops, Running
<1>2. CASE Reapable(Current, wanted) # {}
  <2>1. Reap(wanted, threads)
    BY <1>2 DEF Wait
  <2>2. /\ table' \in Seq(Entry) /\ Rooted(table', next)
        /\ at' \in DOMAIN table'
        /\ threads' \in Everybody
        /\ dispositions' \in [Pids -> [Signals -> {"Default", "Ignored", "Caught"}]]
        /\ turn' \in [Pids -> Threads]
        /\ answer' \in [to : Pids, call : {"wait4", "kill"}, about : Pids \cup {0},
                        value : Int, status : Endings \cup {Alive}]
    BY <1>1, <1>2, <2>1, Here, ReapKeeps
  <2>3. TypeOK'
    BY <1>1, <2>2 DEF IInv, TypeOK, Everybody
  <2> QED BY <1>1, <2>2, <2>3, Leaves
<1>3. CASE Reapable(Current, wanted) = {}
  <2>1. UNCHANGED <<table, at, turn, dispositions>>
    BY <1>3 DEF Wait
  <2> DEFINE parked == [threads[Current][Me] EXCEPT !.state = "WaitingForChild",
                                                    !.wanted = wanted]
  <2>2. parked \in Thread
    BY Here DEF Thread
  <2>3. \/ threads' = [threads EXCEPT ![Current][Me] = parked]
        \/ threads' = threads
    BY <1>3 DEF Wait
  <2>4. threads' \in Everybody
    BY <2>2, <2>3, Here, ThreadPlaced
  <2>5. answer' \in [to : Pids, call : {"wait4", "kill"}, about : Pids \cup {0},
                     value : Int, status : Endings \cup {Alive}] \cup {NoAnswer}
    <3>1. table'[at'].pid \in Pids
      BY <2>1, Here DEF Current
    <3>2. ECHILD \in Int
      BY DEF ECHILD
    <3> QED BY <3>1, <3>2, <1>3 DEF Wait, Tells, IInv, TypeOK
  <2>6. TypeOK'
    BY <1>1, <2>1, <2>4, <2>5 DEF IInv, TypeOK, Everybody
  <2> QED BY <1>1, <2>1, <2>6, Leaves DEF IInv
<1> QED BY <1>2, <1>3

---------------------------------------------------------------------------
(* What the kernel does between them.                                      *)

LEMMA RunsOnKeeps ==
  ASSUME IInv, RunsOn
  PROVE  IInv'
<1>1. PICK ending \in {table[at].status, Signalled(SIGSEGV)} : Ending(ending, threads)
  BY DEF RunsOn
<1>2. ending \in Endings
  <2>1. table[at].status \in Endings
    BY Here DEF RunsOn, Living, Entry
  <2> QED BY <1>1, <2>1, SegvIsAnEnding
<1> QED BY <1>1, <1>2, Here, EndingKeeps

LEMMA WokenType ==
  ASSUME IInv
  PROVE  Woken(Current) \in [Threads -> Thread]
<1>1. ASSUME NEW u \in Threads
      PROVE  Woken(Current)[u] \in Thread
  <2>1. threads[Current][u] \in Thread
    BY Here
  <2>2. [threads[Current][u] EXCEPT !.state = "Runnable"] \in Thread
    BY <2>1 DEF Thread
  <2> QED BY <2>1, <2>2 DEF Woken
<1> QED BY <1>1 DEF Woken

\* The head of a step enters the engine with a thread that can run.
LEMMA StepKeeps ==
  ASSUME IInv, Step
  PROVE  IInv'
<1> DEFINE ths == Woken(Current)
           t   == Chosen(ths)
           signal == CHOOSE r \in ths[t].pending : \A q \in ths[t].pending : r <= q
           left   == [ths[t] EXCEPT !.pending = ths[t].pending \ {signal}]
           taken  == [threads EXCEPT ![Current] = [ths EXCEPT ![t] = left]]
<1>1. ths \in [Threads -> Thread]
  BY WokenType
<1>2. UNCHANGED <<at, next, slice, dispositions, stopping>> /\ answer' = NoAnswer
  BY DEF Step
<1>3. CASE RunnableIn(ths) = {}
  <2>1. /\ phase' = "Schedule" /\ why' = "Given"
        /\ UNCHANGED <<table, threads, turn, outcome>>
    BY <1>3 DEF Step
  <2>2. TypeOK'
    BY <1>2, <2>1 DEF IInv, TypeOK
  <2> QED BY <1>2, <2>1, <2>2, Leaves DEF IInv
<1>4. CASE RunnableIn(ths) # {}
  <2>1. t \in Threads /\ ths[t].state = "Runnable" /\ ths[t] \in Thread
    BY <1>1, <1>4, Here, ChosenRuns DEF RunnableIn
  <2>2. turn' = [turn EXCEPT ![Current] = t] /\ turn' \in [Pids -> Threads]
    BY <1>4, <2>1, Here DEF Step, IInv, TypeOK
  <2>3. left \in Thread /\ left.state = "Runnable"
    BY <2>1 DEF Thread
  <2>4. taken \in Everybody /\ [threads EXCEPT ![Current] = ths] \in Everybody
    <3>1. [ths EXCEPT ![t] = left] \in [Threads -> Thread]
      BY <1>1, <2>3
    <3> QED BY <1>1, <3>1, Here DEF Everybody
  <2>5. \/ /\ threads' = [threads EXCEPT ![Current] = ths]
           /\ phase' = "Run" /\ UNCHANGED <<table, why, outcome>>
        \/ /\ threads' = taken
           /\ phase' = "Run" /\ UNCHANGED <<table, why, outcome>>
        \/ /\ ths[t].pending # {} /\ Fatal(Current, signal)
           /\ Finish(Signalled(signal), taken)
    BY <1>4 DEF Step
  <2>6. CASE phase' = "Run" /\ UNCHANGED <<table, why, outcome>>
             /\ threads' \in {[threads EXCEPT ![Current] = ths], taken}
    <3>1. threads' \in Everybody
      BY <2>4, <2>6
    <3>2. TypeOK'
      BY <1>2, <2>2, <2>6, <3>1 DEF IInv, TypeOK, Everybody
    <3>3. Current' = Current /\ Me' = t
      BY <1>2, <2>2, <2>6, Here DEF Current, Me, IInv, TypeOK
    <3>4. threads'[Current][t].state = "Runnable"
      <4> HIDE DEF t, ths, left
      <4>1. threads'[Current] \in {ths, [ths EXCEPT ![t] = left]}
        BY <2>6, Here DEF Everybody
      <4> QED BY <4>1, <1>1, <2>1, <2>3
    <3>5. OnlyTheRunnableRun'
      BY <3>3, <3>4 DEF OnlyTheRunnableRun
    <3> QED BY <1>2, <2>6, <3>2, <3>5 DEF IInv, CollectsAlive
  <2>7. CASE ths[t].pending # {} /\ Fatal(Current, signal)
             /\ Finish(Signalled(signal), taken)
    <3>1. signal \in Signals
      <4>1. ths[t].pending \subseteq Signals
        BY <2>1 DEF Thread
      <4>2. ths[t].pending \subseteq Nat
        BY <4>1 DEF Signals, SIGTERM, SIGCHLD
      <4>3. signal \in ths[t].pending
        BY <2>7, <4>2, LeastExists
      <4> QED BY <4>1, <4>3
    <3>2. Signalled(signal) \in Endings
      BY <2>7, <3>1, FatalIsAnEnding
    <3> HIDE DEF taken, signal
    <3> QED BY <1>2, <2>2, <2>4, <2>7, <3>2, FinishKeeps
  <2> QED BY <2>5, <2>6, <2>7
<1> QED BY <1>3, <1>4

\* schedule gives the turn to a process that is alive.
LEMMA ScheduleKeeps ==
  ASSUME IInv, Schedule
  PROVE  IInv'
<1> DEFINE used   == IF why = "Quantum" THEN slice + 1 ELSE slice
           rotate == Rotates(used)
           ready  == {i \in DOMAIN table : Ready(i)}
<1>1. /\ UNCHANGED <<table, next, threads, turn, dispositions, stopping, outcome, answer>>
      /\ why' = "Kept"
  BY DEF Schedule
<1>2. slice \in 0..(SLICE - 1) /\ SLICE \in Nat \ {0} /\ used \in Nat
  BY ProcessesAssumption DEF IInv, TypeOK
<1>3. ~rotate => used \in 0..(SLICE - 1)
  BY <1>2 DEF Rotates
<1>4. 0 \in 0..(SLICE - 1)
  BY <1>2
<1>5. CASE ready = {}
  <2>1. phase' = "Idle" /\ at' = at /\ slice' = IF rotate THEN 0 ELSE used
    BY <1>5 DEF Schedule
  <2>2. slice' \in 0..(SLICE - 1)
    BY <1>3, <1>4, <2>1
  <2>3. TypeOK'
    BY <1>1, <2>1, <2>2 DEF IInv, TypeOK
  <2> QED BY <1>1, <2>1, <2>3, Leaves DEF IInv
<1>6. CASE ready # {}
  <2>1. /\ phase' = "Collect"
        /\ at' = CHOOSE i \in ready :
                   \A j \in ready : StepsTo(i, rotate) <= StepsTo(j, rotate)
        /\ slice' = IF rotate \/ at' # at THEN 0 ELSE used
    BY <1>6 DEF Schedule
  <2>2. at' \in ready
    <3> DEFINE S == {StepsTo(i, rotate) : i \in ready}
    <3>1. DOMAIN table = 1..Len(table) /\ Len(table) \in Nat /\ at \in 1..Len(table)
      BY Here
    <3>2. \A i \in DOMAIN table : StepsTo(i, rotate) \in Nat
      <4> SUFFICES ASSUME NEW i \in DOMAIN table
                   PROVE  StepsTo(i, rotate) \in Nat
        OBVIOUS
      <4> DEFINE d == i - at - (IF rotate THEN 1 ELSE 0)
      <4>1. d \in Int /\ Len(table) \in Nat \ {0}
        BY <3>1
      <4> HIDE DEF d
      <4>2. d % Len(table) \in Nat
        BY <4>1
      <4> QED BY <4>2 DEF StepsTo, d
    <3>3. S \subseteq Nat /\ S # {}
      BY <1>6, <3>2
    <3>4. PICK x \in S : \A y \in S : x <= y
      BY <3>3, LeastExists
    <3> HIDE DEF ready, rotate
    <3>5. \E i \in ready : \A j \in ready : StepsTo(i, rotate) <= StepsTo(j, rotate)
      BY <3>4
    <3> QED BY <2>1, <3>5
  <2>3. at' \in DOMAIN table /\ Living(at')
    BY <2>2 DEF Ready
  <2>4. slice' \in 0..(SLICE - 1)
    BY <1>3, <1>4, <2>1
  <2>5. TypeOK'
    BY <1>1, <2>1, <2>3, <2>4 DEF IInv, TypeOK
  <2>6. CollectsAlive'
    BY <1>1, <2>3 DEF CollectsAlive, Living
  <2> QED BY <1>1, <2>1, <2>5, <2>6 DEF IInv, OnlyTheRunnableRun
<1> QED BY <1>5, <1>6

\* What collect reaps, it reaps for the process that has the turn.
LEMMA CollectReaps ==
  ASSUME IInv, Collect, Collectable(at) # {}
  PROVE  /\ table' \in Seq(Entry) /\ Rooted(table', next)
         /\ at' \in DOMAIN table' /\ table'[at'] = table[at] /\ Living(at)'
         /\ table'[1] = table[1]
         /\ threads' \in Everybody
         /\ dispositions' \in [Pids -> [Signals -> {"Default", "Ignored", "Caught"}]]
         /\ turn' \in [Pids -> Threads]
         /\ answer' \in [to : Pids, call : {"wait4", "kill"}, about : Pids \cup {0},
                         value : Int, status : Endings \cup {Alive}]
<1> DEFINE t    == Oldest(Collectable(at))
           done == [threads[Current][t] EXCEPT !.state = "Runnable", !.wanted = 0]
           ths  == [threads EXCEPT ![Current] = [threads[Current] EXCEPT ![t] = done]]
<1>1. t \in Collectable(at)
  <2>1. Collectable(at) \subseteq Nat
    BY DEF Collectable, Waiting, Threads
  <2> QED BY <2>1, OldestIsOne
<1>2. t \in Threads /\ Reapable(Current, threads[Current][t].wanted) # {}
  BY <1>1 DEF Collectable, Waiting, Current
<1>3. Reap(threads[Current][t].wanted, ths) /\ Living(at)
  BY DEF Collect, IInv, CollectsAlive
<1>4. threads[Current][t].wanted \in Pids \cup {0} /\ done \in Thread
  <2>1. threads[Current][t] \in Thread
    BY <1>2, Here
  <2> QED BY <2>1 DEF Thread
<1>5. ths \in Everybody
  BY <1>2, <1>4, Here, ThreadPlaced
<1> HIDE DEF ths, t
<1> QED BY <1>2, <1>3, <1>4, <1>5, ReapKeeps

LEMMA CollectKeeps ==
  ASSUME IInv, Collect
  PROVE  IInv'
<1>1. UNCHANGED <<next, slice, why, stopping, outcome>>
  BY DEF Collect
<1>2. CASE Collectable(at) = {}
  <2>1. /\ phase' = "Step"
        /\ UNCHANGED <<table, at, threads, turn, dispositions, answer>>
    BY <1>2 DEF Collect
  <2>2. TypeOK'
    BY <1>1, <2>1 DEF IInv, TypeOK
  <2> QED BY <1>1, <2>1, <2>2, Leaves DEF IInv
<1>3. CASE Collectable(at) # {}
  <2>1. phase' = phase
    BY <1>3 DEF Collect
  <2>2. TypeOK'
    BY <1>1, <1>3, <2>1, CollectReaps DEF IInv, TypeOK, Everybody
  <2> QED BY <1>1, <1>3, <2>1, <2>2, CollectReaps
             DEF IInv, OnlyTheRunnableRun, CollectsAlive, Collect
<1> QED BY <1>2, <1>3

LEMMA TakeShutdownKeeps ==
  ASSUME IInv, TakeShutdown
  PROVE  IInv'
<1>1. FIRST \in Pids /\ SIGTERM \in Signals
  BY ProcessesAssumption DEF FIRST, Pids, Signals
<1>2. /\ table' \in Seq(Entry) /\ DOMAIN table' = DOMAIN table
      /\ Rooted(table', next')
      /\ threads' \in Everybody
  BY <1>1, DeliverKeeps DEF TakeShutdown
<1>3. TypeOK'
  BY <1>2 DEF TakeShutdown, IInv, TypeOK, Everybody
<1> QED BY <1>2, <1>3, Leaves DEF TakeShutdown

LEMMA IdleKeeps ==
  ASSUME IInv, Idle
  PROVE  IInv'
<1>1. UNCHANGED <<table, at, next, slice, turn, dispositions, why, stopping, answer>>
  BY DEF Idle
<1>2. phase' \in {"Step", "Over"} /\ outcome' \in Endings \cup {Alive, Deadlocked}
  BY DEF Idle, IInv, TypeOK
<1>3. threads' \in Everybody
  <2>1. CASE threads' = threads
    BY <2>1, Here
  <2>2. CASE \E expired \in SUBSET Sleepers :
               threads' = [p \in Pids |-> [t \in Threads |->
                 IF <<p, t>> \in expired
                 THEN [threads[p][t] EXCEPT !.state = "Runnable"]
                 ELSE threads[p][t]]]
    <3>1. \A p \in Pids : \A t \in Threads :
            /\ threads[p][t] \in Thread
            /\ [threads[p][t] EXCEPT !.state = "Runnable"] \in Thread
      <4> SUFFICES ASSUME NEW p \in Pids, NEW t \in Threads
                   PROVE  /\ threads[p][t] \in Thread
                          /\ [threads[p][t] EXCEPT !.state = "Runnable"] \in Thread
        OBVIOUS
      <4>1. threads[p][t] \in Thread
        BY Here DEF Everybody
      <4> QED BY <4>1 DEF Thread
    <3> QED BY <2>2, <3>1 DEF Everybody
  <2> QED BY <2>1, <2>2 DEF Idle
<1>4. TypeOK'
  BY <1>1, <1>2, <1>3 DEF IInv, TypeOK, Everybody
<1> QED BY <1>1, <1>2, <1>4, Leaves DEF IInv

---------------------------------------------------------------------------
(* The theorems.                                                           *)

LEMMA InitKeeps == Init => IInv
<1> SUFFICES ASSUME Init PROVE IInv
  OBVIOUS
<1> DEFINE entry == [pid |-> FIRST, parent |-> 0, status |-> Alive]
<1>1. FIRST \in Pids /\ 1 \in Threads
  BY ProcessesAssumption DEF FIRST, Pids, Threads
<1>2. table = << entry >> /\ entry \in Entry
  BY <1>1 DEF Init, Entry
<1>3. table \in Seq(Entry) /\ DOMAIN table = {1} /\ table[1] = entry
  <2> HIDE DEF entry
  <2> QED BY <1>2
<1>4. Rooted(table, next)
  BY <1>3 DEF Rooted, Init, FIRST
<1>5. threads \in Everybody
  BY DEF Init, Everybody, OneThread, NewThread, NoThread, Nobody, Thread
<1>6. next \in 2..(MaxPid + 1) /\ slice \in 0..(SLICE - 1)
  BY ProcessesAssumption DEF Init, FIRST
<1>7. dispositions \in [Pids -> [Signals -> {"Default", "Ignored", "Caught"}]]
  BY DEF Init, Defaults
<1>8. TypeOK
  BY <1>1, <1>3, <1>5, <1>6, <1>7 DEF Init, TypeOK, Everybody
<1> QED BY <1>4, <1>8 DEF Init, IInv, OnlyTheRunnableRun, CollectsAlive

LEMMA ProgramKeeps ==
  ASSUME IInv, Program
  PROVE  IInv'
<1>1. CASE Preempt BY <1>1, PreemptKeeps
<1>2. CASE Call BY <1>2, CallKeeps
<1>3. CASE Pause BY <1>3, PauseKeeps
<1>4. CASE Sleep BY <1>4, SleepKeeps
<1>5. CASE Fork BY <1>5, ForkKeeps
<1>6. CASE Execve BY <1>6, ExecveKeeps
<1>7. CASE Fault BY <1>7, SegvIsAnEnding, Here, EndingKeeps DEF Fault
<1>8. CASE \E t \in Threads : Clone(t)
  BY <1>8, CloneKeeps
<1>9. CASE \E code \in Codes : ExitGroup(code)
  BY <1>9, ExitedIsAnEnding, Here, EndingKeeps DEF ExitGroup
<1>10. CASE \E code \in Codes : Exit(code)
  BY <1>10, ExitKeeps
<1>11. CASE \E signal \in Signals : KillSelf(signal)
  BY <1>11, KillSelfKeeps
<1>12. CASE \E signal \in Signals : \E p \in Pids : Kill(p, signal)
  BY <1>12, KillKeeps
<1>13. CASE \E signal \in Handled, handler \in Handlers : Sigaction(signal, handler)
  BY <1>13, SigactionKeeps
<1>14. CASE \E wanted \in Pids \cup {0}, nohang \in BOOLEAN : Wait(wanted, nohang)
  BY <1>14, WaitKeeps
<1> QED BY <1>1, <1>2, <1>3, <1>4, <1>5, <1>6, <1>7, <1>8, <1>9, <1>10, <1>11,
           <1>12, <1>13, <1>14 DEF Program

LEMMA NextKeeps == IInv /\ [Next]_vars => IInv'
<1> SUFFICES ASSUME IInv, [Next]_vars PROVE IInv'
  OBVIOUS
<1>1. CASE Program BY <1>1, ProgramKeeps
<1>2. CASE Step BY <1>2, StepKeeps
<1>3. CASE RunsOn BY <1>3, RunsOnKeeps
<1>4. CASE Schedule BY <1>4, ScheduleKeeps
<1>5. CASE Collect BY <1>5, CollectKeeps
<1>6. CASE TakeShutdown BY <1>6, TakeShutdownKeeps
<1>7. CASE Idle BY <1>7, IdleKeeps
<1>8. CASE UNCHANGED vars
  <2>1. TypeOK' /\ Rooted(table', next')
    BY <1>8 DEF vars, IInv, TypeOK
  <2>2. OnlyTheRunnableRun' /\ CollectsAlive'
    BY <1>8 DEF vars, IInv, OnlyTheRunnableRun, CollectsAlive, Current, Me, Living
  <2> QED BY <2>1, <2>2 DEF IInv
<1> QED BY <1>1, <1>2, <1>3, <1>4, <1>5, <1>6, <1>7, <1>8 DEF Next, Kernel

\* The inductive invariant, of every program and every schedule.
THEOREM Invariance == Spec => []IInv
<1>1. Init => IInv
  BY InitKeeps
<1>2. IInv /\ [Next]_vars => IInv'
  BY NextKeeps
<1> QED BY <1>1, <1>2, PTL DEF Spec

\* The process that has the turn is in the table, through every removal that
\* moves it, and nobody is charged more than a slice (system.rs:356, 229).
THEOREM TypeCorrect == Spec => []TypeOK
<1>1. IInv => TypeOK
  BY DEF IInv
<1> QED BY <1>1, Invariance, PTL

\* No thread is interpreted in the middle of a call it is parked in, whatever
\* happened to its process while it had no turn (run.rs:306).
THEOREM OnlyRunnable == Spec => []OnlyTheRunnableRun
<1>1. IInv => OnlyTheRunnableRun
  BY DEF IInv
<1> QED BY <1>1, Invariance, PTL

---------------------------------------------------------------------------
(* Nobody is orphaned, as long as nothing but itself ends the first        *)
(* process: no program kills it and the host does not ask for a shutdown.  *)
(* One that is killed ends without ending the container (system.rs:791),   *)
(* and its children then have a parent that will never ask for them.       *)

FirstLives == phase # "Over" => Living(1)

LEMMA FinishAtSpares ==
  ASSUME IInv, NEW i \in DOMAIN table \ {1}, NEW ending, NEW ths,
         FinishAt(i, ending, ths), Living(1)
  PROVE  Living(1)'
<1>1. 1 \in DOMAIN table /\ table[1] \in Entry
  BY EveryEntry DEF IInv, Rooted
<1>2. table'[1].status = table[1].status
  BY <1>1 DEF FinishAt, Entry
<1> QED BY <1>2 DEF Living

LEMMA FinishSpares ==
  ASSUME IInv, FirstLives, phase # "Over", NEW ending, NEW ths, Finish(ending, ths)
  PROVE  FirstLives'
<1>1. CASE Current = FIRST
  BY <1>1 DEF Finish, FirstLives
<1>2. CASE Current # FIRST
  <2>1. at \in DOMAIN table \ {1}
    BY <1>2, Here DEF Current, IInv, Rooted
  <2> QED BY <2>1, FinishAtSpares DEF Finish, FirstLives
<1> QED BY <1>1, <1>2

LEMMA TableKept ==
  ASSUME FirstLives, phase # "Over", table' = table
  PROVE  FirstLives'
BY DEF FirstLives, Living

LEMMA FirstStays ==
  ASSUME ~Asks, FIRST \notin Targets, IInv, FirstLives, [Next]_vars
  PROVE  FirstLives'
<1>1. CASE UNCHANGED vars
  BY <1>1 DEF vars, FirstLives, Living
<1>2. CASE Preempt \/ Call \/ Pause \/ Sleep \/ Execve
           \/ (\E t \in Threads : Clone(t))
           \/ (\E signal \in Handled, handler \in Handlers : Sigaction(signal, handler))
  BY <1>2, TableKept
     DEF Preempt, Call, Pause, Sleep, Execve, Clone, Sigaction, Running, Parks
<1>3. CASE Fork
  <2>1. table'[1] = table[1]
    BY <1>3, Here DEF Fork, IInv, Rooted
  <2> QED BY <1>3, <2>1 DEF Fork, Running, FirstLives, Living
<1>4. CASE Fault \/ \E code \in Codes : ExitGroup(code)
  BY <1>4, FinishSpares DEF Fault, ExitGroup, Running, Ending
<1>5. CASE \E code \in Codes : Exit(code)
  BY <1>5, FinishSpares, TableKept DEF Exit, Running, Ending, Parks
<1>6. CASE \E signal \in Signals : KillSelf(signal)
  BY <1>6, FinishSpares, TableKept DEF KillSelf, Running, Ending
<1>7. CASE \E signal \in Signals : \E p \in Pids : Kill(p, signal)
  <2>1. PICK signal \in Signals, p \in Pids : Kill(p, signal)
    BY <1>7
  <2>2. Deliver(p, signal) /\ p # FIRST /\ phase # "Over"
    BY <2>1 DEF Kill, Running
  <2>3. CASE table' = table
    BY <2>2, <2>3, TableKept
  <2>4. CASE /\ Exists(p) /\ Living(IndexOf(p))
             /\ FinishAt(IndexOf(p), Signalled(signal), threads)
    <3>1. IndexOf(p) \in DOMAIN table \ {1}
      BY <2>2, <2>4, IndexIsThere DEF IInv, Rooted
    <3> QED BY <2>2, <2>4, <3>1, FinishAtSpares DEF FirstLives
  <2> QED BY <2>2, <2>3, <2>4 DEF Deliver
<1>8. CASE \E wanted \in Pids \cup {0}, nohang \in BOOLEAN : Wait(wanted, nohang)
  <2>1. PICK wanted \in Pids \cup {0}, nohang \in BOOLEAN : Wait(wanted, nohang)
    BY <1>8
  <2>2. phase # "Over" /\ Living(at)
    BY <2>1 DEF Wait, Running
  <2>3. CASE Reapable(Current, wanted) # {}
    <3>1. table'[1] = table[1]
      BY <2>1, <2>2, <2>3, Here, ReapKeeps DEF Wait
    <3> QED BY <2>2, <3>1 DEF FirstLives, Living
  <2>4. CASE Reapable(Current, wanted) = {}
    BY <2>1, <2>2, <2>4, TableKept DEF Wait
  <2> QED BY <2>3, <2>4
<1>9. CASE Step
  BY <1>9, FinishSpares, TableKept DEF Step
<1>10. CASE RunsOn
  BY <1>10, FinishSpares DEF RunsOn, Ending
<1>11. CASE Schedule \/ Idle
  BY <1>11, TableKept DEF Schedule, Idle
<1>12. CASE Collect
  <2>1. phase # "Over" /\ Living(at)
    BY <1>12 DEF Collect, IInv, CollectsAlive
  <2>2. CASE Collectable(at) = {}
    BY <1>12, <2>1, <2>2, TableKept DEF Collect
  <2>3. CASE Collectable(at) # {}
    <3>1. table'[1] = table[1]
      BY <1>12, <2>3, CollectReaps
    <3> QED BY <2>1, <3>1 DEF FirstLives, Living
  <2> QED BY <2>2, <2>3
<1>13. CASE TakeShutdown
  BY <1>13 DEF TakeShutdown
<1> QED BY <1>1, <1>2, <1>3, <1>4, <1>5, <1>6, <1>7, <1>8, <1>9, <1>10, <1>11,
           <1>12, <1>13 DEF Next, Program, Kernel

\* Whoever ends, in whatever order, every process but the first has a parent
\* that is alive to reap it (system.rs:988-999).
THEOREM NobodyIsOrphaned ==
  ASSUME ~Asks, FIRST \notin Targets
  PROVE  Spec => []EveryParentLives
<1>1. Init => FirstLives
  BY DEF Init, FirstLives, Living
<1>2. IInv /\ FirstLives /\ [Next]_vars => FirstLives'
  BY FirstStays
<1>3. IInv /\ FirstLives => EveryParentLives
  <2> SUFFICES ASSUME IInv, FirstLives, phase # "Over", NEW i \in DOMAIN table,
                      table[i].pid # FIRST
               PROVE  \E j \in DOMAIN table :
                        table[j].pid = table[i].parent /\ Living(j)
    BY DEF EveryParentLives
  <2>1. i # 1
    BY DEF IInv, Rooted
  <2>2. PICK j \in DOMAIN table :
          table[j].pid = table[i].parent /\ (table[j].status = Alive \/ j = 1)
    BY <2>1 DEF IInv, Rooted
  <2> QED BY <2>2 DEF FirstLives, Living
<1> QED BY <1>1, <1>2, <1>3, Invariance, PTL DEF Spec

---------------------------------------------------------------------------
(* Who waits for a child has one.  Where a process has one thread, its     *)
(* children are reaped by nobody but that thread, and a parked one reaps   *)
(* only to be answered.                                                    *)

\* A process that is in a table and has not ended, and a child of one.
Lives(tab, p) == \E i \in DOMAIN tab : tab[i].pid = p /\ tab[i].status = Alive
HasChild(tab, p, wanted) ==
  \E j \in DOMAIN tab : tab[j].parent = p /\ wanted \in {0, tab[j].pid}

\* WaitersHaveChildren by process, which no removal moves.
Answerable(tab, ths) ==
  \A p \in Pids, t \in Threads :
    Lives(tab, p) /\ ths[p][t].state = "WaitingForChild"
      => HasChild(tab, p, ths[p][t].wanted)

\* No thread of `ths` waits that did not wait already, for the same child.
NoNewWaits(ths) ==
  \A p \in Pids, t \in Threads :
    ths[p][t].state = "WaitingForChild" =>
      /\ threads[p][t].state = "WaitingForChild"
      /\ threads[p][t].wanted = ths[p][t].wanted

\* A table that lets nobody live who did not, and leaves every process that
\* lives the children it had.
LEMMA WaitsOn ==
  ASSUME Answerable(table, threads), NoNewWaits(threads'),
         \A p \in Pids : Lives(table', p) =>
           /\ Lives(table, p)
           /\ \A wanted :
                HasChild(table, p, wanted) => HasChild(table', p, wanted)
  PROVE  Answerable(table', threads')
BY DEF Answerable, NoNewWaits

LEMMA SameTableWaits ==
  ASSUME Answerable(table, threads), NoNewWaits(threads'), table' = table
  PROVE  Answerable(table', threads')
BY WaitsOn

\* One thread's record replaced by one that does not wait for a child.
LEMMA PlacedWaits ==
  ASSUME IInv, NEW p \in Pids, NEW t \in Threads, NEW thread,
         thread.state # "WaitingForChild"
  PROVE  NoNewWaits([threads EXCEPT ![p] = [threads[p] EXCEPT ![t] = thread]])
BY DEF NoNewWaits, IInv, TypeOK

\* A signal that is raised parks nobody.
LEMMA RaisedWaits ==
  ASSUME IInv, NEW ths \in Everybody, NEW p \in Pids, NEW signal, NoNewWaits(ths)
  PROVE  NoNewWaits(Raised(ths, p, signal))
<1>1. turn[p] \in Threads
  BY DEF IInv, TypeOK
<1>2. ths[p] \in [Threads -> Thread] /\ ths[p][turn[p]] \in Thread
  BY <1>1 DEF Everybody
<1> DEFINE new == [ths[p][turn[p]] EXCEPT
                     !.pending = ths[p][turn[p]].pending \cup {signal}]
<1>3. new.state = ths[p][turn[p]].state /\ new.wanted = ths[p][turn[p]].wanted
  BY <1>2 DEF Thread
<1>4. Raised(ths, p, signal) =
        IF dispositions[p][signal] = "Caught"
        THEN [ths EXCEPT ![p] = [ths[p] EXCEPT ![turn[p]] = new]]
        ELSE ths
  BY DEF Raised
<1> HIDE DEF new
<1>5. \A q \in Pids, t \in Threads :
        /\ Raised(ths, p, signal)[q][t].state = ths[q][t].state
        /\ Raised(ths, p, signal)[q][t].wanted = ths[q][t].wanted
  BY <1>1, <1>2, <1>3, <1>4 DEF Everybody
<1> QED BY <1>5 DEF NoNewWaits

(***************************************************************************)
(* finish_at takes children from the process that ends and from no other.  *)
(***************************************************************************)
LEMMA FinishAtWaits ==
  ASSUME IInv, Answerable(table, threads), NEW i \in DOMAIN table,
         NEW ending \in Endings, NEW ths \in Everybody, NoNewWaits(ths),
         FinishAt(i, ending, ths)
  PROVE  Answerable(table', threads')
<1>1. NoNewWaits(threads')
  <2>1. CASE \E j \in DOMAIN table : table[j].pid = table[i].parent /\ Living(j)
    <3>1. table[i].parent \in Pids
      BY <2>1, EveryEntry
    <3> QED BY <2>1, <3>1, RaisedWaits DEF FinishAt
  <2>2. CASE ~\E j \in DOMAIN table : table[j].pid = table[i].parent /\ Living(j)
    BY <2>2 DEF FinishAt
  <2> QED BY <2>1, <2>2
<1>2. /\ DOMAIN table' = DOMAIN table
      /\ \A j \in DOMAIN table :
           /\ table'[j].pid = table[j].pid
           /\ table'[j].parent = Adopted(table[j].parent, table[i].pid)
           /\ table'[j].status = IF j = i THEN ending ELSE table[j].status
  <2>1. \A j \in DOMAIN table : table[j] \in Entry
    BY EveryEntry
  <2> QED BY <2>1 DEF FinishAt, Entry
<1>3. ending # Alive
  BY ProcessesAssumption
<1>4. \A p \in Pids : Lives(table', p) => Lives(table, p) /\ p # table[i].pid
  <2> SUFFICES ASSUME NEW p \in Pids, NEW j \in DOMAIN table,
                      table'[j].pid = p, table'[j].status = Alive
               PROVE  Lives(table, p) /\ p # table[i].pid
    BY <1>2 DEF Lives
  <2>1. j # i /\ table[j].pid = p /\ table[j].status = Alive
    BY <1>2, <1>3
  <2>2. table[j].pid # table[i].pid
    <3>1. /\ table[i].pid \in Pids /\ table[j].pid \in Pids /\ Pids \subseteq Int
          /\ i \in Int /\ j \in Int
      BY EveryEntry, Here DEF Pids
    <3> QED BY <2>1, <3>1 DEF IInv, Rooted
  <2> QED BY <2>1, <2>2 DEF Lives
<1>5. \A wanted : \A p \in Pids :
        p # table[i].pid /\ HasChild(table, p, wanted) => HasChild(table', p, wanted)
  BY <1>2 DEF HasChild, Adopted
<1> QED BY <1>1, <1>4, <1>5, WaitsOn

LEMMA DeliverWaits ==
  ASSUME IInv, Answerable(table, threads), NEW p \in Pids, NEW signal \in Signals,
         Deliver(p, signal)
  PROVE  Answerable(table', threads')
<1>1. NoNewWaits(threads) /\ threads \in Everybody
  BY Here DEF NoNewWaits
<1>2. CASE Exists(p) /\ Living(IndexOf(p)) /\ Fatal(p, signal)
  BY <1>1, <1>2, IndexIsThere, FatalIsAnEnding, FinishAtWaits DEF Deliver
<1>3. CASE Exists(p) /\ Living(IndexOf(p)) /\ ~Fatal(p, signal)
  BY <1>1, <1>3, RaisedWaits, SameTableWaits DEF Deliver
<1>4. CASE ~(Exists(p) /\ Living(IndexOf(p)))
  BY <1>1, <1>4, SameTableWaits DEF Deliver
<1> QED BY <1>2, <1>3, <1>4

LEMMA EndingWaits ==
  ASSUME IInv, Answerable(table, threads), NEW ending \in Endings,
         NEW ths \in Everybody, NoNewWaits(ths), Finish(ending, ths)
  PROVE  Answerable(table', threads')
BY Here, FinishAtWaits DEF Finish

(***************************************************************************)
(* reap takes a child from nobody but the process that asked, none of      *)
(* whose threads is left waiting.                                          *)
(***************************************************************************)
LEMMA ReapWaits ==
  ASSUME IInv, Answerable(table, threads),
         NEW wanted \in Pids \cup {0}, Reapable(Current, wanted) # {},
         NEW ths \in Everybody, NoNewWaits(ths),
         \A t \in Threads : ths[Current][t].state # "WaitingForChild",
         Reap(wanted, ths)
  PROVE  Answerable(table', threads')
<1> DEFINE i == Oldest(Reapable(Current, wanted))
<1>1. DOMAIN table = 1..Len(table) /\ Len(table) \in Nat
  BY Here
<1>2. i \in Reapable(Current, wanted)
  <2>1. Reapable(Current, wanted) \subseteq Nat
    BY <1>1 DEF Reapable, Children
  <2> QED BY <2>1, OldestIsOne
<1>3. i \in DOMAIN table /\ table[i].parent = Current /\ table[i].pid \in Pids
  BY <1>2, EveryEntry DEF Reapable, Children
<1>4. /\ table' = RemoveAt(table, i)
      /\ threads' = [ths EXCEPT ![table[i].pid] = Nobody]
  BY DEF Reap
<1> HIDE DEF i
<1>5. /\ DOMAIN table' = 1..(Len(table) - 1)
      /\ \A k \in 1..(Len(table) - 1) :
           table'[k] = IF k < i THEN table[k] ELSE table[k + 1]
  <2>1. i \in 1..Len(table)
    BY <1>1, <1>3
  <2>2. table' \in Seq(Entry) /\ Len(table') = Len(table) - 1
    BY <2>1, <1>4, Here, RemovedEntry
  <2>3. DOMAIN table' = 1..(Len(table) - 1)
    BY <2>2
  <2> QED BY <2>1, <2>3, <1>4, Here, RemovedEntry
<1>6. \A p \in Pids : Lives(table', p) => Lives(table, p)
  <2> SUFFICES ASSUME NEW p \in Pids, NEW k \in DOMAIN table',
                      table'[k].pid = p, table'[k].status = Alive
               PROVE  Lives(table, p)
    BY Zenon DEF Lives
  <2>1. k \in 1..(Len(table) - 1)
    BY <1>5
  <2>2. \E j \in DOMAIN table : table'[k] = table[j]
    <3>1. k \in 1..Len(table) /\ k + 1 \in 1..Len(table)
      BY <1>1, <2>1
    <3>2. table'[k] = table[k] \/ table'[k] = table[k + 1]
      BY <1>5, <2>1
    <3> QED BY <1>1, <3>1, <3>2
  <2> QED BY <2>2 DEF Lives
<1>7. \A w : \A p \in Pids :
        p # Current /\ HasChild(table, p, w) => HasChild(table', p, w)
  <2> SUFFICES ASSUME NEW p \in Pids, NEW w, p # Current, NEW j \in DOMAIN table,
                      table[j].parent = p, w \in {0, table[j].pid}
               PROVE  HasChild(table', p, w)
    BY DEF HasChild
  <2>1. j # i
    BY <1>3
  <2>2. CASE j < i
    <3>1. j \in 1..(Len(table) - 1) /\ table'[j] = table[j]
      BY <1>1, <1>3, <1>5, <2>2
    <3> QED BY <1>5, <3>1 DEF HasChild
  <2>3. CASE j > i
    <3>1. /\ j - 1 \in 1..(Len(table) - 1) /\ ~(j - 1 < i) /\ (j - 1) + 1 = j
      BY <1>1, <1>3, <2>3
    <3>2. table'[j - 1] = table[j]
      BY <1>5, <3>1
    <3> QED BY <1>5, <3>1, <3>2 DEF HasChild
  <2> QED BY <1>1, <1>3, <2>1, <2>2, <2>3
<1>8. /\ NoNewWaits(threads')
      /\ \A t \in Threads : threads'[Current][t].state # "WaitingForChild"
  <2>1. \A t \in Threads : Nobody[t].state # "WaitingForChild"
    BY DEF Nobody, NoThread
  <2> QED BY <2>1, <1>3, <1>4, Here DEF NoNewWaits, Everybody
<1> QED BY <1>6, <1>7, <1>8 DEF Answerable, NoNewWaits

\* One thread to a process: the one that has the turn is not waiting.
LEMMA AloneRuns ==
  ASSUME IInv, MaxThread = 1
  PROVE  /\ \A t \in Threads : t = Me
         /\ NoNewWaits(threads)
         /\ phase = "Run" =>
              \A t \in Threads : threads[Current][t].state # "WaitingForChild"
<1>1. Threads = {1}
  BY DEF Threads
<1>2. \A t \in Threads : t = Me
  BY <1>1, Here
<1> QED BY <1>2 DEF NoNewWaits, IInv, OnlyTheRunnableRun

\* fork copies the thread that called it, which was running.
LEMMA ForkWaits ==
  ASSUME IInv, Answerable(table, threads), Fork
  PROVE  Answerable(table', threads')
<1> DEFINE entry == [pid |-> next, parent |-> Current, status |-> Alive]
<1>1. next \in Pids
  BY DEF Fork, IInv, TypeOK, Pids
<1>2. entry \in Entry /\ entry.pid = next
  BY <1>1, Here DEF Entry
<1>3. /\ table' = Append(table, entry)
      /\ threads' = [threads EXCEPT ![next] = OneThread(threads[Current][Me])]
      /\ threads[Current][Me].state = "Runnable"
  BY DEF Fork, Running, IInv, OnlyTheRunnableRun
<1> HIDE DEF entry
<1>4. /\ DOMAIN table = 1..Len(table) /\ Len(table) \in Nat
      /\ DOMAIN table' = 1..(Len(table) + 1)
      /\ \A k \in 1..Len(table) : table'[k] = table[k]
      /\ table'[Len(table) + 1] = entry
  BY <1>2, <1>3, Here
<1>5. \A p \in Pids : Lives(table', p) /\ p # next => Lives(table, p)
  <2> SUFFICES ASSUME NEW p \in Pids, p # next, NEW k \in DOMAIN table',
                      table'[k].pid = p, table'[k].status = Alive
               PROVE  Lives(table, p)
    BY DEF Lives
  <2>1. k # Len(table) + 1
    BY <1>2, <1>4
  <2>2. k \in DOMAIN table /\ table'[k] = table[k]
    BY <1>4, <2>1
  <2> QED BY <2>2 DEF Lives
<1>6. \A w : \A p \in Pids : HasChild(table, p, w) => HasChild(table', p, w)
  <2> SUFFICES ASSUME NEW w, NEW p \in Pids, NEW j \in DOMAIN table,
                      table[j].parent = p, w \in {0, table[j].pid}
               PROVE  HasChild(table', p, w)
    BY DEF HasChild
  <2>1. j \in DOMAIN table' /\ table'[j] = table[j]
    BY <1>4
  <2> QED BY <2>1 DEF HasChild
<1>7. \A t \in Threads : threads'[next][t].state # "WaitingForChild"
  BY <1>1, <1>3, Here DEF OneThread, NoThread, Everybody
<1>8. \A p \in Pids : p # next => threads'[p] = threads[p]
  BY <1>3, Here DEF Everybody
<1> QED BY <1>5, <1>6, <1>7, <1>8 DEF Answerable

LEMMA ParksWaits ==
  ASSUME IInv, Answerable(table, threads), NEW thread,
         thread.state # "WaitingForChild", Parks(thread)
  PROVE  Answerable(table', threads')
BY Here, PlacedWaits, SameTableWaits DEF Parks

\* wait4 parks only who has a child of the kind it asked for.
LEMMA WaitWaits ==
  ASSUME IInv, MaxThread = 1, Answerable(table, threads),
         NEW wanted \in Pids \cup {0}, NEW nohang \in BOOLEAN,
         Wait(wanted, nohang)
  PROVE  Answerable(table', threads')
<1>1. /\ Living(at) /\ phase = "Run" /\ NoNewWaits(threads)
      /\ \A t \in Threads : threads[Current][t].state # "WaitingForChild"
  BY AloneRuns DEF Wait, Running
<1>2. CASE Reapable(Current, wanted) # {}
  BY <1>1, <1>2, Here, ReapWaits DEF Wait
<1>3. CASE Reapable(Current, wanted) = {} /\ threads' = threads
  BY <1>1, <1>3, SameTableWaits DEF Wait
<1>4. CASE Reapable(Current, wanted) = {} /\ threads' # threads
  <2> DEFINE parked == [threads[Current][Me] EXCEPT !.state = "WaitingForChild",
                                                    !.wanted = wanted]
  <2>1. /\ table' = table /\ Children(Current, wanted) # {}
        /\ threads' = [threads EXCEPT ![Current] =
                         [threads[Current] EXCEPT ![Me] = parked]]
    BY <1>4 DEF Wait
  <2>2. parked.wanted = wanted
    BY Here DEF Thread
  <2>3. HasChild(table, Current, wanted)
    BY <2>1 DEF Children, HasChild
  <2> HIDE DEF parked
  <2>4. threads'[Current][Me] = parked
    BY <2>1, Here DEF Everybody
  <2>5. \A p \in Pids, t \in Threads :
          p # Current \/ t # Me => threads'[p][t] = threads[p][t]
    BY <2>1, Here DEF Everybody
  <2> QED BY <2>1, <2>2, <2>3, <2>4, <2>5 DEF Answerable
<1> QED BY <1>2, <1>3, <1>4

\* A signal wakes who sleeps or pauses, and the head of a step takes one.
LEMMA StepWaits ==
  ASSUME IInv, Answerable(table, threads), Step
  PROVE  Answerable(table', threads')
<1> DEFINE ths == Woken(Current)
           t   == Chosen(ths)
           signal == CHOOSE r \in ths[t].pending : \A q \in ths[t].pending : r <= q
           left   == [ths[t] EXCEPT !.pending = ths[t].pending \ {signal}]
           taken  == [threads EXCEPT ![Current] = [ths EXCEPT ![t] = left]]
           woken  == [threads EXCEPT ![Current] = ths]
<1>1. ths \in [Threads -> Thread]
  BY WokenType
<1>2. \A u \in Threads : ths[u].state = "WaitingForChild" => ths[u] = threads[Current][u]
  <2> SUFFICES ASSUME NEW u \in Threads, ths[u].state = "WaitingForChild"
               PROVE  ths[u] = threads[Current][u]
    OBVIOUS
  <2>1. threads[Current][u] \in Thread
    BY Here
  <2>2. [threads[Current][u] EXCEPT !.state = "Runnable"].state = "Runnable"
    BY <2>1 DEF Thread
  <2> QED BY <2>2 DEF Woken
<1>3. CASE RunnableIn(ths) = {}
  BY <1>3, SameTableWaits DEF Step, NoNewWaits
<1>4. CASE RunnableIn(ths) # {}
  <2>1. t \in Threads /\ ths[t].state = "Runnable" /\ ths[t] \in Thread
    BY <1>1, <1>4, Here, ChosenRuns DEF RunnableIn
  <2>2. left \in Thread /\ left.state = "Runnable"
    BY <2>1 DEF Thread
  <2>3. \/ threads' = woken /\ table' = table
        \/ threads' = taken /\ table' = table
        \/ /\ ths[t].pending # {} /\ Fatal(Current, signal)
           /\ Finish(Signalled(signal), taken)
    BY <1>4 DEF Step
  <2>4. signal \in Signals \/ ths[t].pending = {}
    <3>1. ths[t].pending \subseteq Signals
      BY <2>1 DEF Thread
    <3>2. ths[t].pending \subseteq Nat
      BY <3>1 DEF Signals, SIGTERM, SIGCHLD
    <3>3. ths[t].pending # {} => signal \in ths[t].pending
      BY <3>2, LeastExists
    <3> QED BY <3>1, <3>3
  <2> HIDE DEF left, signal, t, ths
  <2>5. NoNewWaits(woken) /\ woken \in Everybody
    BY <1>1, <1>2, Here DEF NoNewWaits, Everybody
  <2>6. NoNewWaits(taken) /\ taken \in Everybody
    <3>1. [ths EXCEPT ![t] = left] \in [Threads -> Thread]
      BY <1>1, <2>2
    <3>2. \A u \in Threads : [ths EXCEPT ![t] = left][u].state = "WaitingForChild" =>
            [ths EXCEPT ![t] = left][u] = threads[Current][u]
      BY <1>1, <1>2, <2>1, <2>2
    <3> QED BY <3>1, <3>2, Here DEF NoNewWaits, Everybody
  <2> HIDE DEF woken, taken
  <2>7. CASE Finish(Signalled(signal), taken)
             /\ ths[t].pending # {} /\ Fatal(Current, signal)
    BY <2>4, <2>6, <2>7, FatalIsAnEnding, EndingWaits
  <2> QED BY <2>3, <2>5, <2>6, <2>7, SameTableWaits
<1> QED BY <1>3, <1>4

\* collect reaps for the thread that waits, which then runs.
LEMMA CollectWaits ==
  ASSUME IInv, MaxThread = 1, Answerable(table, threads), Collect
  PROVE  Answerable(table', threads')
<1>1. CASE Collectable(at) = {}
  BY <1>1, AloneRuns, SameTableWaits DEF Collect
<1>2. CASE Collectable(at) # {}
  <2> DEFINE t    == Oldest(Collectable(at))
             done == [threads[Current][t] EXCEPT !.state = "Runnable", !.wanted = 0]
             ths  == [threads EXCEPT ![Current] = [threads[Current] EXCEPT ![t] = done]]
  <2>1. t \in Collectable(at)
    <3>1. Collectable(at) \subseteq Nat
      BY DEF Collectable, Waiting, Threads
    <3> QED BY <1>2, <3>1, OldestIsOne
  <2>2. t \in Threads /\ Reapable(Current, threads[Current][t].wanted) # {}
    BY <2>1 DEF Collectable, Waiting, Current
  <2>3. Reap(threads[Current][t].wanted, ths)
    BY <1>2 DEF Collect
  <2>4. /\ threads[Current][t].wanted \in Pids \cup {0}
        /\ done \in Thread /\ done.state = "Runnable"
    <3>1. threads[Current][t] \in Thread
      BY <2>2, Here
    <3> QED BY <3>1 DEF Thread
  <2>5. ths \in Everybody
    BY <2>2, <2>4, Here, ThreadPlaced
  <2> HIDE DEF t, done
  <2>6. NoNewWaits(ths)
    BY <2>2, <2>4, Here, PlacedWaits
  <2>7. \A u \in Threads : ths[Current][u].state # "WaitingForChild"
    BY <2>2, <2>4, Here, AloneRuns DEF Everybody
  <2> HIDE DEF ths
  <2> QED BY <2>2, <2>3, <2>4, <2>5, <2>6, <2>7, ReapWaits
<1> QED BY <1>1, <1>2

LEMMA IdleWaits ==
  ASSUME IInv, Answerable(table, threads), Idle
  PROVE  Answerable(table', threads')
<1>1. \A p \in Pids, t \in Threads :
        [threads[p][t] EXCEPT !.state = "Runnable"].state = "Runnable"
  BY Here DEF Everybody, Thread
<1>2. \/ threads' = threads
      \/ \E expired \in SUBSET Sleepers :
           threads' = [p \in Pids |-> [t \in Threads |->
             IF <<p, t>> \in expired
             THEN [threads[p][t] EXCEPT !.state = "Runnable"]
             ELSE threads[p][t]]]
  BY DEF Idle
<1>3. \A p \in Pids, t \in Threads :
        \/ threads'[p][t] = threads[p][t]
        \/ threads'[p][t] = [threads[p][t] EXCEPT !.state = "Runnable"]
  <2>1. CASE threads' = threads
    BY <2>1
  <2>2. CASE threads' # threads
    <3>1. PICK expired \in SUBSET Sleepers :
            threads' = [p \in Pids |-> [t \in Threads |->
              IF <<p, t>> \in expired
              THEN [threads[p][t] EXCEPT !.state = "Runnable"]
              ELSE threads[p][t]]]
      BY <1>2, <2>2
    <3> QED BY <3>1
  <2> QED BY <2>1, <2>2
<1>4. NoNewWaits(threads')
  BY <1>1, <1>3 DEF NoNewWaits
<1> QED BY <1>4, SameTableWaits DEF Idle

LEMMA NextWaits ==
  ASSUME MaxThread = 1, IInv, Answerable(table, threads), [Next]_vars
  PROVE  Answerable(table', threads')
<1>1. NoNewWaits(threads) /\ threads \in Everybody
  BY Here, AloneRuns
<1>2. CASE Preempt \/ Call \/ Schedule \/ UNCHANGED vars
           \/ \E signal \in Handled, handler \in Handlers : Sigaction(signal, handler)
  BY <1>1, <1>2, SameTableWaits DEF Preempt, Call, Schedule, vars, Sigaction
<1>3. CASE Pause \/ Sleep
  <2>1. /\ [threads[Current][Me] EXCEPT !.state = "Paused"].state = "Paused"
        /\ [threads[Current][Me] EXCEPT !.state = "Sleeping"].state = "Sleeping"
    BY Here DEF Thread
  <2> QED BY <1>3, <2>1, ParksWaits DEF Pause, Sleep
<1>4. CASE Fork
  BY <1>4, ForkWaits
<1>5. CASE Execve
  <2>1. NoNewWaits(threads')
    BY <1>5, Here DEF Execve, NoNewWaits, OneThread, NewThread, NoThread, Everybody
  <2> QED BY <1>5, <2>1, SameTableWaits DEF Execve
<1>6. CASE \E t \in Threads : Clone(t)
  <2>1. PICK t \in Threads : Clone(t)
    BY <1>6
  <2>2. NewThread.state # "WaitingForChild"
    BY DEF NewThread
  <2>3. /\ table' = table
        /\ threads' = [threads EXCEPT ![Current] =
                         [threads[Current] EXCEPT ![t] = NewThread]]
    BY <2>1 DEF Clone
  <2>4. NoNewWaits(threads')
    BY <2>2, <2>3, Here, PlacedWaits
  <2> QED BY <2>3, <2>4, SameTableWaits
<1>7. CASE Fault \/ (\E code \in Codes : ExitGroup(code)) \/ RunsOn
  <2>1. ASSUME NEW ending \in Endings, Ending(ending, threads)
        PROVE  Answerable(table', threads')
    BY <1>1, <2>1, EndingWaits DEF Ending
  <2>2. CASE RunsOn
    <3>1. table[at].status \in Endings
      BY <2>2, Here DEF RunsOn, Living, Entry
    <3> QED BY <2>1, <2>2, <3>1, SegvIsAnEnding DEF RunsOn
  <2> QED BY <1>7, <2>1, <2>2, SegvIsAnEnding, ExitedIsAnEnding DEF Fault, ExitGroup
<1>8. CASE \E code \in Codes : Exit(code)
  <2> DEFINE gone == [threads[Current][Me] EXCEPT !.state = "Exited"]
  <2>1. PICK code \in Codes : Exit(code)
    BY <1>8
  <2>2. gone \in Thread /\ gone.state = "Exited"
    BY Here DEF Thread
  <2>3. \/ Parks(gone)
        \/ Ending(Exited(code), [threads EXCEPT ![Current] =
                                   [threads[Current] EXCEPT ![Me] = gone]])
    BY <2>1 DEF Exit
  <2> HIDE DEF gone
  <2>4. CASE Parks(gone)
    BY <2>2, <2>4, ParksWaits
  <2>5. CASE Ending(Exited(code), [threads EXCEPT ![Current] =
                                     [threads[Current] EXCEPT ![Me] = gone]])
    <3> DEFINE ths == [threads EXCEPT ![Current] =
                         [threads[Current] EXCEPT ![Me] = gone]]
    <3>1. ths \in Everybody /\ NoNewWaits(ths) /\ Exited(code) \in Endings
      BY <2>2, Here, ThreadPlaced, PlacedWaits, ExitedIsAnEnding
    <3>2. Finish(Exited(code), ths)
      BY <2>5 DEF Ending
    <3> HIDE DEF ths
    <3> QED BY <3>1, <3>2, EndingWaits
  <2> QED BY <2>3, <2>4, <2>5
<1>9. CASE \E signal \in Signals : KillSelf(signal)
  <2>1. PICK signal \in Signals : KillSelf(signal)
    BY <1>9
  <2>2. CASE Fatal(Current, signal)
    <3>1. Exited(128 + signal) \in Endings
      BY <2>2, FatalIsAnEnding, ExitedIsAnEnding
    <3> QED BY <1>1, <2>1, <2>2, <3>1, EndingWaits DEF KillSelf, Ending
  <2>3. CASE ~Fatal(Current, signal)
    BY <1>1, <2>1, <2>3, Here, RaisedWaits, SameTableWaits DEF KillSelf
  <2> QED BY <2>2, <2>3
<1>10. CASE \E signal \in Signals : \E p \in Pids : Kill(p, signal)
  BY <1>10, DeliverWaits DEF Kill
<1>11. CASE \E wanted \in Pids \cup {0}, nohang \in BOOLEAN : Wait(wanted, nohang)
  BY <1>11, WaitWaits
<1>12. CASE Step
  BY <1>12, StepWaits
<1>13. CASE Collect
  BY <1>13, CollectWaits
<1>14. CASE TakeShutdown
  <2>1. FIRST \in Pids /\ SIGTERM \in Signals
    BY ProcessesAssumption DEF FIRST, Pids, Signals
  <2> QED BY <1>14, <2>1, DeliverWaits DEF TakeShutdown
<1>15. CASE Idle
  BY <1>15, IdleWaits
<1> QED BY <1>2, <1>3, <1>4, <1>5, <1>6, <1>7, <1>8, <1>9, <1>10, <1>11, <1>12,
           <1>13, <1>14, <1>15 DEF Next, Program, Kernel

\* Where a process has one thread, who is parked in wait4 has a child to wait
\* for, through every end, reap and adoption (system.rs:339).  A second thread
\* may reap the child the first is waiting for.
THEOREM WaitersAreAnswerable ==
  ASSUME MaxThread = 1
  PROVE  Spec => []WaitersHaveChildren
<1>1. Init => Answerable(table, threads)
  BY DEF Init, Answerable, OneThread, NewThread, NoThread, Nobody
<1>2. IInv /\ Answerable(table, threads) /\ [Next]_vars => Answerable(table, threads)'
  BY NextWaits
<1>3. IInv /\ Answerable(table, threads) => WaitersHaveChildren
  <2> SUFFICES ASSUME IInv, Answerable(table, threads), NEW i \in DOMAIN table,
                      NEW t \in Threads, Living(i),
                      threads[table[i].pid][t].state = "WaitingForChild"
               PROVE  HasChild(table, table[i].pid, threads[table[i].pid][t].wanted)
    BY DEF WaitersHaveChildren, HasChild
  <2> QED BY EveryEntry DEF Answerable, Lives, Living
<1> QED BY <1>1, <1>2, <1>3, Invariance, PTL DEF Spec

---------------------------------------------------------------------------
(***************************************************************************)
(* The process table implements ProcessTree, for any number of processes   *)
(* and threads: every step of it is one the tree allows, or none at all.   *)
(*                                                                         *)
(* The table does so as long as no process that has ended is given another *)
(* turn.  When another process sleeps or the host asks for a shutdown, the *)
(* idle pass gives one back without looking (system.rs:417), and then a    *)
(* status changes after its parent could have been told; so the theorem is *)
(* about programs that do not sleep and a host that does not ask, and the  *)
(* second half of this module shows that those suffice.                    *)
(***************************************************************************)

EndedHasNoTurn == phase \in {"Step", "Run"} => Living(at)

---------------------------------------------------------------------------
(* What the tree's variables are, process by process.                      *)

MapIs ==
  /\ \A i \in DOMAIN table :
       /\ table[i].pid \in Pids
       /\ ParentOf[table[i].pid] = table[i].parent
       /\ StatusOf[table[i].pid] = table[i].status
       /\ LifeOf[table[i].pid] = IF Living(i) THEN "Alive" ELSE "Zombie"
  /\ \A p \in Pids : ~Exists(p) =>
       /\ ParentOf[p] = 0 /\ StatusOf[p] = Alive
       /\ LifeOf[p] = IF p >= next THEN "Unborn" ELSE "Gone"
  /\ ParentOf = [p \in Pids |-> ParentOf[p]]
  /\ StatusOf = [p \in Pids |-> StatusOf[p]]
  /\ LifeOf = [p \in Pids |-> LifeOf[p]]

LEMMA Mapped == IInv => MapIs
<1> SUFFICES ASSUME IInv PROVE MapIs
  OBVIOUS
<1>1. ASSUME NEW i \in DOMAIN table
      PROVE  /\ table[i].pid \in Pids
             /\ ParentOf[table[i].pid] = table[i].parent
             /\ StatusOf[table[i].pid] = table[i].status
             /\ LifeOf[table[i].pid] = IF Living(i) THEN "Alive" ELSE "Zombie"
  <2> DEFINE p == table[i].pid
  <2>1. Exists(p) /\ p \in Pids
    BY EveryEntry DEF Exists
  <2>2. IndexOf(p) \in DOMAIN table /\ table[IndexOf(p)].pid = p
    BY <2>1, IndexIsThere
  <2>3. IndexOf(p) = i
    <3>1. IndexOf(p) \in Nat /\ i \in Nat
      BY <2>2, Here
    <3>2. ~(IndexOf(p) < i) /\ ~(i < IndexOf(p))
      <4>1. p \in Nat
        BY <2>1 DEF Pids
      <4> HIDE DEF p
      <4>2. table[i].pid = p
        BY DEF p
      <4> QED BY <2>2, <4>1, <4>2 DEF IInv, Rooted
    <3> QED BY <3>1, <3>2
  <2> QED BY <2>1, <2>3 DEF ParentOf, StatusOf, LifeOf
<1> QED BY <1>1 DEF MapIs, ParentOf, StatusOf, LifeOf

LEMMA MappedNext == IInv' => MapIs'
BY Mapped, PTL

\* Processes with the same identifiers exist.
LEMMA SameExist ==
  ASSUME DOMAIN table' = DOMAIN table,
         \A j \in DOMAIN table : table'[j].pid = table[j].pid
  PROVE  \A p : Exists(p)' <=> Exists(p)
BY DEF Exists

---------------------------------------------------------------------------
(* Each kind of step, seen as the tree's.                                  *)

\* Nothing changed in the table: at most the answer was forgotten.
LEMMA StutterSimulated ==
  ASSUME table' = table, next' = next, answer' \in {answer, NoAnswer}
  PROVE  Tree!Next
<1>1. UNCHANGED <<ParentOf, LifeOf, StatusOf>>
  BY DEF ParentOf, LifeOf, StatusOf, Exists, IndexOf, Living
<1>2. Tree!IsForgotten
  BY DEF Tree!IsForgotten, Tree!NoAnswer, NoAnswer
<1> QED BY <1>1, <1>2 DEF Tree!Next

LEMMA EndSimulated ==
  ASSUME IInv, IInv', NEW i \in DOMAIN table, Living(i), NEW ending \in Endings,
         table' = EndedTable(table, i, ending), next' = next
  PROVE  LifeOf[table[i].pid] = "Alive" /\ Tree!Ends(table[i].pid)
<1> DEFINE p == table[i].pid
<1>1. MapIs /\ MapIs'
  BY Mapped, MappedNext
<1>2. /\ DOMAIN table' = DOMAIN table
      /\ \A j \in DOMAIN table :
           /\ table'[j].pid = table[j].pid
           /\ table'[j].parent = Adopted(table[j].parent, p)
           /\ table'[j].status = IF j = i THEN ending ELSE table[j].status
  <2> SUFFICES ASSUME NEW j \in DOMAIN table
               PROVE  /\ table'[j].pid = table[j].pid
                      /\ table'[j].parent = Adopted(table[j].parent, p)
                      /\ table'[j].status = IF j = i THEN ending ELSE table[j].status
    BY DEF EndedTable
  <2>1. table[j] \in Entry
    BY EveryEntry
  <2> QED BY <2>1 DEF EndedTable, Entry
<1>3. \A q : Exists(q)' <=> Exists(q)
  BY <1>2, SameExist
<1>4. ending # Alive /\ p # 0
  BY ProcessesAssumption, EveryEntry DEF Pids
<1>5. \A j \in DOMAIN table : j # i => table[j].pid # p
  <2> SUFFICES ASSUME NEW j \in DOMAIN table, j # i PROVE table[j].pid # p
    OBVIOUS
  <2>1. j \in Nat /\ i \in Nat /\ table[j].pid \in Nat /\ p \in Nat
    BY Here, EveryEntry DEF Pids
  <2> QED BY <2>1 DEF IInv, Rooted
<1> HIDE DEF p
<1>6. p \in Pids /\ LifeOf[p] = "Alive"
  BY <1>1 DEF p, MapIs
<1>7. ASSUME NEW q \in Pids
      PROVE  /\ LifeOf'[q] = IF q = p THEN "Zombie" ELSE LifeOf[q]
             /\ ParentOf'[q] = IF ParentOf[q] = p THEN 1 ELSE ParentOf[q]
             /\ StatusOf'[q] = IF q = p THEN ending ELSE StatusOf[q]
  <2>1. CASE Exists(q)
    <3>1. PICK j \in DOMAIN table : table[j].pid = q
      BY <2>1 DEF Exists
    <3>2. /\ ParentOf[q] = table[j].parent /\ StatusOf[q] = table[j].status
          /\ LifeOf[q] = IF table[j].status = Alive THEN "Alive" ELSE "Zombie"
      BY <3>1, <1>1 DEF MapIs, Living
    <3>3. /\ ParentOf'[q] = table'[j].parent /\ StatusOf'[q] = table'[j].status
          /\ LifeOf'[q] = IF table'[j].status = Alive THEN "Alive" ELSE "Zombie"
      BY <3>1, <1>1, <1>2 DEF MapIs, Living
    <3>4. j = i <=> q = p
      BY <3>1, <1>5 DEF p
    <3> QED BY <3>2, <3>3, <3>4, <1>2, <1>4 DEF Adopted, FIRST
  <2>2. CASE ~Exists(q)
    <3>1. q # p
      BY <2>2 DEF Exists, p
    <3>2. /\ ParentOf[q] = 0 /\ StatusOf[q] = Alive
          /\ LifeOf[q] = IF q >= next THEN "Unborn" ELSE "Gone"
      BY <2>2, <1>1 DEF MapIs
    <3>3. /\ ParentOf'[q] = 0 /\ StatusOf'[q] = Alive
          /\ LifeOf'[q] = IF q >= next THEN "Unborn" ELSE "Gone"
      BY <2>2, <1>1, <1>3 DEF MapIs
    <3> QED BY <3>1, <3>2, <3>3, <1>4
  <2> QED BY <2>1, <2>2
<1>8. LifeOf' = [LifeOf EXCEPT ![p] = "Zombie"]
  BY <1>1, <1>7 DEF MapIs
<1>9. ParentOf' = [q \in Pids |-> IF ParentOf[q] = p THEN 1 ELSE ParentOf[q]]
  BY <1>1, <1>7 DEF MapIs
<1>10. StatusOf' = [StatusOf EXCEPT ![p] = ending]
  BY <1>1, <1>7 DEF MapIs
<1> QED BY <1>6, <1>8, <1>9, <1>10 DEF Tree!Ends, p

\* The children of a process, in the table and in the tree.
LEMMA SameChildren ==
  ASSUME IInv, NEW p \in Pids, NEW about \in Pids \cup {0}
  PROVE  Tree!Children(p, about) = {table[i].pid : i \in Children(p, about)}
<1>1. MapIs
  BY Mapped
<1>2. ASSUME NEW i \in Children(p, about)
      PROVE  table[i].pid \in Tree!Children(p, about)
  BY <1>1 DEF MapIs, Children, Tree!Children
<1>3. ASSUME NEW c \in Tree!Children(p, about)
      PROVE  c \in {table[i].pid : i \in Children(p, about)}
  <2>1. c \in Pids /\ Exists(c)
    <3>1. c \in Pids /\ LifeOf[c] \in {"Alive", "Zombie"}
      BY DEF Tree!Children
    <3> QED BY <3>1, <1>1 DEF MapIs
  <2>2. PICK i \in DOMAIN table : table[i].pid = c
    BY <2>1 DEF Exists
  <2> QED BY <2>2, <1>1 DEF MapIs, Children, Tree!Children
<1> QED BY <1>2, <1>3

LEMMA ReapSimulated ==
  ASSUME IInv, IInv', Living(at), NEW wanted \in Pids \cup {0},
         Reapable(Current, wanted) # {}, NEW ths \in Everybody, Reap(wanted, ths),
         next' = next
  PROVE  Tree!Reap(Current)
<1> DEFINE i == Oldest(Reapable(Current, wanted))
           c == table[i].pid
<1>1. MapIs /\ MapIs'
  BY Mapped, MappedNext
<1>2. /\ i \in DOMAIN table /\ i \in Children(Current, wanted)
      /\ table[i].status # Alive
  <2>1. Reapable(Current, wanted) \subseteq Nat
    BY Here DEF Reapable, Children
  <2>2. i \in Reapable(Current, wanted)
    BY <2>1, OldestIsOne
  <2> QED BY <2>2 DEF Reapable, Children, Living
<1>3. /\ table' = RemoveAt(table, i)
      /\ answer' = [to |-> Current, call |-> "wait4", about |-> wanted,
                    value |-> c, status |-> table[i].status]
  <2>1. table'[at'] = table[at]
    BY ReapKeeps
  <2> QED BY <2>1 DEF Reap, Tells, Current
<1> HIDE DEF i
<1>4. DOMAIN table = 1..Len(table) /\ Len(table) \in Nat /\ i \in 1..Len(table)
  BY <1>2, Here
<1>5. /\ DOMAIN table' = 1..(Len(table) - 1)
      /\ \A k \in 1..(Len(table) - 1) :
           table'[k] = IF k < i THEN table[k] ELSE table[k + 1]
  <2>1. Len(table') = Len(table) - 1
    BY <1>3, <1>4, Here, RemovedEntry
  <2>2. DOMAIN table' = 1..(Len(table) - 1)
    BY <2>1 DEF IInv, TypeOK
  <2> QED BY <2>2, <1>3, <1>4, Here, RemovedEntry
<1>6. \A j \in DOMAIN table : j # i => table[j].pid # c
  <2> SUFFICES ASSUME NEW j \in DOMAIN table, j # i PROVE table[j].pid # c
    OBVIOUS
  <2>1. j \in Nat /\ i \in Nat /\ table[j].pid \in Nat /\ c \in Nat
    BY <1>2, Here, EveryEntry DEF Pids
  <2> QED BY <1>2, <2>1 DEF IInv, Rooted
<1>7. \A j \in DOMAIN table \ {i} : \E k \in DOMAIN table' : table'[k] = table[j]
  <2> SUFFICES ASSUME NEW j \in DOMAIN table \ {i}
               PROVE  \E k \in DOMAIN table' : table'[k] = table[j]
    OBVIOUS
  <2>1. CASE j < i
    BY <2>1, <1>4, <1>5
  <2>2. CASE j > i
    <3>1. j - 1 \in 1..(Len(table) - 1) /\ ~(j - 1 < i) /\ (j - 1) + 1 = j
      BY <2>2, <1>4
    <3>2. table'[j - 1] = table[j]
      BY <3>1, <1>5
    <3> QED BY <3>1, <3>2, <1>5
  <2> QED BY <2>1, <2>2, <1>4
<1>8. \A k \in DOMAIN table' : \E j \in DOMAIN table \ {i} : table'[k] = table[j]
  <2> SUFFICES ASSUME NEW k \in DOMAIN table'
               PROVE  \E j \in DOMAIN table \ {i} : table'[k] = table[j]
    OBVIOUS
  <2>1. CASE k < i
    BY <2>1, <1>4, <1>5
  <2>2. CASE ~(k < i)
    <3>1. k \in 1..(Len(table) - 1) /\ table'[k] = table[k + 1]
      BY <2>2, <1>5
    <3>2. k + 1 \in DOMAIN table \ {i}
      BY <2>2, <3>1, <1>4
    <3> QED BY <3>1, <3>2
  <2> QED BY <2>1, <2>2
<1>9. c \in Pids /\ LifeOf[c] = "Zombie" /\ StatusOf[c] = table[i].status
  BY <1>1, <1>2 DEF MapIs, Living
<1>10. c \in Tree!Children(Current, wanted)
  BY <1>2, Here, SameChildren
<1>11. \A k \in DOMAIN table' : table'[k].pid # c
  BY <1>6, <1>8
<1>12. c < next
  BY <1>2 DEF IInv, Rooted
<1> HIDE DEF c
<1>13. ASSUME NEW q \in Pids
       PROVE  /\ LifeOf'[q] = IF q = c THEN "Gone" ELSE LifeOf[q]
              /\ ParentOf'[q] = IF q = c THEN 0 ELSE ParentOf[q]
              /\ StatusOf'[q] = IF q = c THEN Alive ELSE StatusOf[q]
  <2>1. CASE q = c
    <3>1. ~(q >= next')
      BY <2>1, <1>12 DEF Pids, IInv, TypeOK
    <3>2. ~Exists(q)'
      BY <2>1, <1>11 DEF Exists
    <3> QED BY <2>1, <3>1, <3>2, <1>1 DEF MapIs
  <2>2. CASE q # c /\ Exists(q)
    <3>1. PICK j \in DOMAIN table : table[j].pid = q
      BY <2>2 DEF Exists
    <3>2. j # i
      BY <2>2, <3>1 DEF c
    <3>3. PICK k \in DOMAIN table' : table'[k] = table[j]
      BY <3>2, <1>7
    <3>4. /\ ParentOf[q] = table[j].parent /\ StatusOf[q] = table[j].status
          /\ LifeOf[q] = IF table[j].status = Alive THEN "Alive" ELSE "Zombie"
      BY <3>1, <1>1 DEF MapIs, Living
    <3>5. /\ ParentOf'[q] = table'[k].parent /\ StatusOf'[q] = table'[k].status
          /\ LifeOf'[q] = IF table'[k].status = Alive THEN "Alive" ELSE "Zombie"
      BY <3>1, <3>3, <1>1 DEF MapIs, Living
    <3> QED BY <2>2, <3>3, <3>4, <3>5
  <2>3. CASE q # c /\ ~Exists(q)
    <3>1. ~Exists(q)'
      BY <2>3, <1>8 DEF Exists
    <3> QED BY <2>3, <3>1, <1>1 DEF MapIs
  <2> QED BY <2>1, <2>2, <2>3
<1>14. /\ LifeOf' = [LifeOf EXCEPT ![c] = "Gone"]
       /\ ParentOf' = [ParentOf EXCEPT ![c] = 0]
       /\ StatusOf' = [StatusOf EXCEPT ![c] = Alive]
  BY <1>1, <1>13 DEF MapIs
<1>15. Tree!Tells(Current, "wait4", wanted, c, StatusOf[c])
  BY <1>3, <1>9 DEF Tree!Tells
<1> QED BY <1>9, <1>10, <1>14, <1>15 DEF Tree!Reap

LEMMA ForkSimulated ==
  ASSUME IInv, IInv', Fork
  PROVE  LifeOf[Current] = "Alive" /\ Tree!Fork(Current)
<1>1. MapIs /\ MapIs'
  BY Mapped, MappedNext
<1>2. next \in Pids /\ next \in Nat /\ next' = next + 1 /\ Living(at)
  BY DEF Fork, Running, IInv, TypeOK, Pids
<1>3. ~Exists(next)
  <2>1. \A j \in DOMAIN table : table[j].pid # next
    BY <1>2 DEF IInv, Rooted
  <2> QED BY <2>1 DEF Exists
<1>4. /\ DOMAIN table = 1..Len(table) /\ Len(table) \in Nat
      /\ DOMAIN table' = 1..(Len(table) + 1)
      /\ \A j \in DOMAIN table : table'[j] = table[j]
      /\ table'[Len(table) + 1] = [pid |-> next, parent |-> Current, status |-> Alive]
  BY Here DEF Fork
<1>5. ASSUME NEW q \in Pids
      PROVE  /\ LifeOf'[q] = IF q = next THEN "Alive" ELSE LifeOf[q]
             /\ ParentOf'[q] = IF q = next THEN Current ELSE ParentOf[q]
             /\ StatusOf'[q] = StatusOf[q]
  <2>1. CASE q = next
    <3> DEFINE j == Len(table) + 1
    <3>1. j \in DOMAIN table'
      BY <1>4
    <3>2. table'[j] = [pid |-> next, parent |-> Current, status |-> Alive]
      BY <1>4
    <3> HIDE DEF j
    <3>3. /\ ParentOf'[next] = Current /\ StatusOf'[next] = Alive
          /\ LifeOf'[next] = "Alive"
      BY <3>1, <3>2, <1>1 DEF MapIs, Living
    <3>4. StatusOf[next] = Alive
      BY <1>1, <1>2, <1>3 DEF MapIs
    <3> QED BY <2>1, <3>3, <3>4
  <2>2. CASE q # next /\ Exists(q)
    <3>1. PICK j \in DOMAIN table : table[j].pid = q
      BY <2>2 DEF Exists
    <3>2. j \in DOMAIN table' /\ table'[j] = table[j]
      BY <1>4
    <3>3. /\ ParentOf[q] = table[j].parent /\ StatusOf[q] = table[j].status
          /\ LifeOf[q] = IF table[j].status = Alive THEN "Alive" ELSE "Zombie"
      BY <3>1, <1>1 DEF MapIs, Living
    <3>4. /\ ParentOf'[q] = table[j].parent /\ StatusOf'[q] = table[j].status
          /\ LifeOf'[q] = IF table[j].status = Alive THEN "Alive" ELSE "Zombie"
      BY <3>1, <3>2, <1>1 DEF MapIs, Living
    <3> QED BY <2>2, <3>3, <3>4
  <2>3. CASE q # next /\ ~Exists(q)
    <3>1. ~Exists(q)'
      <4>1. \A k \in DOMAIN table' : k \in DOMAIN table \/ k = Len(table) + 1
        BY <1>4
      <4> QED BY <4>1, <2>3, <1>4 DEF Exists
    <3>2. (q >= next') <=> (q >= next)
      BY <2>3, <1>2 DEF Pids
    <3> QED BY <2>3, <3>1, <3>2, <1>1 DEF MapIs
  <2> QED BY <2>1, <2>2, <2>3
<1>6. /\ LifeOf' = [LifeOf EXCEPT ![next] = "Alive"]
      /\ ParentOf' = [ParentOf EXCEPT ![next] = Current]
      /\ StatusOf' = StatusOf
  BY <1>1, <1>5 DEF MapIs
<1>7. LifeOf[next] = "Unborn"
  BY <1>1, <1>2, <1>3 DEF MapIs
<1>8. \A q \in Pids : LifeOf[q] = "Unborn" => next <= q
  BY <1>1, <1>2 DEF MapIs, Living, Exists, Pids
<1>9. LifeOf[Current] = "Alive" /\ answer' = answer
  BY <1>1, <1>2, Here DEF MapIs, Current, Fork
<1> QED BY <1>2, <1>6, <1>7, <1>8, <1>9 DEF Tree!Fork

LEMMA CurrentActs ==
  ASSUME IInv, Living(at)
  PROVE  Current \in Pids /\ LifeOf[Current] = "Alive"
BY Mapped, Here DEF MapIs, Current

\* wait4 with nothing to reap says so, and which of the two it is.
LEMMA WaitSimulated ==
  ASSUME IInv, IInv', NEW wanted \in Pids \cup {0}, NEW nohang \in BOOLEAN,
         Wait(wanted, nohang)
  PROVE  Tree!Next
<1>1. Living(at) /\ next' = next
  BY DEF Wait, Running
<1>2. Current \in Pids /\ LifeOf[Current] = "Alive"
  BY <1>1, CurrentActs
<1>3. CASE Reapable(Current, wanted) # {}
  <2>1. Tree!Reap(Current)
    BY <1>1, <1>3, Here, ReapSimulated DEF Wait
  <2> QED BY <1>2, <2>1 DEF Tree!Next
<1>4. CASE Reapable(Current, wanted) = {} /\ Children(Current, wanted) # {} /\ ~nohang
  BY <1>1, <1>4, StutterSimulated DEF Wait
<1>5. CASE Reapable(Current, wanted) = {} /\ (Children(Current, wanted) = {} \/ nohang)
  <2>1. UNCHANGED <<table, at>>
    BY <1>5 DEF Wait
  <2>2. Tree!Tells(Current, "wait4", wanted,
                   IF Children(Current, wanted) = {} THEN ECHILD ELSE 0, Alive)
    BY <1>5, <2>1 DEF Wait, Tells, Tree!Tells, Current
  <2>3. UNCHANGED <<ParentOf, LifeOf, StatusOf>>
    BY <1>1, <2>1 DEF ParentOf, LifeOf, StatusOf, Exists, IndexOf, Living
  <2>4. Tree!Children(Current, wanted) = {table[i].pid : i \in Children(Current, wanted)}
    BY <1>2, SameChildren
  <2>5. CASE Children(Current, wanted) = {}
    <3>1. Tree!NoChildren(Current)
      BY <2>2, <2>3, <2>4, <2>5 DEF Tree!NoChildren, Tree!ECHILD, ECHILD
    <3> QED BY <1>2, <3>1 DEF Tree!Next
  <2>6. CASE Children(Current, wanted) # {}
    <3>1. \A i \in Children(Current, wanted) : i \in DOMAIN table /\ Living(i)
      BY <1>5 DEF Reapable, Children
    <3>2. \A c \in Tree!Children(Current, wanted) : LifeOf[c] = "Alive"
      BY <2>4, <3>1, Mapped DEF MapIs
    <3>3. Tree!NotYet(Current)
      BY <2>2, <2>3, <2>4, <2>6, <3>2 DEF Tree!NotYet
    <3> QED BY <1>2, <3>3 DEF Tree!Next
  <2> QED BY <2>5, <2>6
<1> QED BY <1>3, <1>4, <1>5

LEMMA DeliverSimulated ==
  ASSUME IInv, IInv', NEW p \in Pids, NEW signal \in Signals,
         Deliver(p, signal), next' = next
  PROVE  \/ table' = table
         \/ LifeOf[p] = "Alive" /\ Tree!Ends(p)
<1>1. CASE Exists(p) /\ Living(IndexOf(p)) /\ Fatal(p, signal)
  <2>1. IndexOf(p) \in DOMAIN table /\ table[IndexOf(p)].pid = p
    BY <1>1, IndexIsThere
  <2>2. Signalled(signal) \in Endings
    BY <1>1, FatalIsAnEnding
  <2>3. table' = EndedTable(table, IndexOf(p), Signalled(signal))
    BY <1>1 DEF Deliver, FinishAt, EndedTable
  <2>4. LifeOf[table[IndexOf(p)].pid] = "Alive" /\ Tree!Ends(table[IndexOf(p)].pid)
    BY <1>1, <2>1, <2>2, <2>3, EndSimulated
  <2> QED BY <2>1, <2>4
<1>2. CASE ~(Exists(p) /\ Living(IndexOf(p)) /\ Fatal(p, signal))
  BY <1>2 DEF Deliver
<1> QED BY <1>1, <1>2

\* kill says whether there is such a process, a zombie included.
LEMMA KillSimulated ==
  ASSUME IInv, IInv', NEW p \in Pids, NEW signal \in Signals, Kill(p, signal)
  PROVE  Tree!Next
<1>1. Living(at) /\ next' = next /\ at' = at /\ Deliver(p, signal)
  BY DEF Kill, Running
<1>2. Current \in Pids /\ LifeOf[Current] = "Alive"
  BY <1>1, CurrentActs
<1>3. table'[at'].pid = Current
  <2>1. table[at] \in Entry
    BY Here
  <2> QED BY <1>1, <2>1, Here DEF Deliver, FinishAt, Current, Entry
<1>4. Tree!Tells(Current, "kill", p, IF Exists(p) THEN 0 ELSE ESRCH, Alive)
  BY <1>3 DEF Kill, Tells, Tree!Tells
<1>5. /\ Exists(p) => LifeOf[p] \in {"Alive", "Zombie"}
      /\ ~Exists(p) => LifeOf[p] \in {"Unborn", "Gone"}
  BY Mapped DEF MapIs, Exists
<1>6. CASE table' = table
  <2>1. UNCHANGED <<ParentOf, LifeOf, StatusOf>>
    BY <1>1, <1>6 DEF ParentOf, LifeOf, StatusOf, Exists, IndexOf, Living
  <2>2. Tree!Signal(Current)
    BY <1>4, <1>5, <2>1 DEF Tree!Signal, Tree!ESRCH, ESRCH
  <2> QED BY <1>2, <2>2 DEF Tree!Next
<1>7. CASE LifeOf[p] = "Alive" /\ Tree!Ends(p)
  <2>1. Exists(p)
    BY <1>5, <1>7
  <2>2. Tree!Signal(Current)
    BY <1>4, <1>7, <2>1 DEF Tree!Signal
  <2> QED BY <1>2, <2>2 DEF Tree!Next
<1> QED BY <1>1, <1>6, <1>7, DeliverSimulated

\* The running process ends by itself, or of what it did.
LEMMA FinishSimulated ==
  ASSUME IInv, IInv', Living(at), NEW ending \in Endings, NEW ths,
         Finish(ending, ths), next' = next, answer' \in {answer, NoAnswer}
  PROVE  Tree!Next
<1>1. table' = EndedTable(table, at, ending)
  BY DEF Finish, FinishAt, EndedTable
<1>2. LifeOf[table[at].pid] = "Alive" /\ Tree!Ends(table[at].pid)
  BY <1>1, Here, EndSimulated
<1>3. Tree!IsForgotten
  BY DEF Tree!IsForgotten, Tree!NoAnswer, NoAnswer
<1>4. table[at].pid \in Pids
  BY Here, EveryEntry
<1> QED BY <1>2, <1>3, <1>4 DEF Tree!End, Tree!Next

---------------------------------------------------------------------------
(* The step simulation.                                                    *)

LEMMA ProgramSimulated ==
  ASSUME IInv, IInv', Program
  PROVE  Tree!Next
<1>1. CASE Preempt \/ Call \/ Pause \/ Sleep \/ Execve
           \/ (\E t \in Threads : Clone(t))
           \/ (\E signal \in Handled, handler \in Handlers : Sigaction(signal, handler))
  BY <1>1, StutterSimulated DEF Preempt, Call, Pause, Sleep, Execve, Clone, Sigaction, Parks
<1>2. CASE Fork
  BY <1>2, ForkSimulated, Here DEF Tree!Next
<1>3. CASE Fault
  BY <1>3, SegvIsAnEnding, FinishSimulated DEF Fault, Running, Ending
<1>4. CASE \E code \in Codes : ExitGroup(code)
  BY <1>4, ExitedIsAnEnding, FinishSimulated DEF ExitGroup, Running, Ending
<1>5. CASE \E code \in Codes : Exit(code)
  BY <1>5, ExitedIsAnEnding, FinishSimulated, StutterSimulated
     DEF Exit, Running, Ending, Parks
<1>6. CASE \E signal \in Signals : KillSelf(signal)
  <2>1. PICK signal \in Signals : KillSelf(signal)
    BY <1>6
  <2>2. CASE Fatal(Current, signal)
    <3>1. Exited(128 + signal) \in Endings
      BY <2>2, FatalIsAnEnding, ExitedIsAnEnding
    <3> QED BY <2>1, <2>2, <3>1, FinishSimulated DEF KillSelf, Running, Ending
  <2>3. CASE ~Fatal(Current, signal)
    BY <2>1, <2>3, StutterSimulated DEF KillSelf
  <2> QED BY <2>2, <2>3
<1>7. CASE \E signal \in Signals : \E p \in Pids : Kill(p, signal)
  BY <1>7, KillSimulated
<1>8. CASE \E wanted \in Pids \cup {0}, nohang \in BOOLEAN : Wait(wanted, nohang)
  BY <1>8, WaitSimulated
<1> QED BY <1>1, <1>2, <1>3, <1>4, <1>5, <1>6, <1>7, <1>8 DEF Program

\* A step that changes the table delivers a signal nobody caught.
LEMMA StepEnds ==
  ASSUME IInv, Step
  PROVE  \/ table' = table
         \/ \E ths, signal : /\ Fatal(Current, signal) /\ signal \in Signals
                             /\ Finish(Signalled(signal), ths)
<1> DEFINE ths == Woken(Current)
           t   == Chosen(ths)
           signal == CHOOSE r \in ths[t].pending : \A q \in ths[t].pending : r <= q
           taken == [threads EXCEPT ![Current] =
                       [ths EXCEPT ![t].pending = ths[t].pending \ {signal}]]
<1>1. \/ table' = table
      \/ /\ RunnableIn(ths) # {} /\ ths[t].pending # {} /\ Fatal(Current, signal)
         /\ Finish(Signalled(signal), taken)
  BY DEF Step
<1>2. ASSUME RunnableIn(ths) # {}, ths[t].pending # {}
      PROVE  signal \in Signals
  <2>1. ths \in [Threads -> Thread]
    BY WokenType
  <2>2. ths[t] \in Thread
    BY <1>2, <2>1, Here, ChosenRuns DEF RunnableIn
  <2>3. ths[t].pending \subseteq Signals
    BY <2>2 DEF Thread
  <2>4. ths[t].pending \subseteq Nat
    BY <2>3 DEF Signals, SIGTERM, SIGCHLD
  <2>5. signal \in ths[t].pending
    BY <1>2, <2>4, LeastExists
  <2> QED BY <2>3, <2>5
<1> HIDE DEF signal, taken, t
<1> QED BY <1>1, <1>2

LEMMA CollectSimulated ==
  ASSUME IInv, IInv', Collect, Collectable(at) # {}
  PROVE  Tree!Reap(Current)
<1> DEFINE t    == Oldest(Collectable(at))
           done == [threads[Current][t] EXCEPT !.state = "Runnable", !.wanted = 0]
           ths  == [threads EXCEPT ![Current] = [threads[Current] EXCEPT ![t] = done]]
<1>1. t \in Collectable(at)
  <2>1. Collectable(at) \subseteq Nat
    BY DEF Collectable, Waiting, Threads
  <2> QED BY <2>1, OldestIsOne
<1>2. t \in Threads /\ Reapable(Current, threads[Current][t].wanted) # {}
  BY <1>1 DEF Collectable, Waiting, Current
<1>3. Reap(threads[Current][t].wanted, ths) /\ Living(at) /\ next' = next
  BY DEF Collect, IInv, CollectsAlive
<1>4. threads[Current][t].wanted \in Pids \cup {0} /\ done \in Thread
  <2>1. threads[Current][t] \in Thread
    BY <1>2, Here
  <2> QED BY <2>1 DEF Thread
<1>5. ths \in Everybody
  BY <1>2, <1>4, Here, ThreadPlaced
<1> HIDE DEF ths, t
<1> QED BY <1>2, <1>3, <1>4, <1>5, ReapSimulated

LEMMA StepSimulated ==
  ASSUME IInv, IInv', EndedHasNoTurn, Step
  PROVE  Tree!Next
<1>1. Living(at) /\ next' = next /\ answer' = NoAnswer
  BY DEF Step, EndedHasNoTurn
<1>2. CASE table' = table
  BY <1>1, <1>2, StutterSimulated
<1>3. CASE \E ths, signal : /\ Fatal(Current, signal) /\ signal \in Signals
                            /\ Finish(Signalled(signal), ths)
  BY <1>1, <1>3, FatalIsAnEnding, FinishSimulated
<1>4. \/ table' = table
      \/ \E ths, signal : /\ Fatal(Current, signal) /\ signal \in Signals
                          /\ Finish(Signalled(signal), ths)
  BY StepEnds
<1> QED BY <1>2, <1>3, <1>4

LEMMA NextSimulated ==
  ASSUME IInv, IInv', EndedHasNoTurn, [Next]_vars
  PROVE  Tree!Next
<1>1. CASE UNCHANGED vars
  BY <1>1, StutterSimulated DEF vars
<1>2. CASE Program
  BY <1>2, ProgramSimulated
<1>3. CASE Step
  BY <1>3, StepSimulated
<1>4. CASE RunsOn
  BY <1>4 DEF RunsOn, EndedHasNoTurn
<1>5. CASE Schedule \/ Idle
  BY <1>5, StutterSimulated DEF Schedule, Idle
<1>6. CASE Collect
  <2>1. CASE Collectable(at) = {}
    BY <1>6, <2>1, StutterSimulated DEF Collect
  <2>2. CASE Collectable(at) # {}
    <3>1. Tree!Reap(Current)
      BY <1>6, <2>2, CollectSimulated
    <3>2. Living(at)
      BY <1>6 DEF Collect, IInv, CollectsAlive
    <3> QED BY <3>1, <3>2, CurrentActs DEF Tree!Next
  <2> QED BY <2>1, <2>2
<1>7. CASE TakeShutdown
  <2>1. FIRST \in Pids /\ SIGTERM \in Signals
    BY ProcessesAssumption DEF FIRST, Pids, Signals
  <2>2. \/ table' = table
        \/ LifeOf[FIRST] = "Alive" /\ Tree!Ends(FIRST)
    BY <1>7, <2>1, DeliverSimulated DEF TakeShutdown
  <2>3. CASE table' = table
    BY <1>7, <2>3, StutterSimulated DEF TakeShutdown
  <2>4. CASE LifeOf[FIRST] = "Alive" /\ Tree!Ends(FIRST)
    <3>1. Tree!IsForgotten
      BY <1>7 DEF TakeShutdown, Tree!IsForgotten
    <3> QED BY <2>1, <2>4, <3>1 DEF Tree!End, Tree!Next
  <2> QED BY <2>2, <2>3, <2>4
<1> QED BY <1>1, <1>2, <1>3, <1>4, <1>5, <1>6, <1>7 DEF Next, Kernel

LEMMA InitSimulated == Init => Tree!Init
<1> SUFFICES ASSUME Init PROVE Tree!Init
  OBVIOUS
<1>1. MapIs
  BY InitKeeps, Mapped
<1>2. DOMAIN table = {1} /\ table[1] = [pid |-> 1, parent |-> 0, status |-> Alive]
  BY DEF Init, FIRST
<1>3. ASSUME NEW p \in Pids
      PROVE  /\ ParentOf[p] = 0 /\ StatusOf[p] = Alive
             /\ LifeOf[p] = IF p = 1 THEN "Alive" ELSE "Unborn"
  <2>1. CASE p = 1
    BY <2>1, <1>1, <1>2 DEF MapIs, Living
  <2>2. CASE p # 1
    <3>1. ~Exists(p) /\ p >= next
      BY <2>2, <1>2 DEF Exists, Init, FIRST, Pids
    <3> QED BY <2>2, <3>1, <1>1 DEF MapIs
  <2> QED BY <2>1, <2>2
<1> QED BY <1>1, <1>3 DEF MapIs, Tree!Init, Init, NoAnswer, Tree!NoAnswer

---------------------------------------------------------------------------
(* With nobody asleep the idle pass has nothing to wait for, and without a *)
(* shutdown request nothing to look at: only the scheduler gives a turn.   *)

Awake(ths) == \A p \in Pids : \A t \in Threads : ths[p][t].state # "Sleeping"
Restless   == ~stopping /\ Awake(threads)

LEMMA PlacedAwake ==
  ASSUME NEW ths \in Everybody, Awake(ths), NEW p \in Pids,
         NEW one \in [Threads -> Thread], \A t \in Threads : one[t].state # "Sleeping"
  PROVE  Awake([ths EXCEPT ![p] = one])
BY DEF Awake, Everybody

LEMMA OneAwake ==
  ASSUME NEW ths \in Everybody, Awake(ths), NEW p \in Pids, NEW t \in Threads,
         NEW thread \in Thread, thread.state # "Sleeping"
  PROVE  Awake([ths EXCEPT ![p] = [ths[p] EXCEPT ![t] = thread]])
<1>1. ths[p] \in [Threads -> Thread]
  BY DEF Everybody
<1> DEFINE one == [ths[p] EXCEPT ![t] = thread]
<1>2. one \in [Threads -> Thread] /\ \A u \in Threads : one[u].state # "Sleeping"
  BY <1>1 DEF Awake
<1> HIDE DEF one
<1>3. Awake([ths EXCEPT ![p] = one])
  BY <1>2, PlacedAwake
<1> QED BY <1>3 DEF one

LEMMA RaisedAwake ==
  ASSUME IInv, NEW ths \in Everybody, Awake(ths), NEW p \in Pids, NEW signal \in Signals
  PROVE  Awake(Raised(ths, p, signal))
<1> DEFINE t == turn[p]
           new == [ths[p][t] EXCEPT !.pending = ths[p][t].pending \cup {signal}]
<1>1. t \in Threads /\ ths[p][t] \in Thread
  BY DEF IInv, TypeOK, Everybody
<1>2. new \in Thread /\ new.state # "Sleeping"
  BY <1>1 DEF Thread, Awake
<1>3. Raised(ths, p, signal) =
        IF dispositions[p][signal] = "Caught"
        THEN [ths EXCEPT ![p] = [ths[p] EXCEPT ![t] = new]]
        ELSE ths
  BY DEF Raised
<1> HIDE DEF new, t
<1> QED BY <1>1, <1>2, <1>3, OneAwake

LEMMA FinishAtAwake ==
  ASSUME IInv, NEW i \in DOMAIN table, NEW ending, NEW ths \in Everybody, Awake(ths),
         FinishAt(i, ending, ths)
  PROVE  Awake(threads')
<1>1. CASE \E j \in DOMAIN table : table[j].pid = table[i].parent /\ Living(j)
  <2>1. table[i].parent \in Pids /\ SIGCHLD \in Signals
    BY <1>1, EveryEntry DEF Signals
  <2>2. threads' = Raised(ths, table[i].parent, SIGCHLD)
    BY <1>1 DEF FinishAt
  <2> QED BY <2>1, <2>2, RaisedAwake
<1>2. CASE ~\E j \in DOMAIN table : table[j].pid = table[i].parent /\ Living(j)
  BY <1>2 DEF FinishAt
<1> QED BY <1>1, <1>2

LEMMA FinishAwake ==
  ASSUME IInv, NEW ending, NEW ths \in Everybody, Awake(ths), Finish(ending, ths)
  PROVE  Awake(threads') /\ phase' \in {"Schedule", "Over"}
BY Here, FinishAtAwake DEF Finish

LEMMA ReapAwake ==
  ASSUME IInv, NEW wanted \in Pids \cup {0}, Reapable(Current, wanted) # {},
         NEW ths \in Everybody, Awake(ths), Reap(wanted, ths)
  PROVE  Awake(threads')
<1> DEFINE i == Oldest(Reapable(Current, wanted))
<1>1. i \in DOMAIN table
  <2>1. DOMAIN table \subseteq Nat
    BY Here
  <2>2. Reapable(Current, wanted) \subseteq DOMAIN table
    BY DEF Reapable, Children
  <2> QED BY <2>1, <2>2, OldestIsOne
<1>2. threads' = [ths EXCEPT ![table[i].pid] = Nobody]
  BY DEF Reap
<1>3. /\ Nobody \in [Threads -> Thread]
      /\ \A t \in Threads : Nobody[t].state # "Sleeping"
  BY DEF Nobody, NoThread, Thread
<1> HIDE DEF i
<1>4. table[i].pid \in Pids
  BY <1>1, EveryEntry
<1> QED BY <1>2, <1>3, <1>4, PlacedAwake

LEMMA ParksAwake ==
  ASSUME IInv, Restless, NEW thread \in Thread, thread.state # "Sleeping", Parks(thread)
  PROVE  Awake(threads') /\ phase' = "Schedule"
<1>1. threads' = [threads EXCEPT ![Current] = [threads[Current] EXCEPT ![Me] = thread]]
  BY DEF Parks
<1>2. Awake(threads')
  BY <1>1, Here, OneAwake DEF Restless
<1> QED BY <1>2 DEF Parks, Stops

\* A program's own action always hands the turn back to the scheduler.
LEMMA ProgramRestless ==
  ASSUME ~Sleeps, IInv, Restless, Program
  PROVE  Awake(threads') /\ phase' \in {"Schedule", "Over"}
<1>1. threads \in Everybody /\ Awake(threads)
  BY Here DEF Restless
<1>2. CASE Preempt \/ Call
           \/ (\E signal \in Handled, handler \in Handlers : Sigaction(signal, handler))
  BY <1>1, <1>2 DEF Preempt, Call, Sigaction, Stops
<1>3. CASE Pause
  <2>1. [threads[Current][Me] EXCEPT !.state = "Paused"] \in Thread
    BY Here DEF Thread
  <2>2. [threads[Current][Me] EXCEPT !.state = "Paused"].state # "Sleeping"
    BY Here DEF Thread
  <2> QED BY <1>3, <2>1, <2>2, ParksAwake DEF Pause
<1>4. CASE Sleep
  BY <1>4 DEF Sleep
<1>5. CASE Fork
  <2> DEFINE one == OneThread(threads[Current][Me])
  <2>1. /\ one \in [Threads -> Thread]
        /\ \A t \in Threads : one[t].state # "Sleeping"
    BY <1>1, Here DEF OneThread, NoThread, Thread, Awake
  <2>2. next \in Pids /\ threads' = [threads EXCEPT ![next] = one]
    BY <1>5 DEF Fork, IInv, TypeOK, Pids
  <2> HIDE DEF one
  <2>3. Awake(threads')
    BY <1>1, <2>1, <2>2, PlacedAwake
  <2> QED BY <1>5, <2>3 DEF Fork, Stops
<1>6. CASE Execve
  <2> DEFINE one == OneThread(NewThread)
  <2>1. /\ one \in [Threads -> Thread]
        /\ \A t \in Threads : one[t].state # "Sleeping"
    BY DEF OneThread, NewThread, NoThread, Thread
  <2>2. threads' = [threads EXCEPT ![Current] = one]
    BY <1>6 DEF Execve
  <2> HIDE DEF one
  <2>3. phase' = "Schedule"
    BY <1>6 DEF Execve, Stops
  <2> QED BY <1>1, <2>1, <2>2, <2>3, Here, PlacedAwake
<1>7. CASE \E t \in Threads : Clone(t)
  <2>1. PICK t \in Threads : Clone(t)
    BY <1>7
  <2>2. NewThread \in Thread /\ NewThread.state # "Sleeping"
    BY DEF NewThread, Thread
  <2>3. threads' = [threads EXCEPT ![Current] = [threads[Current] EXCEPT ![t] = NewThread]]
    BY <2>1 DEF Clone
  <2>4. phase' = "Schedule"
    BY <2>1 DEF Clone, Stops
  <2>5. Awake(threads')
    BY <1>1, <2>2, <2>3, Here, OneAwake
  <2> QED BY <2>4, <2>5
<1>8. CASE Fault \/ \E code \in Codes : ExitGroup(code)
  BY <1>1, <1>8, FinishAwake DEF Fault, ExitGroup, Ending
<1>9. CASE \E code \in Codes : Exit(code)
  <2> DEFINE gone == [threads[Current][Me] EXCEPT !.state = "Exited"]
             left == [threads EXCEPT ![Current] = [threads[Current] EXCEPT ![Me] = gone]]
  <2>1. PICK code \in Codes : Parks(gone) \/ Ending(Exited(code), left)
    BY <1>9 DEF Exit
  <2>2. gone \in Thread /\ gone.state # "Sleeping"
    BY Here DEF Thread
  <2>3. left \in Everybody /\ Awake(left)
    BY <1>1, <2>2, Here, OneAwake, ThreadPlaced
  <2> HIDE DEF gone, left
  <2>4. CASE Parks(gone)
    BY <2>2, <2>4, ParksAwake
  <2>5. CASE Ending(Exited(code), left)
    BY <2>3, <2>5, FinishAwake DEF Ending
  <2> QED BY <2>1, <2>4, <2>5
<1>10. CASE \E signal \in Signals : KillSelf(signal)
  <2>1. PICK signal \in Signals : KillSelf(signal)
    BY <1>10
  <2>2. \/ Ending(Exited(128 + signal), threads)
        \/ threads' = Raised(threads, Current, signal) /\ phase' = "Schedule"
    BY <2>1 DEF KillSelf, Stops
  <2> QED BY <1>1, <2>2, Here, FinishAwake, RaisedAwake DEF Ending
<1>11. CASE \E signal \in Signals : \E p \in Pids : Kill(p, signal)
  <2>1. PICK signal \in Signals, p \in Pids : Kill(p, signal)
    BY <1>11
  <2>2. phase' = "Schedule" /\ Deliver(p, signal)
    BY <2>1 DEF Kill, Stops
  <2>3. CASE /\ Exists(p)
             /\ FinishAt(IndexOf(p), Signalled(signal), threads)
    BY <1>1, <2>2, <2>3, IndexIsThere, FinishAtAwake
  <2>4. CASE threads' \in {threads, Raised(threads, p, signal)}
    BY <1>1, <2>2, <2>4, RaisedAwake
  <2> QED BY <2>2, <2>3, <2>4 DEF Deliver
<1>12. CASE \E wanted \in Pids \cup {0}, nohang \in BOOLEAN : Wait(wanted, nohang)
  <2>1. PICK wanted \in Pids \cup {0}, nohang \in BOOLEAN : Wait(wanted, nohang)
    BY <1>12
  <2> DEFINE parked == [threads[Current][Me] EXCEPT !.state = "WaitingForChild",
                                                    !.wanted = wanted]
  <2>2. parked \in Thread /\ parked.state # "Sleeping"
    BY Here DEF Thread
  <2>3. \/ Reapable(Current, wanted) # {} /\ Reap(wanted, threads)
        \/ threads' = [threads EXCEPT ![Current] = [threads[Current] EXCEPT ![Me] = parked]]
        \/ threads' = threads
    BY <2>1 DEF Wait
  <2> HIDE DEF parked
  <2>4. Awake(threads')
    BY <1>1, <2>2, <2>3, Here, ReapAwake, OneAwake
  <2> QED BY <2>1, <2>4 DEF Wait, Stops
<1> QED BY <1>2, <1>3, <1>4, <1>5, <1>6, <1>7, <1>8, <1>9, <1>10, <1>11, <1>12
        DEF Program

LEMMA StepRestless ==
  ASSUME IInv, Restless, Step
  PROVE  /\ Awake(threads')
         /\ phase' \in {"Schedule", "Over"} \/ UNCHANGED <<table, at>>
<1> DEFINE ths == Woken(Current)
           t   == Chosen(ths)
           signal == CHOOSE r \in ths[t].pending : \A q \in ths[t].pending : r <= q
           left   == [ths[t] EXCEPT !.pending = ths[t].pending \ {signal}]
           rest   == [ths EXCEPT ![t] = left]
           taken  == [threads EXCEPT ![Current] = rest]
<1>1. threads \in Everybody /\ Awake(threads) /\ at' = at
  BY Here DEF Restless, Step
<1>2. ths \in [Threads -> Thread] /\ \A u \in Threads : ths[u].state # "Sleeping"
  <2>1. \A u \in Threads : threads[Current][u] \in Thread
                           /\ threads[Current][u].state # "Sleeping"
    BY <1>1, Here DEF Awake
  <2>2. \A u \in Threads : ths[u].state # "Sleeping"
    BY <2>1 DEF Woken, Thread
  <2> QED BY <2>2, WokenType
<1>3. CASE RunnableIn(ths) = {}
  BY <1>1, <1>3 DEF Step
<1>4. CASE RunnableIn(ths) # {}
  <2>1. t \in Threads /\ ths[t] \in Thread
    BY <1>2, <1>4, Here, ChosenRuns DEF RunnableIn
  <2>2. left \in Thread /\ left.state # "Sleeping"
    BY <1>2, <2>1 DEF Thread
  <2>3. \/ /\ threads' = [threads EXCEPT ![Current] = ths]
           /\ UNCHANGED table
        \/ /\ threads' = taken
           /\ UNCHANGED table
        \/ Finish(Signalled(signal), taken)
    BY <1>4 DEF Step
  <2> HIDE DEF left, signal, t, ths
  <2>4. rest \in [Threads -> Thread] /\ \A u \in Threads : rest[u].state # "Sleeping"
    BY <1>2, <2>1, <2>2
  <2> HIDE DEF rest
  <2>5. /\ Awake([threads EXCEPT ![Current] = ths])
        /\ Awake(taken) /\ taken \in Everybody
    <3>1. taken \in Everybody
      BY <1>1, <2>4, Here DEF Everybody
    <3> QED BY <1>1, <1>2, <2>4, <3>1, Here, PlacedAwake
  <2> HIDE DEF taken
  <2> QED BY <1>1, <2>3, <2>5, FinishAwake
<1> QED BY <1>3, <1>4

LEMMA CollectRestless ==
  ASSUME IInv, Restless, Collect
  PROVE  /\ Awake(threads')
         /\ phase' = "Collect" \/ UNCHANGED <<table, at>>
<1>1. CASE Collectable(at) = {}
  BY <1>1 DEF Collect, Restless
<1>2. CASE Collectable(at) # {}
  <2> DEFINE t    == Oldest(Collectable(at))
             done == [threads[Current][t] EXCEPT !.state = "Runnable", !.wanted = 0]
             ths  == [threads EXCEPT ![Current] = [threads[Current] EXCEPT ![t] = done]]
  <2>1. t \in Collectable(at)
    <3>1. Collectable(at) \subseteq Nat
      BY DEF Collectable, Waiting, Threads
    <3> QED BY <1>2, <3>1, OldestIsOne
  <2>2. t \in Threads /\ Reapable(Current, threads[Current][t].wanted) # {}
    BY <2>1 DEF Collectable, Waiting, Current
  <2>3. Reap(threads[Current][t].wanted, ths) /\ phase' = phase /\ phase = "Collect"
    BY <1>2 DEF Collect
  <2>4. threads[Current][t].wanted \in Pids \cup {0}
        /\ done \in Thread /\ done.state # "Sleeping"
    <3>1. threads[Current][t] \in Thread
      BY <2>2, Here
    <3> QED BY <3>1 DEF Thread
  <2> HIDE DEF done, t
  <2>5. ths \in Everybody /\ Awake(ths)
    BY <2>2, <2>4, Here, ThreadPlaced, OneAwake DEF Restless
  <2> HIDE DEF ths
  <2> QED BY <2>2, <2>3, <2>4, <2>5, ReapAwake
<1> QED BY <1>1, <1>2

LEMMA TurnsAreGiven ==
  ASSUME ~Sleeps, ~Asks, IInv, Restless, EndedHasNoTurn, [Next]_vars
  PROVE  Restless' /\ EndedHasNoTurn'
<1>1. CASE UNCHANGED vars
  BY <1>1 DEF vars, Restless, EndedHasNoTurn, Living
<1>2. CASE Program
  <2>1. stopping' = stopping
    BY <1>2 DEF Program, Preempt, Call, Pause, Sleep, Fork, Execve, Fault, Clone,
                ExitGroup, Exit, KillSelf, Kill, Sigaction, Wait, Parks, Ending
  <2> QED BY <1>2, <2>1, ProgramRestless DEF Restless, EndedHasNoTurn
<1>3. CASE Step
  BY <1>3, StepRestless DEF Step, Restless, EndedHasNoTurn, Living
<1>4. CASE RunsOn
  BY <1>4 DEF RunsOn, EndedHasNoTurn
<1>5. CASE Schedule
  BY <1>5 DEF Schedule, Restless, EndedHasNoTurn
<1>6. CASE Collect
  BY <1>6, CollectRestless DEF Collect, Restless, EndedHasNoTurn, IInv, CollectsAlive, Living
<1>7. CASE TakeShutdown
  BY <1>7 DEF TakeShutdown
<1>8. CASE Idle
  <2>1. Sleepers = {}
    BY DEF Sleepers, Restless, Awake
  <2> QED BY <1>8, <2>1 DEF Idle, Restless, EndedHasNoTurn
<1> QED BY <1>1, <1>2, <1>3, <1>4, <1>5, <1>6, <1>7, <1>8 DEF Next, Kernel

\* When nobody sleeps and the host asks for nothing, the turn is only ever
\* at a process that has not ended: the idle pass, which does not look
\* (system.rs:417), never gives one back.
THEOREM NoTurnForTheDead ==
  ASSUME ~Sleeps, ~Asks
  PROVE  Spec => []EndedHasNoTurn
<1>1. Init => Restless /\ EndedHasNoTurn
  BY DEF Init, Restless, Awake, EndedHasNoTurn, Living, OneThread, NewThread, Nobody,
         NoThread
<1>2. IInv /\ Restless /\ EndedHasNoTurn /\ [Next]_vars => Restless' /\ EndedHasNoTurn'
  BY TurnsAreGiven
<1> QED BY <1>1, <1>2, Invariance, PTL DEF Spec

\* When nobody sleeps and the host asks for nothing, the table is the tree:
\* whoever ends is told of once, to the right parent, with its status, for
\* any number of processes and threads (system.rs:875-901, 927-1016, 315-368).
THEOREM TableIsTheTree ==
  ASSUME ~Sleeps, ~Asks
  PROVE  Spec => KeepsTheTree
<1>1. Init => Tree!Init
  BY InitSimulated
<1>2. IInv /\ IInv' /\ EndedHasNoTurn /\ [Next]_vars => [Tree!Next]_(Tree!vars)
  BY NextSimulated
<1> QED BY <1>1, <1>2, Invariance, NoTurnForTheDead, PTL DEF Spec, KeepsTheTree, Tree!Spec
===========================================================================
