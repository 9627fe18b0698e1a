---------------------------- MODULE SocketsProofs ---------------------------
(***************************************************************************)
(* The counts of the sockets, for every number of processes, descriptors,  *)
(* sockets and rings.                                                      *)
(*                                                                         *)
(* The inductive invariant says what every count is of (Core), in sets of  *)
(* descriptors and places in queues (On, Count).  A step is one of few     *)
(* shapes (Moves): one process's table changes (Retabled), sockets come    *)
(* (Opened), one joins a queue (Enqueued) or leaves it (Dequeued), two     *)
(* rings are laid (Laid, WiredTo), an end is given up (Shuts), bytes move  *)
(* (Puts, Takes, Draining) or the host reports (Adds).  Each action is     *)
(* shown to have its shapes, and each shape to keep each part of the       *)
(* invariant.                                                              *)
(***************************************************************************)
EXTENDS Sockets, FiniteSetTheorems, SequenceTheorems, WellFoundedInduction, TLAPS

---------------------------------------------------------------------------
(* What the invariant is made of.                                          *)

\* What a ring, an event, a connection of the host and a stream are.
RingRecords == [bytes : Seq(Nat), readers : Nat, writers : Nat, attached : Nat]
Events      == [kind : {"open", "data", "eof"}, conn : Nat, port : Nat]
Connections == [incoming : Seq(Nat), present : BOOLEAN, shut : BOOLEAN,
                reading : BOOLEAN, sent : Nat]
Streams     == [sent : Nat, got : Nat, reads : Nat, writes : Nat]

\* The sockets in use, the connected ones, those in a listener's queue, the
\* descriptors of a set of sockets, and all that holds a set of sockets.
LiveIn(k)    == {i \in Ids : k[i] # NoSocket}
JoinedIn(k)  == {i \in Ids : k[i] # NoSocket /\ k[i].state = "Connected"}
WaitingIn(k) == {j \in Ids : \E i \in Ids : /\ k[i] # NoSocket /\ k[i].state = "Listening"
                                            /\ \E a \in DOMAIN k[i].queue : k[i].queue[a] = j}
On(f, S)     == {d \in Procs \X Fds : f[d[1]][d[2]] # NoFile /\ f[d[1]][d[2]].socket \in S}
Count(f, k, S) == Cardinality(On(f, S)) + Cardinality(S \cap WaitingIn(k))
\* Who can still take from ring s, who can still put in, and how often it is named.
Hearing(k, s)  == {i \in JoinedIn(k) : k[i].ends.receive = s /\ ~k[i].ends.readShut}
Saying(k, s)   == {i \in JoinedIn(k) : k[i].ends.transmit = s /\ ~k[i].ends.writeShut}
NamingIn(k, s) == Cardinality({i \in JoinedIn(k) : k[i].ends.receive = s})
                   + Cardinality({i \in JoinedIn(k) : k[i].ends.transmit = s})
One(b) == IF b THEN 1 ELSE 0

\* A descriptor names a socket in use.
DescriptorsLive(f, k) ==
  \A p \in Procs, fd \in Fds : f[p][fd] # NoFile => k[f[p][fd].socket] # NoSocket

\* Only listeners have queues; each member is connected, held by no descriptor,
\* and in one place of one queue.
QueuesAre(f, k, adr) ==
  /\ \A i \in LiveIn(k) : k[i].state # "Listening" => k[i].queue = <<>>
  /\ \A i \in LiveIn(k) : \A a \in DOMAIN k[i].queue :
        /\ k[i].queue[a] \in JoinedIn(k) \ adr
        /\ On(f, {k[i].queue[a]}) = {}
  /\ \A i, j \in LiveIn(k) : \A a \in DOMAIN k[i].queue, b \in DOMAIN k[j].queue :
        k[i].queue[a] = k[j].queue[b] => i = j /\ a = b

\* A socket's references are what holds it; one adrift has a reference too many.
ReferencesAre(f, k, adr) ==
  /\ adr \subseteq LiveIn(k)
  /\ \A i \in LiveIn(k) : IF i \in adr THEN k[i].references > Count(f, k, {i})
                                       ELSE k[i].references = Count(f, k, {i})

\* Ring::attached is how often connected sockets name the ring.
AttachedAre(k, r) == \A s \in Slots : r[s].attached = NamingIn(k, s)

\* A ring's ends are its sockets' holders and the host's part, but for streams
\* given up for lost (README.md lists the steps that do).
CountsAre(f, k, r, str, car, skw) ==
  \A s \in Slots : car[s] \notin skw \cup {0} =>
     /\ r[s].readers = Count(f, k, Hearing(k, s)) + One(str[car[s]].reads # 0)
     /\ r[s].writers = Count(f, k, Saying(k, s)) + One(str[car[s]].writes # 0)

\* A ring carries one stream and a stream is in one ring; a connection has two
\* of its own, of which the host reads one and writes the other.
CarriedAre(k, car, str) ==
  /\ \A s \in Slots : car[s] \in 0..Len(str)
  /\ \A s, t \in Slots : car[s] = car[t] /\ car[s] # 0 => s = t
  /\ \A i \in JoinedIn(k) :
       LET e == k[i].ends IN
       /\ e.receive \in Slots /\ e.transmit \in Slots /\ e.hears # 0 /\ e.says # 0
       /\ car[e.receive] = e.hears /\ car[e.transmit] = e.says
       /\ str[e.hears].reads = 0
       /\ str[e.says].reads = k[i].edge
       /\ str[e.says].writes = 0
       /\ \A j \in JoinedIn(k) :
            /\ k[j].ends.hears = e.hears => i = j
            /\ k[j].ends.says = e.says => i = j
            /\ k[i].edge # 0 => k[j].ends.says # e.hears
            /\ k[i].edge # 0 => k[j].ends.hears # e.says

\* Each event names a connection of the host; open and eof come once each, open
\* before there is a socket; a connection of the host has at most one socket,
\* which still has its writer until the eof was handled.
EventsAre(k, str, P, con) ==
  /\ \A a \in DOMAIN P : P[a].conn \in 1..Len(con)
  /\ \A a \in DOMAIN P : P[a].kind = "eof" => ~con[P[a].conn].reading
  /\ \A a, b \in DOMAIN P : P[a].kind = P[b].kind /\ P[a].kind # "data"
        /\ P[a].conn = P[b].conn => a = b
  /\ \A i \in LiveIn(k) : k[i].edge \in 0..Len(con)
  /\ \A i \in LiveIn(k) : k[i].edge # 0 => k[i].state = "Connected"
  /\ \A i, j \in LiveIn(k) : k[i].edge = k[j].edge /\ k[i].edge # 0 => i = j
  /\ \A i \in LiveIn(k) : k[i].edge # 0 =>
        ((con[k[i].edge].reading \/ \E a \in DOMAIN P : P[a].kind = "eof" /\ P[a].conn = k[i].edge)
          => str[k[i].ends.hears].writes # 0)
  /\ \A i \in LiveIn(k) : k[i].edge # 0 => con[k[i].edge].present
  /\ \A i \in LiveIn(k) : k[i].edge # 0 /\ con[k[i].edge].shut => k[i].ends.writeShut
  /\ \A a \in DOMAIN str : str[a].reads \in 0..Len(con)
  /\ \A a, b \in DOMAIN str : str[a].reads = str[b].reads /\ str[a].reads # 0 => a = b
  /\ \A a \in DOMAIN P : P[a].kind = "open" =>
        LET c == P[a].conn IN
        /\ \A i \in LiveIn(k) : k[i].edge # c
        /\ \A b \in DOMAIN str : str[b].reads # c
        /\ con[c].present /\ ~con[c].shut /\ con[c].incoming = Numbers(0, con[c].sent)

\* The descriptors of a table that name a set of sockets.
TableOn(t, S) == {fd \in Fds : t[fd] # NoFile /\ t[fd].socket \in S}

\* The least of a set of numbers (the fold of free and lowest) is in it.
LEMMA LeastExists ==
  ASSUME NEW S, S \subseteq Nat, S # {}
  PROVE  Least(S) \in S /\ \A y \in S : Least(S) <= y
<1> DEFINE R == OpToRel(<, Nat)
<1>1. \A x, y \in Nat : x < y => <<x, y>> \in R
  <2> SUFFICES ASSUME NEW x \in Nat, NEW y \in Nat, x < y
               PROVE  <<x, y>> \in R
    OBVIOUS
  <2>1. <<x, y>> \in Nat \X Nat /\ <<x, y>>[1] = x /\ <<x, y>>[2] = y
    OBVIOUS
  <2> QED BY <2>1 DEF OpToRel
<1>2. \E x \in S : \A y \in S : <<y, x>> \notin R
  BY NatLessThanWellFounded, WFMin
<1> HIDE DEF R
<1>3. PICK x \in S : \A y \in S : <<y, x>> \notin R
  BY <1>2
<1>4. \A y \in S : ~(y < x)
  BY <1>1, <1>3
<1>5. \A y \in S : x <= y
  BY <1>4
<1> QED BY <1>5 DEF Least

\* A set of sockets has finitely many descriptors.
LEMMA OnFinite ==
  ASSUME NEW f, NEW S
  PROVE  IsFiniteSet(On(f, S)) /\ Cardinality(On(f, S)) \in Nat
<1>1. IsFiniteSet(Procs \X Fds)
  BY FS_Product, SocketsAssumption
<1>2. On(f, S) \in SUBSET (Procs \X Fds)
  BY DEF On
<1>3. IsFiniteSet(On(f, S))
  BY <1>1, <1>2, FS_Subset
<1> QED BY <1>3, FS_CardinalityType

\* Finitely many connections wait to be accepted.
LEMMA WaitingFinite ==
  ASSUME NEW k, NEW S
  PROVE  /\ IsFiniteSet(S \cap WaitingIn(k))
         /\ Cardinality(S \cap WaitingIn(k)) \in Nat
<1>1. (S \cap WaitingIn(k)) \in SUBSET Ids
  BY DEF WaitingIn
<1>2. IsFiniteSet(S \cap WaitingIn(k))
  BY <1>1, FS_Subset, SocketsAssumption
<1> QED BY <1>2, FS_CardinalityType

\* A count is a number.
LEMMA CountNat ==
  ASSUME NEW f, NEW k, NEW S
  PROVE  Count(f, k, S) \in Nat
BY OnFinite, WaitingFinite DEF Count

\* The sizes of two sets without a common member add up.
LEMMA SplitCard ==
  ASSUME NEW A, NEW B, IsFiniteSet(A), IsFiniteSet(B), A \cap B = {}
  PROVE  /\ IsFiniteSet(A \cup B)
         /\ Cardinality(A \cup B) = Cardinality(A) + Cardinality(B)
<1>1. Cardinality(A \cap B) = 0
  BY FS_EmptySet
<1>2. Cardinality(A) \in Nat /\ Cardinality(B) \in Nat
  BY FS_CardinalityType
<1>3. /\ IsFiniteSet(A \cup B)
      /\ Cardinality(A \cup B) = Cardinality(A) + (Cardinality(B) - Cardinality(A \cap B))
  BY FS_Union
<1> QED BY <1>1, <1>2, <1>3

\* The counts of two sets of sockets without a common member add up.
LEMMA CountSplits ==
  ASSUME NEW f, NEW k, NEW S, NEW T, S \cap T = {}
  PROVE  Count(f, k, S \cup T) = Count(f, k, S) + Count(f, k, T)
<1>1. On(f, S \cup T) = On(f, S) \cup On(f, T)
  BY DEF On
<1>2. On(f, S) \cap On(f, T) = {}
  BY DEF On
<1>3. Cardinality(On(f, S \cup T)) = Cardinality(On(f, S)) + Cardinality(On(f, T))
  BY <1>1, <1>2, OnFinite, SplitCard
<1> DEFINE W == WaitingIn(k)
<1>4. (S \cup T) \cap W = (S \cap W) \cup (T \cap W) /\ (S \cap W) \cap (T \cap W) = {}
  OBVIOUS
<1>5. Cardinality((S \cup T) \cap W) = Cardinality(S \cap W) + Cardinality(T \cap W)
  BY <1>4, WaitingFinite, SplitCard
<1>6. /\ Cardinality(On(f, S)) \in Nat /\ Cardinality(On(f, T)) \in Nat
      /\ Cardinality(S \cap W) \in Nat /\ Cardinality(T \cap W) \in Nat
  BY OnFinite, WaitingFinite
<1> QED BY <1>3, <1>5, <1>6 DEF Count

\* A table has finitely many descriptors of a set of sockets.
LEMMA TableIsFinite ==
  ASSUME NEW t, NEW S
  PROVE  IsFiniteSet(TableOn(t, S)) /\ Cardinality(TableOn(t, S)) \in Nat
<1>1. TableOn(t, S) \in SUBSET Fds
  BY DEF TableOn
<1>2. IsFiniteSet(TableOn(t, S))
  BY <1>1, FS_Subset, SocketsAssumption
<1> QED BY <1>2, FS_CardinalityType

\* The descriptors of a set of sockets are those of one process and the others'.
Elsewhere(f, S, p) == {d \in On(f, S) : d[1] # p}

\* What one process holds and what the others hold is all that is held.
LEMMA OnParts ==
  ASSUME NEW f, NEW S, NEW p \in Procs
  PROVE  /\ IsFiniteSet(Elsewhere(f, S, p)) /\ Cardinality(Elsewhere(f, S, p)) \in Nat
         /\ Cardinality(On(f, S)) = Cardinality(TableOn(f[p], S)) + Cardinality(Elsewhere(f, S, p))
<1> DEFINE T == TableOn(f[p], S)
<1>1. On(f, S) = ({p} \X T) \cup Elsewhere(f, S, p)
  BY DEF On, TableOn, Elsewhere
<1>2. ({p} \X T) \cap Elsewhere(f, S, p) = {}
  BY DEF Elsewhere
<1>3. IsFiniteSet({p}) /\ Cardinality({p}) = 1
  BY FS_Singleton
<1>4. IsFiniteSet(T) /\ Cardinality(T) \in Nat
  BY TableIsFinite
<1> HIDE DEF T
<1>5. IsFiniteSet({p} \X T) /\ Cardinality({p} \X T) = 1 * Cardinality(T)
  BY <1>3, <1>4, FS_Product
<1>6. Elsewhere(f, S, p) \in SUBSET On(f, S)
  BY DEF Elsewhere
<1>7. IsFiniteSet(Elsewhere(f, S, p))
  BY <1>6, OnFinite, FS_Subset
<1>8. Cardinality(Elsewhere(f, S, p)) \in Nat
  BY <1>7, FS_CardinalityType
<1>9. Cardinality(({p} \X T) \cup Elsewhere(f, S, p)) = Cardinality({p} \X T) + Cardinality(Elsewhere(f, S, p))
  BY <1>2, <1>5, <1>7, SplitCard
<1>10. Cardinality(On(f, S)) = Cardinality(T) + Cardinality(Elsewhere(f, S, p))
  BY <1>1, <1>9, <1>5, <1>4, <1>8
<1> QED BY <1>7, <1>8, <1>10 DEF T

\* Replacing one process's table moves a count by the difference of the two censuses.
LEMMA TableMoves ==
  ASSUME NEW f, NEW g, NEW S, NEW p \in Procs,
         \A q \in Procs : q # p => g[q] = f[q]
  PROVE  /\ Cardinality(TableOn(f[p], S)) <= Cardinality(On(f, S))
         /\ Cardinality(On(g, S)) + Cardinality(TableOn(f[p], S))
              = Cardinality(On(f, S)) + Cardinality(TableOn(g[p], S))
<1>1. Elsewhere(f, S, p) = Elsewhere(g, S, p)
  BY DEF On, Elsewhere
<1>2. /\ Cardinality(Elsewhere(f, S, p)) \in Nat
      /\ Cardinality(On(f, S)) = Cardinality(TableOn(f[p], S)) + Cardinality(Elsewhere(f, S, p))
  BY OnParts
<1>3. Cardinality(On(g, S)) = Cardinality(TableOn(g[p], S)) + Cardinality(Elsewhere(g, S, p))
  BY OnParts
<1>4. Cardinality(TableOn(f[p], S)) \in Nat /\ Cardinality(TableOn(g[p], S)) \in Nat
  BY TableIsFinite
<1> QED BY <1>1, <1>2, <1>3, <1>4

---------------------------------------------------------------------------
(* One process's table changes.                                            *)

\* What a socket in use is.
SocketsAre(k) == k \in [Ids -> Records \cup {NoSocket}]

\* What the parts of a socket in use are.
LEMMA LiveIsRecord ==
  ASSUME NEW k, SocketsAre(k), NEW i \in LiveIn(k)
  PROVE  /\ i \in Ids /\ k[i] # NoSocket /\ k[i] \in Records
         /\ k[i].references \in Nat /\ k[i].queue \in Seq(Ids) /\ k[i].edge \in Nat
         /\ k[i].backlog \in Nat /\ k[i].ends \in Endpoints
<1>1. i \in Ids /\ k[i] # NoSocket /\ k[i] \in Records
  BY DEF LiveIn, SocketsAre
<1> QED BY <1>1 DEF Records

\* The members of a queue wait, and those who wait are in one.
Waiters(f, k, adr) ==
  /\ \A j \in WaitingIn(k) :
       /\ j \in JoinedIn(k) /\ j \notin adr /\ On(f, {j}) = {}
       /\ \E i \in LiveIn(k) : \E a \in DOMAIN k[i].queue : k[i].queue[a] = j
  /\ \A i \in LiveIn(k) : \A a \in DOMAIN k[i].queue : k[i].queue[a] \in WaitingIn(k)

\* Who waits is connected, held by no descriptor, and in one queue.
LEMMA WaitingIs ==
  ASSUME NEW f, NEW k, NEW adr, SocketsAre(k), QueuesAre(f, k, adr)
  PROVE  Waiters(f, k, adr)
<1>1. ASSUME NEW j \in WaitingIn(k)
      PROVE  \E i \in LiveIn(k) : \E a \in DOMAIN k[i].queue : k[i].queue[a] = j
  BY <1>1 DEF WaitingIn, LiveIn
<1>2. ASSUME NEW i \in LiveIn(k), NEW a \in DOMAIN k[i].queue, NEW j, k[i].queue[a] = j
      PROVE  j \in JoinedIn(k) /\ j \notin adr /\ On(f, {j}) = {}
  BY <1>2 DEF QueuesAre
<1>3. ASSUME NEW i \in LiveIn(k), NEW a \in DOMAIN k[i].queue, NEW j, k[i].queue[a] = j
      PROVE  j \in WaitingIn(k)
  <2>1. k[i].queue # <<>>
    BY <1>3
  <2>2. k[i].state = "Listening"
    BY <2>1, <1>3 DEF QueuesAre
  <2>3. j \in Ids
    BY <1>2, <1>3 DEF JoinedIn
  <2> QED BY <2>2, <2>3, <1>3 DEF WaitingIn, LiveIn
<1> QED BY <1>1, <1>2, <1>3 DEF Waiters

\* How many descriptors of a table name socket i.
N(t, i) == Cardinality(TableOn(t, {i}))

\* The sockets whose last reference goes with process p's table.
GoneAt(f, k, g, p) ==
  {i \in LiveIn(k) : /\ N(g[p], i) < N(f[p], i)
                     /\ Adjusted(k[i].references, N(f[p], i), N(g[p], i)) = 0}

\* Those in the queues of a set of listeners.
Orphans(k, S) == {j \in Ids : \E i \in S : \E a \in DOMAIN k[i].queue : k[i].queue[a] = j}

\* Process p's table goes from f[p] to g[p], naming no socket that nobody named.
Retabled(f, k, g, l, p) ==
  /\ \A q \in Procs : q # p => g[q] = f[q]
  /\ \A fd \in Fds : g[p][fd] # NoFile =>
        \E q \in Procs, e \in Fds : f[q][e] # NoFile /\ f[q][e].socket = g[p][fd].socket
  /\ \A i \in Ids : i \in GoneAt(f, k, g, p) \/ i \notin LiveIn(k) => l[i] = NoSocket
  /\ \A i \in LiveIn(k) \ GoneAt(f, k, g, p) :
        /\ l[i] # NoSocket /\ l[i].state = k[i].state /\ l[i].queue = k[i].queue
        /\ l[i].ends = k[i].ends /\ l[i].edge = k[i].edge
        /\ l[i].references = Adjusted(k[i].references, N(f[p], i), N(g[p], i))

\* A socket is held exactly when a descriptor names it.
OnNames(f) ==
  \A i : On(f, {i}) # {} <=>
           \E q \in Procs, e \in Fds : f[q][e] # NoFile /\ f[q][e].socket = i

\* A socket is held where some descriptor names it.
LEMMA OnIsNaming ==
  ASSUME NEW f
  PROVE  OnNames(f)
<1> SUFFICES ASSUME NEW i
             PROVE  On(f, {i}) # {} <=>
                      \E q \in Procs, e \in Fds : f[q][e] # NoFile /\ f[q][e].socket = i
  BY DEF OnNames
<1>1. ASSUME NEW d \in On(f, {i})
      PROVE  \E q \in Procs, e \in Fds : f[q][e] # NoFile /\ f[q][e].socket = i
  BY <1>1 DEF On
<1>2. ASSUME NEW q \in Procs, NEW e \in Fds, f[q][e] # NoFile, f[q][e].socket = i
      PROVE  <<q, e>> \in On(f, {i})
  BY <1>2 DEF On
<1> QED BY <1>1, <1>2

\* Nobody is named by the new table who was not named before.
LEMMA StillNamed ==
  ASSUME NEW f, NEW k, NEW g, NEW l, NEW p \in Procs, Retabled(f, k, g, l, p)
  PROVE  \A i : On(f, {i}) = {} => On(g, {i}) = {}
<1> SUFFICES ASSUME NEW i, On(f, {i}) = {} PROVE On(g, {i}) = {}
  OBVIOUS
<1>w1. OnNames(f)
  BY OnIsNaming
<1>1. \A r \in Procs, d \in Fds : ~(f[r][d] # NoFile /\ f[r][d].socket = i)
  BY <1>w1 DEF OnNames
<1>2. ASSUME NEW q \in Procs, NEW e \in Fds, g[q][e] # NoFile, g[q][e].socket = i
      PROVE  FALSE
  <2>2. CASE q = p
    BY <1>1, <1>2, <2>2 DEF Retabled
  <2>3. CASE q # p
    BY <1>1, <1>2, <2>3 DEF Retabled
  <2> QED BY <2>2, <2>3
<1>w2. OnNames(g)
  BY OnIsNaming
<1>3. On(g, {i}) # {} <=> \E q \in Procs, e \in Fds : g[q][e] # NoFile /\ g[q][e].socket = i
  BY <1>w2 DEF OnNames
<1> QED BY <1>2, <1>3

\* A place in a queue counts for one.
LEMMA WaitOne ==
  ASSUME NEW k, NEW i
  PROVE  /\ i \in WaitingIn(k) => Cardinality({i} \cap WaitingIn(k)) = 1
         /\ i \notin WaitingIn(k) => Cardinality({i} \cap WaitingIn(k)) = 0
<1>1. ASSUME i \in WaitingIn(k) PROVE Cardinality({i} \cap WaitingIn(k)) = 1
  <2>1. {i} \cap WaitingIn(k) = {i}
    BY <1>1
  <2> QED BY <2>1, FS_Singleton
<1>2. ASSUME i \notin WaitingIn(k) PROVE Cardinality({i} \cap WaitingIn(k)) = 0
  <2>1. {i} \cap WaitingIn(k) = {}
    BY <1>2
  <2> QED BY <2>1, FS_EmptySet
<1> QED BY <1>1, <1>2

\* What holds one socket: its descriptors, and its place in a queue.
LEMMA CountOne ==
  ASSUME NEW f, NEW k, NEW i
  PROVE  /\ i \in WaitingIn(k) => Count(f, k, {i}) = Cardinality(On(f, {i})) + 1
         /\ i \notin WaitingIn(k) => Count(f, k, {i}) = Cardinality(On(f, {i}))
BY WaitOne, OnFinite DEF Count

\* What becomes of a socket's references.
LEMMA ReferencesMove ==
  ASSUME NEW f, NEW k, NEW g, NEW l, NEW p \in Procs, NEW adr, Retabled(f, k, g, l, p),
         SocketsAre(k), ReferencesAre(f, k, adr), NEW i \in LiveIn(k)
  PROVE  /\ Adjusted(k[i].references, N(f[p], i), N(g[p], i)) + Cardinality(On(f, {i}))
              = k[i].references + Cardinality(On(g, {i}))
         /\ Adjusted(k[i].references, N(f[p], i), N(g[p], i)) \in Nat
         /\ k[i].references >= Cardinality(On(f, {i}))
         /\ i \in adr => k[i].references > Count(f, k, {i})
         /\ i \notin adr => k[i].references = Count(f, k, {i})
<1>1. /\ Cardinality(TableOn(f[p], {i})) <= Cardinality(On(f, {i}))
      /\ Cardinality(On(g, {i})) + Cardinality(TableOn(f[p], {i}))
           = Cardinality(On(f, {i})) + Cardinality(TableOn(g[p], {i}))
  BY TableMoves DEF Retabled
<1>2. /\ N(f[p], i) \in Nat /\ N(g[p], i) \in Nat
      /\ Cardinality(On(f, {i})) \in Nat /\ Cardinality(On(g, {i})) \in Nat
  BY TableIsFinite, OnFinite DEF N
<1>3. k[i].references \in Nat
  BY LiveIsRecord
<1>4. /\ i \in adr => k[i].references > Count(f, k, {i})
      /\ i \notin adr => k[i].references = Count(f, k, {i})
  BY DEF ReferencesAre
<1>5. Count(f, k, {i}) >= Cardinality(On(f, {i})) /\ Count(f, k, {i}) \in Nat
  BY <1>2, CountOne
<1>6. k[i].references >= Cardinality(On(f, {i}))
  BY <1>2, <1>3, <1>4, <1>5
<1>7. /\ N(f[p], i) <= Cardinality(On(f, {i}))
      /\ Cardinality(On(g, {i})) + N(f[p], i) = Cardinality(On(f, {i})) + N(g[p], i)
  BY <1>1 DEF N
<1> QED BY <1>2, <1>3, <1>4, <1>6, <1>7 DEF Adjusted, SaturatingSub

\* A socket that goes with a table has no descriptor left and is in no queue.
LEMMA GoneIs ==
  ASSUME NEW f, NEW k, NEW g, NEW l, NEW p \in Procs, NEW adr, Retabled(f, k, g, l, p),
         SocketsAre(k), QueuesAre(f, k, adr), ReferencesAre(f, k, adr)
  PROVE  \A i \in GoneAt(f, k, g, p) :
           i \in LiveIn(k) /\ On(g, {i}) = {} /\ i \notin WaitingIn(k) /\ i \notin adr
<1> SUFFICES ASSUME NEW i \in GoneAt(f, k, g, p)
             PROVE  i \in LiveIn(k) /\ On(g, {i}) = {} /\ i \notin WaitingIn(k) /\ i \notin adr
  OBVIOUS
<1>1. i \in LiveIn(k) /\ Adjusted(k[i].references, N(f[p], i), N(g[p], i)) = 0
  BY DEF GoneAt
<1>2. /\ Adjusted(k[i].references, N(f[p], i), N(g[p], i)) + Cardinality(On(f, {i}))
              = k[i].references + Cardinality(On(g, {i}))
      /\ i \in adr => k[i].references > Count(f, k, {i})
      /\ i \notin adr => k[i].references = Count(f, k, {i})
  BY <1>1, ReferencesMove
<1>3. /\ Cardinality(On(f, {i})) \in Nat /\ Cardinality(On(g, {i})) \in Nat
      /\ k[i].references \in Nat
  BY <1>1, OnFinite, LiveIsRecord
<1>4. /\ i \in WaitingIn(k) => Count(f, k, {i}) = Cardinality(On(f, {i})) + 1
      /\ i \notin WaitingIn(k) => Count(f, k, {i}) = Cardinality(On(f, {i}))
  BY CountOne
<1>5. Cardinality(On(g, {i})) = 0 /\ i \notin WaitingIn(k) /\ i \notin adr
  BY <1>1, <1>2, <1>3, <1>4
<1>6. On(g, {i}) = {}
  BY <1>5, OnFinite, FS_EmptySet
<1> QED BY <1>1, <1>5, <1>6

\* The sockets left after a table changed.
LEMMA RetabledLive ==
  ASSUME NEW f, NEW k, NEW g, NEW l, NEW p \in Procs, Retabled(f, k, g, l, p)
  PROVE  LiveIn(l) = LiveIn(k) \ GoneAt(f, k, g, p)
BY DEF Retabled, LiveIn

\* No descriptor is left that names a socket that went.
LEMMA RetabledDescriptors ==
  ASSUME NEW f, NEW k, NEW g, NEW l, NEW p \in Procs, NEW adr, Retabled(f, k, g, l, p),
         SocketsAre(k), QueuesAre(f, k, adr), ReferencesAre(f, k, adr),
         DescriptorsLive(f, k),
         \A q \in Procs, fd \in Fds : f[q][fd] \in OpenFiles \cup {NoFile}
  PROVE  DescriptorsLive(g, l)
<1> SUFFICES ASSUME NEW q \in Procs, NEW fd \in Fds, g[q][fd] # NoFile
             PROVE  l[g[q][fd].socket] # NoSocket
  BY DEF DescriptorsLive
<1>a. PICK i : i = g[q][fd].socket
  OBVIOUS
<1>w3. OnNames(g)
  BY OnIsNaming
<1>1. On(g, {i}) # {}
  BY <1>a, <1>w3 DEF OnNames
<1>2. On(f, {i}) # {}
  BY <1>1, StillNamed
<1>w4. OnNames(f)
  BY OnIsNaming
<1>3. PICK r \in Procs, e \in Fds : f[r][e] # NoFile /\ f[r][e].socket = i
  BY <1>2, <1>w4 DEF OnNames
<1>4. i \in Ids
  BY <1>3 DEF OpenFiles
<1>5. k[i] # NoSocket
  BY <1>3 DEF DescriptorsLive
<1>6. i \in LiveIn(k)
  BY <1>4, <1>5 DEF LiveIn
<1>7. i \notin GoneAt(f, k, g, p)
  BY <1>1, GoneIs
<1> QED BY <1>a, <1>6, <1>7 DEF Retabled

\* Who waits after a table changed: not the queue of a listener that went.
LEMMA RetabledWaiting ==
  ASSUME NEW f, NEW k, NEW g, NEW l, NEW p \in Procs, NEW adr, Retabled(f, k, g, l, p),
         SocketsAre(k), QueuesAre(f, k, adr), ReferencesAre(f, k, adr)
  PROVE  /\ WaitingIn(l) = WaitingIn(k) \ Orphans(k, GoneAt(f, k, g, p))
         /\ Orphans(k, GoneAt(f, k, g, p)) \subseteq WaitingIn(k)
<1> DEFINE gone == GoneAt(f, k, g, p)
<1>1. LiveIn(l) = LiveIn(k) \ gone
  BY RetabledLive
<1>2. \A i \in LiveIn(l) : l[i].state = k[i].state /\ l[i].queue = k[i].queue
  BY <1>1 DEF Retabled
<1>3. gone \subseteq LiveIn(k)
  BY DEF GoneAt
<1> HIDE DEF gone
<1>4. ASSUME NEW j \in WaitingIn(l) PROVE j \in WaitingIn(k) /\ j \notin Orphans(k, gone)
  <2>1. PICK i \in LiveIn(l) : /\ l[i].state = "Listening"
                               /\ \E a \in DOMAIN l[i].queue : l[i].queue[a] = j
    BY DEF WaitingIn, LiveIn
  <2>2. PICK a \in DOMAIN l[i].queue : l[i].queue[a] = j
    BY <2>1
  <2>3. i \in LiveIn(k) /\ i \notin gone /\ k[i].queue[a] = j /\ a \in DOMAIN k[i].queue
    BY <1>1, <1>2, <2>2
  <2>w5. Waiters(f, k, adr)
    BY WaitingIs
  <2>4. j \in WaitingIn(k)
    BY <2>3, <2>w5 DEF Waiters
  <2>5. ASSUME NEW h \in gone, NEW b \in DOMAIN k[h].queue, k[h].queue[b] = j
        PROVE  FALSE
    <3>1. h = i
      BY <1>3, <2>3, <2>5 DEF QueuesAre
    <3> QED BY <3>1, <2>3
  <2> QED BY <2>4, <2>5 DEF Orphans
<1>5. ASSUME NEW j \in WaitingIn(k), j \notin Orphans(k, gone) PROVE j \in WaitingIn(l)
  <2>1. PICK i \in LiveIn(k) : /\ k[i].state = "Listening"
                               /\ \E a \in DOMAIN k[i].queue : k[i].queue[a] = j
    BY DEF WaitingIn, LiveIn
  <2>2. j \in Ids
    BY DEF WaitingIn
  <2>3. i \notin gone
    BY <1>5, <2>1, <2>2 DEF Orphans
  <2>4. i \in LiveIn(l)
    BY <1>1, <2>3
  <2> QED BY <2>1, <2>2, <2>4, <1>2 DEF WaitingIn, LiveIn
<1>6. ASSUME NEW j \in Orphans(k, gone) PROVE j \in WaitingIn(k)
  <2>1. PICK i \in gone : \E a \in DOMAIN k[i].queue : k[i].queue[a] = j
    BY DEF Orphans
  <2>w6. Waiters(f, k, adr)
    BY WaitingIs
  <2> QED BY <2>1, <1>3, <2>w6 DEF Waiters
<1> QED BY <1>4, <1>5, <1>6 DEF gone

\* The queues after a table changed.
LEMMA RetabledQueues ==
  ASSUME NEW f, NEW k, NEW g, NEW l, NEW p \in Procs, NEW adr, Retabled(f, k, g, l, p),
         SocketsAre(k), QueuesAre(f, k, adr), ReferencesAre(f, k, adr)
  PROVE  QueuesAre(g, l, adr \cup Orphans(k, GoneAt(f, k, g, p)))
<1> DEFINE gone == GoneAt(f, k, g, p)
<1>1. LiveIn(l) = LiveIn(k) \ gone
  BY RetabledLive
<1>2. \A i \in LiveIn(l) : l[i].state = k[i].state /\ l[i].queue = k[i].queue
  BY <1>1 DEF Retabled
<1>3. WaitingIn(l) = WaitingIn(k) \ Orphans(k, gone)
  BY RetabledWaiting
<1>4. \A i \in LiveIn(l) : l[i].state # "Listening" => l[i].queue = <<>>
  BY <1>1, <1>2 DEF QueuesAre
<1>5. ASSUME NEW i \in LiveIn(l), NEW a \in DOMAIN l[i].queue
      PROVE  /\ l[i].queue[a] \in JoinedIn(l) \ (adr \cup Orphans(k, gone))
             /\ On(g, {l[i].queue[a]}) = {}
  <2>a. PICK j : j = l[i].queue[a]
    OBVIOUS
  <2>1. i \in LiveIn(k) /\ a \in DOMAIN k[i].queue /\ j = k[i].queue[a]
    BY <1>1, <1>2, <1>5, <2>a
  <2>w7. Waiters(f, k, adr)
    BY WaitingIs
  <2>2. j \in WaitingIn(k) /\ j \in JoinedIn(k) /\ j \notin adr /\ On(f, {j}) = {}
    BY <2>1, <2>w7 DEF Waiters
  <2>3. l[i].state = "Listening"
    BY <1>4, <1>5
  <2>4. j \in Ids
    BY <2>2 DEF JoinedIn
  <2>5. j \in WaitingIn(l)
    BY <2>3, <2>4, <1>5, <2>a DEF WaitingIn, LiveIn
  <2>6. j \notin gone
    BY <2>2, GoneIs
  <2>7. j \in JoinedIn(l)
    <3>1. j \in LiveIn(l)
      BY <1>1, <2>2, <2>6 DEF JoinedIn, LiveIn
    <3> QED BY <3>1, <1>2, <2>2 DEF JoinedIn, LiveIn
  <2>8. On(g, {j}) = {}
    BY <2>2, StillNamed
  <2> QED BY <2>a, <2>2, <2>5, <2>7, <2>8, <1>3
<1>6. \A i, j \in LiveIn(l) : \A a \in DOMAIN l[i].queue, b \in DOMAIN l[j].queue :
        l[i].queue[a] = l[j].queue[b] => i = j /\ a = b
  BY <1>1, <1>2 DEF QueuesAre
<1> QED BY <1>4, <1>5, <1>6 DEF QueuesAre

\* The references after a table changed: those whose listener went keep a count
\* that nobody holds.
LEMMA RetabledReferences ==
  ASSUME NEW f, NEW k, NEW g, NEW l, NEW p \in Procs, NEW adr, Retabled(f, k, g, l, p),
         SocketsAre(k), QueuesAre(f, k, adr), ReferencesAre(f, k, adr)
  PROVE  ReferencesAre(g, l, adr \cup Orphans(k, GoneAt(f, k, g, p)))
<1> DEFINE gone == GoneAt(f, k, g, p)
           new == adr \cup Orphans(k, gone)
<1>1. LiveIn(l) = LiveIn(k) \ gone
  BY RetabledLive
<1>2. /\ WaitingIn(l) = WaitingIn(k) \ Orphans(k, gone)
      /\ Orphans(k, gone) \subseteq WaitingIn(k)
  BY RetabledWaiting
<1>3. \A i \in gone : i \notin WaitingIn(k) /\ i \notin adr
  BY GoneIs
<1>4. new \subseteq LiveIn(l)
  <2>1. adr \subseteq LiveIn(k)
    BY DEF ReferencesAre
  <2>w8. Waiters(f, k, adr)
    BY WaitingIs
  <2>2. WaitingIn(k) \subseteq LiveIn(k)
    BY <2>w8 DEF JoinedIn, LiveIn, Waiters
  <2> QED BY <1>1, <1>2, <1>3, <2>1, <2>2
<1>5. ASSUME NEW i \in LiveIn(l)
      PROVE  IF i \in new THEN l[i].references > Count(g, l, {i})
                          ELSE l[i].references = Count(g, l, {i})
  <2>1. i \in LiveIn(k) /\ i \notin gone
    BY <1>1
  <2>2. l[i].references = Adjusted(k[i].references, N(f[p], i), N(g[p], i))
    BY <2>1 DEF Retabled
  <2>3. /\ l[i].references + Cardinality(On(f, {i}))
              = k[i].references + Cardinality(On(g, {i}))
        /\ l[i].references \in Nat
        /\ i \in adr => k[i].references > Count(f, k, {i})
        /\ i \notin adr => k[i].references = Count(f, k, {i})
    BY <2>1, <2>2, ReferencesMove
  <2>4. /\ Cardinality(On(f, {i})) \in Nat /\ Cardinality(On(g, {i})) \in Nat
        /\ k[i].references \in Nat
    BY <2>1, OnFinite, LiveIsRecord
  <2>5. /\ i \in WaitingIn(k) => Count(f, k, {i}) = Cardinality(On(f, {i})) + 1
        /\ i \notin WaitingIn(k) => Count(f, k, {i}) = Cardinality(On(f, {i}))
        /\ i \in WaitingIn(l) => Count(g, l, {i}) = Cardinality(On(g, {i})) + 1
        /\ i \notin WaitingIn(l) => Count(g, l, {i}) = Cardinality(On(g, {i}))
    BY CountOne
  <2>w9. Waiters(f, k, adr)
    BY WaitingIs
  <2>6. i \in WaitingIn(k) => i \notin adr
    BY <2>w9 DEF Waiters
  <2>7. CASE i \in Orphans(k, gone)
    BY <2>3, <2>4, <2>5, <2>6, <2>7, <1>2
  <2>8. CASE i \notin Orphans(k, gone)
    <3>1. i \in WaitingIn(k) <=> i \in WaitingIn(l)
      BY <1>2, <2>8
    <3>2. i \in new <=> i \in adr
      BY <2>8
    <3> HIDE DEF new
    <3> QED BY <2>3, <2>4, <2>5, <3>1, <3>2
  <2> QED BY <2>7, <2>8
<1> QED BY <1>4, <1>5 DEF ReferencesAre

\* A number of ends moves with the descriptors that hold them.
LEMMA RetabledCount ==
  ASSUME NEW f, NEW k, NEW g, NEW l, NEW p \in Procs, NEW adr, Retabled(f, k, g, l, p),
         SocketsAre(k), QueuesAre(f, k, adr), ReferencesAre(f, k, adr),
         NEW H, H \cap Orphans(k, GoneAt(f, k, g, p)) = {},
         NEW host \in Nat, NEW c \in Nat, c = Count(f, k, H) + host
  PROVE  Adjusted(c, Cardinality(TableOn(f[p], H)), Cardinality(TableOn(g[p], H)))
           = Count(g, l, H \ GoneAt(f, k, g, p)) + host
<1> DEFINE gone == GoneAt(f, k, g, p)
<1>1. /\ WaitingIn(l) = WaitingIn(k) \ Orphans(k, gone)
      /\ Orphans(k, gone) \subseteq WaitingIn(k)
  BY RetabledWaiting
<1>2. \A i \in gone : On(g, {i}) = {} /\ i \notin WaitingIn(k)
  BY GoneIs
<1>3. On(g, H \ gone) = On(g, H)
  <2>1. \A d \in On(g, H) : g[d[1]][d[2]].socket \notin gone
    <3> SUFFICES ASSUME NEW d \in On(g, H), g[d[1]][d[2]].socket \in gone PROVE FALSE
      OBVIOUS
    <3>1. d \in On(g, {g[d[1]][d[2]].socket})
      BY DEF On
    <3> QED BY <3>1, <1>2
  <2> QED BY <2>1 DEF On
<1>4. (H \ gone) \cap WaitingIn(l) = H \cap WaitingIn(k)
  BY <1>1, <1>2
<1>5. Count(g, l, H \ gone) = Cardinality(On(g, H)) + Cardinality(H \cap WaitingIn(k))
  BY <1>3, <1>4 DEF Count
<1>6. c = (Cardinality(On(f, H)) + Cardinality(H \cap WaitingIn(k))) + host
  BY DEF Count
<1>7. /\ Cardinality(TableOn(f[p], H)) <= Cardinality(On(f, H))
      /\ Cardinality(On(g, H)) + Cardinality(TableOn(f[p], H))
           = Cardinality(On(f, H)) + Cardinality(TableOn(g[p], H))
  BY TableMoves DEF Retabled
<1>8. /\ Cardinality(TableOn(f[p], H)) \in Nat /\ Cardinality(TableOn(g[p], H)) \in Nat
      /\ Cardinality(On(f, H)) \in Nat /\ Cardinality(On(g, H)) \in Nat
      /\ Cardinality(H \cap WaitingIn(k)) \in Nat
  BY TableIsFinite, OnFinite, WaitingFinite
<1>9. Adjusted(c, Cardinality(TableOn(f[p], H)), Cardinality(TableOn(g[p], H)))
        = (Cardinality(On(g, H)) + Cardinality(H \cap WaitingIn(k))) + host
  BY <1>6, <1>7, <1>8 DEF Adjusted, SaturatingSub
<1> QED BY <1>5, <1>9

\* How often the connected sockets of S name ring s.
NamedIn(k, S, s) ==
  Cardinality({i \in S \cap JoinedIn(k) : k[i].ends.receive = s})
    + Cardinality({i \in S \cap JoinedIn(k) : k[i].ends.transmit = s})

\* A set of sockets is finite.
LEMMA JoinedFinite ==
  ASSUME NEW S, S \subseteq Ids
  PROVE  IsFiniteSet(S) /\ Cardinality(S) \in Nat
BY FS_Subset, FS_CardinalityType, SocketsAssumption

\* What the sockets that go had named, and what the others name.
LEMMA NamedSplits ==
  ASSUME NEW k, NEW S, NEW s
  PROVE  /\ NamingIn(k, s) = NamedIn(k, S, s) + NamedIn(k, Ids \ S, s)
         /\ NamedIn(k, S, s) \in Nat /\ NamedIn(k, Ids \ S, s) \in Nat
<1> DEFINE R == {i \in JoinedIn(k) : k[i].ends.receive = s}
           T == {i \in JoinedIn(k) : k[i].ends.transmit = s}
           R1 == {i \in S \cap JoinedIn(k) : k[i].ends.receive = s}
           T1 == {i \in S \cap JoinedIn(k) : k[i].ends.transmit = s}
           R2 == {i \in (Ids \ S) \cap JoinedIn(k) : k[i].ends.receive = s}
           T2 == {i \in (Ids \ S) \cap JoinedIn(k) : k[i].ends.transmit = s}
<1>1. /\ R1 \subseteq Ids /\ T1 \subseteq Ids /\ R2 \subseteq Ids /\ T2 \subseteq Ids
  BY DEF JoinedIn
<1>2. R = R1 \cup R2 /\ T = T1 \cup T2 /\ R1 \cap R2 = {} /\ T1 \cap T2 = {}
  BY DEF JoinedIn
<1>3. NamingIn(k, s) = Cardinality(R) + Cardinality(T)
  BY DEF NamingIn
<1>4. /\ NamedIn(k, S, s) = Cardinality(R1) + Cardinality(T1)
      /\ NamedIn(k, Ids \ S, s) = Cardinality(R2) + Cardinality(T2)
  BY DEF NamedIn
<1> HIDE DEF R, T, R1, T1, R2, T2
<1>5. /\ IsFiniteSet(R1) /\ IsFiniteSet(T1) /\ IsFiniteSet(R2) /\ IsFiniteSet(T2)
      /\ Cardinality(R1) \in Nat /\ Cardinality(T1) \in Nat
      /\ Cardinality(R2) \in Nat /\ Cardinality(T2) \in Nat
  BY <1>1, JoinedFinite
<1>6. /\ Cardinality(R) = Cardinality(R1) + Cardinality(R2)
      /\ Cardinality(T) = Cardinality(T1) + Cardinality(T2)
  BY <1>2, <1>5, SplitCard
<1> QED BY <1>3, <1>4, <1>5, <1>6

\* What the rings become when p's table goes from f[p] to g[p].
RingsRetabled(r, q, f, k, g, p) ==
  \A s \in Slots :
    /\ q[s].readers = Adjusted(r[s].readers, Cardinality(TableOn(f[p], Hearing(k, s))),
                                             Cardinality(TableOn(g[p], Hearing(k, s))))
    /\ q[s].writers = Adjusted(r[s].writers, Cardinality(TableOn(f[p], Saying(k, s))),
                                             Cardinality(TableOn(g[p], Saying(k, s))))
    /\ q[s].attached = SaturatingSub(r[s].attached, NamedIn(k, GoneAt(f, k, g, p), s))

\* The host's part in every stream stays.
StreamsKept(str, now) ==
  \A a \in 1..Len(str) : now[a].reads = str[a].reads /\ now[a].writes = str[a].writes

\* The connections after a table changed.
LEMMA RetabledJoined ==
  ASSUME NEW f, NEW k, NEW g, NEW l, NEW p \in Procs, Retabled(f, k, g, l, p)
  PROVE  /\ JoinedIn(l) = JoinedIn(k) \ GoneAt(f, k, g, p)
         /\ \A i \in JoinedIn(l) : l[i].ends = k[i].ends /\ l[i].edge = k[i].edge
<1>1. LiveIn(l) = LiveIn(k) \ GoneAt(f, k, g, p)
  BY RetabledLive
<1>2. \A i \in LiveIn(l) : /\ l[i].state = k[i].state /\ l[i].ends = k[i].ends
                           /\ l[i].edge = k[i].edge
  BY <1>1 DEF Retabled
<1> QED BY <1>1, <1>2 DEF JoinedIn, LiveIn

\* Ring::attached after a table changed.
LEMMA RetabledAttached ==
  ASSUME NEW f, NEW k, NEW g, NEW l, NEW p \in Procs, Retabled(f, k, g, l, p),
         NEW r, NEW q, RingsRetabled(r, q, f, k, g, p), AttachedAre(k, r)
  PROVE  AttachedAre(l, q)
<1> SUFFICES ASSUME NEW s \in Slots PROVE q[s].attached = NamingIn(l, s)
  BY DEF AttachedAre
<1> DEFINE gone == GoneAt(f, k, g, p)
<1>1. /\ JoinedIn(l) = JoinedIn(k) \ gone
      /\ \A i \in JoinedIn(l) : l[i].ends = k[i].ends
  BY RetabledJoined
<1>2. q[s].attached = SaturatingSub(r[s].attached, NamedIn(k, gone, s))
  BY DEF RingsRetabled
<1>3. r[s].attached = NamingIn(k, s)
  BY DEF AttachedAre
<1> HIDE DEF gone
<1>4. NamingIn(l, s) = NamedIn(k, Ids \ gone, s)
  <2>1. /\ {i \in JoinedIn(l) : l[i].ends.receive = s}
             = {i \in (Ids \ gone) \cap JoinedIn(k) : k[i].ends.receive = s}
        /\ {i \in JoinedIn(l) : l[i].ends.transmit = s}
             = {i \in (Ids \ gone) \cap JoinedIn(k) : k[i].ends.transmit = s}
    BY <1>1 DEF JoinedIn
  <2> QED BY <2>1 DEF NamingIn, NamedIn
<1>5. /\ NamingIn(k, s) = NamedIn(k, gone, s) + NamedIn(k, Ids \ gone, s)
      /\ NamedIn(k, gone, s) \in Nat /\ NamedIn(k, Ids \ gone, s) \in Nat
  BY NamedSplits
<1> QED BY <1>2, <1>3, <1>4, <1>5 DEF SaturatingSub

\* The streams of sockets that nobody will accept are given up.
Skews(k, S, skw, now) ==
  /\ skw \subseteq now
  /\ \A i \in S \cap JoinedIn(k) : k[i].ends.hears \in now /\ k[i].ends.says \in now

\* The ends of the rings after a table changed.
LEMMA RetabledCounts ==
  ASSUME NEW f, NEW k, NEW g, NEW l, NEW p \in Procs, NEW adr, Retabled(f, k, g, l, p),
         SocketsAre(k), QueuesAre(f, k, adr), ReferencesAre(f, k, adr),
         NEW r \in [Slots -> RingRecords], NEW q, RingsRetabled(r, q, f, k, g, p),
         NEW str, NEW str2, StreamsKept(str, str2),
         NEW car \in [Slots -> Nat], CarriedAre(k, car, str),
         NEW skw, NEW skw2, Skews(k, Orphans(k, GoneAt(f, k, g, p)), skw, skw2),
         CountsAre(f, k, r, str, car, skw)
  PROVE  CountsAre(g, l, q, str2, car, skw2)
<1> DEFINE gone == GoneAt(f, k, g, p)
           lost == Orphans(k, gone)
<1> SUFFICES ASSUME NEW s \in Slots, car[s] \notin skw2 \cup {0}
             PROVE  /\ q[s].readers = Count(g, l, Hearing(l, s)) + One(str2[car[s]].reads # 0)
                    /\ q[s].writers = Count(g, l, Saying(l, s)) + One(str2[car[s]].writes # 0)
  BY DEF CountsAre
<1>1. /\ JoinedIn(l) = JoinedIn(k) \ gone
      /\ \A i \in JoinedIn(l) : l[i].ends = k[i].ends
  BY RetabledJoined
<1>2. car[s] \notin skw \cup {0}
  BY DEF Skews
<1>3. /\ r[s].readers = Count(f, k, Hearing(k, s)) + One(str[car[s]].reads # 0)
      /\ r[s].writers = Count(f, k, Saying(k, s)) + One(str[car[s]].writes # 0)
  BY <1>2 DEF CountsAre
<1>30. car[s] \in 1..Len(str)
  <2>1. car[s] \in 0..Len(str) /\ car[s] # 0
    BY <1>2 DEF CarriedAre
  <2> QED BY <2>1
<1>4. /\ Hearing(l, s) = Hearing(k, s) \ gone
      /\ Saying(l, s) = Saying(k, s) \ gone
  BY <1>1 DEF Hearing, Saying
<1>5. Hearing(k, s) \cap lost = {}
  <2> SUFFICES ASSUME NEW i \in Hearing(k, s), i \in lost PROVE FALSE
    OBVIOUS
  <2>1. i \in JoinedIn(k) /\ k[i].ends.receive = s
    BY DEF Hearing
  <2>2. car[s] = k[i].ends.hears
    BY <2>1 DEF CarriedAre
  <2> QED BY <2>1, <2>2 DEF Skews
<1>6. Saying(k, s) \cap lost = {}
  <2> SUFFICES ASSUME NEW i \in Saying(k, s), i \in lost PROVE FALSE
    OBVIOUS
  <2>1. i \in JoinedIn(k) /\ k[i].ends.transmit = s
    BY DEF Saying
  <2>2. car[s] = k[i].ends.says
    BY <2>1 DEF CarriedAre
  <2> QED BY <2>1, <2>2 DEF Skews
<1>7. /\ r[s].readers \in Nat /\ r[s].writers \in Nat
  BY DEF RingRecords
<1>8. /\ One(str[car[s]].reads # 0) \in Nat /\ One(str[car[s]].writes # 0) \in Nat
  BY DEF One
<1>9. /\ str2[car[s]].reads = str[car[s]].reads
      /\ str2[car[s]].writes = str[car[s]].writes
  BY <1>30 DEF StreamsKept
<1>10. q[s].readers = Adjusted(r[s].readers, Cardinality(TableOn(f[p], Hearing(k, s))),
                                             Cardinality(TableOn(g[p], Hearing(k, s))))
  BY DEF RingsRetabled
<1>11. q[s].writers = Adjusted(r[s].writers, Cardinality(TableOn(f[p], Saying(k, s))),
                                             Cardinality(TableOn(g[p], Saying(k, s))))
  BY DEF RingsRetabled
<1> DEFINE ho == One(str[car[s]].reads # 0)
           hi == One(str[car[s]].writes # 0)
<1>12. ho \in Nat /\ hi \in Nat
  BY <1>8
<1>13. /\ One(str2[car[s]].reads # 0) = ho /\ One(str2[car[s]].writes # 0) = hi
  BY <1>9
<1>14. /\ r[s].readers = Count(f, k, Hearing(k, s)) + ho
       /\ r[s].writers = Count(f, k, Saying(k, s)) + hi
  BY <1>3
<1> HIDE DEF ho, hi
<1>15. q[s].readers = Count(g, l, Hearing(k, s) \ gone) + ho
  BY <1>5, <1>7, <1>10, <1>12, <1>14, RetabledCount
<1>16. q[s].writers = Count(g, l, Saying(k, s) \ gone) + hi
  BY <1>6, <1>7, <1>11, <1>12, <1>14, RetabledCount
<1> QED BY <1>4, <1>13, <1>15, <1>16

\* Each connection keeps its own rings when a table changes.
LEMMA RetabledCarried ==
  ASSUME NEW f, NEW k, NEW g, NEW l, NEW p \in Procs, Retabled(f, k, g, l, p),
         NEW str, NEW str2, StreamsKept(str, str2), Len(str2) = Len(str), Len(str) \in Nat,
         NEW car \in [Slots -> Nat], CarriedAre(k, car, str)
  PROVE  CarriedAre(l, car, str2)
<1> DEFINE gone == GoneAt(f, k, g, p)
<1>1. /\ JoinedIn(l) = JoinedIn(k) \ gone
      /\ \A i \in JoinedIn(l) : l[i].ends = k[i].ends /\ l[i].edge = k[i].edge
  BY RetabledJoined
<1> HIDE DEF gone
<1>2. /\ \A s \in Slots : car[s] \in 0..Len(str2)
      /\ \A s, t \in Slots : car[s] = car[t] /\ car[s] # 0 => s = t
  BY DEF CarriedAre
<1>3. ASSUME NEW i \in JoinedIn(l)
      PROVE  LET e == l[i].ends IN
             /\ e.receive \in Slots /\ e.transmit \in Slots /\ e.hears # 0 /\ e.says # 0
             /\ car[e.receive] = e.hears /\ car[e.transmit] = e.says
             /\ str2[e.hears].reads = 0
             /\ str2[e.says].reads = l[i].edge
             /\ str2[e.says].writes = 0
  <2>1. i \in JoinedIn(k) /\ l[i].ends = k[i].ends /\ l[i].edge = k[i].edge
    BY <1>1
  <2> DEFINE e == k[i].ends
  <2>2. /\ e.receive \in Slots /\ e.transmit \in Slots /\ e.hears # 0 /\ e.says # 0
        /\ car[e.receive] = e.hears /\ car[e.transmit] = e.says
        /\ str[e.hears].reads = 0
        /\ str[e.says].reads = k[i].edge
        /\ str[e.says].writes = 0
    BY <2>1 DEF CarriedAre
  <2>3. e.hears \in 1..Len(str) /\ e.says \in 1..Len(str)
    <3>1. car[e.receive] \in 0..Len(str) /\ car[e.transmit] \in 0..Len(str)
      BY <2>2 DEF CarriedAre
    <3> QED BY <2>2, <3>1
  <2>4. str2[e.hears].reads = 0 /\ str2[e.says].reads = k[i].edge /\ str2[e.says].writes = 0
    BY <2>2, <2>3 DEF StreamsKept
  <2> QED BY <2>1, <2>2, <2>4
<1>4. ASSUME NEW i \in JoinedIn(l), NEW j \in JoinedIn(l)
      PROVE  /\ l[j].ends.hears = l[i].ends.hears => i = j
             /\ l[j].ends.says = l[i].ends.says => i = j
             /\ l[i].edge # 0 => l[j].ends.says # l[i].ends.hears
             /\ l[i].edge # 0 => l[j].ends.hears # l[i].ends.says
  <2>1. /\ i \in JoinedIn(k) /\ l[i].ends = k[i].ends /\ l[i].edge = k[i].edge
        /\ j \in JoinedIn(k) /\ l[j].ends = k[j].ends
    BY <1>1
  <2> QED BY <2>1 DEF CarriedAre
<1> QED BY <1>2, <1>3, <1>4 DEF CarriedAre

---------------------------------------------------------------------------
(* The rings, the host and the histories, when a table changes.            *)

\* What the arena of rings and the tables are.
RingsAre(r)   == r \in [Slots -> RingRecords]
FilesAre(f)   == f \in [Procs -> [Fds -> OpenFiles \cup {NoFile}]]

\* A count that moved is a number.
LEMMA AdjustedNat ==
  ASSUME NEW c \in Nat, NEW a \in Nat, NEW b \in Nat
  PROVE  Adjusted(c, a, b) \in Nat /\ SaturatingSub(c, a) \in Nat
BY DEF Adjusted, SaturatingSub

\* What a ring is after its ends moved and n sockets that named it went.
LEMMA SettledIs ==
  ASSUME NEW r \in RingRecords, NEW was, NEW now, NEW n \in Nat,
         was["Read"] \in Nat, was["Write"] \in Nat, now["Read"] \in Nat, now["Write"] \in Nat,
         r = FreeRing => /\ was["Read"] = 0 /\ was["Write"] = 0
                         /\ now["Read"] = 0 /\ now["Write"] = 0,
         NEW q, q = Detached(Reconciled(r, was, now), n)
  PROVE  /\ q.readers = Adjusted(r.readers, was["Read"], now["Read"])
         /\ q.writers = Adjusted(r.writers, was["Write"], now["Write"])
         /\ q.attached = SaturatingSub(r.attached, n)
         /\ q \in RingRecords
         /\ q.bytes = r.bytes \/ q = FreeRing
<1> DEFINE rd == Adjusted(r.readers, was["Read"], now["Read"])
           wr == Adjusted(r.writers, was["Write"], now["Write"])
           at == SaturatingSub(r.attached, n)
           one == [r EXCEPT !.readers = rd, !.writers = wr]
           m == Reconciled(r, was, now)
<1>0. r.readers \in Nat /\ r.writers \in Nat /\ r.attached \in Nat /\ r.bytes \in Seq(Nat)
  BY DEF RingRecords
<1>1. /\ rd \in Nat /\ wr \in Nat /\ at \in Nat /\ r.attached \in Nat /\ r.bytes \in Seq(Nat)
  BY <1>0, AdjustedNat
<1>2. CASE r = FreeRing
  <2>1. rd = 0 /\ wr = 0
    BY <1>2 DEF Adjusted, SaturatingSub, FreeRing
  <2>2. at = 0
    BY <1>2 DEF SaturatingSub, FreeRing
  <2>3. q = r
    BY <1>2 DEF Reconciled, Detached
  <2> QED BY <2>1, <2>2, <2>3, <1>2 DEF FreeRing
<1>3. CASE r # FreeRing
  <2> HIDE DEF rd, wr
  <2>0. /\ one.readers = rd /\ one.writers = wr /\ one.attached = r.attached
        /\ one.bytes = r.bytes /\ one \in RingRecords
    BY <1>1 DEF RingRecords
  <2>1. m = FreeIfUnused(one)
    BY <1>3 DEF Reconciled, rd, wr
  <2> HIDE DEF one
  <2>2. FreeRing \in RingRecords
    BY DEF FreeRing, RingRecords
  <2>3. /\ m.readers = rd /\ m.writers = wr /\ m.attached = r.attached
        /\ m \in RingRecords /\ (m.bytes = r.bytes \/ m = FreeRing)
    BY <2>0, <2>1, <2>2 DEF FreeIfUnused, FreeRing
  <2> HIDE DEF m
  <2>4. CASE m = FreeRing
    <3>1. q = m
      BY <2>4 DEF Detached, m
    <3>2. r.attached = 0 /\ at = 0
      BY <2>3, <2>4 DEF FreeRing, SaturatingSub
    <3> QED BY <3>1, <3>2, <2>3 DEF rd, wr
  <2>5. CASE m # FreeRing
    <3> DEFINE two == [m EXCEPT !.attached = SaturatingSub(m.attached, n)]
    <3>1. q = FreeIfUnused(two)
      BY <2>5 DEF Detached, m
    <3>2. /\ two.readers = rd /\ two.writers = wr /\ two.attached = at
          /\ two.bytes = m.bytes /\ two \in RingRecords
      BY <2>3, <1>1 DEF RingRecords
    <3> HIDE DEF two, at
    <3>3. /\ q.readers = rd /\ q.writers = wr /\ q.attached = at
          /\ q \in RingRecords /\ (q.bytes = m.bytes \/ q = FreeRing)
      BY <3>1, <3>2, <2>2 DEF FreeIfUnused, FreeRing
    <3>4. m.bytes = r.bytes
      BY <2>3, <2>5
    <3> QED BY <3>3, <3>4 DEF rd, wr, at
  <2> QED BY <2>4, <2>5
<1> QED BY <1>2, <1>3

\* What a place of a table is.
LEMMA NamesLess ==
  ASSUME NEW f, FilesAre(f), NEW p \in Procs
  PROVE  \A fd \in Fds : f[p][fd] \in OpenFiles \cup {NoFile}
BY DEF FilesAre

\* A slot that nobody is attached to is named by no connected socket.
LEMMA UnattachedIsUnnamed ==
  ASSUME NEW k, NEW r, AttachedAre(k, r), NEW s \in Slots, r[s].attached = 0
  PROVE  \A i \in JoinedIn(k) : k[i].ends.receive # s /\ k[i].ends.transmit # s
<1> DEFINE R == {i \in JoinedIn(k) : k[i].ends.receive = s}
           T == {i \in JoinedIn(k) : k[i].ends.transmit = s}
<1>1. R \subseteq Ids /\ T \subseteq Ids
  BY DEF JoinedIn
<1>2. r[s].attached = Cardinality(R) + Cardinality(T)
  BY DEF AttachedAre, NamingIn
<1>3. r[s].attached = 0
  OBVIOUS
<1> HIDE DEF R, T
<1>4. /\ IsFiniteSet(R) /\ IsFiniteSet(T)
      /\ Cardinality(R) \in Nat /\ Cardinality(T) \in Nat
  BY <1>1, JoinedFinite
<1>5. Cardinality(R) = 0 /\ Cardinality(T) = 0
  BY <1>2, <1>3, <1>4
<1>6. R = {} /\ T = {}
  BY <1>4, <1>5, FS_EmptySet
<1> QED BY <1>6 DEF R, T

\* A slot that is free is named by no connected socket.
LEMMA FreeIsUnnamed ==
  ASSUME NEW k, NEW r, AttachedAre(k, r), NEW s \in Slots, r[s] = FreeRing
  PROVE  \A i \in JoinedIn(k) : k[i].ends.receive # s /\ k[i].ends.transmit # s
<1>1. r[s].attached = 0
  BY DEF FreeRing
<1> QED BY <1>1, UnattachedIsUnnamed

\* What the connections of the host become when some sockets let go of theirs.
ConEnded(k, gone, con, now) ==
  /\ Len(now) = Len(con)
  /\ \A c \in 1..Len(con) :
       /\ now[c].reading = con[c].reading
       /\ (\A i \in gone : k[i].edge # c) => now[c] = con[c]

\* The host's events and the sockets they are for, after a table changed.
LEMMA RetabledEvents ==
  ASSUME NEW f, NEW k, NEW g, NEW l, NEW p \in Procs, Retabled(f, k, g, l, p),
         SocketsAre(k), NEW str, NEW str2, NEW car, CarriedAre(k, car, str),
         StreamsKept(str, str2), DOMAIN str2 = DOMAIN str,
         Len(str) \in Nat, DOMAIN str = 1..Len(str),
         NEW con, NEW con2, ConEnded(k, GoneAt(f, k, g, p), con, con2), Len(con) \in Nat,
         NEW P, EventsAre(k, str, P, con)
  PROVE  EventsAre(l, str2, P, con2)
<1> DEFINE gone == GoneAt(f, k, g, p)
<1>1. LiveIn(l) = LiveIn(k) \ gone
  BY RetabledLive
<1>2. \A i \in LiveIn(l) : /\ l[i].state = k[i].state /\ l[i].ends = k[i].ends
                           /\ l[i].edge = k[i].edge
  BY <1>1 DEF Retabled
<1>3. gone \subseteq LiveIn(k)
  BY DEF GoneAt
<1> HIDE DEF gone
<1>4. /\ Len(con2) = Len(con)
      /\ \A c \in 1..Len(con) :
           /\ con2[c].reading = con[c].reading
           /\ (\A i \in gone : k[i].edge # c) => con2[c] = con[c]
  BY DEF ConEnded, gone
<1>5. \A i \in LiveIn(k) : k[i].edge \in 0..Len(con)
  BY DEF EventsAre
<1>6. \A i \in LiveIn(l) : l[i].edge # 0 => con2[l[i].edge] = con[l[i].edge]
  <2> SUFFICES ASSUME NEW i \in LiveIn(l), l[i].edge # 0
               PROVE  con2[l[i].edge] = con[l[i].edge]
    OBVIOUS
  <2>1. i \in LiveIn(k) /\ i \notin gone /\ k[i].edge = l[i].edge /\ k[i].edge \in 1..Len(con)
    BY <1>1, <1>2, <1>5
  <2>2. \A j \in gone : k[j].edge # k[i].edge
    BY <2>1, <1>3 DEF EventsAre
  <2> QED BY <2>1, <2>2, <1>4
<1>7. \A a \in DOMAIN P : P[a].conn \in 1..Len(con2)
  BY <1>4 DEF EventsAre
<1>8. \A a \in DOMAIN P : P[a].kind = "eof" => ~con2[P[a].conn].reading
  BY <1>4 DEF EventsAre
<1>9. \A a, b \in DOMAIN P : P[a].kind = P[b].kind /\ P[a].kind # "data"
        /\ P[a].conn = P[b].conn => a = b
  BY DEF EventsAre
<1>10. \A i \in LiveIn(l) : l[i].edge \in 0..Len(con2)
  BY <1>1, <1>2, <1>4, <1>5
<1>11. \A i \in LiveIn(l) : l[i].edge # 0 => l[i].state = "Connected"
  BY <1>1, <1>2 DEF EventsAre
<1>12. \A i, j \in LiveIn(l) : l[i].edge = l[j].edge /\ l[i].edge # 0 => i = j
  BY <1>1, <1>2 DEF EventsAre
<1>13. ASSUME NEW i \in LiveIn(l), l[i].edge # 0,
         con2[l[i].edge].reading \/ \E a \in DOMAIN P : P[a].kind = "eof" /\ P[a].conn = l[i].edge
       PROVE str2[l[i].ends.hears].writes # 0
  <2>1. i \in LiveIn(k) /\ k[i].edge = l[i].edge /\ k[i].ends = l[i].ends
    BY <1>1, <1>2
  <2>2. con2[l[i].edge] = con[l[i].edge]
    BY <1>6, <1>13
  <2>3. str[k[i].ends.hears].writes # 0
    BY <2>1, <2>2, <1>13 DEF EventsAre
  <2>4. k[i].ends.hears \in 1..Len(str)
    <3>1. i \in JoinedIn(k)
      BY <2>1, <1>13 DEF EventsAre, JoinedIn, LiveIn
    <3>2. /\ k[i].ends.receive \in Slots /\ k[i].ends.hears # 0
          /\ car[k[i].ends.receive] = k[i].ends.hears
      BY <3>1 DEF CarriedAre
    <3>3. car[k[i].ends.receive] \in 0..Len(str)
      BY <3>2 DEF CarriedAre
    <3> QED BY <3>2, <3>3
  <2> QED BY <2>1, <2>3, <2>4 DEF StreamsKept
<1>14. \A i \in LiveIn(l) : l[i].edge # 0 => con2[l[i].edge].present
  <2> SUFFICES ASSUME NEW i \in LiveIn(l), l[i].edge # 0 PROVE con2[l[i].edge].present
    OBVIOUS
  <2>1. i \in LiveIn(k) /\ k[i].edge = l[i].edge
    BY <1>1, <1>2
  <2>2. con2[l[i].edge] = con[l[i].edge]
    BY <1>6
  <2> QED BY <2>1, <2>2 DEF EventsAre
<1>15. \A i \in LiveIn(l) : l[i].edge # 0 /\ con2[l[i].edge].shut => l[i].ends.writeShut
  <2> SUFFICES ASSUME NEW i \in LiveIn(l), l[i].edge # 0, con2[l[i].edge].shut
               PROVE l[i].ends.writeShut
    OBVIOUS
  <2>1. i \in LiveIn(k) /\ k[i].edge = l[i].edge /\ k[i].ends = l[i].ends
    BY <1>1, <1>2
  <2>2. con2[l[i].edge] = con[l[i].edge]
    BY <1>6
  <2> QED BY <2>1, <2>2 DEF EventsAre
<1>16. \A a \in DOMAIN str2 : str2[a].reads = str[a].reads
  BY DEF StreamsKept
<1>17. \A a \in DOMAIN str2 : str2[a].reads \in 0..Len(con2)
  BY <1>16, <1>4 DEF EventsAre
<1>18. \A a, b \in DOMAIN str2 : str2[a].reads = str2[b].reads /\ str2[a].reads # 0 => a = b
  BY <1>16 DEF EventsAre
<1>19. ASSUME NEW a \in DOMAIN P, P[a].kind = "open"
       PROVE  LET c == P[a].conn IN
        /\ \A i \in LiveIn(l) : l[i].edge # c
        /\ \A b \in DOMAIN str2 : str2[b].reads # c
        /\ con2[c].present /\ ~con2[c].shut /\ con2[c].incoming = Numbers(0, con2[c].sent)
  <2> DEFINE c == P[a].conn
  <2>1. /\ \A i \in LiveIn(k) : k[i].edge # c
        /\ \A b \in DOMAIN str : str[b].reads # c
        /\ con[c].present /\ ~con[c].shut /\ con[c].incoming = Numbers(0, con[c].sent)
    BY <1>19 DEF EventsAre
  <2>2. c \in 1..Len(con)
    BY DEF EventsAre
  <2>3. con2[c] = con[c]
    BY <2>1, <2>2, <1>3, <1>4
  <2> HIDE DEF c
  <2>4. \A i \in LiveIn(l) : l[i].edge # c
    BY <2>1, <1>1, <1>2
  <2>5. \A b \in DOMAIN str2 : str2[b].reads # c
    BY <2>1, <1>16
  <2> QED BY <2>1, <2>3, <2>4, <2>5 DEF c
<1> QED BY <1>7, <1>8, <1>9, <1>10, <1>11, <1>12, <1>13, <1>14, <1>15, <1>17, <1>18, <1>19 DEF EventsAre

\* What the host's side and the histories are.
NetIs(n)      == n \in [events : Seq(Events), connections : Seq(Connections),
                        listening : SUBSET Mapped]
StreamsAre(t) == t \in Seq(Streams)

\* What the parts of the host's side are.
LEMMA ConnectionsAre ==
  ASSUME NEW n, NetIs(n)
  PROVE  /\ n.connections \in Seq(Connections) /\ n.events \in Seq(Events)
         /\ Len(n.connections) \in Nat /\ DOMAIN n.connections = 1..Len(n.connections)
         /\ n.listening \subseteq Mapped
         /\ \A c \in 1..Len(n.connections) :
              n.connections[c] \in Connections
<1>1. /\ n.connections \in Seq(Connections) /\ n.events \in Seq(Events)
      /\ n.listening \subseteq Mapped
  BY DEF NetIs
<1> QED BY <1>1

\* What end_edge leaves of the rings, the host and the streams.
EdgesEnded(edges, how, settled) ==
  /\ RingsAre(rings') /\ NetIs(net') /\ StreamsAre(streams')
  /\ \A s \in Slots :
       /\ rings'[s].readers = settled[s].readers /\ rings'[s].writers = settled[s].writers
       /\ rings'[s].attached = settled[s].attached
       /\ s \in Flushed(edges) => rings'[s].bytes = <<>>
       /\ s \notin Flushed(edges) => rings'[s].bytes = settled[s].bytes
  /\ net'.events = net.events /\ net'.listening = net.listening
  /\ Len(net'.connections) = Len(net.connections)
  /\ \A c \in 1..Len(net.connections) :
       /\ net'.connections[c].reading = net.connections[c].reading
       /\ net'.connections[c].sent = net.connections[c].sent
       /\ (\A i \in edges : sockets[i].edge # c) => net'.connections[c] = net.connections[c]
       /\ (\E i \in edges : sockets[i].edge = c) => net'.connections[c].shut
       /\ how = "shutdown" => /\ net'.connections[c].present = net.connections[c].present
                              /\ net'.connections[c].incoming = net.connections[c].incoming
  /\ Len(streams') = Len(streams)
  /\ StreamsKept(streams, streams')
  /\ \A a \in 1..Len(streams) :
       /\ streams'[a].sent = streams[a].sent
       /\ (\E i \in edges : sockets[i].ends.says = a) => streams'[a].got = streams[a].sent
       /\ (\A i \in edges : sockets[i].ends.says # a) => streams'[a].got = streams[a].got

\* What a close or a shutdown leaves of a connection of the host.
LEMMA CtlIs ==
  ASSUME NEW n, NetIs(n), NEW c \in 1..Len(n.connections), NEW how \in {"close", "shutdown"}
  PROVE  /\ Ctl(n, c, how).connections[c] \in Connections
         /\ Ctl(n, c, how).connections[c].reading = n.connections[c].reading
         /\ Ctl(n, c, how).connections[c].sent = n.connections[c].sent
         /\ Ctl(n, c, how).connections[c].shut
         /\ how = "shutdown" =>
              /\ Ctl(n, c, how).connections[c].present = n.connections[c].present
              /\ Ctl(n, c, how).connections[c].incoming = n.connections[c].incoming
<1> DEFINE con == n.connections
<1>1. con \in Seq(Connections) /\ con[c] \in Connections /\ DOMAIN con = 1..Len(con)
  BY ConnectionsAre
<1>2. n = [events |-> n.events, connections |-> con, listening |-> n.listening]
  BY DEF NetIs
<1>3. /\ con[c].incoming \in Seq(Nat) /\ con[c].present \in BOOLEAN
      /\ con[c].shut \in BOOLEAN /\ con[c].reading \in BOOLEAN /\ con[c].sent \in Nat
      /\ con[c] = [incoming |-> con[c].incoming, present |-> con[c].present,
                   shut |-> con[c].shut, reading |-> con[c].reading, sent |-> con[c].sent]
  BY <1>1 DEF Connections
<1>4. CASE how = "close"
  <2>1. Ctl(n, c, how).connections[c] =
          [con[c] EXCEPT !.present = FALSE, !.incoming = <<>>, !.shut = TRUE]
    BY <1>1, <1>2, <1>4 DEF Ctl
  <2>2. <<>> \in Seq(Nat)
    OBVIOUS
  <2>4. PICK x : x = con[c]
    OBVIOUS
  <2>3. PICK z : z = [x EXCEPT !.present = FALSE]
    OBVIOUS
  <2>5. PICK w : w = [z EXCEPT !.incoming = <<>>]
    OBVIOUS
  <2>6. PICK y : y = [w EXCEPT !.shut = TRUE]
    OBVIOUS
  <2>7. z \in Connections /\ z.reading = x.reading /\ z.sent = x.sent
    BY <1>1, <2>3, <2>4 DEF Connections
  <2>8. w \in Connections /\ w.reading = x.reading /\ w.sent = x.sent
    BY <2>2, <2>5, <2>7 DEF Connections
  <2>9. y \in Connections /\ y.reading = x.reading /\ y.sent = x.sent /\ y.shut
    BY <2>6, <2>8 DEF Connections
  <2>10. y = [x EXCEPT !.present = FALSE, !.incoming = <<>>, !.shut = TRUE]
    BY <2>3, <2>5, <2>6
  <2> QED BY <2>1, <2>4, <2>9, <2>10, <1>4
<1>5. CASE how = "shutdown"
  <2>1. Ctl(n, c, how).connections[c] = [con[c] EXCEPT !.shut = TRUE]
    BY <1>1, <1>2, <1>5 DEF Ctl
  <2> QED BY <2>1, <1>3 DEF Connections
<1> QED BY <1>4, <1>5

\* end_edge empties the rings of the connections it ends into the host, and
\* leaves the others.
LEMMA EndEdgesIs ==
  ASSUME NetIs(net), StreamsAre(streams), NEW edges, NEW how \in {"close", "shutdown"},
         NEW settled \in [Slots -> RingRecords], EndEdges(edges, how, settled)
  PROVE  EdgesEnded(edges, how, settled)
<1>1. \A s \in Slots : rings'[s] = IF s \in Flushed(edges) /\ settled[s] # FreeRing
                                   THEN Emptied(settled[s]) ELSE settled[s]
  BY DEF EndEdges
<1>2. ASSUME NEW s \in Slots
      PROVE  /\ rings'[s] \in RingRecords
             /\ rings'[s].readers = settled[s].readers /\ rings'[s].writers = settled[s].writers
             /\ rings'[s].attached = settled[s].attached
             /\ s \in Flushed(edges) => rings'[s].bytes = <<>>
             /\ s \notin Flushed(edges) => rings'[s].bytes = settled[s].bytes
  <2>1. settled[s] \in RingRecords
    OBVIOUS
  <2>2. CASE s \in Flushed(edges) /\ settled[s] # FreeRing
    <3>1. rings'[s] = [settled[s] EXCEPT !.bytes = <<>>]
      BY <1>1, <2>2 DEF Emptied
    <3>2. <<>> \in Seq(Nat)
      OBVIOUS
    <3>3. settled[s] = [bytes |-> settled[s].bytes, readers |-> settled[s].readers,
                        writers |-> settled[s].writers, attached |-> settled[s].attached]
      BY <2>1 DEF RingRecords
    <3>4. rings'[s] = [bytes |-> <<>>, readers |-> settled[s].readers,
                       writers |-> settled[s].writers, attached |-> settled[s].attached]
      BY <3>1, <3>3
    <3> QED BY <3>2, <3>4, <2>1, <2>2 DEF RingRecords
  <2>3. CASE ~(s \in Flushed(edges) /\ settled[s] # FreeRing)
    <3>1. rings'[s] = settled[s]
      BY <1>1, <2>3
    <3>2. FreeRing.bytes = <<>>
      BY DEF FreeRing
    <3> QED BY <3>1, <3>2, <2>1, <2>3
  <2> QED BY <2>2, <2>3
<1>3. RingsAre(rings')
  <2>1. rings' = [s \in Slots |-> rings'[s]]
    BY DEF EndEdges
  <2> QED BY <2>1, <1>2 DEF RingsAre
<1>4. /\ net.connections \in Seq(Connections) /\ net.events \in Seq(Events)
      /\ Len(net.connections) \in Nat /\ DOMAIN net.connections = 1..Len(net.connections)
      /\ net.listening \subseteq Mapped
      /\ \A c \in 1..Len(net.connections) : net.connections[c] \in Connections
  BY ConnectionsAre
<1> DEFINE cons == [c \in DOMAIN net.connections |->
                      IF \E i \in edges : sockets[i].edge = c
                      THEN Ctl(net, c, how).connections[c] ELSE net.connections[c]]
<1>5. /\ net'.connections = cons /\ net'.events = net.events /\ net'.listening = net.listening
      /\ net' = [events |-> net.events, connections |-> cons, listening |-> net.listening]
  <2>1. net = [events |-> net.events, connections |-> net.connections,
               listening |-> net.listening]
    BY DEF NetIs
  <2>2. net' = [net EXCEPT !.connections = cons]
    BY <2>1 DEF EndEdges
  <2> HIDE DEF cons
  <2> QED BY <2>1, <2>2
<1>6. \A c \in 1..Len(net.connections) : cons[c] \in Connections
  BY <1>4, CtlIs
<1>7. cons \in Seq(Connections) /\ Len(cons) = Len(net.connections)
  <2>1. DOMAIN cons = 1..Len(net.connections)
    BY <1>4
  <2>2. cons \in [1..Len(net.connections) -> Connections]
    BY <2>1, <1>6
  <2> QED BY <2>1, <2>2, <1>4
<1>8. NetIs(net')
  <2> HIDE DEF cons
  <2> QED BY <1>4, <1>5, <1>7 DEF NetIs
<1>9. ASSUME NEW c \in 1..Len(net.connections)
      PROVE  /\ net'.connections[c].reading = net.connections[c].reading
             /\ net'.connections[c].sent = net.connections[c].sent
             /\ (\A i \in edges : sockets[i].edge # c) => net'.connections[c] = net.connections[c]
             /\ (\E i \in edges : sockets[i].edge = c) => net'.connections[c].shut
             /\ how = "shutdown" => /\ net'.connections[c].present = net.connections[c].present
                                    /\ net'.connections[c].incoming = net.connections[c].incoming
  <2>1. CASE \E i \in edges : sockets[i].edge = c
    <3>1. net'.connections[c] = Ctl(net, c, how).connections[c]
      BY <1>4, <1>5, <2>1
    <3> QED BY <3>1, <2>1, CtlIs
  <2>2. CASE \A i \in edges : sockets[i].edge # c
    <3>1. net'.connections[c] = net.connections[c]
      BY <1>4, <1>5, <2>2
    <3> QED BY <3>1, <2>2
  <2> QED BY <2>1, <2>2
<1>10. streams \in Seq(Streams) /\ Len(streams) \in Nat /\ DOMAIN streams = 1..Len(streams)
  BY DEF StreamsAre
<1>11. ASSUME NEW a \in 1..Len(streams)
       PROVE  /\ streams'[a] \in Streams
              /\ streams'[a].sent = streams[a].sent
              /\ streams'[a].reads = streams[a].reads /\ streams'[a].writes = streams[a].writes
              /\ (\E i \in edges : sockets[i].ends.says = a) => streams'[a].got = streams[a].sent
              /\ (\A i \in edges : sockets[i].ends.says # a) => streams'[a].got = streams[a].got
  <2>1. streams[a] \in Streams
    BY <1>10
  <2>2. CASE \E i \in edges : sockets[i].ends.says = a
    <3>1. streams'[a] = [streams[a] EXCEPT !.got = streams[a].sent]
      BY <1>10, <2>2 DEF EndEdges
    <3> QED BY <3>1, <2>1, <2>2 DEF Streams
  <2>3. CASE \A i \in edges : sockets[i].ends.says # a
    <3>1. streams'[a] = streams[a]
      BY <1>10, <2>3 DEF EndEdges
    <3> QED BY <3>1, <2>1, <2>3
  <2> QED BY <2>2, <2>3
<1>12. StreamsAre(streams') /\ Len(streams') = Len(streams)
  <2>1. streams' = [a \in 1..Len(streams) |-> streams'[a]]
    BY <1>10 DEF EndEdges
  <2>2. streams' \in [1..Len(streams) -> Streams]
    BY <2>1, <1>11
  <2> QED BY <2>1, <2>2, <1>10 DEF StreamsAre
<1>13. Len(net'.connections) = Len(net.connections)
  BY <1>5, <1>7
<1>14. StreamsKept(streams, streams')
  BY <1>11 DEF StreamsKept
<1> HIDE DEF cons
<1> QED BY <1>2, <1>3, <1>5, <1>8, <1>9, <1>11, <1>12, <1>13, <1>14 DEF EdgesEnded

\* What the host reported and nobody handled yet.
Pending == batch \o net.events

\* The types the counts rest on, and those no count rests on.
TypesAre ==
  /\ RingsAre(rings) /\ SocketsAre(sockets) /\ FilesAre(files)
  /\ NetIs(net) /\ batch \in Seq(Events) /\ StreamsAre(streams)
  /\ carries \in [Slots -> Nat] /\ menu \in Menus

\* Of the parts no count depends on, the types.
RestIs ==
  /\ nodes \in [Procs -> Seq(Paths)] /\ next \in Nat
  /\ accepting \in [Procs -> Ids \cup {NoSocket}]

\* The invariant: the state agrees with itself in all of these.
Agree ==
  /\ DescriptorsLive(files, sockets)
  /\ QueuesAre(files, sockets, adrift)
  /\ ReferencesAre(files, sockets, adrift)
  /\ AttachedAre(sockets, rings)
  /\ CountsAre(files, sockets, rings, streams, carries, skewed)
  /\ CarriedAre(sockets, carries, streams)
  /\ EventsAre(sockets, streams, Pending, net.connections)

Core == TypesAre /\ Agree

\* The table names no socket that no descriptor named.
NamesOld(table) ==
  \A fd \in Fds : table[fd] # NoFile =>
    \E q \in Procs, e \in Fds : files[q][e] # NoFile /\ files[q][e].socket = table[fd].socket

\* The census of the code, as sets of descriptors.
LEMMA TableOnIs ==
  ASSUME NEW t
  PROVE  /\ \A i : Naming(t, i) = TableOn(t, {i})
         /\ \A s : Census(t, s)["Read"] = Cardinality(TableOn(t, Hearing(sockets, s)))
         /\ \A s : Census(t, s)["Write"] = Cardinality(TableOn(t, Saying(sockets, s)))
<1>1. \A i : Naming(t, i) = TableOn(t, {i})
  BY DEF Naming, TableOn, Open
<1>2. Connected = JoinedIn(sockets)
  BY DEF Connected, Live, JoinedIn
<1>3. ASSUME NEW s PROVE Census(t, s)["Read"] = Cardinality(TableOn(t, Hearing(sockets, s)))
  <2>1. Census(t, s)["Read"] =
          Cardinality({fd \in Open(t) :
                         LET i == t[fd].socket
                         IN  /\ i \in Connected
                             /\ \/ /\ "Read" = "Read" /\ sockets[i].ends.receive = s
                                   /\ ~sockets[i].ends.readShut
                                \/ /\ "Read" = "Write" /\ sockets[i].ends.transmit = s
                                   /\ ~sockets[i].ends.writeShut})
    BY DEF Census, End
  <2>2. {fd \in Open(t) :
                         LET i == t[fd].socket
                         IN  /\ i \in Connected
                             /\ \/ /\ "Read" = "Read" /\ sockets[i].ends.receive = s
                                   /\ ~sockets[i].ends.readShut
                                \/ /\ "Read" = "Write" /\ sockets[i].ends.transmit = s
                                   /\ ~sockets[i].ends.writeShut}
          = TableOn(t, Hearing(sockets, s))
    BY <1>2 DEF TableOn, Hearing, Open
  <2> QED BY <2>1, <2>2
<1>4. ASSUME NEW s PROVE Census(t, s)["Write"] = Cardinality(TableOn(t, Saying(sockets, s)))
  <2>1. Census(t, s)["Write"] =
          Cardinality({fd \in Open(t) :
                         LET i == t[fd].socket
                         IN  /\ i \in Connected
                             /\ \/ /\ "Write" = "Read" /\ sockets[i].ends.receive = s
                                   /\ ~sockets[i].ends.readShut
                                \/ /\ "Write" = "Write" /\ sockets[i].ends.transmit = s
                                   /\ ~sockets[i].ends.writeShut})
    BY DEF Census, End
  <2>2. {fd \in Open(t) :
                         LET i == t[fd].socket
                         IN  /\ i \in Connected
                             /\ \/ /\ "Write" = "Read" /\ sockets[i].ends.receive = s
                                   /\ ~sockets[i].ends.readShut
                                \/ /\ "Write" = "Write" /\ sockets[i].ends.transmit = s
                                   /\ ~sockets[i].ends.writeShut}
          = TableOn(t, Saying(sockets, s))
    BY <1>2 DEF TableOn, Saying, Open
  <2> QED BY <2>1, <2>2
<1> QED BY <1>1, <1>3, <1>4

\* The rings of an arena keep their bytes or are freed.
BytesStay(settled) ==
  \A s \in Slots : settled[s].bytes = rings[s].bytes \/ settled[s] = FreeRing

\* What SetTable does, in the terms of the lemmas.
Tabled(p) ==
  /\ FilesAre(files') /\ SocketsAre(sockets')
  /\ Retabled(files, sockets, files', sockets', p)
  /\ RingsRetabled(rings, rings', files, sockets, files', p)
  /\ \E settled \in [Slots -> RingRecords] :
       /\ EdgesEnded({i \in GoneAt(files, sockets, files', p) : sockets[i].edge # 0},
                     "close", settled)
       /\ BytesStay(settled)
  /\ Skews(sockets, Orphans(sockets, GoneAt(files, sockets, files', p)), skewed, skewed')
  /\ adrift' = adrift \cup Orphans(sockets, GoneAt(files, sockets, files', p))
  /\ carries' = carries /\ batch' = batch /\ menu' = menu

\* A change of one table is one in the terms of the lemmas.
LEMMA SetTableIs ==
  ASSUME Core, NEW p \in Procs, NEW table \in [Fds -> OpenFiles \cup {NoFile}],
         NamesOld(table), SetTable(p, table)
  PROVE  Tabled(p)
<1> DEFINE gone == GoneAt(files, sockets, files', p)
<1>0. /\ FilesAre(files) /\ SocketsAre(sockets) /\ RingsAre(rings)
      /\ NetIs(net) /\ StreamsAre(streams)
  BY DEF Core, TypesAre
<1>1. files' = [files EXCEPT ![p] = table]
  BY DEF SetTable
<1>2. /\ files'[p] = table /\ FilesAre(files')
      /\ \A q \in Procs : q # p => files'[q] = files[q]
  BY <1>0, <1>1 DEF FilesAre
<1>3. \A i : /\ N(files[p], i) = Cardinality(Naming(files[p], i))
             /\ N(files'[p], i) = Cardinality(Naming(table, i))
  BY <1>2, TableOnIs DEF N
<1>4. Live = LiveIn(sockets)
  BY DEF Live, LiveIn
<1>5. Retired(files[p], table) = gone
  BY <1>3, <1>4, Zenon DEF Retired, GoneAt, References
<1>6. \A i \in Ids : sockets'[i] =
          IF i \in gone THEN NoSocket
          ELSE IF i \in Live
          THEN [sockets[i] EXCEPT !.references =
                  Adjusted(sockets[i].references, N(files[p], i), N(files'[p], i))]
          ELSE NoSocket
  BY <1>3, <1>5 DEF SetTable, References
<1>7. DOMAIN sockets' = Ids /\ sockets' = [i \in Ids |-> sockets'[i]]
  BY DEF SetTable
<1> HIDE DEF gone
<1>8. ASSUME NEW i \in LiveIn(sockets) \ gone
      PROVE  /\ sockets'[i] \in Records
             /\ sockets'[i] # NoSocket /\ sockets'[i].state = sockets[i].state
             /\ sockets'[i].queue = sockets[i].queue
             /\ sockets'[i].ends = sockets[i].ends /\ sockets'[i].edge = sockets[i].edge
             /\ sockets'[i].references =
                  Adjusted(sockets[i].references, N(files[p], i), N(files'[p], i))
  <2>1. /\ i \in Ids /\ sockets[i] \in Records /\ sockets[i].references \in Nat
    BY <1>0, LiveIsRecord
  <2>2. N(files[p], i) \in Nat /\ N(files'[p], i) \in Nat
    BY TableIsFinite DEF N
  <2>3. PICK n : n = Adjusted(sockets[i].references, N(files[p], i), N(files'[p], i))
    OBVIOUS
  <2>4. n \in Nat
    BY <2>1, <2>2, <2>3, AdjustedNat
  <2>5. sockets'[i] = [sockets[i] EXCEPT !.references = n]
    BY <1>4, <1>6, <2>1, <2>3
  <2>6. sockets'[i] \in Records
    BY <2>1, <2>4, <2>5 DEF Records
  <2>7. sockets'[i] # NoSocket
    BY <2>6, SocketsAssumption
  <2> QED BY <2>1, <2>3, <2>5, <2>6, <2>7 DEF Records
<1>9. SocketsAre(sockets')
  BY <1>4, <1>6, <1>7, <1>8 DEF SocketsAre
<1>10. Retabled(files, sockets, files', sockets', p)
  <2>1. \A fd \in Fds : files'[p][fd] # NoFile =>
          \E q \in Procs, e \in Fds : files[q][e] # NoFile /\ files[q][e].socket = files'[p][fd].socket
    BY <1>2 DEF NamesOld
  <2>2. \A i \in Ids : i \in gone \/ i \notin LiveIn(sockets) => sockets'[i] = NoSocket
    BY <1>4, <1>6
  <2> QED BY <1>2, <1>8, <2>1, <2>2 DEF Retabled, gone
<1> DEFINE settled == [s \in Slots |->
              Detached(Reconciled(rings[s], Census(files[p], s), Census(table, s)),
                       NamedBy(gone, s))]
<1>11. Connected = JoinedIn(sockets)
  BY DEF Connected, Live, JoinedIn
<1>12. \A s : NamedBy(gone, s) = NamedIn(sockets, gone, s)
  BY <1>11 DEF NamedBy, NamedIn
<1>13. ASSUME NEW s \in Slots
       PROVE  /\ settled[s].readers = Adjusted(rings[s].readers,
                    Cardinality(TableOn(files[p], Hearing(sockets, s))),
                    Cardinality(TableOn(files'[p], Hearing(sockets, s))))
              /\ settled[s].writers = Adjusted(rings[s].writers,
                    Cardinality(TableOn(files[p], Saying(sockets, s))),
                    Cardinality(TableOn(files'[p], Saying(sockets, s))))
              /\ settled[s].attached = SaturatingSub(rings[s].attached, NamedIn(sockets, gone, s))
              /\ settled[s] \in RingRecords
              /\ settled[s].bytes = rings[s].bytes \/ settled[s] = FreeRing
  <2>1. PICK was, now : was = Census(files[p], s) /\ now = Census(table, s)
    OBVIOUS
  <2>2. /\ was["Read"] = Cardinality(TableOn(files[p], Hearing(sockets, s)))
        /\ was["Write"] = Cardinality(TableOn(files[p], Saying(sockets, s)))
        /\ now["Read"] = Cardinality(TableOn(files'[p], Hearing(sockets, s)))
        /\ now["Write"] = Cardinality(TableOn(files'[p], Saying(sockets, s)))
    BY <1>2, <2>1, TableOnIs
  <2>3. /\ was["Read"] \in Nat /\ was["Write"] \in Nat
        /\ now["Read"] \in Nat /\ now["Write"] \in Nat
    BY <2>2, TableIsFinite
  <2>4. PICK n : n = NamedIn(sockets, gone, s)
    OBVIOUS
  <2>5. n \in Nat
    BY <2>4, NamedSplits
  <2>6. rings[s] \in RingRecords
    BY <1>0 DEF RingsAre
  <2>7. ASSUME rings[s] = FreeRing
        PROVE  was["Read"] = 0 /\ was["Write"] = 0 /\ now["Read"] = 0 /\ now["Write"] = 0
    <3>1. AttachedAre(sockets, rings)
      BY DEF Core, Agree
    <3>2. \A i \in JoinedIn(sockets) : sockets[i].ends.receive # s /\ sockets[i].ends.transmit # s
      BY <3>1, <2>7, FreeIsUnnamed
    <3>3. Hearing(sockets, s) = {} /\ Saying(sockets, s) = {}
      BY <3>2 DEF Hearing, Saying
    <3>4. \A t : TableOn(t, {}) = {}
      BY DEF TableOn
    <3>5. /\ TableOn(files[p], Hearing(sockets, s)) = {} /\ TableOn(files[p], Saying(sockets, s)) = {}
          /\ TableOn(files'[p], Hearing(sockets, s)) = {} /\ TableOn(files'[p], Saying(sockets, s)) = {}
      BY <3>3, <3>4
    <3> QED BY <2>2, <3>5, FS_EmptySet
  <2>8. settled[s] = Detached(Reconciled(rings[s], was, now), n)
    BY <1>12, <2>1, <2>4
  <2>9. /\ settled[s].readers = Adjusted(rings[s].readers, was["Read"], now["Read"])
        /\ settled[s].writers = Adjusted(rings[s].writers, was["Write"], now["Write"])
        /\ settled[s].attached = SaturatingSub(rings[s].attached, n)
        /\ settled[s] \in RingRecords
        /\ settled[s].bytes = rings[s].bytes \/ settled[s] = FreeRing
    <3> HIDE DEF settled
    <3> QED BY <2>3, <2>5, <2>6, <2>7, <2>8, SettledIs
  <2> HIDE DEF settled
  <2> QED BY <2>2, <2>4, <2>9
<1>14. settled \in [Slots -> RingRecords]
  BY <1>13
<1>15. EdgesEnded({i \in gone : sockets[i].edge # 0}, "close", settled)
  <2>1. EndEdges({i \in gone : sockets[i].edge # 0}, "close", settled)
    BY <1>5 DEF SetTable
  <2> HIDE DEF settled
  <2> QED BY <1>0, <1>14, <2>1, EndEdgesIs
<1>16. RingsRetabled(rings, rings', files, sockets, files', p)
  <2> HIDE DEF settled
  <2> QED BY <1>13, <1>15 DEF RingsRetabled, EdgesEnded, gone
<1>17. Abandoned(gone) = Orphans(sockets, gone)
  <2>1. \A i \in gone : sockets[i].queue \in Seq(Ids)
    BY <1>0, LiveIsRecord DEF gone, GoneAt
  <2>2. \A i \in gone : Range(sockets[i].queue) = {sockets[i].queue[a] : a \in DOMAIN sockets[i].queue}
    BY DEF Range
  <2>3. \A i \in gone : \A a \in DOMAIN sockets[i].queue : sockets[i].queue[a] \in Ids
    BY <2>1
  <2> QED BY <2>2, <2>3 DEF Abandoned, Orphans
<1>18. adrift' = adrift \cup Orphans(sockets, gone)
  BY <1>5, <1>17 DEF SetTable
<1>19. Skews(sockets, Orphans(sockets, gone), skewed, skewed')
  <2>1. skewed' = skewed \cup StreamsOf(Orphans(sockets, gone))
    BY <1>5, <1>17 DEF SetTable
  <2>2. \A i \in Orphans(sockets, gone) \cap JoinedIn(sockets) :
          sockets[i].ends.hears \in StreamsOf(Orphans(sockets, gone))
            /\ sockets[i].ends.says \in StreamsOf(Orphans(sockets, gone))
    BY <1>11 DEF StreamsOf
  <2> QED BY <2>1, <2>2 DEF Skews
<1>20. carries' = carries /\ batch' = batch /\ menu' = menu
  BY DEF SetTable
<1>21. \E set \in [Slots -> RingRecords] :
          /\ EdgesEnded({i \in gone : sockets[i].edge # 0}, "close", set)
          /\ BytesStay(set)
  <2>1. BytesStay(settled)
    BY <1>13 DEF BytesStay
  <2> HIDE DEF settled
  <2> QED BY <1>14, <1>15, <2>1
<1> QED BY <1>2, <1>9, <1>10, <1>16, <1>18, <1>19, <1>20, <1>21 DEF Tabled, gone

\* A step that changes one process's table.
Tabling == \E p \in Procs : Tabled(p)

\* A change of one table (dup, close, fork, exit) keeps the invariant.
LEMMA SetTableHolds ==
  ASSUME Core, NEW p \in Procs, Tabled(p)
  PROVE  Core' /\ Tabling
<1> DEFINE gone == GoneAt(files, sockets, files', p)
<1>1. /\ FilesAre(files) /\ SocketsAre(sockets) /\ RingsAre(rings)
      /\ NetIs(net) /\ StreamsAre(streams) /\ carries \in [Slots -> Nat]
      /\ batch \in Seq(Events) /\ menu \in Menus
  BY DEF Core, TypesAre
<1>2. /\ DescriptorsLive(files, sockets)
      /\ QueuesAre(files, sockets, adrift)
      /\ ReferencesAre(files, sockets, adrift)
      /\ AttachedAre(sockets, rings)
      /\ CountsAre(files, sockets, rings, streams, carries, skewed)
      /\ CarriedAre(sockets, carries, streams)
      /\ EventsAre(sockets, streams, Pending, net.connections)
  BY DEF Core, Agree
<1>3. /\ FilesAre(files') /\ SocketsAre(sockets')
      /\ Retabled(files, sockets, files', sockets', p)
      /\ RingsRetabled(rings, rings', files, sockets, files', p)
      /\ Skews(sockets, Orphans(sockets, gone), skewed, skewed')
      /\ adrift' = adrift \cup Orphans(sockets, gone)
      /\ carries' = carries /\ batch' = batch /\ menu' = menu
  BY DEF Tabled
<1>4. PICK settled \in [Slots -> RingRecords] :
        EdgesEnded({i \in gone : sockets[i].edge # 0}, "close", settled)
  BY DEF Tabled
<1>5. /\ RingsAre(rings') /\ NetIs(net') /\ StreamsAre(streams')
      /\ net'.events = net.events
      /\ Len(net'.connections) = Len(net.connections)
      /\ Len(streams') = Len(streams) /\ StreamsKept(streams, streams')
  BY <1>4 DEF EdgesEnded
<1>6. ConEnded(sockets, gone, net.connections, net'.connections)
  BY <1>4 DEF EdgesEnded, ConEnded
<1>7. /\ Len(streams) \in Nat /\ DOMAIN streams = 1..Len(streams)
      /\ DOMAIN streams' = 1..Len(streams)
  BY <1>1, <1>5 DEF StreamsAre
<1>8. Len(net.connections) \in Nat
  BY <1>1, ConnectionsAre
<1> HIDE DEF gone
<1>9. \A q \in Procs, fd \in Fds : files[q][fd] \in OpenFiles \cup {NoFile}
  BY <1>1 DEF FilesAre
<1>10. DescriptorsLive(files', sockets')
  BY <1>1, <1>2, <1>3, <1>9, RetabledDescriptors
<1>11. QueuesAre(files', sockets', adrift')
  BY <1>1, <1>2, <1>3, RetabledQueues DEF gone
<1>12. ReferencesAre(files', sockets', adrift')
  BY <1>1, <1>2, <1>3, RetabledReferences DEF gone
<1>13. AttachedAre(sockets', rings')
  BY <1>2, <1>3, RetabledAttached
<1>14. CountsAre(files', sockets', rings', streams', carries', skewed')
  <2>1. rings \in [Slots -> RingRecords]
    BY <1>1 DEF RingsAre
  <2>2. CountsAre(files', sockets', rings', streams', carries, skewed')
    BY <1>1, <1>2, <1>3, <1>5, <2>1, RetabledCounts DEF gone
  <2> QED BY <2>2, <1>3
<1>15. CarriedAre(sockets', carries', streams')
  <2>2. CarriedAre(sockets', carries, streams')
    BY <1>1, <1>2, <1>3, <1>5, <1>7, RetabledCarried
  <2> QED BY <2>2, <1>3
<1>16. EventsAre(sockets', streams', Pending', net'.connections)
  <2>1. Pending' = Pending
    BY <1>3, <1>5 DEF Pending
  <2>2. EventsAre(sockets', streams', Pending, net'.connections)
    BY <1>1, <1>2, <1>3, <1>5, <1>6, <1>7, <1>8, RetabledEvents DEF gone
  <2> QED BY <2>1, <2>2
<1>17. Core'
  BY <1>1, <1>3, <1>5, <1>10, <1>11, <1>12, <1>13, <1>14, <1>15, <1>16
     DEF Core, TypesAre, Agree
<1> QED BY <1>17 DEF Tabling

---------------------------------------------------------------------------
(* Sockets come, and join and leave queues.                                *)

\* A socket goes on as it was, for those who hold it.
Holds(k, l, j) ==
  /\ l[j].references = k[j].references
  /\ k[j].state = "Listening" => l[j].state = "Listening"
  /\ k[j].state = "Connected" => l[j].state = "Connected"

\* A set of sockets is held as often as before.
HoldersSame(f, k, g, l, S) == Count(g, l, S) = Count(f, k, S)

\* New sockets, that no queue holds.
Opened(f, k, g, l, new, adr, adr2) ==
  /\ new \subseteq Ids /\ new \cap LiveIn(k) = {}
  /\ LiveIn(l) = LiveIn(k) \cup new
  /\ \A j \in LiveIn(k) : Holds(k, l, j) /\ l[j].queue = k[j].queue
  /\ \A j \in new : l[j].queue = <<>> /\ l[j].references = 1
  /\ \A S : S \cap new = {} => On(g, S) = On(f, S)
  /\ adr \subseteq adr2 /\ adr2 \subseteq adr \cup new
  /\ \A j \in new : IF j \in adr2 THEN On(g, {j}) = {} ELSE Cardinality(On(g, {j})) = 1

\* New sockets join no queue.
LEMMA OpenedWaiting ==
  ASSUME NEW f, NEW k, NEW g, NEW l, NEW new, NEW adr, NEW adr2, SocketsAre(k),
         Opened(f, k, g, l, new, adr, adr2), QueuesAre(f, k, adr)
  PROVE  WaitingIn(l) = WaitingIn(k)
<1>1. ASSUME NEW j \in WaitingIn(l) PROVE j \in WaitingIn(k)
  <2>1. PICK i \in LiveIn(l) : \E a \in DOMAIN l[i].queue : l[i].queue[a] = j
    BY DEF WaitingIn, LiveIn
  <2>2. i \in LiveIn(k) /\ l[i].queue = k[i].queue
    BY <2>1 DEF Opened
  <2>w. Waiters(f, k, adr)
    BY WaitingIs
  <2> QED BY <2>1, <2>2, <2>w DEF Waiters
<1>2. ASSUME NEW j \in WaitingIn(k) PROVE j \in WaitingIn(l)
  <2>1. PICK i \in LiveIn(k) : /\ k[i].state = "Listening"
                               /\ \E a \in DOMAIN k[i].queue : k[i].queue[a] = j
    BY DEF WaitingIn, LiveIn
  <2>2. i \in LiveIn(l) /\ l[i].state = "Listening" /\ l[i].queue = k[i].queue
    BY <2>1 DEF Opened, Holds
  <2> QED BY <2>1, <2>2 DEF WaitingIn, LiveIn
<1> QED BY <1>1, <1>2

\* New sockets change no count of others.
LEMMA OpenedHolders ==
  ASSUME NEW f, NEW k, NEW g, NEW l, NEW new, NEW adr, NEW adr2, SocketsAre(k),
         Opened(f, k, g, l, new, adr, adr2), QueuesAre(f, k, adr), NEW S, S \cap new = {}
  PROVE  HoldersSame(f, k, g, l, S)
<1>1. WaitingIn(l) = WaitingIn(k)
  BY OpenedWaiting
<1>2. On(g, S) = On(f, S)
  BY DEF Opened
<1> QED BY <1>1, <1>2 DEF HoldersSame, Count

\* Descriptors name sockets, with new ones.
LEMMA OpenedDescriptors ==
  ASSUME NEW f, NEW k, NEW g, NEW l, NEW new, NEW adr, NEW adr2, SocketsAre(k),
         Opened(f, k, g, l, new, adr, adr2), DescriptorsLive(f, k), FilesAre(f), FilesAre(g)
  PROVE  DescriptorsLive(g, l)
<1> SUFFICES ASSUME NEW p \in Procs, NEW fd \in Fds, g[p][fd] # NoFile
             PROVE  l[g[p][fd].socket] # NoSocket
  BY DEF DescriptorsLive
<1>1. PICK i : i = g[p][fd].socket
  OBVIOUS
<1>2. i \in Ids
  BY <1>1 DEF FilesAre, OpenFiles
<1>3. CASE i \in new
  BY <1>1, <1>3 DEF Opened, LiveIn
<1>4. CASE i \notin new
  <2>1. {i} \cap new = {}
    BY <1>4
  <2>2. On(g, {i}) = On(f, {i})
    BY <2>1 DEF Opened
  <2>3. <<p, fd>> \in On(g, {i})
    BY <1>1 DEF On
  <2>4. <<p, fd>> \in On(f, {i})
    BY <2>2, <2>3
  <2>5. f[p][fd] # NoFile /\ f[p][fd].socket = i
    BY <2>4 DEF On
  <2>6. k[i] # NoSocket
    BY <2>5 DEF DescriptorsLive
  <2> QED BY <1>1, <1>2, <2>6 DEF Opened, LiveIn
<1> QED BY <1>3, <1>4

\* The queues, with new sockets.
LEMMA OpenedQueues ==
  ASSUME NEW f, NEW k, NEW g, NEW l, NEW new, NEW adr, NEW adr2, SocketsAre(k),
         Opened(f, k, g, l, new, adr, adr2), QueuesAre(f, k, adr)
  PROVE  QueuesAre(g, l, adr2)
<1>1. ASSUME NEW i \in LiveIn(l), l[i].queue # <<>>
      PROVE  /\ i \in LiveIn(k) /\ l[i].queue = k[i].queue /\ l[i].state = "Listening"
  <2>1. i \in LiveIn(k) /\ l[i].queue = k[i].queue
    BY <1>1 DEF Opened
  <2>2. k[i].state = "Listening"
    BY <2>1, <1>1 DEF QueuesAre
  <2> QED BY <2>1, <2>2 DEF Opened, Holds
<1>2. ASSUME NEW i \in LiveIn(l), NEW a \in DOMAIN l[i].queue
      PROVE  /\ l[i].queue[a] \in JoinedIn(l) \ adr2
             /\ On(g, {l[i].queue[a]}) = {}
  <2>1. PICK j : j = l[i].queue[a]
    OBVIOUS
  <2>2. l[i].queue # <<>>
    BY <1>2
  <2>3. i \in LiveIn(k) /\ a \in DOMAIN k[i].queue /\ j = k[i].queue[a]
    BY <1>1, <1>2, <2>1, <2>2
  <2>4. j \in JoinedIn(k) /\ j \notin adr /\ On(f, {j}) = {}
    BY <2>3 DEF QueuesAre
  <2>5. j \in LiveIn(k) /\ k[j].state = "Connected"
    BY <2>4 DEF JoinedIn, LiveIn
  <2>6. j \in LiveIn(l) /\ l[j].state = "Connected"
    BY <2>5 DEF Opened, Holds
  <2>7. j \notin new /\ {j} \cap new = {}
    BY <2>5 DEF Opened
  <2>8. On(g, {j}) = {}
    BY <2>4, <2>7 DEF Opened
  <2>9. j \notin adr2
    BY <2>4, <2>7 DEF Opened
  <2> QED BY <2>1, <2>6, <2>8, <2>9 DEF JoinedIn, LiveIn
<1>3. ASSUME NEW i \in LiveIn(l), NEW j \in LiveIn(l),
             NEW a \in DOMAIN l[i].queue, NEW b \in DOMAIN l[j].queue,
             l[i].queue[a] = l[j].queue[b]
      PROVE  i = j /\ a = b
  <2>1. l[i].queue # <<>> /\ l[j].queue # <<>>
    BY <1>3
  <2>2. /\ i \in LiveIn(k) /\ l[i].queue = k[i].queue
        /\ j \in LiveIn(k) /\ l[j].queue = k[j].queue
    BY <1>1, <2>1
  <2> QED BY <1>3, <2>2 DEF QueuesAre
<1> QED BY <1>1, <1>2, <1>3 DEF QueuesAre

\* The references, with new sockets.
LEMMA OpenedReferences ==
  ASSUME NEW f, NEW k, NEW g, NEW l, NEW new, NEW adr, NEW adr2, SocketsAre(k),
         Opened(f, k, g, l, new, adr, adr2), QueuesAre(f, k, adr), ReferencesAre(f, k, adr)
  PROVE  ReferencesAre(g, l, adr2)
<1>1. adr2 \subseteq LiveIn(l)
  BY DEF ReferencesAre, Opened
<1>2. ASSUME NEW i \in LiveIn(l)
      PROVE  IF i \in adr2 THEN l[i].references > Count(g, l, {i})
                           ELSE l[i].references = Count(g, l, {i})
  <2>1. CASE i \in LiveIn(k)
    <3>1. i \notin new /\ {i} \cap new = {}
      BY <2>1 DEF Opened
    <3>2. Count(g, l, {i}) = Count(f, k, {i})
      BY <3>1, OpenedHolders DEF HoldersSame
    <3>3. l[i].references = k[i].references
      BY <2>1 DEF Opened, Holds
    <3>4. i \in adr2 <=> i \in adr
      BY <3>1 DEF Opened
    <3> QED BY <2>1, <3>2, <3>3, <3>4 DEF ReferencesAre
  <2>2. CASE i \in new
    <3>1. i \notin WaitingIn(l)
      <4>w. Waiters(f, k, adr)
        BY WaitingIs
      <4>1. WaitingIn(l) = WaitingIn(k)
        BY OpenedWaiting
      <4> QED BY <4>1, <4>w, <2>2 DEF Opened, Waiters, JoinedIn, LiveIn
    <3>2. Count(g, l, {i}) = Cardinality(On(g, {i}))
      BY <3>1, CountOne
    <3>3. l[i].references = 1
      BY <2>2 DEF Opened
    <3>4. CASE i \in adr2
      <4>1. On(g, {i}) = {}
        BY <2>2, <3>4 DEF Opened
      <4> QED BY <3>2, <3>3, <3>4, <4>1, FS_EmptySet
    <3>5. CASE i \notin adr2
      BY <2>2, <3>2, <3>3, <3>5 DEF Opened
    <3> QED BY <3>4, <3>5
  <2> QED BY <2>1, <2>2 DEF Opened
<1> QED BY <1>1, <1>2 DEF ReferencesAre

\* A new connected socket, that goes to the end of a queue.
Enqueued(k, l, far, listener) ==
  /\ far \in Ids /\ far \notin LiveIn(k)
  /\ LiveIn(l) = LiveIn(k) \cup {far}
  /\ listener \in LiveIn(k) /\ k[listener].state = "Listening"
  /\ \A j \in LiveIn(k) : Holds(k, l, j)
  /\ \A j \in LiveIn(k) \ {listener} : l[j].queue = k[j].queue
  /\ l[listener].queue = Append(k[listener].queue, far)
  /\ l[far].state = "Connected" /\ l[far].queue = <<>> /\ l[far].references = 1

\* What a sequence is with one more at its end.
LEMMA AppendIs ==
  ASSUME NEW T, NEW q \in Seq(T), NEW x, NEW S, S = Append(q, x)
  PROVE  /\ DOMAIN S = 1..(Len(q) + 1) /\ DOMAIN q = 1..Len(q) /\ Len(q) \in Nat
         /\ S[Len(q) + 1] = x
         /\ \A a \in 1..Len(q) : S[a] = q[a]
OBVIOUS

\* A socket not in use has no descriptor.
LEMMA NewIsUnheld ==
  ASSUME NEW f, NEW k, DescriptorsLive(f, k), NEW i, k[i] = NoSocket
  PROVE  On(f, {i}) = {}
BY DEF On, DescriptorsLive

\* Who waits, with one more at the end of a queue.
LEMMA EnqueuedWaiting ==
  ASSUME NEW f, NEW k, NEW l, NEW far, NEW listener, NEW adr, SocketsAre(k),
         Enqueued(k, l, far, listener), QueuesAre(f, k, adr)
  PROVE  WaitingIn(l) = WaitingIn(k) \cup {far} /\ far \notin WaitingIn(k)
<1>0. PICK q : q = k[listener].queue
  OBVIOUS
<1>1. q \in Seq(Ids)
  BY <1>0, LiveIsRecord DEF Enqueued
<1>2. /\ DOMAIN l[listener].queue = 1..(Len(q) + 1) /\ DOMAIN q = 1..Len(q) /\ Len(q) \in Nat
      /\ l[listener].queue[Len(q) + 1] = far
      /\ \A a \in 1..Len(q) : l[listener].queue[a] = q[a]
  <2>1. l[listener].queue = Append(q, far)
    BY <1>0 DEF Enqueued
  <2> QED BY <1>1, <2>1, AppendIs
<1>w. Waiters(f, k, adr)
  BY WaitingIs
<1>3. ASSUME NEW j \in WaitingIn(l), j # far PROVE j \in WaitingIn(k)
  <2>1. PICK i \in LiveIn(l) : \E a \in DOMAIN l[i].queue : l[i].queue[a] = j
    BY DEF WaitingIn, LiveIn
  <2>2. PICK a \in DOMAIN l[i].queue : l[i].queue[a] = j
    BY <2>1
  <2>3. i # far
    BY <2>2 DEF Enqueued
  <2>4. i \in LiveIn(k)
    BY <2>3 DEF Enqueued
  <2>5. CASE i = listener
    <3>1. a \in 1..Len(q) /\ q[a] = j
      BY <2>2, <2>5, <1>2, <1>3
    <3> QED BY <3>1, <2>4, <2>5, <1>0, <1>2, <1>w DEF Waiters
  <2>6. CASE i # listener
    <3>1. l[i].queue = k[i].queue
      BY <2>4, <2>6 DEF Enqueued
    <3> QED BY <3>1, <2>2, <2>4, <1>w DEF Waiters
  <2> QED BY <2>5, <2>6
<1>4. ASSUME NEW j \in WaitingIn(k) PROVE j \in WaitingIn(l)
  <2>1. PICK i \in LiveIn(k) : /\ k[i].state = "Listening"
                               /\ \E a \in DOMAIN k[i].queue : k[i].queue[a] = j
    BY DEF WaitingIn, LiveIn
  <2>2. PICK a \in DOMAIN k[i].queue : k[i].queue[a] = j
    BY <2>1
  <2>3. i \in LiveIn(l) /\ l[i].state = "Listening"
    BY <2>1 DEF Enqueued, Holds
  <2>4. a \in DOMAIN l[i].queue /\ l[i].queue[a] = j
    <3>1. CASE i = listener
      BY <3>1, <1>0, <1>2, <2>2
    <3>2. CASE i # listener
      BY <3>2, <2>2 DEF Enqueued
    <3> QED BY <3>1, <3>2
  <2> QED BY <2>3, <2>4 DEF WaitingIn, LiveIn
<1>5. far \in WaitingIn(l)
  <2>1. listener \in LiveIn(l) /\ l[listener].state = "Listening"
    BY DEF Enqueued, Holds
  <2>2. Len(q) + 1 \in DOMAIN l[listener].queue
    BY <1>2
  <2>3. far \in Ids
    BY DEF Enqueued
  <2> QED BY <2>1, <2>2, <2>3, <1>2 DEF WaitingIn, LiveIn
<1>6. far \notin WaitingIn(k)
  <2>1. far \notin JoinedIn(k)
    BY DEF Enqueued, JoinedIn, LiveIn
  <2> QED BY <2>1, <1>w DEF Waiters
<1> QED BY <1>3, <1>4, <1>5, <1>6

\* One more in a queue changes no count of others.
LEMMA EnqueuedHolders ==
  ASSUME NEW f, NEW k, NEW l, NEW far, NEW listener, NEW adr, SocketsAre(k),
         Enqueued(k, l, far, listener), QueuesAre(f, k, adr), NEW S, far \notin S
  PROVE  HoldersSame(f, k, f, l, S)
<1>1. WaitingIn(l) = WaitingIn(k) \cup {far}
  BY EnqueuedWaiting
<1>2. S \cap WaitingIn(l) = S \cap WaitingIn(k)
  BY <1>1
<1> QED BY <1>2 DEF HoldersSame, Count

\* The place in the queue is what holds the new socket.
LEMMA EnqueuedFar ==
  ASSUME NEW f, NEW k, NEW l, NEW far, NEW listener, NEW adr, SocketsAre(k),
         Enqueued(k, l, far, listener), QueuesAre(f, k, adr), DescriptorsLive(f, k)
  PROVE  On(f, {far}) = {} /\ Count(f, l, {far}) = 1
<1>1. k[far] = NoSocket
  BY DEF Enqueued, LiveIn
<1>2. On(f, {far}) = {}
  BY <1>1, NewIsUnheld
<1>3. far \in WaitingIn(l)
  BY EnqueuedWaiting
<1>4. Cardinality(On(f, {far})) = 0
  BY <1>2, FS_EmptySet
<1> QED BY <1>2, <1>3, <1>4, CountOne

\* Descriptors name sockets, with one more in a queue.
LEMMA EnqueuedDescriptors ==
  ASSUME NEW f, NEW k, NEW l, NEW far, NEW listener, FilesAre(f),
         Enqueued(k, l, far, listener), DescriptorsLive(f, k)
  PROVE  DescriptorsLive(f, l)
<1> SUFFICES ASSUME NEW p \in Procs, NEW fd \in Fds, f[p][fd] # NoFile
             PROVE  l[f[p][fd].socket] # NoSocket
  BY DEF DescriptorsLive
<1>1. f[p][fd].socket \in Ids
  BY DEF FilesAre, OpenFiles
<1>2. k[f[p][fd].socket] # NoSocket
  BY DEF DescriptorsLive
<1> QED BY <1>1, <1>2 DEF Enqueued, LiveIn

\* The queues, with one more at the end of one.
LEMMA EnqueuedQueues ==
  ASSUME NEW f, NEW k, NEW l, NEW far, NEW listener, NEW adr, SocketsAre(k),
         Enqueued(k, l, far, listener), QueuesAre(f, k, adr), ReferencesAre(f, k, adr),
         DescriptorsLive(f, k)
  PROVE  QueuesAre(f, l, adr)
<1>0. PICK q : q = k[listener].queue
  OBVIOUS
<1>1. q \in Seq(Ids)
  BY <1>0, LiveIsRecord DEF Enqueued
<1>2. /\ DOMAIN l[listener].queue = 1..(Len(q) + 1) /\ DOMAIN q = 1..Len(q) /\ Len(q) \in Nat
      /\ l[listener].queue[Len(q) + 1] = far
      /\ \A a \in 1..Len(q) : l[listener].queue[a] = q[a]
  <2>1. l[listener].queue = Append(q, far)
    BY <1>0 DEF Enqueued
  <2> QED BY <1>1, <2>1, AppendIs
<1>3. ASSUME NEW i \in LiveIn(l), l[i].state # "Listening" PROVE l[i].queue = <<>>
  <2>1. CASE i = far
    BY <2>1 DEF Enqueued
  <2>2. CASE i # far
    <3>1. i \in LiveIn(k) /\ k[i].state # "Listening"
      BY <1>3, <2>2 DEF Enqueued, Holds
    <3>2. i # listener
      BY <3>1 DEF Enqueued
    <3> QED BY <3>1, <3>2 DEF Enqueued, QueuesAre
  <2> QED BY <2>1, <2>2
\* Where a member of a queue comes from.
<1>4. ASSUME NEW i \in LiveIn(l), NEW a \in DOMAIN l[i].queue
      PROVE  \/ i = listener /\ a = Len(q) + 1 /\ l[i].queue[a] = far
             \/ i \in LiveIn(k) /\ a \in DOMAIN k[i].queue /\ l[i].queue[a] = k[i].queue[a]
  <2>1. i # far
    BY <1>4 DEF Enqueued
  <2>2. i \in LiveIn(k)
    BY <2>1 DEF Enqueued
  <2>3. CASE i = listener
    <3>1. a \in 1..(Len(q) + 1)
      BY <2>3, <1>2, <1>4
    <3>2. a = Len(q) + 1 \/ a \in 1..Len(q)
      BY <3>1, <1>2
    <3>3. CASE a = Len(q) + 1
      BY <3>3, <2>3, <1>2
    <3>4. CASE a \in 1..Len(q)
      BY <3>4, <2>2, <2>3, <1>0, <1>2
    <3> QED BY <3>2, <3>3, <3>4
  <2>4. CASE i # listener
    <3>1. l[i].queue = k[i].queue
      BY <2>2, <2>4 DEF Enqueued
    <3> QED BY <3>1, <2>2
  <2> QED BY <2>3, <2>4
<1>5. On(f, {far}) = {} /\ far \notin adr /\ far \in JoinedIn(l) /\ far \notin JoinedIn(k)
  <2>1. On(f, {far}) = {}
    BY EnqueuedFar
  <2> QED BY <2>1 DEF Enqueued, ReferencesAre, JoinedIn, LiveIn
<1>6. ASSUME NEW i \in LiveIn(k), NEW a \in DOMAIN k[i].queue
      PROVE  k[i].queue[a] \in JoinedIn(k) \ adr /\ On(f, {k[i].queue[a]}) = {}
  BY DEF QueuesAre
<1>7. JoinedIn(k) \subseteq JoinedIn(l)
  BY DEF Enqueued, Holds, JoinedIn, LiveIn
<1>8. ASSUME NEW i \in LiveIn(l), NEW a \in DOMAIN l[i].queue
      PROVE  /\ l[i].queue[a] \in JoinedIn(l) \ adr
             /\ On(f, {l[i].queue[a]}) = {}
  <2>1. CASE l[i].queue[a] = far
    BY <2>1, <1>5
  <2>2. CASE i \in LiveIn(k) /\ a \in DOMAIN k[i].queue /\ l[i].queue[a] = k[i].queue[a]
    BY <2>2, <1>6, <1>7
  <2> QED BY <2>1, <2>2, <1>4
<1>9. ASSUME NEW i \in LiveIn(l), NEW j \in LiveIn(l),
             NEW a \in DOMAIN l[i].queue, NEW b \in DOMAIN l[j].queue,
             l[i].queue[a] = l[j].queue[b]
      PROVE  i = j /\ a = b
  <2>1. CASE l[i].queue[a] = far
    <3>1. i = listener /\ a = Len(q) + 1
      BY <2>1, <1>4, <1>5, <1>6
    <3>3. l[j].queue[b] = far
      BY <2>1, <1>9
    <3>2. j = listener /\ b = Len(q) + 1
      BY <3>3, <1>4, <1>5, <1>6
    <3> QED BY <3>1, <3>2
  <2>2. CASE l[i].queue[a] # far
    <3>1. i \in LiveIn(k) /\ a \in DOMAIN k[i].queue /\ l[i].queue[a] = k[i].queue[a]
      BY <2>2, <1>4
    <3>3. l[j].queue[b] # far
      BY <2>2, <1>9
    <3>2. j \in LiveIn(k) /\ b \in DOMAIN k[j].queue /\ l[j].queue[b] = k[j].queue[b]
      BY <3>3, <1>4
    <3>4. k[i].queue[a] = k[j].queue[b]
      BY <3>1, <3>2, <1>9
    <3> QED BY <3>1, <3>2, <3>4 DEF QueuesAre
  <2> QED BY <2>1, <2>2
<1> QED BY <1>3, <1>8, <1>9 DEF QueuesAre

\* The references, with one more in a queue.
LEMMA EnqueuedReferences ==
  ASSUME NEW f, NEW k, NEW l, NEW far, NEW listener, NEW adr, SocketsAre(k),
         Enqueued(k, l, far, listener), QueuesAre(f, k, adr), ReferencesAre(f, k, adr),
         DescriptorsLive(f, k)
  PROVE  ReferencesAre(f, l, adr)
<1>1. adr \subseteq LiveIn(l)
  BY DEF ReferencesAre, Enqueued
<1>2. ASSUME NEW i \in LiveIn(l)
      PROVE  IF i \in adr THEN l[i].references > Count(f, l, {i})
                          ELSE l[i].references = Count(f, l, {i})
  <2>1. CASE i \in LiveIn(k)
    <3>1. far \notin {i}
      BY <2>1 DEF Enqueued
    <3>2. Count(f, l, {i}) = Count(f, k, {i})
      BY <3>1, EnqueuedHolders DEF HoldersSame
    <3>3. l[i].references = k[i].references
      BY <2>1 DEF Enqueued, Holds
    <3> QED BY <2>1, <3>2, <3>3 DEF ReferencesAre
  <2>2. CASE i = far
    <3>1. i \notin adr
      BY <2>2 DEF ReferencesAre, Enqueued
    <3>2. Count(f, l, {i}) = 1
      BY <2>2, EnqueuedFar
    <3> QED BY <2>2, <3>1, <3>2 DEF Enqueued
  <2> QED BY <2>1, <2>2 DEF Enqueued
<1> QED BY <1>1, <1>2 DEF ReferencesAre

\* The first of a queue leaves it, for a descriptor or for good.
Dequeued(f, k, g, l, listener, i) ==
  /\ listener \in LiveIn(k) /\ k[listener].state = "Listening" /\ listener # i
  /\ k[listener].queue # <<>> /\ i = Head(k[listener].queue)
  /\ LiveIn(l) = LiveIn(k) \/ LiveIn(l) = LiveIn(k) \ {i}
  /\ \A j \in LiveIn(l) : Holds(k, l, j)
  /\ \A j \in LiveIn(l) \ {listener} : l[j].queue = k[j].queue
  /\ l[listener].queue = Tail(k[listener].queue)
  /\ \A S : i \notin S => On(g, S) = On(f, S)
  /\ IF i \in LiveIn(l) THEN Cardinality(On(g, {i})) = 1 ELSE On(g, {i}) = {}

\* What a sequence is without its first.
LEMMA TailIs ==
  ASSUME NEW T, NEW q \in Seq(T), q # <<>>, NEW S, S = Tail(q)
  PROVE  /\ DOMAIN q = 1..Len(q) /\ Len(q) \in Nat /\ Len(q) >= 1
         /\ DOMAIN S = 1..(Len(q) - 1)
         /\ Head(q) = q[1]
         /\ \A a \in 1..(Len(q) - 1) : S[a] = q[a + 1]
<1>1. DOMAIN q = 1..Len(q) /\ Len(q) \in Nat /\ Len(q) >= 1
  OBVIOUS
<1>2. Head(q) = q[1]
  OBVIOUS
<1>3. S \in Seq(T) /\ Len(S) = Len(q) - 1
  OBVIOUS
<1>4. \A a \in 1..(Len(q) - 1) : S[a] = q[a + 1]
  BY <1>1
<1> QED BY <1>1, <1>2, <1>3, <1>4

\* Where a member of a queue was, before its head went.
LEMMA DequeuedFrom ==
  ASSUME NEW f, NEW k, NEW g, NEW l, NEW listener, NEW i, NEW adr, SocketsAre(k),
         Dequeued(f, k, g, l, listener, i), QueuesAre(f, k, adr),
         NEW j \in LiveIn(l), NEW a \in DOMAIN l[j].queue
  PROVE  /\ j \in LiveIn(k) /\ k[j].state = "Listening" /\ l[j].queue[a] # i
         /\ j = listener => /\ a \in Nat /\ a + 1 \in DOMAIN k[j].queue
                            /\ l[j].queue[a] = k[j].queue[a + 1]
         /\ j # listener => l[j].queue = k[j].queue
<1>0. PICK q : q = k[listener].queue
  OBVIOUS
<1>1. q \in Seq(Ids) /\ q # <<>>
  BY <1>0, LiveIsRecord DEF Dequeued
<1>2. /\ DOMAIN q = 1..Len(q) /\ Len(q) \in Nat /\ Len(q) >= 1
      /\ DOMAIN l[listener].queue = 1..(Len(q) - 1)
      /\ Head(q) = q[1]
      /\ \A b \in 1..(Len(q) - 1) : l[listener].queue[b] = q[b + 1]
  <2>1. l[listener].queue = Tail(q)
    BY <1>0 DEF Dequeued
  <2> QED BY <1>1, <2>1, TailIs
<1>3. j \in LiveIn(k)
  BY DEF Dequeued
<1>4. listener \in LiveIn(k) /\ i = q[1] /\ 1 \in DOMAIN k[listener].queue
  BY <1>0, <1>2 DEF Dequeued
<1>5. CASE j = listener
  <2>1. a \in 1..(Len(q) - 1) /\ l[j].queue[a] = q[a + 1]
    BY <1>2, <1>5
  <2>2. a \in Nat /\ a + 1 \in DOMAIN k[j].queue /\ l[j].queue[a] = k[j].queue[a + 1] /\ a + 1 # 1
    BY <2>1, <1>0, <1>2, <1>5
  <2>3. l[j].queue[a] # i
    <3> SUFFICES ASSUME l[j].queue[a] = i PROVE FALSE
      OBVIOUS
    <3>1. k[j].queue[a + 1] = k[j].queue[1]
      BY <2>2, <1>0, <1>4, <1>5
    <3>2. 1 \in DOMAIN k[j].queue
      BY <1>4, <1>5
    <3>3. a + 1 = 1
      BY <3>1, <3>2, <2>2, <1>3 DEF QueuesAre
    <3> QED BY <3>3, <2>2
  <2>4. k[j].state = "Listening"
    BY <1>5 DEF Dequeued
  <2> QED BY <1>3, <1>5, <2>2, <2>3, <2>4
<1>6. CASE j # listener
  <2>1. l[j].queue = k[j].queue
    BY <1>6 DEF Dequeued
  <2>2. k[j].queue # <<>>
    BY <2>1
  <2>3. k[j].state = "Listening"
    BY <1>3, <2>2 DEF QueuesAre
  <2>4. l[j].queue[a] # i
    <3> SUFFICES ASSUME l[j].queue[a] = i PROVE FALSE
      OBVIOUS
    <3>1. k[j].queue[a] = k[listener].queue[1] /\ a \in DOMAIN k[j].queue
      BY <2>1, <1>0, <1>4
    <3> QED BY <3>1, <1>3, <1>4, <1>6 DEF QueuesAre
  <2> QED BY <1>3, <1>6, <2>1, <2>3, <2>4
<1> QED BY <1>5, <1>6

\* The head of a queue is held by its place there and nothing else.
LEMMA DequeuedHead ==
  ASSUME NEW f, NEW k, NEW g, NEW l, NEW listener, NEW i, NEW adr, SocketsAre(k),
         Dequeued(f, k, g, l, listener, i), QueuesAre(f, k, adr)
  PROVE  /\ i \in WaitingIn(k) /\ i \in JoinedIn(k) /\ i \notin adr /\ On(f, {i}) = {}
         /\ Count(f, k, {i}) = 1
<1>0. PICK q : q = k[listener].queue
  OBVIOUS
<1>1. q \in Seq(Ids) /\ q # <<>>
  BY <1>0, LiveIsRecord DEF Dequeued
<1>2. 1 \in DOMAIN q /\ Head(q) = q[1]
  BY <1>1
<1>w. Waiters(f, k, adr)
  BY WaitingIs
<1>3. i \in WaitingIn(k)
  BY <1>0, <1>2, <1>w DEF Dequeued, Waiters
<1>4. i \in JoinedIn(k) /\ i \notin adr /\ On(f, {i}) = {}
  BY <1>3, <1>w DEF Waiters
<1>5. Cardinality(On(f, {i})) = 0
  BY <1>4, FS_EmptySet
<1> QED BY <1>3, <1>4, <1>5, CountOne

\* Who waits, with the head of a queue gone.
LEMMA DequeuedWaiting ==
  ASSUME NEW f, NEW k, NEW g, NEW l, NEW listener, NEW i, NEW adr, SocketsAre(k),
         Dequeued(f, k, g, l, listener, i), QueuesAre(f, k, adr)
  PROVE  WaitingIn(l) = WaitingIn(k) \ {i}
<1>0. PICK q : q = k[listener].queue
  OBVIOUS
<1>1. q \in Seq(Ids) /\ q # <<>>
  BY <1>0, LiveIsRecord DEF Dequeued
<1>2. /\ DOMAIN q = 1..Len(q) /\ Len(q) \in Nat /\ Len(q) >= 1
      /\ DOMAIN l[listener].queue = 1..(Len(q) - 1)
      /\ Head(q) = q[1]
      /\ \A b \in 1..(Len(q) - 1) : l[listener].queue[b] = q[b + 1]
  <2>1. l[listener].queue = Tail(q)
    BY <1>0 DEF Dequeued
  <2> QED BY <1>1, <2>1, TailIs
<1>w. Waiters(f, k, adr)
  BY WaitingIs
<1>3. ASSUME NEW j \in WaitingIn(l) PROVE j \in WaitingIn(k) /\ j # i
  <2>1. PICK h \in LiveIn(l) : \E a \in DOMAIN l[h].queue : l[h].queue[a] = j
    BY DEF WaitingIn, LiveIn
  <2>2. PICK a \in DOMAIN l[h].queue : l[h].queue[a] = j
    BY <2>1
  <2>3. h \in LiveIn(k) /\ l[h].queue[a] # i
    BY DequeuedFrom
  <2>4. h = listener => /\ a + 1 \in DOMAIN k[h].queue
                        /\ l[h].queue[a] = k[h].queue[a + 1]
    BY DequeuedFrom
  <2>5. h # listener => l[h].queue = k[h].queue
    BY DequeuedFrom
  <2>6. j \in WaitingIn(k)
    BY <2>2, <2>3, <2>4, <2>5, <1>w DEF Waiters
  <2> QED BY <2>2, <2>3, <2>6
<1>4. ASSUME NEW j \in WaitingIn(k), j # i PROVE j \in WaitingIn(l)
  <2>1. PICK h \in LiveIn(k) : /\ k[h].state = "Listening"
                               /\ \E a \in DOMAIN k[h].queue : k[h].queue[a] = j
    BY DEF WaitingIn, LiveIn
  <2>2. PICK a \in DOMAIN k[h].queue : k[h].queue[a] = j
    BY <2>1
  <2>3. h # i
    <3>1. k[i].state = "Connected"
      BY DequeuedHead DEF JoinedIn
    <3> QED BY <2>1, <3>1
  <2>4. h \in LiveIn(l) /\ l[h].state = "Listening"
    BY <2>1, <2>3 DEF Dequeued, Holds
  <2>5. \E b \in DOMAIN l[h].queue : l[h].queue[b] = j
    <3>1. CASE h # listener
      <4>1. l[h].queue = k[h].queue
        BY <2>4, <3>1 DEF Dequeued
      <4> QED BY <4>1, <2>2
    <3>2. CASE h = listener
      <4>1. a \in 1..Len(q) /\ q[a] = j
        BY <1>0, <1>2, <2>2, <3>2
      <4>2. a # 1
        BY <4>1, <1>0, <1>2, <1>4 DEF Dequeued
      <4>3. a - 1 \in 1..(Len(q) - 1) /\ (a - 1) + 1 = a
        BY <4>1, <4>2, <1>2
      <4>4. l[listener].queue[a - 1] = q[a]
        BY <4>3, <1>2
      <4> QED BY <4>1, <4>3, <4>4, <1>2, <3>2
    <3> QED BY <3>1, <3>2
  <2>6. j \in Ids
    BY DEF WaitingIn
  <2> QED BY <2>4, <2>5, <2>6 DEF WaitingIn, LiveIn
<1> QED BY <1>3, <1>4

\* A descriptor in the place of a place in a queue changes no count.
LEMMA DequeuedHolders ==
  ASSUME NEW f, NEW k, NEW g, NEW l, NEW listener, NEW i, NEW adr, SocketsAre(k),
         Dequeued(f, k, g, l, listener, i), QueuesAre(f, k, adr), NEW S,
         i \in LiveIn(l) \/ i \notin S
  PROVE  HoldersSame(f, k, g, l, S)
<1>1. WaitingIn(l) = WaitingIn(k) \ {i}
  BY DequeuedWaiting
<1>2. ASSUME NEW T, i \notin T PROVE Count(g, l, T) = Count(f, k, T)
  <2>1. On(g, T) = On(f, T)
    BY <1>2 DEF Dequeued
  <2>2. T \cap WaitingIn(l) = T \cap WaitingIn(k)
    BY <1>1, <1>2
  <2> QED BY <2>1, <2>2 DEF Count
<1>3. CASE i \notin S
  BY <1>2, <1>3 DEF HoldersSame
<1>4. CASE i \in S
  <2>1. S = (S \ {i}) \cup {i} /\ (S \ {i}) \cap {i} = {}
    BY <1>4
  <2>2. Count(g, l, S) = Count(g, l, S \ {i}) + Count(g, l, {i})
    BY <2>1, CountSplits
  <2>3. Count(f, k, S) = Count(f, k, S \ {i}) + Count(f, k, {i})
    BY <2>1, CountSplits
  <2>4. Count(g, l, S \ {i}) = Count(f, k, S \ {i})
    BY <1>2
  <2>5. Count(f, k, {i}) = 1
    BY DequeuedHead
  <2>6. i \notin WaitingIn(l)
    BY <1>1
  <2>7. Cardinality(On(g, {i})) = 1
    BY <1>4 DEF Dequeued
  <2>8. Count(g, l, {i}) = 1
    BY <2>6, <2>7, CountOne
  <2> QED BY <2>2, <2>3, <2>4, <2>5, <2>8 DEF HoldersSame
<1> QED BY <1>3, <1>4

\* Descriptors name sockets, with the head of a queue gone.
LEMMA DequeuedDescriptors ==
  ASSUME NEW f, NEW k, NEW g, NEW l, NEW listener, NEW i, NEW adr, SocketsAre(k),
         Dequeued(f, k, g, l, listener, i), QueuesAre(f, k, adr), DescriptorsLive(f, k),
         FilesAre(f), FilesAre(g)
  PROVE  DescriptorsLive(g, l)
<1> SUFFICES ASSUME NEW p \in Procs, NEW fd \in Fds, g[p][fd] # NoFile
             PROVE  l[g[p][fd].socket] # NoSocket
  BY DEF DescriptorsLive
<1>1. PICK j : j = g[p][fd].socket
  OBVIOUS
<1>2. j \in Ids
  BY <1>1 DEF FilesAre, OpenFiles
<1>3. <<p, fd>> \in On(g, {j})
  BY <1>1 DEF On
<1>4. CASE j = i
  <2>1. i \in LiveIn(l)
    BY <1>3, <1>4 DEF Dequeued
  <2> QED BY <1>1, <1>4, <2>1 DEF LiveIn
<1>5. CASE j # i
  <2>1. i \notin {j}
    BY <1>5
  <2>2. On(g, {j}) = On(f, {j})
    BY <2>1 DEF Dequeued
  <2>3. f[p][fd] # NoFile /\ f[p][fd].socket = j
    BY <1>3, <2>2 DEF On
  <2>4. j \in LiveIn(k)
    BY <2>3, <1>2 DEF DescriptorsLive, LiveIn
  <2>5. j \in LiveIn(l)
    BY <2>4, <1>5 DEF Dequeued
  <2> QED BY <1>1, <2>5 DEF LiveIn
<1> QED BY <1>4, <1>5

\* The queues, with the head of one gone.
LEMMA DequeuedQueues ==
  ASSUME NEW f, NEW k, NEW g, NEW l, NEW listener, NEW i, NEW adr, SocketsAre(k),
         Dequeued(f, k, g, l, listener, i), QueuesAre(f, k, adr)
  PROVE  QueuesAre(g, l, adr)
<1>1. ASSUME NEW j \in LiveIn(l), l[j].state # "Listening" PROVE l[j].queue = <<>>
  <2>1. j \in LiveIn(k) /\ k[j].state # "Listening"
    BY <1>1 DEF Dequeued, Holds
  <2>2. j # listener
    BY <2>1 DEF Dequeued
  <2> QED BY <1>1, <2>1, <2>2 DEF Dequeued, QueuesAre
<1>2. ASSUME NEW j \in LiveIn(l), NEW a \in DOMAIN l[j].queue
      PROVE  /\ l[j].queue[a] \in JoinedIn(l) \ adr
             /\ On(g, {l[j].queue[a]}) = {}
  <2>1. PICK h : h = l[j].queue[a]
    OBVIOUS
  <2>2. j \in LiveIn(k) /\ h # i
    BY <2>1, DequeuedFrom
  <2>3. j = listener => a + 1 \in DOMAIN k[j].queue /\ h = k[j].queue[a + 1]
    BY <2>1, DequeuedFrom
  <2>4. j # listener => l[j].queue = k[j].queue
    BY DequeuedFrom
  <2>5. h \in JoinedIn(k) \ adr /\ On(f, {h}) = {}
    BY <2>1, <2>2, <2>3, <2>4 DEF QueuesAre
  <2>6. i \notin {h}
    BY <2>2
  <2>7. On(g, {h}) = {}
    BY <2>5, <2>6 DEF Dequeued
  <2>8. h \in LiveIn(l)
    BY <2>2, <2>5 DEF Dequeued, JoinedIn, LiveIn
  <2>9. h \in JoinedIn(l)
    BY <2>5, <2>8 DEF Dequeued, Holds, JoinedIn, LiveIn
  <2> QED BY <2>1, <2>5, <2>7, <2>9
<1>3. ASSUME NEW j \in LiveIn(l), NEW h \in LiveIn(l),
             NEW a \in DOMAIN l[j].queue, NEW b \in DOMAIN l[h].queue,
             l[j].queue[a] = l[h].queue[b]
      PROVE  j = h /\ a = b
  <2>1. j \in LiveIn(k) /\ h \in LiveIn(k)
    BY DequeuedFrom
  <2>2. j = listener => /\ a \in Nat /\ a + 1 \in DOMAIN k[j].queue
                        /\ l[j].queue[a] = k[j].queue[a + 1]
    BY DequeuedFrom
  <2>3. h = listener => /\ b \in Nat /\ b + 1 \in DOMAIN k[h].queue
                        /\ l[h].queue[b] = k[h].queue[b + 1]
    BY DequeuedFrom
  <2>4. j # listener => l[j].queue = k[j].queue
    BY DequeuedFrom
  <2>5. h # listener => l[h].queue = k[h].queue
    BY DequeuedFrom
  <2>6. CASE j = listener /\ h = listener
    <3>1. k[j].queue[a + 1] = k[h].queue[b + 1]
      BY <2>2, <2>3, <2>6, <1>3
    <3>2. a + 1 = b + 1
      BY <3>1, <2>1, <2>2, <2>3, <2>6 DEF QueuesAre
    <3> QED BY <3>2, <2>2, <2>3, <2>6
  <2>7. CASE j = listener /\ h # listener
    <3>1. k[j].queue[a + 1] = k[h].queue[b] /\ b \in DOMAIN k[h].queue
      BY <2>2, <2>5, <2>7, <1>3
    <3>2. j = h
      BY <3>1, <2>1, <2>2, <2>7 DEF QueuesAre
    <3> QED BY <3>2, <2>7
  <2>8. CASE j # listener /\ h = listener
    <3>1. k[j].queue[a] = k[h].queue[b + 1] /\ a \in DOMAIN k[j].queue
      BY <2>3, <2>4, <2>8, <1>3
    <3>2. j = h
      BY <3>1, <2>1, <2>3, <2>8 DEF QueuesAre
    <3> QED BY <3>2, <2>8
  <2>9. CASE j # listener /\ h # listener
    <3>1. k[j].queue[a] = k[h].queue[b] /\ a \in DOMAIN k[j].queue /\ b \in DOMAIN k[h].queue
      BY <2>4, <2>5, <2>9, <1>3
    <3> QED BY <3>1, <2>1 DEF QueuesAre
  <2> QED BY <2>6, <2>7, <2>8, <2>9
<1> QED BY <1>1, <1>2, <1>3 DEF QueuesAre

\* The references, with the head of a queue gone.
LEMMA DequeuedReferences ==
  ASSUME NEW f, NEW k, NEW g, NEW l, NEW listener, NEW i, NEW adr, SocketsAre(k),
         Dequeued(f, k, g, l, listener, i), QueuesAre(f, k, adr), ReferencesAre(f, k, adr)
  PROVE  ReferencesAre(g, l, adr)
<1>1. adr \subseteq LiveIn(l)
  <2>1. i \notin adr
    BY DequeuedHead
  <2> QED BY <2>1 DEF ReferencesAre, Dequeued
<1>2. ASSUME NEW j \in LiveIn(l)
      PROVE  IF j \in adr THEN l[j].references > Count(g, l, {j})
                          ELSE l[j].references = Count(g, l, {j})
  <2>1. j \in LiveIn(k) /\ l[j].references = k[j].references
    BY DEF Dequeued, Holds
  <2>2. i \in LiveIn(l) \/ i \notin {j}
    OBVIOUS
  <2>3. Count(g, l, {j}) = Count(f, k, {j})
    BY <2>2, DequeuedHolders DEF HoldersSame
  <2> QED BY <2>1, <2>3 DEF ReferencesAre
<1> QED BY <1>1, <1>2 DEF ReferencesAre

---------------------------------------------------------------------------
(* What a step does to the rings and to the host's events.                 *)

\* The connections stay where they are; with their flags, as they are.
PlacesStay ==
  /\ JoinedIn(sockets') = JoinedIn(sockets)
  /\ \A i \in JoinedIn(sockets) :
       /\ sockets'[i].ends.receive = sockets[i].ends.receive
       /\ sockets'[i].ends.transmit = sockets[i].ends.transmit
       /\ sockets'[i].ends.hears = sockets[i].ends.hears
       /\ sockets'[i].ends.says = sockets[i].ends.says
       /\ sockets'[i].edge = sockets[i].edge

\* The connections stay as they are.
JoinedStay ==
  /\ JoinedIn(sockets') = JoinedIn(sockets)
  /\ \A i \in JoinedIn(sockets) :
       sockets'[i].ends = sockets[i].ends /\ sockets'[i].edge = sockets[i].edge

\* No ring is named more or less often; no ring's counts change.
AttachedStay == \A s \in Slots : rings'[s].attached = rings[s].attached
RingsStay ==
  \A s \in Slots : /\ rings'[s].readers = rings[s].readers
                   /\ rings'[s].writers = rings[s].writers
                   /\ rings'[s].attached = rings[s].attached

\* Those who hold an end that is not given up for lost are as many as before.
HoldersStay ==
  \A s \in Slots : carries[s] \notin skewed' \cup {0} =>
     /\ HoldersSame(files, sockets, files', sockets', Hearing(sockets, s))
     /\ HoldersSame(files, sockets, files', sockets', Saying(sockets, s))

\* The host's part in each stream stays, or its writing ends.
StreamsStay ==
  /\ Len(streams') = Len(streams)
  /\ \A a \in 1..Len(streams) :
       /\ streams'[a].reads = streams[a].reads
       /\ streams'[a].writes = streams[a].writes \/ streams'[a].writes = 0

\* Connections that stay keep their places.
LEMMA JoinedPlaces ==
  ASSUME JoinedStay
  PROVE  PlacesStay
BY DEF JoinedStay, PlacesStay

\* Ring::attached, where the connections keep their places.
LEMMA StayAttached ==
  ASSUME AttachedAre(sockets, rings), PlacesStay, AttachedStay
  PROVE  AttachedAre(sockets', rings')
<1> SUFFICES ASSUME NEW s \in Slots PROVE rings'[s].attached = NamingIn(sockets', s)
  BY DEF AttachedAre
<1>1. /\ {i \in JoinedIn(sockets') : sockets'[i].ends.receive = s}
           = {i \in JoinedIn(sockets) : sockets[i].ends.receive = s}
      /\ {i \in JoinedIn(sockets') : sockets'[i].ends.transmit = s}
           = {i \in JoinedIn(sockets) : sockets[i].ends.transmit = s}
  BY DEF PlacesStay
<1>2. NamingIn(sockets', s) = NamingIn(sockets, s)
  BY <1>1 DEF NamingIn
<1> QED BY <1>2 DEF AttachedAre, AttachedStay

\* The ends of the rings, where holders and ends stay.
LEMMA StayCounts ==
  ASSUME CountsAre(files, sockets, rings, streams, carries, skewed), JoinedStay, RingsStay,
         HoldersStay, CarriedAre(sockets, carries, streams), StreamsKept(streams, streams'),
         Len(streams) \in Nat, carries' = carries, skewed \subseteq skewed'
  PROVE  CountsAre(files', sockets', rings', streams', carries', skewed')
<1> SUFFICES ASSUME NEW s \in Slots, carries[s] \notin skewed' \cup {0}
             PROVE  /\ rings'[s].readers = Count(files', sockets', Hearing(sockets', s))
                                             + One(streams'[carries[s]].reads # 0)
                    /\ rings'[s].writers = Count(files', sockets', Saying(sockets', s))
                                             + One(streams'[carries[s]].writes # 0)
  BY DEF CountsAre
<1>1. Hearing(sockets', s) = Hearing(sockets, s) /\ Saying(sockets', s) = Saying(sockets, s)
  BY DEF Hearing, Saying, JoinedStay
<1>2. /\ Count(files', sockets', Hearing(sockets, s)) = Count(files, sockets, Hearing(sockets, s))
      /\ Count(files', sockets', Saying(sockets, s)) = Count(files, sockets, Saying(sockets, s))
  BY DEF HoldersStay, HoldersSame
<1>3. carries[s] \in 1..Len(streams)
  <2>1. carries[s] \in 0..Len(streams) /\ carries[s] # 0
    BY DEF CarriedAre
  <2> QED BY <2>1
<1>4. /\ streams'[carries[s]].reads = streams[carries[s]].reads
      /\ streams'[carries[s]].writes = streams[carries[s]].writes
  BY <1>3 DEF StreamsKept
<1>5. /\ rings[s].readers = Count(files, sockets, Hearing(sockets, s))
                              + One(streams[carries[s]].reads # 0)
      /\ rings[s].writers = Count(files, sockets, Saying(sockets, s))
                              + One(streams[carries[s]].writes # 0)
  BY DEF CountsAre
<1>6. rings'[s].readers = rings[s].readers /\ rings'[s].writers = rings[s].writers
  BY DEF RingsStay
<1> QED BY <1>1, <1>2, <1>4, <1>5, <1>6

\* Each connection keeps its own rings, where they keep their places.
LEMMA StayCarried ==
  ASSUME CarriedAre(sockets, carries, streams), PlacesStay, StreamsStay,
         Len(streams) \in Nat, carries' = carries
  PROVE  CarriedAre(sockets', carries', streams')
<1>1. /\ \A s \in Slots : carries'[s] \in 0..Len(streams')
      /\ \A s, t \in Slots : carries'[s] = carries'[t] /\ carries'[s] # 0 => s = t
  BY DEF CarriedAre, StreamsStay
<1>2. ASSUME NEW i \in JoinedIn(sockets')
      PROVE  LET e == sockets'[i].ends IN
             /\ e.receive \in Slots /\ e.transmit \in Slots /\ e.hears # 0 /\ e.says # 0
             /\ carries'[e.receive] = e.hears /\ carries'[e.transmit] = e.says
             /\ streams'[e.hears].reads = 0
             /\ streams'[e.says].reads = sockets'[i].edge
             /\ streams'[e.says].writes = 0
  <2>1. i \in JoinedIn(sockets)
    BY DEF PlacesStay
  <2> DEFINE e == sockets[i].ends
  <2>2. /\ e.receive \in Slots /\ e.transmit \in Slots /\ e.hears # 0 /\ e.says # 0
        /\ carries[e.receive] = e.hears /\ carries[e.transmit] = e.says
        /\ streams[e.hears].reads = 0
        /\ streams[e.says].reads = sockets[i].edge
        /\ streams[e.says].writes = 0
    BY <2>1 DEF CarriedAre
  <2>3. e.hears \in 1..Len(streams) /\ e.says \in 1..Len(streams)
    <3>1. carries[e.receive] \in 0..Len(streams) /\ carries[e.transmit] \in 0..Len(streams)
      BY <2>2 DEF CarriedAre
    <3> QED BY <2>2, <3>1
  <2>4. /\ streams'[e.hears].reads = 0 /\ streams'[e.says].reads = sockets[i].edge
        /\ streams'[e.says].writes = 0
    BY <2>2, <2>3 DEF StreamsStay
  <2> QED BY <2>1, <2>2, <2>4 DEF PlacesStay
<1>3. ASSUME NEW i \in JoinedIn(sockets'), NEW j \in JoinedIn(sockets')
      PROVE  /\ sockets'[j].ends.hears = sockets'[i].ends.hears => i = j
             /\ sockets'[j].ends.says = sockets'[i].ends.says => i = j
             /\ sockets'[i].edge # 0 => sockets'[j].ends.says # sockets'[i].ends.hears
             /\ sockets'[i].edge # 0 => sockets'[j].ends.hears # sockets'[i].ends.says
  BY DEF PlacesStay, CarriedAre
<1> QED BY <1>1, <1>2, <1>3 DEF CarriedAre

\* The connections of the host that sockets have are those they had.
EdgesStay ==
  \A i \in LiveIn(sockets') : sockets'[i].edge # 0 =>
    /\ i \in LiveIn(sockets) /\ sockets'[i].state = "Connected"
    /\ sockets'[i].edge = sockets[i].edge
    /\ sockets'[i].ends.hears = sockets[i].ends.hears
    /\ sockets[i].ends.writeShut => sockets'[i].ends.writeShut

\* A connection of the host changes only for the socket that has it.
HostStays ==
  /\ Len(net'.connections) = Len(net.connections)
  /\ \A c \in 1..Len(net.connections) :
       \/ net'.connections[c] = net.connections[c]
       \/ \E i \in LiveIn(sockets') :
            /\ sockets'[i].edge = c
            /\ net'.connections[c].reading = net.connections[c].reading
            /\ net'.connections[c].present = net.connections[c].present
            /\ net'.connections[c].shut = net.connections[c].shut \/ sockets'[i].ends.writeShut

\* At most the first of what waits was handled.
PendingStays == Pending' = Pending \/ (Pending # <<>> /\ Pending' = Tail(Pending))

\* The streams there were keep the host's part, but for the end of its writing.
StreamsGrow ==
  /\ Len(streams) <= Len(streams')
  /\ \A a \in 1..Len(streams') : a > Len(streams) => streams'[a].reads = 0
  /\ \A a \in 1..Len(streams) :
       /\ streams'[a].reads = streams[a].reads
       /\ \/ streams'[a].writes = streams[a].writes
          \/ \A i \in LiveIn(sockets) : sockets[i].edge # 0 /\ sockets[i].ends.hears = a =>
               /\ ~net'.connections[sockets[i].edge].reading
               /\ \A b \in DOMAIN Pending' :
                    ~(Pending'[b].kind = "eof" /\ Pending'[b].conn = sockets[i].edge)

\* What may have been taken off the front of the events.
Fewer ==
  /\ \A a \in DOMAIN Pending' : \E b \in DOMAIN Pending : Pending'[a] = Pending[b]
  /\ \A a, b \in DOMAIN Pending' : \A c \in DOMAIN Pending :
       Pending'[a] = Pending[c] /\ Pending'[b] = Pending[c] /\ Pending[c].kind # "data"
         => a = b

\* Events taken off the front are events there were.
LEMMA PendingFewer ==
  ASSUME Pending \in Seq(Events), PendingStays,
         EventsAre(sockets, streams, Pending, net.connections)
  PROVE  Fewer
<1>1. PICK q : q = Pending
  OBVIOUS
<1>2. PICK z : z = Pending'
  OBVIOUS
<1>3. q \in Seq(Events) /\ DOMAIN q = 1..Len(q) /\ Len(q) \in Nat
  BY <1>1
<1>4. \A a, b \in DOMAIN q : q[a].kind = q[b].kind /\ q[a].kind # "data"
        /\ q[a].conn = q[b].conn => a = b
  BY <1>1 DEF EventsAre
<1>5. CASE z = q
  BY <1>1, <1>2, <1>4, <1>5 DEF Fewer
<1>6. CASE q # <<>> /\ z = Tail(q)
  <2>1. /\ DOMAIN z = 1..(Len(q) - 1) /\ Len(q) >= 1
        /\ \A a \in 1..(Len(q) - 1) : z[a] = q[a + 1]
    BY <1>3, <1>6, TailIs
  <2>2. \A a \in DOMAIN z : a \in Nat /\ a + 1 \in DOMAIN q /\ z[a] = q[a + 1]
    BY <1>3, <2>1
  <2>3. \A a \in DOMAIN z : \E b \in DOMAIN q : z[a] = q[b]
    BY <2>2
  <2>4. ASSUME NEW a \in DOMAIN z, NEW b \in DOMAIN z, NEW c \in DOMAIN q,
               z[a] = q[c], z[b] = q[c], q[c].kind # "data"
        PROVE  a = b
    <3>1. q[a + 1] = q[b + 1] /\ q[a + 1].kind # "data"
      BY <2>2, <2>4
    <3>2. a + 1 = b + 1
      BY <3>1, <2>2, <1>4
    <3> QED BY <3>2, <2>2
  <2> QED BY <1>1, <1>2, <2>3, <2>4 DEF Fewer
<1> QED BY <1>1, <1>2, <1>5, <1>6 DEF PendingStays

\* What the host's socket hears is one of the streams.
LEMMA HeardIs ==
  ASSUME CarriedAre(sockets, carries, streams), Len(streams) \in Nat,
         EventsAre(sockets, streams, Pending, net.connections),
         NEW i \in LiveIn(sockets), sockets[i].edge # 0
  PROVE  i \in JoinedIn(sockets) /\ sockets[i].ends.hears \in 1..Len(streams)
<1>1. i \in JoinedIn(sockets)
  BY DEF EventsAre, JoinedIn, LiveIn
<1>2. /\ sockets[i].ends.receive \in Slots /\ sockets[i].ends.hears # 0
      /\ carries[sockets[i].ends.receive] = sockets[i].ends.hears
  BY <1>1 DEF CarriedAre
<1>3. carries[sockets[i].ends.receive] \in 0..Len(streams)
  BY <1>2 DEF CarriedAre
<1> QED BY <1>1, <1>2, <1>3

\* The host's events and the sockets they are for, where connections only end.
LEMMA EventsStay ==
  ASSUME Pending \in Seq(Events), CarriedAre(sockets, carries, streams),
         EventsAre(sockets, streams, Pending, net.connections),
         StreamsAre(streams), StreamsAre(streams'), Len(net.connections) \in Nat,
         EdgesStay, HostStays, PendingStays, StreamsGrow
  PROVE  EventsAre(sockets', streams', Pending', net'.connections)
<1>p. Fewer
  BY PendingFewer
<1>s. /\ Len(streams) \in Nat /\ DOMAIN streams = 1..Len(streams)
      /\ Len(streams') \in Nat /\ DOMAIN streams' = 1..Len(streams')
      /\ Len(streams) <= Len(streams')
  BY DEF StreamsAre, StreamsGrow
<1>c. \A c \in 1..Len(net.connections) :
        /\ net'.connections[c].reading = net.connections[c].reading
        /\ net'.connections[c].present = net.connections[c].present
  BY DEF HostStays
<1>1. Len(net'.connections) = Len(net.connections)
  BY DEF HostStays
<1>2. \A a \in DOMAIN Pending' : Pending'[a].conn \in 1..Len(net'.connections)
  BY <1>p, <1>1 DEF Fewer, EventsAre
<1>3. \A a \in DOMAIN Pending' : Pending'[a].kind = "eof"
        => ~net'.connections[Pending'[a].conn].reading
  BY <1>p, <1>c DEF Fewer, EventsAre
<1>4. ASSUME NEW a \in DOMAIN Pending', NEW b \in DOMAIN Pending',
             Pending'[a].kind = Pending'[b].kind, Pending'[a].kind # "data",
             Pending'[a].conn = Pending'[b].conn
      PROVE  a = b
  <2>1. PICK x \in DOMAIN Pending : Pending'[a] = Pending[x]
    BY <1>p DEF Fewer
  <2>2. PICK y \in DOMAIN Pending : Pending'[b] = Pending[y]
    BY <1>p DEF Fewer
  <2>3. x = y
    BY <2>1, <2>2, <1>4 DEF EventsAre
  <2> QED BY <2>1, <2>2, <2>3, <1>4, <1>p DEF Fewer
<1>5. ASSUME NEW i \in LiveIn(sockets'), sockets'[i].edge # 0
      PROVE  /\ i \in LiveIn(sockets) /\ sockets[i].edge # 0
             /\ sockets'[i].edge = sockets[i].edge
             /\ sockets'[i].edge \in 1..Len(net.connections)
             /\ sockets'[i].state = "Connected"
             /\ net.connections[sockets[i].edge].present
             /\ net.connections[sockets[i].edge].shut => sockets'[i].ends.writeShut
             /\ sockets'[i].ends.hears = sockets[i].ends.hears
  <2>1. /\ i \in LiveIn(sockets) /\ sockets'[i].edge = sockets[i].edge
        /\ sockets'[i].state = "Connected"
        /\ sockets'[i].ends.hears = sockets[i].ends.hears
        /\ sockets[i].ends.writeShut => sockets'[i].ends.writeShut
    BY <1>5 DEF EdgesStay
  <2>2. /\ sockets[i].edge \in 0..Len(net.connections)
        /\ net.connections[sockets[i].edge].present
        /\ net.connections[sockets[i].edge].shut => sockets[i].ends.writeShut
    BY <2>1, <1>5 DEF EventsAre
  <2> QED BY <2>1, <2>2, <1>5
<1>6. /\ \A i \in LiveIn(sockets') : sockets'[i].edge # 0 => sockets'[i].state = "Connected"
      /\ \A i \in LiveIn(sockets') : sockets'[i].edge \in 0..Len(net'.connections)
      /\ \A i \in LiveIn(sockets') : sockets'[i].edge # 0
            => net'.connections[sockets'[i].edge].present
  <2>1. ASSUME NEW i \in LiveIn(sockets'), sockets'[i].edge # 0
        PROVE  /\ sockets'[i].state = "Connected"
               /\ sockets'[i].edge \in 0..Len(net'.connections)
               /\ net'.connections[sockets'[i].edge].present
    <3>1. /\ sockets'[i].state = "Connected" /\ sockets'[i].edge = sockets[i].edge
          /\ sockets'[i].edge \in 1..Len(net.connections)
          /\ net.connections[sockets[i].edge].present
      BY <2>1, <1>5
    <3>2. net'.connections[sockets'[i].edge].present
      BY <3>1, <1>c
    <3> QED BY <3>1, <3>2, <1>1
  <2>2. \A i \in LiveIn(sockets') : sockets'[i].edge = 0
          => sockets'[i].edge \in 0..Len(net'.connections)
    BY <1>1
  <2> QED BY <2>1, <2>2
<1>7. ASSUME NEW i \in LiveIn(sockets'), NEW j \in LiveIn(sockets'),
             sockets'[i].edge = sockets'[j].edge, sockets'[i].edge # 0
      PROVE  i = j
  <2>1. /\ i \in LiveIn(sockets) /\ sockets'[i].edge = sockets[i].edge
        /\ j \in LiveIn(sockets) /\ sockets'[j].edge = sockets[j].edge
    BY <1>5, <1>7
  <2> QED BY <2>1, <1>7 DEF EventsAre
<1>8. ASSUME NEW i \in LiveIn(sockets'), sockets'[i].edge # 0,
             \/ net'.connections[sockets'[i].edge].reading
             \/ \E a \in DOMAIN Pending' :
                  Pending'[a].kind = "eof" /\ Pending'[a].conn = sockets'[i].edge
      PROVE  streams'[sockets'[i].ends.hears].writes # 0
  <2>1. /\ i \in LiveIn(sockets) /\ sockets[i].edge # 0
        /\ sockets'[i].edge = sockets[i].edge
        /\ sockets'[i].edge \in 1..Len(net.connections)
        /\ sockets'[i].ends.hears = sockets[i].ends.hears
    BY <1>5, <1>8
  <2>2. PICK h : h = sockets[i].ends.hears
    OBVIOUS
  <2>3. h \in 1..Len(streams)
    BY <2>1, <2>2, <1>s, HeardIs
  <2>4. streams'[h].writes = streams[h].writes
    BY <2>1, <2>2, <2>3, <1>8 DEF StreamsGrow
  <2>5. \/ net.connections[sockets[i].edge].reading
        \/ \E a \in DOMAIN Pending :
                  Pending[a].kind = "eof" /\ Pending[a].conn = sockets[i].edge
    <3>1. CASE net'.connections[sockets'[i].edge].reading
      BY <3>1, <2>1, <1>c
    <3>2. CASE \E a \in DOMAIN Pending' :
                  Pending'[a].kind = "eof" /\ Pending'[a].conn = sockets'[i].edge
      BY <3>2, <2>1, <1>p DEF Fewer
    <3> QED BY <3>1, <3>2, <1>8
  <2>6. streams[h].writes # 0
    BY <2>1, <2>2, <2>5 DEF EventsAre
  <2> QED BY <2>1, <2>2, <2>4, <2>6
<1>9. ASSUME NEW i \in LiveIn(sockets'), sockets'[i].edge # 0,
             net'.connections[sockets'[i].edge].shut
      PROVE  sockets'[i].ends.writeShut
  <2>1. /\ sockets'[i].edge = sockets[i].edge
        /\ sockets'[i].edge \in 1..Len(net.connections)
        /\ net.connections[sockets[i].edge].shut => sockets'[i].ends.writeShut
    BY <1>5, <1>9
  <2>2. PICK c : c = sockets'[i].edge
    OBVIOUS
  <2>3. CASE net'.connections[c] = net.connections[c]
    BY <2>1, <2>2, <2>3, <1>9
  <2>4. CASE \E j \in LiveIn(sockets') :
            /\ sockets'[j].edge = c
            /\ net'.connections[c].shut = net.connections[c].shut \/ sockets'[j].ends.writeShut
    <3>1. PICK j \in LiveIn(sockets') :
            /\ sockets'[j].edge = c
            /\ net'.connections[c].shut = net.connections[c].shut \/ sockets'[j].ends.writeShut
      BY <2>4
    <3>2. i = j
      BY <3>1, <2>2, <1>7, <1>9
    <3> QED BY <3>1, <3>2, <2>1, <2>2, <1>9
  <2> QED BY <2>1, <2>2, <2>3, <2>4 DEF HostStays
<1>10. ASSUME NEW a \in 1..Len(streams'), streams'[a].reads # 0
       PROVE  a \in 1..Len(streams) /\ streams'[a].reads = streams[a].reads
  <2>1. a <= Len(streams)
    BY <1>10, <1>s DEF StreamsGrow
  <2> QED BY <2>1, <1>s DEF StreamsGrow
<1>11. \A a \in DOMAIN streams' : streams'[a].reads \in 0..Len(net'.connections)
  BY <1>10, <1>s, <1>1 DEF EventsAre
<1>12. ASSUME NEW a \in DOMAIN streams', NEW b \in DOMAIN streams',
              streams'[a].reads = streams'[b].reads, streams'[a].reads # 0
       PROVE  a = b
  <2>1. /\ a \in 1..Len(streams) /\ streams'[a].reads = streams[a].reads
        /\ b \in 1..Len(streams) /\ streams'[b].reads = streams[b].reads
    BY <1>10, <1>12, <1>s
  <2> QED BY <2>1, <1>12, <1>s DEF EventsAre
<1>13. ASSUME NEW a \in DOMAIN Pending', Pending'[a].kind = "open"
       PROVE  LET c == Pending'[a].conn IN
              /\ \A i \in LiveIn(sockets') : sockets'[i].edge # c
              /\ \A b \in DOMAIN streams' : streams'[b].reads # c
              /\ net'.connections[c].present /\ ~net'.connections[c].shut
              /\ net'.connections[c].incoming = Numbers(0, net'.connections[c].sent)
  <2>1. PICK b \in DOMAIN Pending : Pending'[a] = Pending[b]
    BY <1>p DEF Fewer
  <2>2. PICK c : c = Pending'[a].conn
    OBVIOUS
  <2>3. /\ c \in 1..Len(net.connections)
        /\ \A i \in LiveIn(sockets) : sockets[i].edge # c
        /\ \A d \in DOMAIN streams : streams[d].reads # c
        /\ net.connections[c].present /\ ~net.connections[c].shut
        /\ net.connections[c].incoming = Numbers(0, net.connections[c].sent)
    BY <2>1, <2>2, <1>13 DEF EventsAre
  <2>4. \A i \in LiveIn(sockets') : sockets'[i].edge # c
    <3> SUFFICES ASSUME NEW i \in LiveIn(sockets'), sockets'[i].edge = c PROVE FALSE
      OBVIOUS
    <3>1. c # 0
      BY <2>3
    <3>2. i \in LiveIn(sockets) /\ sockets[i].edge = c
      BY <3>1, <1>5
    <3> QED BY <3>2, <2>3
  <2>5. \A d \in DOMAIN streams' : streams'[d].reads # c
    <3> SUFFICES ASSUME NEW d \in DOMAIN streams', streams'[d].reads = c PROVE FALSE
      OBVIOUS
    <3>1. c # 0
      BY <2>3
    <3>2. d \in 1..Len(streams) /\ streams[d].reads = c
      BY <3>1, <1>10, <1>s
    <3> QED BY <3>2, <2>3, <1>s
  <2>6. net'.connections[c] = net.connections[c]
    BY <2>3, <2>4 DEF HostStays
  <2> QED BY <2>2, <2>3, <2>4, <2>5, <2>6
<1> QED BY <1>2, <1>3, <1>4, <1>6, <1>7, <1>8, <1>9, <1>11, <1>12, <1>13 DEF EventsAre

---------------------------------------------------------------------------
(* Two new rings: socket a hears the second of two new streams and says    *)
(* the first, and those of `others` the other way round.                   *)

WiredTo(a, others, conn) ==
  /\ a \in Ids /\ a \notin others
  /\ \/ others = {} /\ conn \in Nat \ {0}
     \/ conn = 0 /\ \E b \in Ids : others = {b}
  /\ JoinedIn(sockets') = JoinedIn(sockets) \cup {a} \cup others
  /\ a \notin JoinedIn(sockets) /\ others \cap JoinedIn(sockets) = {}
  /\ \A j \in JoinedIn(sockets) :
       sockets'[j].ends = sockets[j].ends /\ sockets'[j].edge = sockets[j].edge
  /\ sockets'[a].edge = conn
  /\ sockets'[a].ends.receive = Down /\ sockets'[a].ends.transmit = Up
  /\ sockets'[a].ends.hears = DownStream /\ sockets'[a].ends.says = UpStream
  /\ ~sockets'[a].ends.readShut /\ ~sockets'[a].ends.writeShut
  /\ \A b \in others :
       /\ sockets'[b].edge = 0
       /\ sockets'[b].ends.receive = Up /\ sockets'[b].ends.transmit = Down
       /\ sockets'[b].ends.hears = UpStream /\ sockets'[b].ends.says = DownStream
       /\ ~sockets'[b].ends.readShut /\ ~sockets'[b].ends.writeShut

\* What TwoRings and TwoStreams leave.
Laid(n, conn) ==
  /\ Up \in Slots /\ Down \in Slots /\ Up # Down
  /\ rings[Up] = FreeRing /\ rings[Down] = FreeRing
  /\ RingsAre(rings')
  /\ \A s \in Slots : s # Up /\ s # Down => rings'[s] = rings[s]
  /\ rings'[Up].readers = 1 /\ rings'[Up].writers = 1 /\ rings'[Up].attached = n
  /\ rings'[Down].readers = 1 /\ rings'[Down].writers = 1 /\ rings'[Down].attached = n
  /\ rings'[Up].bytes = <<>> /\ rings'[Down].bytes = <<>>
  /\ StreamsAre(streams') /\ Len(streams') = Len(streams) + 2
  /\ \A b \in 1..Len(streams) : streams'[b] = streams[b]
  /\ streams'[UpStream] = Stream(conn, 0) /\ streams'[DownStream] = Stream(0, conn)
  /\ carries' \in [Slots -> Nat]
  /\ carries'[Up] = UpStream /\ carries'[Down] = DownStream
  /\ \A s \in Slots : s # Up /\ s # Down => carries'[s] = carries[s]

\* What a sequence is with two more at its end.
LEMMA AppendTwo ==
  ASSUME NEW T, NEW q \in Seq(T), NEW x \in T, NEW y \in T, NEW z, z = q \o <<x, y>>
  PROVE  /\ z \in Seq(T) /\ Len(z) = Len(q) + 2
         /\ \A b \in 1..Len(q) : z[b] = q[b]
         /\ z[Len(q) + 1] = x /\ z[Len(q) + 2] = y
<1>1. <<x, y>> \in Seq(T) /\ Len(<<x, y>>) = 2 /\ <<x, y>>[1] = x /\ <<x, y>>[2] = y
  OBVIOUS
<1>2. PICK w : w = <<x, y>>
  OBVIOUS
<1>3. w \in Seq(T) /\ Len(w) = 2 /\ w[1] = x /\ w[2] = y /\ z = q \o w
  BY <1>1, <1>2
<1>4. Len(q) \in Nat
  OBVIOUS
<1>5. z \in Seq(T) /\ Len(z) = Len(q) + 2
  BY <1>3
<1>6. \A b \in 1..Len(q) : z[b] = q[b]
  BY <1>3
<1>7. z[Len(q) + 1] = w[1] /\ z[Len(q) + 2] = w[2]
  BY <1>3, <1>4
<1> QED BY <1>3, <1>5, <1>6, <1>7

\* The two rings a connection takes are free and not the same.
LEMMA UpDown ==
  ASSUME CanConnect
  PROVE  /\ Up \in Slots /\ Down \in Slots /\ Up # Down
         /\ rings[Up] = FreeRing /\ rings[Down] = FreeRing
<1>1. FreeSlots \subseteq Nat
  BY SocketsAssumption DEF FreeSlots
<1>2. FreeSlots # {}
  <2> SUFFICES ASSUME FreeSlots = {} PROVE FALSE
    OBVIOUS
  <2>1. Cardinality(FreeSlots) = 0
    BY FS_EmptySet
  <2> QED BY <2>1 DEF CanConnect
<1>3. Up \in FreeSlots
  BY <1>1, <1>2, LeastExists DEF Up
<1>4. FreeSlots \ {Up} # {}
  <2> SUFFICES ASSUME FreeSlots \ {Up} = {} PROVE FALSE
    OBVIOUS
  <2>1. FreeSlots = {Up}
    BY <1>3
  <2>2. Cardinality({Up}) = 1
    BY FS_Singleton
  <2>3. Cardinality(FreeSlots) = 1
    BY <2>1, <2>2
  <2> QED BY <2>3 DEF CanConnect
<1>5. Down \in FreeSlots \ {Up}
  <2>1. FreeSlots \ {Up} \subseteq Nat
    BY <1>1
  <2> QED BY <1>4, <2>1, LeastExists DEF Down
<1> QED BY <1>3, <1>5 DEF FreeSlots

\* Two rings and two streams are laid.
LEMMA LaidIs ==
  ASSUME Core, CanConnect, NEW n \in Nat, NEW conn \in Nat,
         TwoRings(n), TwoStreams(conn, conn)
  PROVE  Laid(n, conn)
<1>1. RingsAre(rings) /\ StreamsAre(streams) /\ carries \in [Slots -> Nat]
  BY DEF Core, TypesAre
<1>2. /\ Up \in Slots /\ Down \in Slots /\ Up # Down
      /\ rings[Up] = FreeRing /\ rings[Down] = FreeRing
  BY UpDown
<1>3. PICK u, d : u = Up /\ d = Down
  OBVIOUS
<1>4. PICK x : x = [NewRing EXCEPT !.attached = n]
  OBVIOUS
<1>5. /\ x.readers = 1 /\ x.writers = 1 /\ x.attached = n /\ x.bytes = <<>>
      /\ x \in RingRecords
  <2>1. <<>> \in Seq(Nat)
    OBVIOUS
  <2>2. x = [bytes |-> <<>>, readers |-> 1, writers |-> 1, attached |-> n]
    BY <1>4 DEF NewRing
  <2> QED BY <2>1, <2>2 DEF RingRecords
<1>6. rings' = [rings EXCEPT ![u] = x, ![d] = x]
  BY <1>3, <1>4 DEF TwoRings
<1>7. /\ RingsAre(rings') /\ rings'[u] = x /\ rings'[d] = x
      /\ \A s \in Slots : s # u /\ s # d => rings'[s] = rings[s]
  BY <1>1, <1>2, <1>3, <1>5, <1>6 DEF RingsAre
<1>8. PICK e, h : e = Stream(conn, 0) /\ h = Stream(0, conn)
  OBVIOUS
<1>9. e \in Streams /\ h \in Streams
  BY <1>8 DEF Stream, Streams
<1>10. streams' = streams \o <<e, h>>
  BY <1>8 DEF TwoStreams
<1>11. /\ streams' \in Seq(Streams) /\ Len(streams') = Len(streams) + 2
       /\ \A b \in 1..Len(streams) : streams'[b] = streams[b]
       /\ streams'[Len(streams) + 1] = e /\ streams'[Len(streams) + 2] = h
  BY <1>1, <1>9, <1>10, AppendTwo DEF StreamsAre
<1>12. PICK l1, l2 : l1 = UpStream /\ l2 = DownStream
  OBVIOUS
<1>13. l1 \in Nat /\ l2 \in Nat
  BY <1>1, <1>12 DEF StreamsAre, UpStream, DownStream
<1>14. carries' = [carries EXCEPT ![u] = l1, ![d] = l2]
  BY <1>3, <1>12 DEF TwoStreams
<1>15. /\ carries' \in [Slots -> Nat] /\ carries'[u] = l1 /\ carries'[d] = l2
       /\ \A s \in Slots : s # u /\ s # d => carries'[s] = carries[s]
  BY <1>1, <1>2, <1>3, <1>13, <1>14
<1> QED BY <1>2, <1>3, <1>5, <1>7, <1>8, <1>11, <1>12, <1>15
        DEF Laid, StreamsAre, UpStream, DownStream

\* Who uses the new rings, and who the others.
WiredEnds(a, others) ==
  /\ Hearing(sockets', Up) = others /\ Saying(sockets', Up) = {a}
  /\ Hearing(sockets', Down) = {a} /\ Saying(sockets', Down) = others
  /\ {i \in JoinedIn(sockets') : sockets'[i].ends.receive = Up} = others
  /\ {i \in JoinedIn(sockets') : sockets'[i].ends.transmit = Up} = {a}
  /\ {i \in JoinedIn(sockets') : sockets'[i].ends.receive = Down} = {a}
  /\ {i \in JoinedIn(sockets') : sockets'[i].ends.transmit = Down} = others
  /\ \A s \in Slots : s # Up /\ s # Down =>
       /\ Hearing(sockets', s) = Hearing(sockets, s) /\ Saying(sockets', s) = Saying(sockets, s)
       /\ {i \in JoinedIn(sockets') : sockets'[i].ends.receive = s}
            = {i \in JoinedIn(sockets) : sockets[i].ends.receive = s}
       /\ {i \in JoinedIn(sockets') : sockets'[i].ends.transmit = s}
            = {i \in JoinedIn(sockets) : sockets[i].ends.transmit = s}

\* The ends of the new rings are the new sockets'.
LEMMA WiredEndsAre ==
  ASSUME Core, NEW a, NEW others, NEW conn, NEW n, WiredTo(a, others, conn), Laid(n, conn)
  PROVE  WiredEnds(a, others)
<1>1. PICK u, d : u = Up /\ d = Down
  OBVIOUS
<1>2. PICK k, l : k = sockets /\ l = sockets'
  OBVIOUS
<1>3. AttachedAre(k, rings)
  BY <1>2 DEF Core, Agree
<1>4. /\ u \in Slots /\ d \in Slots /\ u # d /\ rings[u] = FreeRing /\ rings[d] = FreeRing
  BY <1>1 DEF Laid
<1>5. \A i \in JoinedIn(k) : /\ k[i].ends.receive # u /\ k[i].ends.transmit # u
                             /\ k[i].ends.receive # d /\ k[i].ends.transmit # d
  BY <1>3, <1>4, FreeIsUnnamed
<1>6. /\ JoinedIn(l) = JoinedIn(k) \cup {a} \cup others
      /\ \A j \in JoinedIn(k) : l[j].ends = k[j].ends
      /\ l[a].ends.receive = d /\ l[a].ends.transmit = u
      /\ ~l[a].ends.readShut /\ ~l[a].ends.writeShut
      /\ a \notin others
      /\ \A b \in others : /\ l[b].ends.receive = u /\ l[b].ends.transmit = d
                           /\ ~l[b].ends.readShut /\ ~l[b].ends.writeShut
  BY <1>1, <1>2 DEF WiredTo
<1>7. /\ Hearing(l, u) = others /\ Saying(l, u) = {a}
      /\ Hearing(l, d) = {a} /\ Saying(l, d) = others
  BY <1>4, <1>5, <1>6 DEF Hearing, Saying
<1>8. /\ {i \in JoinedIn(l) : l[i].ends.receive = u} = others
      /\ {i \in JoinedIn(l) : l[i].ends.transmit = u} = {a}
      /\ {i \in JoinedIn(l) : l[i].ends.receive = d} = {a}
      /\ {i \in JoinedIn(l) : l[i].ends.transmit = d} = others
  BY <1>4, <1>5, <1>6
<1>9. ASSUME NEW s \in Slots, s # u, s # d
      PROVE  /\ Hearing(l, s) = Hearing(k, s) /\ Saying(l, s) = Saying(k, s)
             /\ {i \in JoinedIn(l) : l[i].ends.receive = s}
                  = {i \in JoinedIn(k) : k[i].ends.receive = s}
             /\ {i \in JoinedIn(l) : l[i].ends.transmit = s}
                  = {i \in JoinedIn(k) : k[i].ends.transmit = s}
  BY <1>6, <1>9 DEF Hearing, Saying
<1> QED BY <1>1, <1>2, <1>7, <1>8, <1>9 DEF WiredEnds

\* Ring::attached, with two new rings.
LEMMA WiredAttached ==
  ASSUME Core, NEW a, NEW others, NEW conn, NEW n, WiredTo(a, others, conn), Laid(n, conn),
         n = IF others = {} THEN 1 ELSE 2
  PROVE  AttachedAre(sockets', rings')
<1> SUFFICES ASSUME NEW s \in Slots PROVE rings'[s].attached = NamingIn(sockets', s)
  BY DEF AttachedAre
<1>1. WiredEnds(a, others)
  BY WiredEndsAre
<1>2. Cardinality({a}) = 1 /\ Cardinality(others) + 1 = n /\ 1 + Cardinality(others) = n
  <2>0. Cardinality({a}) = 1
    BY FS_Singleton
  <2>1. CASE others = {}
    <3>1. Cardinality(others) = 0
      BY <2>1, FS_EmptySet
    <3> QED BY <2>0, <2>1, <3>1
  <2>2. CASE \E b \in Ids : others = {b}
    <3>1. PICK b \in Ids : others = {b}
      BY <2>2
    <3>2. Cardinality(others) = 1
      BY <3>1, FS_Singleton
    <3> QED BY <2>0, <3>1, <3>2
  <2> QED BY <2>1, <2>2 DEF WiredTo
<1>3. CASE s = Up
  <2>1. NamingIn(sockets', s) = Cardinality(others) + Cardinality({a})
    BY <1>1, <1>3 DEF NamingIn, WiredEnds
  <2> QED BY <1>2, <1>3, <2>1 DEF Laid
<1>4. CASE s = Down
  <2>1. NamingIn(sockets', s) = Cardinality({a}) + Cardinality(others)
    BY <1>1, <1>4 DEF NamingIn, WiredEnds
  <2> QED BY <1>2, <1>4, <2>1 DEF Laid
<1>5. CASE s # Up /\ s # Down
  <2>1. NamingIn(sockets', s) = NamingIn(sockets, s)
    BY <1>1, <1>5 DEF NamingIn, WiredEnds
  <2>2. AttachedAre(sockets, rings)
    BY DEF Core, Agree
  <2> QED BY <1>5, <2>1, <2>2 DEF Laid, AttachedAre
<1> QED BY <1>3, <1>4, <1>5

\* Each new socket has one holder, or its streams are given up for lost.
OneHolder(a, others) ==
  UpStream \notin skewed' \/ DownStream \notin skewed' =>
    /\ Count(files', sockets', {a}) = 1
    /\ others # {} => Count(files', sockets', others) = 1

\* The ends of the rings, with two new ones.
LEMMA WiredCounts ==
  ASSUME Core, NEW a, NEW others, NEW conn \in Nat, NEW n, WiredTo(a, others, conn),
         Laid(n, conn), OneHolder(a, others), HoldersStay, skewed \subseteq skewed'
  PROVE  CountsAre(files', sockets', rings', streams', carries', skewed')
<1> SUFFICES ASSUME NEW s \in Slots, carries'[s] \notin skewed' \cup {0}
             PROVE  /\ rings'[s].readers = Count(files', sockets', Hearing(sockets', s))
                                             + One(streams'[carries'[s]].reads # 0)
                    /\ rings'[s].writers = Count(files', sockets', Saying(sockets', s))
                                             + One(streams'[carries'[s]].writes # 0)
  BY DEF CountsAre
<1>1. WiredEnds(a, others)
  BY WiredEndsAre
<1>2. ASSUME s = Up \/ s = Down
      PROVE  /\ Count(files', sockets', {a}) = 1
             /\ Count(files', sockets', others) + One(conn # 0) = 1
             /\ One(0 # 0) = 0
  <2>1. UpStream \notin skewed' \/ DownStream \notin skewed'
    BY <1>2 DEF Laid
  <2>2. /\ Count(files', sockets', {a}) = 1
        /\ others # {} => Count(files', sockets', others) = 1
    BY <2>1 DEF OneHolder
  <2>3. CASE others = {}
    <3>1. On(files', {}) = {} /\ {} \cap WaitingIn(sockets') = {}
      BY DEF On
    <3>2. Count(files', sockets', others) = 0
      BY <2>3, <3>1, FS_EmptySet DEF Count
    <3>3. conn # 0
      BY <2>3 DEF WiredTo
    <3> QED BY <2>2, <3>2, <3>3 DEF One
  <2>4. CASE others # {}
    <3>1. conn = 0
      BY <2>4 DEF WiredTo
    <3> QED BY <2>2, <2>4, <3>1 DEF One
  <2> QED BY <2>3, <2>4
<1>3. CASE s = Up
  <2>1. streams'[carries'[s]].reads = conn /\ streams'[carries'[s]].writes = 0
    BY <1>3 DEF Laid, Stream
  <2>2. rings'[s].readers = 1 /\ rings'[s].writers = 1
    BY <1>3 DEF Laid
  <2>3. Hearing(sockets', s) = others /\ Saying(sockets', s) = {a}
    BY <1>1, <1>3 DEF WiredEnds
  <2> QED BY <1>2, <1>3, <2>1, <2>2, <2>3
<1>4. CASE s = Down
  <2>1. streams'[carries'[s]].writes = conn /\ streams'[carries'[s]].reads = 0
    BY <1>4 DEF Laid, Stream
  <2>2. rings'[s].readers = 1 /\ rings'[s].writers = 1
    BY <1>4 DEF Laid
  <2>3. Hearing(sockets', s) = {a} /\ Saying(sockets', s) = others
    BY <1>1, <1>4 DEF WiredEnds
  <2> QED BY <1>2, <1>4, <2>1, <2>2, <2>3
<1>5. CASE s # Up /\ s # Down
  <2>1. /\ Hearing(sockets', s) = Hearing(sockets, s) /\ Saying(sockets', s) = Saying(sockets, s)
    BY <1>1, <1>5 DEF WiredEnds
  <2>2. carries'[s] = carries[s] /\ rings'[s] = rings[s]
    BY <1>5 DEF Laid
  <2>3. /\ Count(files', sockets', Hearing(sockets, s)) = Count(files, sockets, Hearing(sockets, s))
        /\ Count(files', sockets', Saying(sockets, s)) = Count(files, sockets, Saying(sockets, s))
    BY <2>2 DEF HoldersStay, HoldersSame
  <2>4. carries[s] \in 1..Len(streams)
    <3>1. carries[s] \in 0..Len(streams) /\ carries[s] # 0
      BY <2>2 DEF CarriedAre, Core, Agree
    <3>2. Len(streams) \in Nat
      BY DEF Core, TypesAre, StreamsAre
    <3> QED BY <3>1, <3>2
  <2>5. streams'[carries[s]] = streams[carries[s]]
    BY <2>4 DEF Laid
  <2>6. /\ rings[s].readers = Count(files, sockets, Hearing(sockets, s))
                                + One(streams[carries[s]].reads # 0)
        /\ rings[s].writers = Count(files, sockets, Saying(sockets, s))
                                + One(streams[carries[s]].writes # 0)
    BY <2>2 DEF CountsAre, Core, Agree
  <2> QED BY <2>1, <2>2, <2>3, <2>5, <2>6
<1> QED BY <1>3, <1>4, <1>5

\* Of a new socket, and of one there was.
EndFits(i, car, str, k) ==
  LET e == k[i].ends IN
  /\ e.receive \in Slots /\ e.transmit \in Slots /\ e.hears # 0 /\ e.says # 0
  /\ car[e.receive] = e.hears /\ car[e.transmit] = e.says
  /\ str[e.hears].reads = 0
  /\ str[e.says].reads = k[i].edge
  /\ str[e.says].writes = 0

\* The new sockets fit their rings, and the others still do.
LEMMA WiredFits ==
  ASSUME Core, NEW a, NEW others, NEW conn \in Nat, NEW n, WiredTo(a, others, conn),
         Laid(n, conn)
  PROVE  /\ EndFits(a, carries', streams', sockets')
         /\ \A b \in others : EndFits(b, carries', streams', sockets')
         /\ \A i \in JoinedIn(sockets) :
              /\ EndFits(i, carries', streams', sockets')
              /\ sockets[i].ends.hears \in 1..Len(streams)
              /\ sockets[i].ends.says \in 1..Len(streams)
<1>0. Len(streams) \in Nat /\ UpStream # 0 /\ DownStream # 0
  BY DEF Core, TypesAre, StreamsAre, UpStream, DownStream
<1>1. /\ Stream(conn, 0).reads = conn /\ Stream(conn, 0).writes = 0
      /\ Stream(0, conn).reads = 0 /\ Stream(0, conn).writes = conn
  BY DEF Stream
<1>2. /\ Up \in Slots /\ Down \in Slots
      /\ carries'[Up] = UpStream /\ carries'[Down] = DownStream
      /\ streams'[UpStream] = Stream(conn, 0) /\ streams'[DownStream] = Stream(0, conn)
  BY DEF Laid
<1>3. EndFits(a, carries', streams', sockets')
  BY <1>0, <1>1, <1>2 DEF EndFits, WiredTo
<1>4. ASSUME NEW b \in others PROVE EndFits(b, carries', streams', sockets')
  <2>1. conn = 0
    BY DEF WiredTo
  <2> QED BY <1>0, <1>1, <1>2, <2>1 DEF EndFits, WiredTo
<1>5. ASSUME NEW i \in JoinedIn(sockets)
      PROVE  /\ EndFits(i, carries', streams', sockets')
             /\ sockets[i].ends.hears \in 1..Len(streams)
             /\ sockets[i].ends.says \in 1..Len(streams)
  <2>1. sockets'[i].ends = sockets[i].ends /\ sockets'[i].edge = sockets[i].edge
    BY DEF WiredTo
  <2>2. CarriedAre(sockets, carries, streams)
    BY DEF Core, Agree
  <2>3. EndFits(i, carries, streams, sockets)
    BY <2>2 DEF CarriedAre, EndFits
  <2> DEFINE e == sockets[i].ends
  <2>4. /\ carries[e.receive] \in 0..Len(streams) /\ carries[e.transmit] \in 0..Len(streams)
    BY <2>2, <2>3 DEF EndFits, CarriedAre
  <2>5. e.hears \in 1..Len(streams) /\ e.says \in 1..Len(streams)
    BY <2>3, <2>4, <1>0 DEF EndFits
  <2>6. streams'[e.hears] = streams[e.hears] /\ streams'[e.says] = streams[e.says]
    BY <2>5 DEF Laid
  <2>7. AttachedAre(sockets, rings)
    BY DEF Core, Agree
  <2>8. e.receive # Up /\ e.transmit # Up /\ e.receive # Down /\ e.transmit # Down
    BY <2>7, FreeIsUnnamed DEF Laid
  <2>9. carries'[e.receive] = carries[e.receive] /\ carries'[e.transmit] = carries[e.transmit]
    BY <2>3, <2>8 DEF Laid, EndFits
  <2> QED BY <2>1, <2>3, <2>5, <2>6, <2>9 DEF EndFits
<1> QED BY <1>3, <1>4, <1>5

\* Each connection has its own rings, with two new ones.
LEMMA WiredCarried ==
  ASSUME Core, NEW a, NEW others, NEW conn \in Nat, NEW n, WiredTo(a, others, conn),
         Laid(n, conn)
  PROVE  CarriedAre(sockets', carries', streams')
<1> DEFINE L == Len(streams)
<1>0. /\ L \in Nat /\ UpStream = L + 1 /\ DownStream = L + 2 /\ Len(streams') = L + 2
      /\ Up # Down
  BY DEF Core, TypesAre, StreamsAre, UpStream, DownStream, Laid
<1>1. CarriedAre(sockets, carries, streams)
  BY DEF Core, Agree
<1>2. \A s \in Slots : \/ s = Up /\ carries'[s] = L + 1
                       \/ s = Down /\ carries'[s] = L + 2
                       \/ s # Up /\ s # Down /\ carries'[s] = carries[s] /\ carries[s] \in 0..L
  BY <1>0, <1>1 DEF Laid, CarriedAre
<1>3. \A s \in Slots : carries'[s] \in 0..Len(streams')
  BY <1>0, <1>2
<1>4. \A s, t \in Slots : carries'[s] = carries'[t] /\ carries'[s] # 0 => s = t
  <2> SUFFICES ASSUME NEW s \in Slots, NEW t \in Slots, carries'[s] = carries'[t],
                      carries'[s] # 0
               PROVE  s = t
    OBVIOUS
  <2>1. CASE carries'[s] \in 1..L
    <3>1. carries[s] = carries[t] /\ carries[s] # 0
      BY <2>1, <1>0, <1>2
    <3> QED BY <3>1, <1>1 DEF CarriedAre
  <2>2. CASE carries'[s] \notin 1..L
    BY <2>2, <1>0, <1>2
  <2> QED BY <2>1, <2>2
<1>5. /\ EndFits(a, carries', streams', sockets')
      /\ \A b \in others : EndFits(b, carries', streams', sockets')
      /\ \A i \in JoinedIn(sockets) :
           /\ EndFits(i, carries', streams', sockets')
           /\ sockets[i].ends.hears \in 1..L /\ sockets[i].ends.says \in 1..L
  BY WiredFits
<1>6. \A i \in JoinedIn(sockets') : EndFits(i, carries', streams', sockets')
  BY <1>5 DEF WiredTo
\* Who a socket is, by what it hears.
<1>7. \A i \in JoinedIn(sockets') :
        \/ /\ i = a /\ sockets'[i].ends.hears = L + 2 /\ sockets'[i].ends.says = L + 1
        \/ /\ i \in others /\ sockets'[i].edge = 0
           /\ sockets'[i].ends.hears = L + 1 /\ sockets'[i].ends.says = L + 2
        \/ /\ i \in JoinedIn(sockets) /\ sockets'[i].edge = sockets[i].edge
           /\ sockets'[i].ends = sockets[i].ends
           /\ sockets[i].ends.hears \in 1..L /\ sockets[i].ends.says \in 1..L
  BY <1>0, <1>5 DEF WiredTo
<1>8. \A b, c \in others : b = c
  BY DEF WiredTo
<1>9. others # {} => sockets'[a].edge = 0
  BY DEF WiredTo
<1> HIDE DEF L
<1>10. ASSUME NEW i \in JoinedIn(sockets'), NEW j \in JoinedIn(sockets')
       PROVE  /\ sockets'[j].ends.hears = sockets'[i].ends.hears => i = j
              /\ sockets'[j].ends.says = sockets'[i].ends.says => i = j
              /\ sockets'[i].edge # 0 => sockets'[j].ends.says # sockets'[i].ends.hears
              /\ sockets'[i].edge # 0 => sockets'[j].ends.hears # sockets'[i].ends.says
  <2>1. CASE i \in JoinedIn(sockets) /\ j \in JoinedIn(sockets)
              /\ sockets'[i].ends = sockets[i].ends /\ sockets'[j].ends = sockets[j].ends
              /\ sockets'[i].edge = sockets[i].edge
    BY <2>1, <1>1 DEF CarriedAre
  <2>2. CASE ~(i \in JoinedIn(sockets) /\ j \in JoinedIn(sockets)
              /\ sockets'[i].ends = sockets[i].ends /\ sockets'[j].ends = sockets[j].ends
              /\ sockets'[i].edge = sockets[i].edge)
    <3>1. PICK hi, si, hj, sj : /\ hi = sockets'[i].ends.hears /\ si = sockets'[i].ends.says
                                /\ hj = sockets'[j].ends.hears /\ sj = sockets'[j].ends.says
      OBVIOUS
    <3>2. CASE i = a
      <4>1. hi = L + 2 /\ si = L + 1
        BY <3>1, <3>2, <1>0, <1>7, <1>9 DEF WiredTo
      <4>2. CASE j = a
        BY <4>1, <4>2, <3>1, <3>2, <1>0
      <4>3. CASE j \in others
        <5>1. sockets'[i].edge = 0
          BY <4>3, <3>2, <1>9
        <5>2. hj = L + 1 /\ sj = L + 2
          BY <4>3, <3>1, <1>0 DEF WiredTo
        <5> QED BY <5>1, <5>2, <4>1, <3>1, <1>0
      <4>4. CASE j \in JoinedIn(sockets) /\ j # a /\ j \notin others
        <5>1. hj \in 1..L /\ sj \in 1..L
          BY <4>4, <3>1, <1>7
        <5> QED BY <5>1, <4>1, <3>1, <1>0
      <4> QED BY <4>2, <4>3, <4>4 DEF WiredTo
    <3>3. CASE i \in others
      <4>1. hi = L + 1 /\ si = L + 2 /\ sockets'[i].edge = 0
        BY <3>1, <3>3, <1>0 DEF WiredTo
      <4>2. CASE j = a
        <5>1. hj = L + 2 /\ sj = L + 1
          BY <4>2, <3>1, <1>0 DEF WiredTo
        <5> QED BY <5>1, <4>1, <3>1, <1>0
      <4>3. CASE j \in others
        BY <4>3, <3>3, <1>8, <4>1
      <4>4. CASE j \in JoinedIn(sockets) /\ j # a /\ j \notin others
        <5>1. hj \in 1..L /\ sj \in 1..L
          BY <4>4, <3>1, <1>7
        <5> QED BY <5>1, <4>1, <3>1, <1>0
      <4> QED BY <4>2, <4>3, <4>4 DEF WiredTo
    <3>4. CASE i # a /\ i \notin others
      <4>1. hi \in 1..L /\ si \in 1..L
        BY <3>4, <3>1, <1>7
      <4>2. j = a \/ j \in others
        BY <3>4, <2>2, <1>7
      <4>3. /\ hj = L + 2 \/ hj = L + 1
            /\ sj = L + 1 \/ sj = L + 2
        BY <4>2, <3>1, <1>0 DEF WiredTo
      <4> QED BY <4>1, <4>3, <3>1, <1>0
    <3> QED BY <3>2, <3>3, <3>4
  <2> QED BY <2>1, <2>2
<1> QED BY <1>3, <1>4, <1>6, <1>10 DEF CarriedAre, EndFits

---------------------------------------------------------------------------
(* The records the actions make, and the places they take.                 *)

\* The addresses the code makes.
LEMMA AddressesAre ==
  /\ Unbound \in Addresses
  /\ \A host, port \in Nat : Inet(host, port) \in Addresses
  /\ \A node \in Nat : \A path \in Paths : Unix(node, <<path>>) \in Addresses
<1>1. <<>> \in Seq(Paths) /\ 0 \in Nat
  OBVIOUS
<1>2. \A path \in Paths : <<path>> \in Seq(Paths)
  OBVIOUS
<1>3. Unbound \in Addresses
  BY <1>1 DEF Unbound, Addresses
<1>4. \A host, port \in Nat : Inet(host, port) \in Addresses
  BY <1>1 DEF Inet, Addresses
<1>5. ASSUME NEW node \in Nat, NEW path \in Paths
      PROVE  Unix(node, <<path>>) \in Addresses
  <2>1. PICK z : z = <<path>>
    OBVIOUS
  <2>2. z \in Seq(Paths)
    BY <1>2, <2>1
  <2>3. Unix(node, z) \in Addresses
    BY <1>1, <2>2 DEF Unix, Addresses
  <2> QED BY <2>1, <2>3
<1> QED BY <1>3, <1>4, <1>5

\* An endpoint as the code makes it.
LEMMA EndsAre ==
  ASSUME NEW r \in Slots \cup {0}, NEW t \in Slots \cup {0}, NEW a \in Addresses,
         NEW b \in Addresses, NEW h \in Nat, NEW s \in Nat
  PROVE  Ends(r, t, a, b, h, s) \in Endpoints
BY DEF Ends, Endpoints

\* A new socket as the code makes it.
LEMMA NewSocketIs ==
  /\ NewSocket \in Records /\ NewSocket.state = "Idle" /\ NewSocket.references = 1
  /\ NewSocket.edge = 0 /\ NewSocket.queue = <<>>
<1>1. Unbound \in Addresses
  BY AddressesAre
<1>2. NoEnds \in Endpoints
  BY <1>1 DEF NoEnds, Endpoints
<1>3. <<>> \in Seq(Ids) /\ 0 \in Nat /\ 1 \in Nat
  OBVIOUS
<1>4. PICK e, u, s : e = NoEnds /\ u = Unbound /\ s = <<>>
  OBVIOUS
<1>5. NewSocket = [state |-> "Idle", references |-> 1, edge |-> 0, address |-> u,
                   backlog |-> 0, queue |-> s, ends |-> e]
  BY <1>4 DEF NewSocket
<1> QED BY <1>1, <1>2, <1>3, <1>4, <1>5 DEF Records

\* The far side of a connection as the code makes it.
LEMMA FarIs ==
  ASSUME NEW e \in Endpoints, NEW c \in Nat, NEW z, z = Far(e, c)
  PROVE  /\ z \in Records /\ z.state = "Connected" /\ z.references = 1
         /\ z.edge = c /\ z.queue = <<>> /\ z.ends = e
<1>1. /\ NewSocket \in Records /\ NewSocket.references = 1 /\ NewSocket.queue = <<>>
  BY NewSocketIs
<1>2. PICK n : n = NewSocket
  OBVIOUS
<1>3. PICK x : x = [n EXCEPT !.state = "Connected"]
  OBVIOUS
<1>4. PICK y : y = [x EXCEPT !.ends = e]
  OBVIOUS
<1>5. PICK w : w = [y EXCEPT !.edge = c]
  OBVIOUS
<1>6. /\ x \in Records /\ x.state = "Connected" /\ x.references = 1 /\ x.queue = <<>>
  BY <1>1, <1>2, <1>3 DEF Records
<1>7. /\ y \in Records /\ y.state = "Connected" /\ y.references = 1 /\ y.queue = <<>>
      /\ y.ends = e
  BY <1>6, <1>4 DEF Records
<1>8. /\ w \in Records /\ w.state = "Connected" /\ w.references = 1 /\ w.queue = <<>>
      /\ w.ends = e /\ w.edge = c
  BY <1>7, <1>5 DEF Records
<1>9. z = w
  BY <1>2, <1>3, <1>4, <1>5 DEF Far
<1> QED BY <1>8, <1>9

\* The lowest free descriptor is free.
LEMMA FreeFd ==
  ASSUME menu \in Menus, NEW p, Free(files[p]) # {}
  PROVE  /\ Least(Free(files[p])) \in Free(files[p])
         /\ Least(Free(files[p])) \in Fds /\ files[p][Least(Free(files[p]))] = NoFile
<1>1. Free(files[p]) \subseteq Fds /\ Fds \subseteq Nat
  BY SocketsAssumption DEF Free
<1>2. Least(Free(files[p])) \in Free(files[p])
  BY <1>1, LeastExists
<1> QED BY <1>1, <1>2 DEF Free, Open

\* The lowest free socket is free.
LEMMA FreeId ==
  ASSUME menu \in Menus, FreeIds # {}
  PROVE  /\ Least(FreeIds) \in FreeIds
         /\ Least(FreeIds) \in Ids /\ sockets[Least(FreeIds)] = NoSocket
<1>1. FreeIds \subseteq Ids /\ Ids \subseteq Nat
  BY SocketsAssumption DEF FreeIds
<1>2. Least(FreeIds) \in FreeIds
  BY <1>1, LeastExists
<1> QED BY <1>1, <1>2 DEF FreeIds, Live

\* A descriptor of process p that was free names socket i.
Placed(f, g, p, fd, i) ==
  /\ f[p][fd] = NoFile /\ g[p][fd] # NoFile /\ g[p][fd].socket = i
  /\ \A q \in Procs, e \in Fds : q # p \/ e # fd => g[q][e] = f[q][e]

\* A free place of a table takes a descriptor.
LEMMA PlacedIs ==
  ASSUME NEW f, FilesAre(f), NEW p \in Procs, NEW fd \in Fds, f[p][fd] = NoFile,
         NEW x \in OpenFiles, NEW g, g = [f EXCEPT ![p] = [f[p] EXCEPT ![fd] = x]]
  PROVE  FilesAre(g) /\ Placed(f, g, p, fd, x.socket) /\ g[p][fd] = x
<1>1. PICK t : t = [f[p] EXCEPT ![fd] = x]
  OBVIOUS
<1>2. f[p] \in [Fds -> OpenFiles \cup {NoFile}]
  BY DEF FilesAre
<1>3. /\ t \in [Fds -> OpenFiles \cup {NoFile}] /\ t[fd] = x
      /\ \A e \in Fds : e # fd => t[e] = f[p][e]
  BY <1>1, <1>2
<1>4. g = [f EXCEPT ![p] = t]
  BY <1>1
<1>5. FilesAre(g) /\ g[p] = t /\ \A q \in Procs : q # p => g[q] = f[q]
  BY <1>3, <1>4 DEF FilesAre
<1>6. x # NoFile
  BY SocketsAssumption
<1> QED BY <1>3, <1>5, <1>6 DEF Placed

\* The descriptors of the other sockets are the same.
OnElse(f, g, i) == \A S : i \notin S => On(g, S) = On(f, S)

\* One descriptor more, of one socket.
LEMMA PlacedOn ==
  ASSUME NEW f, NEW g, NEW p \in Procs, NEW fd \in Fds, NEW i, Placed(f, g, p, fd, i)
  PROVE  /\ OnElse(f, g, i)
         /\ On(f, {i}) = {} => Cardinality(On(g, {i})) = 1
<1>1. ASSUME NEW S, i \notin S PROVE On(g, S) = On(f, S)
  <2>1. ASSUME NEW d \in Procs \X Fds PROVE d \in On(g, S) <=> d \in On(f, S)
    <3>1. CASE d[1] = p /\ d[2] = fd
      BY <3>1, <1>1 DEF On, Placed
    <3>2. CASE d[1] # p \/ d[2] # fd
      <4>1. g[d[1]][d[2]] = f[d[1]][d[2]]
        BY <3>2 DEF Placed
      <4> QED BY <4>1 DEF On
    <3> QED BY <3>1, <3>2
  <2>2. On(g, S) \subseteq Procs \X Fds /\ On(f, S) \subseteq Procs \X Fds
    BY DEF On
  <2> QED BY <2>1, <2>2
<1>2. ASSUME On(f, {i}) = {} PROVE Cardinality(On(g, {i})) = 1
  <2>1. <<p, fd>> \in On(g, {i})
    BY DEF On, Placed
  <2>2. ASSUME NEW d \in On(g, {i}) PROVE d = <<p, fd>>
    <3>1. d \in Procs \X Fds /\ d = <<d[1], d[2]>>
      BY DEF On
    <3>2. CASE d[1] # p \/ d[2] # fd
      <4>1. g[d[1]][d[2]] = f[d[1]][d[2]]
        BY <3>1, <3>2 DEF Placed
      <4>2. d \in On(f, {i})
        BY <4>1, <3>1, <2>2 DEF On
      <4> QED BY <4>2, <1>2
    <3> QED BY <3>1, <3>2
  <2>3. On(g, {i}) = {<<p, fd>>}
    BY <2>1, <2>2
  <2> QED BY <2>3, FS_Singleton
<1> QED BY <1>1, <1>2 DEF OnElse

\* The parts of the invariant, by name.
LEMMA CoreParts ==
  ASSUME Core
  PROVE  /\ RingsAre(rings) /\ SocketsAre(sockets) /\ FilesAre(files)
         /\ NetIs(net) /\ batch \in Seq(Events) /\ StreamsAre(streams)
         /\ carries \in [Slots -> Nat] /\ menu \in Menus
         /\ DescriptorsLive(files, sockets) /\ QueuesAre(files, sockets, adrift)
         /\ ReferencesAre(files, sockets, adrift) /\ AttachedAre(sockets, rings)
         /\ CountsAre(files, sockets, rings, streams, carries, skewed)
         /\ CarriedAre(sockets, carries, streams)
         /\ EventsAre(sockets, streams, Pending, net.connections)
         /\ Len(streams) \in Nat /\ Len(net.connections) \in Nat
         /\ Pending \in Seq(Events)
<1>1. /\ RingsAre(rings) /\ SocketsAre(sockets) /\ FilesAre(files)
      /\ NetIs(net) /\ batch \in Seq(Events) /\ StreamsAre(streams)
      /\ carries \in [Slots -> Nat] /\ menu \in Menus
  BY DEF Core, TypesAre
<1>2. /\ DescriptorsLive(files, sockets) /\ QueuesAre(files, sockets, adrift)
      /\ ReferencesAre(files, sockets, adrift) /\ AttachedAre(sockets, rings)
      /\ CountsAre(files, sockets, rings, streams, carries, skewed)
      /\ CarriedAre(sockets, carries, streams)
      /\ EventsAre(sockets, streams, Pending, net.connections)
  BY DEF Core, Agree
<1>3. Len(net.connections) \in Nat /\ net.events \in Seq(Events)
  BY <1>1, ConnectionsAre
<1>4. Len(streams) \in Nat
  BY <1>1 DEF StreamsAre
<1>5. Pending \in Seq(Events)
  <2>1. PICK x, y : x = batch /\ y = net.events
    OBVIOUS
  <2>2. x \o y \in Seq(Events)
    BY <1>1, <1>3, <2>1
  <2> QED BY <2>1, <2>2 DEF Pending
<1> QED BY <1>1, <1>2, <1>3, <1>4, <1>5

\* Nothing of the arena of rings, the host or the histories changes.
Still ==
  /\ rings' = rings /\ net' = net /\ batch' = batch /\ streams' = streams
  /\ carries' = carries /\ menu' = menu

\* What waits stays when nothing arrives or is handled.
LEMMA PendingStill ==
  ASSUME net'.events = net.events, batch' = batch
  PROVE  Pending' = Pending
BY DEF Pending

\* A step that leaves the connections, the rings and the streams alone.
Resting ==
  JoinedStay /\ rings' = rings /\ streams' = streams /\ net'.connections = net.connections

\* Where rings, host and streams stay, so do the counts on them.
LEMMA StillHolds ==
  ASSUME Core, FilesAre(files'), SocketsAre(sockets'), NetIs(net'),
         rings' = rings, batch' = batch, streams' = streams, carries' = carries, menu' = menu,
         net'.events = net.events, net'.connections = net.connections,
         JoinedStay, HoldersStay, skewed \subseteq skewed', EdgesStay,
         DescriptorsLive(files', sockets'), QueuesAre(files', sockets', adrift'),
         ReferencesAre(files', sockets', adrift')
  PROVE  Core' /\ Resting
<1>1. /\ RingsAre(rings) /\ batch \in Seq(Events) /\ StreamsAre(streams)
      /\ carries \in [Slots -> Nat] /\ menu \in Menus
      /\ AttachedAre(sockets, rings)
      /\ CountsAre(files, sockets, rings, streams, carries, skewed)
      /\ CarriedAre(sockets, carries, streams)
      /\ EventsAre(sockets, streams, Pending, net.connections)
      /\ Len(streams) \in Nat /\ Len(net.connections) \in Nat
      /\ Pending \in Seq(Events)
  BY CoreParts
<1>2. PlacesStay
  BY JoinedPlaces
<1>3. AttachedStay /\ RingsStay
  BY DEF AttachedStay, RingsStay
<1>4. AttachedAre(sockets', rings')
  BY <1>1, <1>2, <1>3, StayAttached
<1>5. StreamsKept(streams, streams') /\ StreamsStay
  BY DEF StreamsKept, StreamsStay
<1>6. CountsAre(files', sockets', rings', streams', carries', skewed')
  BY <1>1, <1>3, <1>5, StayCounts
<1>7. CarriedAre(sockets', carries', streams')
  BY <1>1, <1>2, <1>5, StayCarried
<1>8. Pending' = Pending
  BY PendingStill
<1>9. HostStays /\ PendingStays
  BY <1>8 DEF HostStays, PendingStays
<1>10. StreamsGrow
  BY <1>1 DEF StreamsGrow
<1>11. StreamsAre(streams')
  BY <1>1
<1>12. EventsAre(sockets', streams', Pending', net'.connections)
  BY <1>1, <1>9, <1>10, <1>11, EventsStay
<1>13. Core'
  BY <1>1, <1>4, <1>6, <1>7, <1>12 DEF Core, TypesAre, Agree
<1> QED BY <1>13 DEF Resting

---------------------------------------------------------------------------
(* The actions.                                                            *)

\* What a descriptor names.
LEMMA NamedIs ==
  ASSUME Core, NEW p \in Procs, NEW fd, NEW state, Names(p, fd, state)
  PROVE  /\ fd \in Fds /\ files[p][fd] # NoFile /\ files[p][fd] \in OpenFiles
         /\ SocketAt(p, fd) = files[p][fd].socket
         /\ SocketAt(p, fd) \in LiveIn(sockets) /\ SocketAt(p, fd) \in Ids
         /\ sockets[SocketAt(p, fd)].state = state
         /\ sockets[SocketAt(p, fd)] \in Records
<1>1. FilesAre(files) /\ SocketsAre(sockets) /\ DescriptorsLive(files, sockets)
  BY CoreParts
<1>2. /\ fd \in Fds /\ files[p][fd] # NoFile
      /\ sockets[files[p][fd].socket].state = state
  BY DEF Names, Open, SocketAt
<1>3. files[p][fd] \in OpenFiles
  BY <1>1, <1>2 DEF FilesAre
<1>4. files[p][fd].socket \in Ids
  BY <1>3 DEF OpenFiles
<1>5. sockets[files[p][fd].socket] # NoSocket
  BY <1>1, <1>2 DEF DescriptorsLive
<1>6. files[p][fd].socket \in LiveIn(sockets)
  BY <1>4, <1>5 DEF LiveIn
<1>7. sockets[files[p][fd].socket] \in Records
  BY <1>1, <1>6, LiveIsRecord
<1> QED BY <1>2, <1>3, <1>4, <1>6, <1>7 DEF SocketAt

\* New sockets that are not connected keep the invariant.
LEMMA OpenedHolds ==
  ASSUME Core, FilesAre(files'), SocketsAre(sockets'), NetIs(net'),
         rings' = rings, batch' = batch, streams' = streams, carries' = carries, menu' = menu,
         net'.events = net.events, net'.connections = net.connections,
         skewed' = skewed, adrift' = adrift, JoinedStay, EdgesStay,
         NEW new, Opened(files, sockets, files', sockets', new, adrift, adrift)
  PROVE  Core' /\ Resting
<1>1. /\ FilesAre(files) /\ SocketsAre(sockets)
      /\ DescriptorsLive(files, sockets) /\ QueuesAre(files, sockets, adrift)
      /\ ReferencesAre(files, sockets, adrift)
  BY CoreParts
<1>2. DescriptorsLive(files', sockets')
  BY <1>1, OpenedDescriptors
<1>3. QueuesAre(files', sockets', adrift)
  BY <1>1, OpenedQueues
<1>4. ReferencesAre(files', sockets', adrift)
  BY <1>1, OpenedReferences
<1>5. HoldersStay
  <2> SUFFICES ASSUME NEW s \in Slots
               PROVE  /\ HoldersSame(files, sockets, files', sockets', Hearing(sockets, s))
                      /\ HoldersSame(files, sockets, files', sockets', Saying(sockets, s))
    BY DEF HoldersStay
  <2>1. new \cap LiveIn(sockets) = {}
    BY DEF Opened
  <2>2. Hearing(sockets, s) \cap new = {} /\ Saying(sockets, s) \cap new = {}
    BY <2>1 DEF Hearing, Saying, JoinedIn, LiveIn
  <2> QED BY <2>2, <1>1, OpenedHolders
<1> QED BY <1>2, <1>3, <1>4, <1>5, StillHolds

\* socket.
LEMMA MakeSocketHolds ==
  ASSUME Core, NEW p \in Procs, NEW cloexec \in BOOLEAN, MakeSocket(p, cloexec)
  PROVE  Core' /\ Resting
<1>1. /\ FilesAre(files) /\ SocketsAre(sockets) /\ DescriptorsLive(files, sockets)
      /\ menu \in Menus /\ NetIs(net)
  BY CoreParts
<1>2. PICK i, fd : i = Least(FreeIds) /\ fd = Least(Free(files[p]))
  OBVIOUS
<1>3. i \in Ids /\ sockets[i] = NoSocket
  BY <1>1, <1>2, FreeId DEF MakeSocket
<1>4. fd \in Fds /\ files[p][fd] = NoFile
  BY <1>1, <1>2, FreeFd DEF MakeSocket
<1>5. PICK x : x = [socket |-> i, cloexec |-> cloexec]
  OBVIOUS
<1>6. x \in OpenFiles /\ x.socket = i
  BY <1>3, <1>5 DEF OpenFiles
<1>7. /\ sockets' = [sockets EXCEPT ![i] = NewSocket]
      /\ files' = [files EXCEPT ![p] = [files[p] EXCEPT ![fd] = x]]
  BY <1>2, <1>5 DEF MakeSocket
<1>8. FilesAre(files') /\ Placed(files, files', p, fd, i)
  BY <1>1, <1>4, <1>6, <1>7, PlacedIs
<1>9. /\ NewSocket \in Records /\ NewSocket.state = "Idle" /\ NewSocket.references = 1
      /\ NewSocket.edge = 0 /\ NewSocket.queue = <<>>
  BY NewSocketIs
<1>10. /\ SocketsAre(sockets') /\ sockets'[i] = NewSocket
       /\ \A j \in Ids : j # i => sockets'[j] = sockets[j]
  BY <1>1, <1>3, <1>7, <1>9 DEF SocketsAre
<1>11. NewSocket # NoSocket
  BY <1>9, SocketsAssumption
<1>12. JoinedStay
  BY <1>3, <1>9, <1>10, <1>11 DEF JoinedStay, JoinedIn
<1>13. EdgesStay
  <2>1. \A j \in LiveIn(sockets) : sockets[j].edge # 0 => sockets[j].state = "Connected"
    BY CoreParts DEF EventsAre
  <2> QED BY <2>1, <1>3, <1>9, <1>10, <1>11 DEF EdgesStay, LiveIn
<1>14. Opened(files, sockets, files', sockets', {i}, adrift, adrift)
  <2>1. On(files, {i}) = {}
    BY <1>1, <1>3, NewIsUnheld
  <2>2. Cardinality(On(files', {i})) = 1
    BY <1>4, <1>8, <2>1, PlacedOn
  <2>3. \A S : S \cap {i} = {} => On(files', S) = On(files, S)
    <3>1. OnElse(files, files', i)
      BY <1>4, <1>8, PlacedOn
    <3> QED BY <3>1 DEF OnElse
  <2>4. LiveIn(sockets') = LiveIn(sockets) \cup {i} /\ i \notin LiveIn(sockets)
    BY <1>3, <1>10, <1>11 DEF LiveIn
  <2>5. i \notin adrift
    BY <2>4, CoreParts DEF ReferencesAre
  <2>6. \A j \in LiveIn(sockets) : sockets'[j] = sockets[j]
    BY <1>10, <2>4 DEF LiveIn
  <2> QED BY <1>3, <1>9, <1>10, <2>2, <2>3, <2>4, <2>5, <2>6 DEF Opened, Holds
<1>15. /\ rings' = rings /\ batch' = batch /\ streams' = streams /\ carries' = carries
       /\ menu' = menu /\ net' = net /\ skewed' = skewed /\ adrift' = adrift
  BY DEF MakeSocket, history
<1>16. NetIs(net') /\ net'.events = net.events /\ net'.connections = net.connections
  BY <1>1, <1>15
<1> QED BY <1>8, <1>10, <1>12, <1>13, <1>14, <1>15, <1>16, OpenedHolds

\* A socket that is not connected changes what it is bound to or listens with.
LEMMA EditedHolds ==
  ASSUME Core, NEW i \in LiveIn(sockets), sockets[i].state # "Connected",
         NEW z \in Records, z.state # "Connected",
         sockets[i].state = "Listening" => z.state = "Listening",
         z.references = sockets[i].references, z.queue = sockets[i].queue,
         z.edge = sockets[i].edge,
         sockets' = [sockets EXCEPT ![i] = z], NetIs(net'),
         net'.events = net.events, net'.connections = net.connections,
         UNCHANGED <<files, rings, batch, history, menu>>
  PROVE  Core' /\ Resting
<1>1. /\ FilesAre(files) /\ SocketsAre(sockets) /\ DescriptorsLive(files, sockets)
  BY CoreParts
<1>2. i \in Ids /\ sockets[i] # NoSocket /\ z # NoSocket
  BY SocketsAssumption DEF LiveIn
<1>3. /\ SocketsAre(sockets') /\ sockets'[i] = z
      /\ \A j \in Ids : j # i => sockets'[j] = sockets[j]
  BY <1>1, <1>2 DEF SocketsAre
<1>4. JoinedStay
  BY <1>2, <1>3 DEF JoinedStay, JoinedIn
<1>5. EdgesStay
  <2>1. \A j \in LiveIn(sockets) : sockets[j].edge # 0 => sockets[j].state = "Connected"
    BY CoreParts DEF EventsAre
  <2> QED BY <2>1, <1>2, <1>3 DEF EdgesStay, LiveIn
<1>6. LiveIn(sockets') = LiveIn(sockets)
  BY <1>2, <1>3 DEF LiveIn
<1>7. files' = files
  OBVIOUS
<1>8. Opened(files, sockets, files', sockets', {}, adrift, adrift)
  <2>1. \A j \in LiveIn(sockets) : Holds(sockets, sockets', j) /\ sockets'[j].queue = sockets[j].queue
    BY <1>2, <1>3 DEF Holds, LiveIn
  <2> QED BY <2>1, <1>6, <1>7 DEF Opened
<1>9. /\ rings' = rings /\ batch' = batch /\ streams' = streams /\ carries' = carries
      /\ menu' = menu /\ skewed' = skewed /\ adrift' = adrift
  BY DEF history
<1> QED BY <1>1, <1>3, <1>4, <1>5, <1>7, <1>8, <1>9, OpenedHolds

\* A step that changes nothing but the clock of ports or a parked accept.
LEMMA UnchangedHolds ==
  ASSUME Core, UNCHANGED <<rings, sockets, files, net, batch, history, menu>>
  PROVE  Core' /\ Resting
<1>1. Pending' = Pending
  BY PendingStill
<1>2. Core'
  BY <1>1 DEF Core, TypesAre, Agree, history
<1> QED BY <1>2 DEF Resting, JoinedStay, JoinedIn, history

\* A bind, to whatever address.
LEMMA BindToHolds ==
  ASSUME Core, NEW p \in Procs, NEW fd, NEW address \in Addresses, Names(p, fd, "Idle"),
         BindTo(p, fd, address), UNCHANGED <<rings, files, net, batch, history, menu>>
  PROVE  Core' /\ Resting
<1>1. PICK i : i = SocketAt(p, fd)
  OBVIOUS
<1>2. i \in LiveIn(sockets) /\ sockets[i].state = "Idle" /\ sockets[i] \in Records
  BY <1>1, NamedIs
<1>3. CASE Bound(address)
  <2>1. sockets' = sockets
    BY <1>3 DEF BindTo
  <2> QED BY <2>1, UnchangedHolds
<1>4. CASE ~Bound(address)
  <2>1. PICK o : o = sockets[i]
    OBVIOUS
  <2>2. PICK y : y = [o EXCEPT !.state = "Bound"]
    OBVIOUS
  <2>3. PICK z : z = [y EXCEPT !.address = address]
    OBVIOUS
  <2>4. /\ y \in Records /\ y.state = "Bound" /\ y.references = o.references
        /\ y.queue = o.queue /\ y.edge = o.edge
    BY <1>2, <2>1, <2>2 DEF Records
  <2>5. /\ z \in Records /\ z.state = "Bound" /\ z.references = o.references
        /\ z.queue = o.queue /\ z.edge = o.edge
    BY <2>3, <2>4 DEF Records
  <2>6. sockets' = [sockets EXCEPT ![i] = z]
    <3>1. sockets' = [sockets EXCEPT ![i].state = "Bound", ![i].address = address]
      BY <1>1, <1>4 DEF BindTo
    <3>2. SocketsAre(sockets) /\ i \in Ids
      BY <1>2, CoreParts DEF LiveIn
    <3>3. sockets' = [sockets EXCEPT ![i] = [o EXCEPT !.state = "Bound", !.address = address]]
      BY <3>1, <3>2, <2>1 DEF SocketsAre
    <3>4. z = [o EXCEPT !.state = "Bound", !.address = address]
      BY <2>2, <2>3
    <3> QED BY <3>3, <3>4
  <2>7. NetIs(net') /\ net'.events = net.events /\ net'.connections = net.connections
    BY CoreParts
  <2> QED BY <1>2, <2>1, <2>5, <2>6, <2>7, EditedHolds
<1> QED BY <1>3, <1>4

\* An ephemeral port is a port.
LEMMA FreePortIs ==
  ASSUME FreePorts # {}
  PROVE  Least(FreePorts) \in Ephemeral /\ Least(FreePorts) \in Nat
<1>1. FreePorts \subseteq Nat /\ FreePorts \subseteq Ephemeral
  BY SocketsAssumption DEF FreePorts
<1> QED BY <1>1, LeastExists

\* bind, to a port.
LEMMA BindInetHolds ==
  ASSUME Core, NEW p \in Procs, NEW fd \in Fds, NEW host \in {Wildcard, Loopback},
         NEW port \in Ports \cup {0}, BindInet(p, fd, host, port)
  PROVE  Core' /\ Resting
<1>1. PICK n : n = IF port = 0 THEN Least(FreePorts) ELSE port
  OBVIOUS
<1>2. n \in Nat
  BY <1>1, FreePortIs, SocketsAssumption DEF BindInet
<1>3. host \in Nat
  BY DEF Wildcard, Loopback
<1>4. Inet(host, n) \in Addresses
  BY <1>2, <1>3, AddressesAre
<1>5. BindTo(p, fd, Inet(host, n))
  BY <1>1 DEF BindInet
<1>6. /\ Names(p, fd, "Idle")
      /\ UNCHANGED <<rings, files, net, batch, history, menu>>
  BY DEF BindInet
<1> QED BY <1>4, <1>5, <1>6, BindToHolds

\* bind, to a path.
LEMMA BindUnixHolds ==
  ASSUME Core, RestIs, NEW p \in Procs, NEW fd \in Fds, NEW path \in Paths,
         BindUnix(p, fd, path)
  PROVE  Core' /\ Resting
<1>1. PICK n : n = Len(nodes[p]) + 1
  OBVIOUS
<1>2. n \in Nat
  <2>1. nodes[p] \in Seq(Paths)
    BY DEF RestIs
  <2> QED BY <1>1, <2>1
<1>3. Unix(n, <<path>>) \in Addresses
  BY <1>2, AddressesAre
<1>4. BindTo(p, fd, Unix(n, <<path>>))
  BY <1>1 DEF BindUnix
<1>5. /\ Names(p, fd, "Idle")
      /\ UNCHANGED <<rings, files, net, batch, history, menu>>
  BY DEF BindUnix
<1> QED BY <1>3, <1>4, <1>5, BindToHolds

\* A listener the host is told of.
LEMMA HostListensIs ==
  ASSUME NetIs(net), NEW port, NEW n, n = HostListens(net, port)
  PROVE  /\ NetIs(n) /\ n.events = net.events /\ n.connections = net.connections
<1>1. net = [events |-> net.events, connections |-> net.connections, listening |-> net.listening]
  BY DEF NetIs
<1>2. CASE port \in Mapped
  <2>1. n = [net EXCEPT !.listening = net.listening \cup {port}]
    BY <1>2 DEF HostListens
  <2> QED BY <1>2, <2>1 DEF NetIs
<1>3. CASE port \notin Mapped
  BY <1>3 DEF HostListens
<1> QED BY <1>2, <1>3

\* A socket starts to listen.
LEMMA ListenOnHolds ==
  ASSUME Core, NEW i \in LiveIn(sockets), sockets[i].state \in {"Idle", "Bound"},
         NEW address \in Addresses, NEW backlog \in Nat, ListenOn(i, address, backlog),
         UNCHANGED <<files, rings, batch, history, menu>>
  PROVE  Core' /\ Resting
<1>1. PICK o : o = sockets[i]
  OBVIOUS
<1>2. o \in Records /\ SocketsAre(sockets) /\ i \in Ids /\ NetIs(net)
  BY <1>1, CoreParts, LiveIsRecord
<1>3. PICK y : y = [o EXCEPT !.state = "Listening"]
  OBVIOUS
<1>4. PICK w : w = [y EXCEPT !.address = address]
  OBVIOUS
<1>5. PICK z : z = [w EXCEPT !.backlog = backlog]
  OBVIOUS
<1>6. /\ y \in Records /\ y.state = "Listening" /\ y.references = o.references
      /\ y.queue = o.queue /\ y.edge = o.edge
  BY <1>2, <1>3 DEF Records
<1>7. /\ w \in Records /\ w.state = "Listening" /\ w.references = o.references
      /\ w.queue = o.queue /\ w.edge = o.edge
  BY <1>4, <1>6 DEF Records
<1>8. /\ z \in Records /\ z.state = "Listening" /\ z.references = o.references
      /\ z.queue = o.queue /\ z.edge = o.edge
  BY <1>5, <1>7 DEF Records
<1>9. sockets' = [sockets EXCEPT ![i] = z]
  <2>1. sockets' = [sockets EXCEPT ![i].state = "Listening", ![i].address = address,
                                   ![i].backlog = backlog]
    BY DEF ListenOn
  <2>2. sockets' = [sockets EXCEPT ![i] =
          [o EXCEPT !.state = "Listening", !.address = address, !.backlog = backlog]]
    BY <2>1, <1>1, <1>2 DEF SocketsAre
  <2>3. z = [o EXCEPT !.state = "Listening", !.address = address, !.backlog = backlog]
    BY <1>3, <1>4, <1>5
  <2> QED BY <2>2, <2>3
<1>10. NetIs(net') /\ net'.events = net.events /\ net'.connections = net.connections
  <2>1. CASE address.family = "inet"
    BY <2>1, <1>2, HostListensIs DEF ListenOn
  <2>2. CASE address.family # "inet"
    BY <2>2, <1>2 DEF ListenOn
  <2> QED BY <2>1, <2>2
<1> QED BY <1>1, <1>8, <1>9, <1>10, EditedHolds

\* listen.
LEMMA ListenHolds ==
  ASSUME Core, NEW p \in Procs, NEW fd \in Fds, NEW backlog \in Nat, Listen(p, fd, backlog)
  PROVE  Core' /\ Resting
<1>1. PICK i : i = SocketAt(p, fd)
  OBVIOUS
<1>2. UNCHANGED <<files, rings, batch, history, menu>>
  BY DEF Listen
<1>3. CASE Names(p, fd, "Bound") /\ ListenOn(i, sockets[i].address, backlog)
  <2>1. i \in LiveIn(sockets) /\ sockets[i].state = "Bound" /\ sockets[i] \in Records
    BY <1>1, <1>3, NamedIs
  <2>2. sockets[i].address \in Addresses
    BY <2>1 DEF Records
  <2> QED BY <1>2, <1>3, <2>1, <2>2, ListenOnHolds
<1>4. CASE /\ Names(p, fd, "Idle") /\ FreePorts # {}
           /\ ListenOn(i, Inet(Loopback, Least(FreePorts)), backlog)
  <2>1. i \in LiveIn(sockets) /\ sockets[i].state = "Idle"
    BY <1>1, <1>4, NamedIs
  <2>2. Inet(Loopback, Least(FreePorts)) \in Addresses
    <3>1. Loopback \in Nat /\ Least(FreePorts) \in Nat
      BY <1>4, FreePortIs DEF Loopback
    <3> QED BY <3>1, AddressesAre
  <2> QED BY <1>2, <1>4, <2>1, <2>2, ListenOnHolds
<1>5. CASE /\ Names(p, fd, "Listening") /\ sockets[i].backlog # backlog
           /\ sockets' = [sockets EXCEPT ![i].backlog = backlog]
           /\ UNCHANGED net
  <2>1. i \in LiveIn(sockets) /\ sockets[i].state = "Listening" /\ sockets[i] \in Records
    BY <1>1, <1>5, NamedIs
  <2>2. PICK o : o = sockets[i]
    OBVIOUS
  <2>3. PICK z : z = [o EXCEPT !.backlog = backlog]
    OBVIOUS
  <2>4. /\ z \in Records /\ z.state = "Listening" /\ z.references = o.references
        /\ z.queue = o.queue /\ z.edge = o.edge
    BY <2>1, <2>2, <2>3 DEF Records
  <2>5. sockets' = [sockets EXCEPT ![i] = z]
    <3>1. SocketsAre(sockets) /\ i \in Ids
      BY <2>1, CoreParts DEF LiveIn
    <3> QED BY <1>5, <3>1, <2>2, <2>3 DEF SocketsAre
  <2>6. NetIs(net') /\ net'.events = net.events /\ net'.connections = net.connections
    BY <1>5, CoreParts
  <2> QED BY <1>2, <2>1, <2>2, <2>4, <2>5, <2>6, EditedHolds
<1> QED BY <1>1, <1>3, <1>4, <1>5 DEF Listen

\* What accept finds at the head of the listener's queue.
LEMMA HeadIs ==
  ASSUME Core, NEW listener, Is(listener, "Listening"), sockets[listener].queue # <<>>,
         NEW i, i = Head(sockets[listener].queue)
  PROVE  /\ listener \in LiveIn(sockets) /\ listener \in Ids
         /\ sockets[listener].state = "Listening" /\ sockets[listener] \in Records
         /\ i \in JoinedIn(sockets) /\ i \in LiveIn(sockets) /\ i \in Ids
         /\ sockets[i].state = "Connected" /\ i # listener
<1>1. /\ SocketsAre(sockets) /\ QueuesAre(files, sockets, adrift)
  BY CoreParts
<1>2. listener \in LiveIn(sockets) /\ sockets[listener].state = "Listening"
  BY DEF Is, Live, LiveIn
<1>3. PICK q : q = sockets[listener].queue
  OBVIOUS
<1>4. q \in Seq(Ids) /\ q # <<>> /\ listener \in Ids /\ sockets[listener] \in Records
  BY <1>1, <1>2, <1>3, LiveIsRecord
<1>5. 1 \in DOMAIN q /\ i = q[1]
  BY <1>3, <1>4
<1>50. 1 \in DOMAIN sockets[listener].queue /\ sockets[listener].queue[1] = i
  BY <1>3, <1>5
<1>6. i \in JoinedIn(sockets)
  <2>1. sockets[listener].queue[1] \in JoinedIn(sockets) \ adrift
    BY <1>1, <1>2, <1>50 DEF QueuesAre
  <2> QED BY <2>1, <1>50
<1> QED BY <1>2, <1>4, <1>6 DEF JoinedIn, LiveIn

\* A listener whose queue lost its head.
LEMMA DequeuedIs ==
  ASSUME Core, NEW listener, Is(listener, "Listening"), sockets[listener].queue # <<>>,
         NEW z, z = [sockets[listener] EXCEPT !.queue = Tail(@)]
  PROVE  /\ z \in Records /\ z # NoSocket /\ z.state = "Listening" /\ z.edge = sockets[listener].edge
         /\ z.references = sockets[listener].references /\ z.ends = sockets[listener].ends
         /\ z.queue = Tail(sockets[listener].queue)
<1>1. sockets[listener] \in Records /\ sockets[listener].state = "Listening"
  BY HeadIs
<1>2. PICK o, t : o = sockets[listener] /\ t = Tail(o.queue)
  OBVIOUS
<1>3. o.queue \in Seq(Ids) /\ o.queue # <<>>
  BY <1>1, <1>2 DEF Records
<1>4. t \in Seq(Ids)
  BY <1>2, <1>3
<1>5. z = [o EXCEPT !.queue = t]
  BY <1>2
<1>6. z \in Records
  BY <1>1, <1>2, <1>4, <1>5 DEF Records
<1>7. z # NoSocket
  BY <1>6, SocketsAssumption
<1> QED BY <1>1, <1>2, <1>5, <1>6, <1>7 DEF Records

\* An accept that gives a descriptor.
LEMMA GiveHolds ==
  ASSUME Core, NEW p \in Procs, NEW listener, NEW cloexec \in BOOLEAN, NEW i,
         Is(listener, "Listening"), sockets[listener].queue # <<>>,
         i = Head(sockets[listener].queue), Free(files[p]) # {},
         GiveAccepted(p, listener, i, cloexec),
         UNCHANGED <<net, batch, streams, carries, adrift, menu>>
  PROVE  Core' /\ Resting
<1>1. /\ FilesAre(files) /\ SocketsAre(sockets) /\ DescriptorsLive(files, sockets)
      /\ menu \in Menus /\ NetIs(net)
      /\ QueuesAre(files, sockets, adrift) /\ ReferencesAre(files, sockets, adrift)
  BY CoreParts
<1>2. /\ listener \in LiveIn(sockets) /\ listener \in Ids
      /\ sockets[listener].state = "Listening"
      /\ i \in JoinedIn(sockets) /\ i \in LiveIn(sockets) /\ i \in Ids
      /\ sockets[i].state = "Connected" /\ i # listener
  BY HeadIs
<1>3. PICK fd : fd = Least(Free(files[p]))
  OBVIOUS
<1>4. fd \in Fds /\ files[p][fd] = NoFile
  BY <1>1, <1>3, FreeFd
<1>5. PICK x : x = [socket |-> i, cloexec |-> cloexec]
  OBVIOUS
<1>6. x \in OpenFiles /\ x.socket = i
  BY <1>2, <1>5 DEF OpenFiles
<1>7. files' = [files EXCEPT ![p] = [files[p] EXCEPT ![fd] = x]]
  BY <1>3, <1>5 DEF GiveAccepted
<1>8. FilesAre(files') /\ Placed(files, files', p, fd, i)
  <2>1. FilesAre(files') /\ Placed(files, files', p, fd, x.socket)
    BY <1>1, <1>4, <1>6, <1>7, PlacedIs
  <2> QED BY <2>1, <1>6
<1>9. PICK z : z = [sockets[listener] EXCEPT !.queue = Tail(@)]
  OBVIOUS
<1>10. /\ z \in Records /\ z # NoSocket /\ z.state = "Listening"
       /\ z.edge = sockets[listener].edge
       /\ z.references = sockets[listener].references /\ z.ends = sockets[listener].ends
       /\ z.queue = Tail(sockets[listener].queue)
  BY <1>9, DequeuedIs
<1>11. /\ SocketsAre(sockets') /\ sockets'[listener] = z
       /\ \A j \in Ids : j # listener => sockets'[j] = sockets[j]
  <2>1. sockets' = [sockets EXCEPT ![listener] = z]
    BY <1>9 DEF GiveAccepted
  <2> QED BY <1>1, <1>2, <1>10, <2>1 DEF SocketsAre
<1>12. LiveIn(sockets') = LiveIn(sockets)
  BY <1>2, <1>10, <1>11 DEF LiveIn
<1>13. JoinedStay
  BY <1>2, <1>10, <1>11 DEF JoinedStay, JoinedIn
<1>14. EdgesStay
  <2>1. \A j \in LiveIn(sockets) : sockets[j].edge # 0 => sockets[j].state = "Connected"
    BY CoreParts DEF EventsAre
  <2> QED BY <2>1, <1>2, <1>10, <1>11, <1>12 DEF EdgesStay, LiveIn
<1>15. Dequeued(files, sockets, files', sockets', listener, i)
  <2>1. OnElse(files, files', i) /\ (On(files, {i}) = {} => Cardinality(On(files', {i})) = 1)
    BY <1>4, <1>8, PlacedOn
  <2>2. On(files, {i}) = {}
    <3>1. PICK q : q = sockets[listener].queue
      OBVIOUS
    <3>2. q \in Seq(Ids) /\ q # <<>> /\ i = Head(q)
      BY <1>1, <1>2, <3>1, LiveIsRecord
    <3>3. 1 \in DOMAIN q /\ i = q[1]
      BY <3>2
    <3> QED BY <1>1, <1>2, <3>1, <3>3 DEF QueuesAre
  <2>3. \A j \in LiveIn(sockets') : Holds(sockets, sockets', j)
    BY <1>2, <1>10, <1>11, <1>12 DEF Holds, LiveIn
  <2>4. \A j \in LiveIn(sockets') \ {listener} : sockets'[j].queue = sockets[j].queue
    BY <1>11 DEF LiveIn
  <2> QED BY <1>2, <1>10, <1>11, <1>12, <2>1, <2>2, <2>3, <2>4 DEF Dequeued, OnElse
<1>16. HoldersStay
  <2> SUFFICES ASSUME NEW s \in Slots
               PROVE  /\ HoldersSame(files, sockets, files', sockets', Hearing(sockets, s))
                      /\ HoldersSame(files, sockets, files', sockets', Saying(sockets, s))
    BY DEF HoldersStay
  <2>1. i \in LiveIn(sockets')
    BY <1>2, <1>12
  <2> QED BY <2>1, <1>1, <1>15, DequeuedHolders
<1>17. DescriptorsLive(files', sockets')
  BY <1>1, <1>8, <1>15, DequeuedDescriptors
<1>18. QueuesAre(files', sockets', adrift')
  <2>1. QueuesAre(files', sockets', adrift)
    BY <1>1, <1>15, DequeuedQueues
  <2> QED BY <2>1
<1>19. ReferencesAre(files', sockets', adrift')
  <2>1. ReferencesAre(files', sockets', adrift)
    BY <1>1, <1>15, DequeuedReferences
  <2> QED BY <2>1
<1>20. rings' = rings /\ skewed' = skewed
  BY DEF GiveAccepted
<1>21. NetIs(net') /\ net'.events = net.events /\ net'.connections = net.connections
  BY <1>1
<1> QED BY <1>8, <1>11, <1>13, <1>14, <1>16, <1>17, <1>18, <1>19, <1>20, <1>21, StillHolds

\* What a ring is after n sockets that named it went.
LEMMA DetachedIs ==
  ASSUME NEW r \in RingRecords, NEW n \in Nat, NEW q, q = Detached(r, n)
  PROVE  /\ q \in RingRecords /\ q.readers = r.readers /\ q.writers = r.writers
         /\ q.attached = SaturatingSub(r.attached, n)
         /\ q.bytes = r.bytes \/ q = FreeRing
<1>0. r.readers \in Nat /\ r.writers \in Nat /\ r.attached \in Nat /\ r.bytes \in Seq(Nat)
  BY DEF RingRecords
<1>1. PICK m : m = SaturatingSub(r.attached, n)
  OBVIOUS
<1>2. m \in Nat
  BY <1>0, <1>1, AdjustedNat
<1>3. CASE r = FreeRing
  <2>1. q = r
    BY <1>3 DEF Detached
  <2>2. r.attached = 0
    BY <1>3 DEF FreeRing
  <2>3. SaturatingSub(r.attached, n) = 0
    BY <2>2 DEF SaturatingSub
  <2> QED BY <2>1, <2>2, <2>3
<1>4. CASE r # FreeRing
  <2>1. PICK w : w = [r EXCEPT !.attached = m]
    OBVIOUS
  <2>2. /\ w \in RingRecords /\ w.readers = r.readers /\ w.writers = r.writers
        /\ w.attached = m /\ w.bytes = r.bytes
    BY <1>2, <2>1 DEF RingRecords
  <2>3. q = FreeIfUnused(w)
    BY <1>1, <1>4, <2>1 DEF Detached
  <2>4. FreeRing \in RingRecords
    BY DEF FreeRing, RingRecords
  <2> QED BY <1>1, <2>2, <2>3, <2>4 DEF FreeIfUnused, FreeRing
<1> QED BY <1>3, <1>4

\* What is said of the connections is said of some of them.
LEMMA FewerCarried ==
  ASSUME NEW k, NEW l, NEW car, NEW str, CarriedAre(k, car, str),
         \A j \in JoinedIn(l) : /\ j \in JoinedIn(k) /\ l[j].ends = k[j].ends
                                /\ l[j].edge = k[j].edge
  PROVE  CarriedAre(l, car, str)
<1>1. /\ \A s \in Slots : car[s] \in 0..Len(str)
      /\ \A s, t \in Slots : car[s] = car[t] /\ car[s] # 0 => s = t
  BY DEF CarriedAre
<1>2. ASSUME NEW i \in JoinedIn(l) PROVE EndFits(i, car, str, l)
  <2>1. EndFits(i, car, str, k)
    BY DEF CarriedAre, EndFits
  <2> QED BY <2>1 DEF EndFits
<1>3. ASSUME NEW i \in JoinedIn(l), NEW j \in JoinedIn(l)
      PROVE  /\ l[j].ends.hears = l[i].ends.hears => i = j
             /\ l[j].ends.says = l[i].ends.says => i = j
             /\ l[i].edge # 0 => l[j].ends.says # l[i].ends.hears
             /\ l[i].edge # 0 => l[j].ends.hears # l[i].ends.says
  <2>1. /\ i \in JoinedIn(k) /\ l[i].ends = k[i].ends /\ l[i].edge = k[i].edge
        /\ j \in JoinedIn(k) /\ l[j].ends = k[j].ends
    OBVIOUS
  <2> QED BY <2>1 DEF CarriedAre
<1> QED BY <1>1, <1>2, <1>3 DEF CarriedAre, EndFits

\* A step that drops a connection nobody accepted.
Dropping ==
  /\ \A i \in JoinedIn(sockets') :
       /\ i \in JoinedIn(sockets)
       /\ sockets'[i].ends = sockets[i].ends /\ sockets'[i].edge = sockets[i].edge
  /\ \A s \in Slots :
       /\ rings'[s].readers = rings[s].readers /\ rings'[s].writers = rings[s].writers
       /\ rings'[s].bytes = rings[s].bytes \/ rings'[s] = FreeRing
  /\ streams' = streams /\ net' = net

\* An accept that cannot write the address drops the connection.
LEMMA DropHolds ==
  ASSUME Core, NEW listener, NEW i,
         Is(listener, "Listening"), sockets[listener].queue # <<>>,
         i = Head(sockets[listener].queue), DropAccepted(listener, i),
         UNCHANGED <<net, batch, streams, carries, adrift, menu>>
  PROVE  Core' /\ Dropping
<1>1. /\ FilesAre(files) /\ SocketsAre(sockets) /\ DescriptorsLive(files, sockets)
      /\ QueuesAre(files, sockets, adrift) /\ ReferencesAre(files, sockets, adrift)
      /\ RingsAre(rings) /\ AttachedAre(sockets, rings)
      /\ CountsAre(files, sockets, rings, streams, carries, skewed)
      /\ CarriedAre(sockets, carries, streams)
      /\ EventsAre(sockets, streams, Pending, net.connections)
      /\ NetIs(net) /\ StreamsAre(streams) /\ batch \in Seq(Events)
      /\ carries \in [Slots -> Nat] /\ menu \in Menus
      /\ Len(streams) \in Nat /\ Len(net.connections) \in Nat /\ Pending \in Seq(Events)
  BY CoreParts
<1>2. /\ listener \in LiveIn(sockets) /\ listener \in Ids
      /\ sockets[listener].state = "Listening"
      /\ i \in JoinedIn(sockets) /\ i \in LiveIn(sockets) /\ i \in Ids
      /\ sockets[i].state = "Connected" /\ i # listener
  BY HeadIs
<1>3. files' = files
  BY DEF DropAccepted
<1>4. PICK z : z = [sockets[listener] EXCEPT !.queue = Tail(@)]
  OBVIOUS
<1>5. /\ z \in Records /\ z # NoSocket /\ z.state = "Listening"
      /\ z.edge = sockets[listener].edge
      /\ z.references = sockets[listener].references /\ z.ends = sockets[listener].ends
      /\ z.queue = Tail(sockets[listener].queue)
  BY <1>4, DequeuedIs
<1>6. /\ SocketsAre(sockets') /\ sockets'[listener] = z /\ sockets'[i] = NoSocket
      /\ \A j \in Ids : j # listener /\ j # i => sockets'[j] = sockets[j]
  <2>1. sockets' = [sockets EXCEPT ![listener] = z, ![i] = NoSocket]
    BY <1>4 DEF DropAccepted
  <2> QED BY <1>1, <1>2, <1>5, <2>1 DEF SocketsAre
<1>7. LiveIn(sockets') = LiveIn(sockets) \ {i}
  BY <1>2, <1>5, <1>6 DEF LiveIn
<1>8. /\ JoinedIn(sockets') = JoinedIn(sockets) \ {i}
      /\ \A j \in JoinedIn(sockets') :
           sockets'[j].ends = sockets[j].ends /\ sockets'[j].edge = sockets[j].edge
  BY <1>2, <1>5, <1>6 DEF JoinedIn
<1>9. Dequeued(files, sockets, files', sockets', listener, i)
  <2>1. On(files, {i}) = {}
    <3>1. PICK q : q = sockets[listener].queue
      OBVIOUS
    <3>2. q \in Seq(Ids) /\ q # <<>> /\ i = Head(q)
      BY <1>1, <1>2, <3>1, LiveIsRecord
    <3>3. 1 \in DOMAIN sockets[listener].queue /\ i = sockets[listener].queue[1]
      BY <3>1, <3>2
    <3> QED BY <1>1, <1>2, <3>3 DEF QueuesAre
  <2>2. On(files', {i}) = {} /\ i \notin LiveIn(sockets')
    BY <1>3, <1>7, <2>1
  <2>3. \A j \in LiveIn(sockets') : Holds(sockets, sockets', j)
    BY <1>2, <1>5, <1>6, <1>7 DEF Holds, LiveIn
  <2>4. \A j \in LiveIn(sockets') \ {listener} : sockets'[j].queue = sockets[j].queue
    BY <1>6, <1>7 DEF LiveIn
  <2>5. \A S : On(files', S) = On(files, S)
    BY <1>3
  <2> QED BY <1>2, <1>5, <1>6, <1>7, <2>2, <2>3, <2>4, <2>5 DEF Dequeued
<1>10. DescriptorsLive(files', sockets')
  BY <1>1, <1>3, <1>9, DequeuedDescriptors
<1>11. QueuesAre(files', sockets', adrift')
  <2>1. QueuesAre(files', sockets', adrift)
    BY <1>1, <1>9, DequeuedQueues
  <2> QED BY <2>1
<1>12. ReferencesAre(files', sockets', adrift')
  <2>1. ReferencesAre(files', sockets', adrift)
    BY <1>1, <1>9, DequeuedReferences
  <2> QED BY <2>1
<1>13. ASSUME NEW s \in Slots
       PROVE  /\ rings'[s] \in RingRecords
              /\ rings'[s].readers = rings[s].readers /\ rings'[s].writers = rings[s].writers
              /\ rings'[s].attached = SaturatingSub(rings[s].attached, NamedIn(sockets, {i}, s))
              /\ rings'[s].bytes = rings[s].bytes \/ rings'[s] = FreeRing
  <2>1. PICK n : n = NamedIn(sockets, {i}, s)
    OBVIOUS
  <2>2. Connected = JoinedIn(sockets)
    BY DEF Connected, Live, JoinedIn
  <2>3. rings'[s] = Detached(rings[s], n)
    BY <2>1, <2>2 DEF DropAccepted, NamedBy, NamedIn
  <2>4. n \in Nat
    BY <2>1, NamedSplits
  <2>5. rings[s] \in RingRecords
    BY <1>1 DEF RingsAre
  <2> QED BY <2>1, <2>3, <2>4, <2>5, DetachedIs
<1>14. RingsAre(rings')
  <2>1. rings' = [s \in Slots |-> rings'[s]]
    BY DEF DropAccepted
  <2> QED BY <2>1, <1>13 DEF RingsAre
<1>15. AttachedAre(sockets', rings')
  <2> SUFFICES ASSUME NEW s \in Slots PROVE rings'[s].attached = NamingIn(sockets', s)
    BY DEF AttachedAre
  <2>1. rings'[s].attached = SaturatingSub(rings[s].attached, NamedIn(sockets, {i}, s))
    BY <1>13
  <2>2. rings[s].attached = NamingIn(sockets, s)
    BY <1>1 DEF AttachedAre
  <2>3. NamingIn(sockets', s) = NamedIn(sockets, Ids \ {i}, s)
    <3>1. /\ {j \in JoinedIn(sockets') : sockets'[j].ends.receive = s}
               = {j \in (Ids \ {i}) \cap JoinedIn(sockets) : sockets[j].ends.receive = s}
          /\ {j \in JoinedIn(sockets') : sockets'[j].ends.transmit = s}
               = {j \in (Ids \ {i}) \cap JoinedIn(sockets) : sockets[j].ends.transmit = s}
      BY <1>8 DEF JoinedIn
    <3> QED BY <3>1 DEF NamingIn, NamedIn
  <2>4. /\ NamingIn(sockets, s) = NamedIn(sockets, {i}, s) + NamedIn(sockets, Ids \ {i}, s)
        /\ NamedIn(sockets, {i}, s) \in Nat /\ NamedIn(sockets, Ids \ {i}, s) \in Nat
    BY NamedSplits
  <2> QED BY <2>1, <2>2, <2>3, <2>4 DEF SaturatingSub
<1>16. CountsAre(files', sockets', rings', streams', carries', skewed')
  <2> SUFFICES ASSUME NEW s \in Slots, carries[s] \notin skewed' \cup {0}
               PROVE  /\ rings'[s].readers = Count(files', sockets', Hearing(sockets', s))
                                               + One(streams[carries[s]].reads # 0)
                      /\ rings'[s].writers = Count(files', sockets', Saying(sockets', s))
                                               + One(streams[carries[s]].writes # 0)
    BY DEF CountsAre
  <2>1. skewed' = skewed \cup StreamsOf({i})
    BY DEF DropAccepted
  <2>2. sockets[i].ends.hears \in skewed' /\ sockets[i].ends.says \in skewed'
    <3>1. i \in {i} \cap Connected
      BY <1>2 DEF Connected, Live, LiveIn
    <3>2. /\ sockets[i].ends.hears \in StreamsOf({i})
          /\ sockets[i].ends.says \in StreamsOf({i})
      <4>1. {sockets[i].ends.hears, sockets[i].ends.says}
              \in {{sockets[j].ends.hears, sockets[j].ends.says} : j \in {i} \cap Connected}
        BY <3>1
      <4> QED BY <4>1 DEF StreamsOf
    <3> QED BY <3>2, <2>1
  <2>3. sockets[i].ends.receive # s /\ sockets[i].ends.transmit # s
    <3>1. carries[sockets[i].ends.receive] = sockets[i].ends.hears
          /\ carries[sockets[i].ends.transmit] = sockets[i].ends.says
      BY <1>1, <1>2 DEF CarriedAre
    <3> QED BY <3>1, <2>2
  <2>4. Hearing(sockets', s) = Hearing(sockets, s) /\ Saying(sockets', s) = Saying(sockets, s)
    BY <2>3, <1>8 DEF Hearing, Saying
  <2>5. i \notin Hearing(sockets, s) /\ i \notin Saying(sockets, s)
    BY <2>3 DEF Hearing, Saying
  <2>6. /\ Count(files', sockets', Hearing(sockets, s)) = Count(files, sockets, Hearing(sockets, s))
        /\ Count(files', sockets', Saying(sockets, s)) = Count(files, sockets, Saying(sockets, s))
    BY <2>5, <1>1, <1>9, DequeuedHolders DEF HoldersSame
  <2>7. /\ rings[s].readers = Count(files, sockets, Hearing(sockets, s))
                                + One(streams[carries[s]].reads # 0)
        /\ rings[s].writers = Count(files, sockets, Saying(sockets, s))
                                + One(streams[carries[s]].writes # 0)
    BY <1>1, <2>1 DEF CountsAre
  <2>8. rings'[s].readers = rings[s].readers /\ rings'[s].writers = rings[s].writers
    BY <1>13
  <2> QED BY <2>4, <2>6, <2>7, <2>8
<1>17. CarriedAre(sockets', carries', streams')
  <2>1. carries' = carries /\ streams' = streams
    OBVIOUS
  <2>2. \A j \in JoinedIn(sockets') :
          j \in JoinedIn(sockets) /\ sockets'[j].ends = sockets[j].ends
            /\ sockets'[j].edge = sockets[j].edge
    BY <1>8
  <2>3. CarriedAre(sockets', carries, streams)
    BY <1>1, <2>2, FewerCarried
  <2> QED BY <2>1, <2>3
<1>18. EventsAre(sockets', streams', Pending', net'.connections)
  <2>1. Pending' = Pending /\ net' = net /\ streams' = streams
    BY PendingStill
  <2>2. HostStays /\ PendingStays /\ StreamsGrow
    BY <1>1, <2>1 DEF HostStays, PendingStays, StreamsGrow
  <2>3. EdgesStay
    <3>1. \A j \in LiveIn(sockets) : sockets[j].edge # 0 => sockets[j].state = "Connected"
      BY <1>1 DEF EventsAre
    <3> QED BY <3>1, <1>2, <1>5, <1>6, <1>7 DEF EdgesStay, LiveIn
  <2>4. StreamsAre(streams')
    BY <1>1
  <2> QED BY <1>1, <2>2, <2>3, <2>4, EventsStay
<1>19. Core'
  BY <1>1, <1>3, <1>6, <1>10, <1>11, <1>12, <1>14, <1>15, <1>16, <1>17, <1>18
     DEF Core, TypesAre, Agree
<1>20. Dropping
  BY <1>8, <1>13 DEF Dropping
<1> QED BY <1>19, <1>20

\* What execve leaves of the tables: fewer descriptors, of the sockets it lets go of.
LetGo(f, g, p, held) ==
  /\ \A q \in Procs, e \in Fds : g[q][e] = f[q][e] \/ (g[q][e] = NoFile /\ f[q][e].socket \in held)
  /\ \A i \in held : \E e \in Fds : /\ f[p][e] # NoFile /\ f[p][e].socket = i /\ g[p][e] = NoFile

\* execve leaves fewer descriptors, and only of sockets it lets go of.
LEMMA LetGoOn ==
  ASSUME NEW f, NEW g, NEW p \in Procs, NEW held, LetGo(f, g, p, held)
  PROVE  /\ \A S : On(g, S) \subseteq On(f, S)
         /\ \A S : S \cap held = {} => On(g, S) = On(f, S)
         /\ \A i \in held : Cardinality(On(g, {i})) < Cardinality(On(f, {i}))
<1>1. ASSUME NEW S PROVE On(g, S) \subseteq On(f, S)
  BY DEF LetGo, On
<1>2. ASSUME NEW S, S \cap held = {} PROVE On(g, S) = On(f, S)
  BY <1>2 DEF LetGo, On
<1>3. ASSUME NEW i \in held PROVE Cardinality(On(g, {i})) < Cardinality(On(f, {i}))
  <2>1. PICK e \in Fds : f[p][e] # NoFile /\ f[p][e].socket = i /\ g[p][e] = NoFile
    BY DEF LetGo
  <2>2. <<p, e>> \in On(f, {i}) /\ <<p, e>> \notin On(g, {i})
    BY <2>1 DEF On
  <2>3. On(g, {i}) \subseteq On(f, {i}) /\ On(g, {i}) # On(f, {i})
    BY <1>1, <2>2
  <2>4. IsFiniteSet(On(f, {i}))
    BY OnFinite
  <2>5. Cardinality(On(g, {i})) <= Cardinality(On(f, {i}))
    BY <2>3, <2>4, FS_Subset
  <2>6. Cardinality(On(g, {i})) # Cardinality(On(f, {i}))
    BY <2>3, <2>4, FS_Subset
  <2>7. Cardinality(On(g, {i})) \in Nat /\ Cardinality(On(f, {i})) \in Nat
    BY OnFinite
  <2> QED BY <2>5, <2>6, <2>7
<1> QED BY <1>1, <1>2, <1>3

\* execve.
LEMMA ExecveHolds ==
  ASSUME Core, NEW p \in Procs, Execve(p)
  PROVE  Core' /\ Resting
<1>1. /\ FilesAre(files) /\ SocketsAre(sockets) /\ DescriptorsLive(files, sockets)
      /\ QueuesAre(files, sockets, adrift) /\ ReferencesAre(files, sockets, adrift)
      /\ CarriedAre(sockets, carries, streams) /\ NetIs(net)
      /\ EventsAre(sockets, streams, Pending, net.connections)
  BY CoreParts
<1>2. PICK marked : marked = {fd \in Open(files[p]) : files[p][fd].cloexec}
  OBVIOUS
<1>3. PICK held : held = {SocketAt(p, fd) : fd \in marked}
  OBVIOUS
<1>4. /\ files' = [files EXCEPT ![p] = [fd \in Fds |-> IF fd \in marked THEN NoFile
                                                       ELSE files[p][fd]]]
      /\ adrift' = adrift \cup held /\ skewed' = skewed \cup StreamsOf(held)
      /\ rings' = rings /\ sockets' = sockets /\ net' = net /\ batch' = batch
      /\ streams' = streams /\ carries' = carries /\ menu' = menu
  <2>1. files' = [files EXCEPT ![p] = [fd \in Fds |-> IF fd \in marked THEN NoFile ELSE @[fd]]]
    BY <1>2 DEF Execve
  <2>2. /\ adrift' = adrift \cup held /\ skewed' = skewed \cup StreamsOf(held)
        /\ rings' = rings /\ sockets' = sockets /\ net' = net /\ batch' = batch
        /\ streams' = streams /\ carries' = carries /\ menu' = menu
    BY <1>2, <1>3 DEF Execve
  <2> QED BY <2>1, <2>2
<1>5. /\ FilesAre(files') /\ \A q \in Procs : q # p => files'[q] = files[q]
      /\ \A e \in Fds : files'[p][e] = IF e \in marked THEN NoFile ELSE files[p][e]
  <2>1. [fd \in Fds |-> IF fd \in marked THEN NoFile ELSE files[p][fd]]
          \in [Fds -> OpenFiles \cup {NoFile}]
    BY <1>1 DEF FilesAre
  <2> QED BY <1>1, <1>4, <2>1 DEF FilesAre
<1>6. LetGo(files, files', p, held)
  BY <1>2, <1>3, <1>5 DEF LetGo, Open, SocketAt
<1>7. held \subseteq LiveIn(sockets) /\ \A i \in held : On(files, {i}) # {}
  <2> SUFFICES ASSUME NEW i \in held PROVE i \in LiveIn(sockets) /\ On(files, {i}) # {}
    OBVIOUS
  <2>1. PICK e \in Fds : files[p][e] # NoFile /\ files[p][e].socket = i
    BY <1>6 DEF LetGo
  <2>2. files[p][e] \in OpenFiles
    BY <1>1, <2>1 DEF FilesAre
  <2>3. i \in Ids /\ sockets[i] # NoSocket
    BY <1>1, <2>1, <2>2 DEF OpenFiles, DescriptorsLive
  <2>4. <<p, e>> \in On(files, {i})
    BY <2>1 DEF On
  <2> QED BY <2>3, <2>4 DEF LiveIn
<1>8. DescriptorsLive(files', sockets')
  BY <1>1, <1>4, <1>6 DEF DescriptorsLive, LetGo
<1>9. QueuesAre(files', sockets', adrift')
  <2>1. ASSUME NEW i \in LiveIn(sockets), NEW a \in DOMAIN sockets[i].queue
        PROVE  /\ sockets[i].queue[a] \in JoinedIn(sockets) \ adrift'
               /\ On(files', {sockets[i].queue[a]}) = {}
    <3>1. /\ sockets[i].queue[a] \in JoinedIn(sockets) \ adrift
          /\ On(files, {sockets[i].queue[a]}) = {}
      BY <1>1 DEF QueuesAre
    <3>2. sockets[i].queue[a] \notin held
      BY <3>1, <1>7
    <3>3. On(files', {sockets[i].queue[a]}) \subseteq On(files, {sockets[i].queue[a]})
      BY <1>6, LetGoOn
    <3> QED BY <3>1, <3>2, <3>3, <1>4
  <2>2. /\ \A i \in LiveIn(sockets) : sockets[i].state # "Listening" => sockets[i].queue = <<>>
        /\ \A i, j \in LiveIn(sockets) :
             \A a \in DOMAIN sockets[i].queue, b \in DOMAIN sockets[j].queue :
               sockets[i].queue[a] = sockets[j].queue[b] => i = j /\ a = b
    BY <1>1 DEF QueuesAre
  <2>3. QueuesAre(files', sockets, adrift')
    BY <2>1, <2>2 DEF QueuesAre
  <2> QED BY <2>3, <1>4
<1>10. ReferencesAre(files', sockets', adrift')
  <2>1. adrift' \subseteq LiveIn(sockets)
    BY <1>1, <1>4, <1>7 DEF ReferencesAre
  <2>2. ASSUME NEW i \in LiveIn(sockets)
        PROVE  IF i \in adrift' THEN sockets[i].references > Count(files', sockets, {i})
                                ELSE sockets[i].references = Count(files', sockets, {i})
    <3>1. /\ i \in WaitingIn(sockets) => Count(files, sockets, {i}) = Cardinality(On(files, {i})) + 1
          /\ i \notin WaitingIn(sockets) => Count(files, sockets, {i}) = Cardinality(On(files, {i}))
          /\ i \in WaitingIn(sockets) => Count(files', sockets, {i}) = Cardinality(On(files', {i})) + 1
          /\ i \notin WaitingIn(sockets) => Count(files', sockets, {i}) = Cardinality(On(files', {i}))
      BY CountOne
    <3>2. Cardinality(On(files', {i})) \in Nat /\ Cardinality(On(files, {i})) \in Nat
      BY OnFinite
    <3>3. IF i \in adrift THEN sockets[i].references > Count(files, sockets, {i})
                          ELSE sockets[i].references = Count(files, sockets, {i})
      BY <1>1 DEF ReferencesAre
    <3>4. sockets[i].references \in Nat
      BY <1>1, LiveIsRecord
    <3>5. CASE i \in held
      <4>1. Cardinality(On(files', {i})) < Cardinality(On(files, {i}))
        BY <3>5, <1>6, LetGoOn
      <4>2. i \in adrift'
        BY <3>5, <1>4
      <4> QED BY <3>1, <3>2, <3>3, <3>4, <4>1, <4>2
    <3>6. CASE i \notin held
      <4>1. {i} \cap held = {}
        BY <3>6
      <4>2. On(files', {i}) = On(files, {i})
        BY <4>1, <1>6, LetGoOn
      <4>3. i \in adrift' <=> i \in adrift
        BY <3>6, <1>4
      <4> QED BY <3>1, <3>3, <4>2, <4>3
    <3> QED BY <3>5, <3>6
  <2> QED BY <2>1, <2>2, <1>4 DEF ReferencesAre
<1>11. HoldersStay
  <2> SUFFICES ASSUME NEW s \in Slots, carries[s] \notin skewed' \cup {0}
               PROVE  /\ HoldersSame(files, sockets, files', sockets', Hearing(sockets, s))
                      /\ HoldersSame(files, sockets, files', sockets', Saying(sockets, s))
    BY DEF HoldersStay
  <2>1. ASSUME NEW i \in held, i \in JoinedIn(sockets)
        PROVE  sockets[i].ends.receive # s /\ sockets[i].ends.transmit # s
    <3>1. i \in held \cap Connected
      BY <2>1 DEF Connected, Live, JoinedIn
    <3>2. sockets[i].ends.hears \in skewed' /\ sockets[i].ends.says \in skewed'
      BY <3>1, <1>4 DEF StreamsOf
    <3>3. /\ carries[sockets[i].ends.receive] = sockets[i].ends.hears
          /\ carries[sockets[i].ends.transmit] = sockets[i].ends.says
      BY <1>1, <2>1 DEF CarriedAre
    <3> QED BY <3>2, <3>3
  <2>2. Hearing(sockets, s) \cap held = {} /\ Saying(sockets, s) \cap held = {}
    BY <2>1 DEF Hearing, Saying
  <2>a. \A S : S \cap held = {} => On(files', S) = On(files, S)
    BY <1>6, LetGoOn
  <2>3. On(files', Hearing(sockets, s)) = On(files, Hearing(sockets, s))
    BY <2>2, <2>a, Zenon
  <2>4. On(files', Saying(sockets, s)) = On(files, Saying(sockets, s))
    BY <2>2, <2>a, Zenon
  <2> QED BY <2>3, <2>4, <1>4 DEF HoldersSame, Count
<1>12. JoinedStay
  BY <1>4 DEF JoinedStay
<1>13. EdgesStay
  BY <1>1, <1>4 DEF EdgesStay, EventsAre
<1>14. SocketsAre(sockets') /\ NetIs(net') /\ skewed \subseteq skewed'
       /\ net'.events = net.events /\ net'.connections = net.connections
  BY <1>1, <1>4
<1> QED BY <1>4, <1>5, <1>8, <1>9, <1>10, <1>11, <1>12, <1>13, <1>14, StillHolds

\* accept.
LEMMA AcceptHolds ==
  ASSUME Core, NEW p \in Procs, NEW fd \in Fds, NEW cloexec \in BOOLEAN,
         NEW fault \in BOOLEAN, Accept(p, fd, cloexec, fault)
  PROVE  Core' /\ (Resting \/ Dropping)
<1>1. PICK listener : listener = SocketAt(p, fd)
  OBVIOUS
<1>2. PICK i : i = Head(sockets[listener].queue)
  OBVIOUS
<1>3. /\ Is(listener, "Listening") /\ sockets[listener].queue # <<>>
      /\ \/ DropAccepted(listener, i)
         \/ Free(files[p]) # {} /\ GiveAccepted(p, listener, i, cloexec)
  BY <1>1, <1>2 DEF Accept, CompleteAccept
<1>4. UNCHANGED <<net, batch, streams, carries, adrift, menu>>
  BY DEF Accept
<1>5. CASE DropAccepted(listener, i)
  BY <1>2, <1>3, <1>4, <1>5, DropHolds
<1>6. CASE Free(files[p]) # {} /\ GiveAccepted(p, listener, i, cloexec)
  BY <1>2, <1>3, <1>4, <1>6, GiveHolds
<1> QED BY <1>3, <1>5, <1>6

\* A parked accept goes on.
LEMMA ResumeAcceptHolds ==
  ASSUME Core, NEW p \in Procs, NEW fault \in BOOLEAN, ResumeAccept(p, fault)
  PROVE  Core' /\ (Resting \/ Dropping)
<1>1. PICK listener : listener = accepting[p]
  OBVIOUS
<1>2. PICK i : i = Head(sockets[listener].queue)
  OBVIOUS
<1>3. /\ Is(listener, "Listening") /\ sockets[listener].queue # <<>>
      /\ \/ DropAccepted(listener, i)
         \/ Free(files[p]) # {} /\ GiveAccepted(p, listener, i, FALSE)
  BY <1>1, <1>2 DEF ResumeAccept, CompleteAccept
<1>4. UNCHANGED <<net, batch, streams, carries, adrift, menu>>
  BY DEF ResumeAccept
<1>5. CASE DropAccepted(listener, i)
  BY <1>2, <1>3, <1>4, <1>5, DropHolds
<1>6. CASE Free(files[p]) # {} /\ GiveAccepted(p, listener, i, FALSE)
  BY <1>2, <1>3, <1>4, <1>6, GiveHolds
<1> QED BY <1>3, <1>5, <1>6

\* An accept parks.
LEMMA ParkOnAcceptHolds ==
  ASSUME Core, NEW p \in Procs, NEW fd \in Fds, ParkOnAccept(p, fd)
  PROVE  Core' /\ Resting
<1>1. UNCHANGED <<rings, sockets, files, net, batch, history, menu>>
  BY DEF ParkOnAccept
<1> QED BY <1>1, UnchangedHolds

\* What a descriptor is copied from, and where it may go.
LEMMA CopyIs ==
  ASSUME Core, NEW p \in Procs, NEW fd, fd \in Open(files[p]), NEW new \in Fds,
         NEW table, table = [files[p] EXCEPT ![new] = [files[p][fd] EXCEPT !.cloexec = FALSE]]
  PROVE  table \in [Fds -> OpenFiles \cup {NoFile}] /\ NamesOld(table)
<1>1. FilesAre(files)
  BY CoreParts
<1>2. fd \in Fds /\ files[p][fd] # NoFile /\ files[p] \in [Fds -> OpenFiles \cup {NoFile}]
  BY <1>1 DEF Open, FilesAre
<1>3. files[p][fd] \in OpenFiles
  BY <1>2
<1>4. PICK x : x = [files[p][fd] EXCEPT !.cloexec = FALSE]
  OBVIOUS
<1>5. x \in OpenFiles /\ x.socket = files[p][fd].socket
  BY <1>3, <1>4 DEF OpenFiles
<1>6. table = [files[p] EXCEPT ![new] = x]
  BY <1>4
<1>7. /\ table \in [Fds -> OpenFiles \cup {NoFile}]
      /\ table[new] = x /\ \A e \in Fds : e # new => table[e] = files[p][e]
  BY <1>2, <1>5, <1>6
<1>8. ASSUME NEW e \in Fds, table[e] # NoFile
      PROVE  \E q \in Procs, d \in Fds :
               files[q][d] # NoFile /\ files[q][d].socket = table[e].socket
  <2>1. CASE e = new
    BY <2>1, <1>2, <1>5, <1>7
  <2>2. CASE e # new
    BY <2>2, <1>7, <1>8
  <2> QED BY <2>1, <2>2
<1> QED BY <1>7, <1>8 DEF NamesOld

\* dup.
LEMMA DupHolds ==
  ASSUME Core, NEW p \in Procs, NEW fd \in Fds, Dup(p, fd)
  PROVE  Core' /\ Tabling
<1>1. menu \in Menus
  BY CoreParts
<1>2. PICK new : new = Least(Free(files[p]))
  OBVIOUS
<1>3. new \in Fds
  BY <1>1, <1>2, FreeFd DEF Dup
<1>4. PICK table : table = [files[p] EXCEPT ![new] = [files[p][fd] EXCEPT !.cloexec = FALSE]]
  OBVIOUS
<1>5. SetTable(p, table)
  BY <1>2, <1>4 DEF Dup
<1>6. fd \in Open(files[p])
  BY DEF Dup
<1>7. table \in [Fds -> OpenFiles \cup {NoFile}] /\ NamesOld(table)
  BY <1>3, <1>4, <1>6, CopyIs
<1>8. Tabled(p)
  BY <1>5, <1>7, SetTableIs
<1> QED BY <1>8, SetTableHolds

\* dup2.
LEMMA Dup2Holds ==
  ASSUME Core, NEW p \in Procs, NEW fd \in Fds, NEW new \in Fds, Dup2(p, fd, new)
  PROVE  Core' /\ Tabling
<1>4. PICK table : table = [files[p] EXCEPT ![new] = [files[p][fd] EXCEPT !.cloexec = FALSE]]
  OBVIOUS
<1>5. SetTable(p, table)
  BY <1>4 DEF Dup2
<1>6. fd \in Open(files[p])
  BY DEF Dup2
<1>7. table \in [Fds -> OpenFiles \cup {NoFile}] /\ NamesOld(table)
  BY <1>4, <1>6, CopyIs
<1>8. Tabled(p)
  BY <1>5, <1>7, SetTableIs
<1> QED BY <1>8, SetTableHolds

\* close.
LEMMA CloseHolds ==
  ASSUME Core, NEW p \in Procs, NEW fd \in Fds, Close(p, fd)
  PROVE  Core' /\ Tabling
<1>1. FilesAre(files)
  BY CoreParts
<1>2. PICK table : table = [files[p] EXCEPT ![fd] = NoFile]
  OBVIOUS
<1>3. SetTable(p, table)
  BY <1>2 DEF Close
<1>4. files[p] \in [Fds -> OpenFiles \cup {NoFile}]
  BY <1>1 DEF FilesAre
<1>5. /\ table \in [Fds -> OpenFiles \cup {NoFile}]
      /\ \A e \in Fds : table[e] # NoFile => table[e] = files[p][e]
  BY <1>2, <1>4
<1>6. NamesOld(table)
  BY <1>5 DEF NamesOld
<1>7. Tabled(p)
  BY <1>3, <1>5, <1>6, SetTableIs
<1> QED BY <1>7, SetTableHolds

\* fork.
LEMMA ForkHolds ==
  ASSUME Core, NEW p \in Procs, Fork(p)
  PROVE  Core' /\ Tabling
<1>1. FilesAre(files)
  BY CoreParts
<1>2. PICK table : table = files[p]
  OBVIOUS
<1>3. SetTable(next, table) /\ next \in Procs
  BY <1>2 DEF Fork
<1>4. table \in [Fds -> OpenFiles \cup {NoFile}]
  BY <1>1, <1>2 DEF FilesAre
<1>5. NamesOld(table)
  BY <1>2 DEF NamesOld
<1>6. Tabled(next)
  BY <1>3, <1>4, <1>5, SetTableIs
<1> QED BY <1>3, <1>6, SetTableHolds

\* exit.
LEMMA ExitHolds ==
  ASSUME Core, NEW p \in Procs, Exit(p)
  PROVE  Core' /\ Tabling
<1>1. SetTable(p, NoFiles)
  BY DEF Exit
<1>2. NoFiles \in [Fds -> OpenFiles \cup {NoFile}] /\ NamesOld(NoFiles)
  BY DEF NoFiles, NamesOld
<1>3. Tabled(p)
  BY <1>1, <1>2, SetTableIs
<1> QED BY <1>3, SetTableHolds

\* The two least of a set that has two.
LEMMA TwoLeast ==
  ASSUME NEW S, S \subseteq Nat, Cardinality(S) >= 2
  PROVE  /\ S # {} /\ S \ {Least(S)} # {}
         /\ Least(S) \in S /\ Least(S \ {Least(S)}) \in S
         /\ Least(S \ {Least(S)}) # Least(S)
<1>1. S # {}
  <2> SUFFICES ASSUME S = {} PROVE FALSE
    OBVIOUS
  <2>1. Cardinality(S) = 0
    BY FS_EmptySet
  <2> QED BY <2>1
<1>2. Least(S) \in S
  BY <1>1, LeastExists
<1>3. PICK T : T = S \ {Least(S)}
  OBVIOUS
<1>4. T # {}
  <2> SUFFICES ASSUME T = {} PROVE FALSE
    OBVIOUS
  <2>1. S = {Least(S)}
    BY <1>2, <1>3
  <2>2. Cardinality({Least(S)}) = 1
    BY FS_Singleton
  <2>3. Cardinality(S) = 1
    BY <2>1, <2>2
  <2> QED BY <2>3
<1>5. Least(T) \in T
  <2>1. T \subseteq Nat
    BY <1>3
  <2> QED BY <1>4, <2>1, LeastExists
<1> QED BY <1>1, <1>2, <1>3, <1>4, <1>5

\* A step that lays two rings.
Wiring ==
  /\ net' = net
  /\ \E a \in Ids, others \in SUBSET Ids, conn \in Nat, n \in Nat :
       /\ WiredTo(a, others, conn) /\ Laid(n, conn)
       /\ conn # 0 => \E x \in DOMAIN Pending :
                        Pending[x].kind = "open" /\ Pending[x].conn = conn

\* Two sockets wired to each other.
LEMMA PairHolds ==
  ASSUME Core, NEW a, NEW b \in Ids, WiredTo(a, {b}, 0), Laid(2, 0), OneHolder(a, {b}),
         HoldersStay, skewed \subseteq skewed', FilesAre(files'), SocketsAre(sockets'),
         net' = net, batch' = batch, menu' = menu, EdgesStay,
         DescriptorsLive(files', sockets'), QueuesAre(files', sockets', adrift'),
         ReferencesAre(files', sockets', adrift')
  PROVE  Core' /\ Wiring
<1>1. /\ NetIs(net) /\ batch \in Seq(Events) /\ StreamsAre(streams) /\ menu \in Menus
      /\ CarriedAre(sockets, carries, streams)
      /\ EventsAre(sockets, streams, Pending, net.connections)
      /\ Len(streams) \in Nat /\ Len(net.connections) \in Nat /\ Pending \in Seq(Events)
  BY CoreParts
<1>2. RingsAre(rings') /\ StreamsAre(streams') /\ carries' \in [Slots -> Nat]
  BY DEF Laid
<1>3. AttachedAre(sockets', rings')
  <2>1. {b} # {}
    OBVIOUS
  <2> QED BY <2>1, WiredAttached
<1>4. CountsAre(files', sockets', rings', streams', carries', skewed')
  BY WiredCounts
<1>5. CarriedAre(sockets', carries', streams')
  BY WiredCarried
<1>6. Pending' = Pending
  BY PendingStill
<1>7. HostStays /\ PendingStays
  BY <1>6 DEF HostStays, PendingStays
<1>8. StreamsGrow
  <2>1. Len(streams) <= Len(streams') /\ \A x \in 1..Len(streams) : streams'[x] = streams[x]
    BY <1>1 DEF Laid
  <2>2. ASSUME NEW x \in 1..Len(streams'), x > Len(streams) PROVE streams'[x].reads = 0
    <3>1. x = UpStream \/ x = DownStream
      BY <1>1, <2>2 DEF Laid, UpStream, DownStream
    <3>2. streams'[UpStream].reads = 0 /\ streams'[DownStream].reads = 0
      BY DEF Laid, Stream
    <3> QED BY <3>1, <3>2
  <2> QED BY <2>1, <2>2 DEF StreamsGrow
<1>9. EventsAre(sockets', streams', Pending', net'.connections)
  BY <1>1, <1>2, <1>7, <1>8, EventsStay
<1>10. Core'
  BY <1>1, <1>2, <1>3, <1>4, <1>5, <1>9 DEF Core, TypesAre, Agree
<1>11. a \in Ids /\ {b} \in SUBSET Ids
  BY DEF WiredTo
<1>12. Wiring
  BY <1>11 DEF Wiring
<1> QED BY <1>10, <1>12

\* The record a socketpair gives an end of its own.
PairEnd(e) == [NewSocket EXCEPT !.state = "Connected", !.ends = e]

\* The end of a pair, as it is put in the arena.
LEMMA PairEndIs ==
  ASSUME NEW e \in Endpoints, NEW z, z = PairEnd(e)
  PROVE  /\ z \in Records /\ z # NoSocket /\ z.state = "Connected" /\ z.references = 1
         /\ z.edge = 0 /\ z.queue = <<>> /\ z.ends = e
<1>1. /\ NewSocket \in Records /\ NewSocket.references = 1 /\ NewSocket.queue = <<>>
      /\ NewSocket.edge = 0
  BY NewSocketIs
<1>2. PICK n : n = NewSocket
  OBVIOUS
<1>3. PICK y : y = [n EXCEPT !.state = "Connected"]
  OBVIOUS
<1>4. /\ y \in Records /\ y.state = "Connected" /\ y.references = 1 /\ y.edge = 0
      /\ y.queue = <<>>
  BY <1>1, <1>2, <1>3 DEF Records
<1>5. z = [y EXCEPT !.ends = e]
  BY <1>2, <1>3 DEF PairEnd
<1>6. /\ z \in Records /\ z.state = "Connected" /\ z.references = 1
      /\ z.edge = 0 /\ z.queue = <<>> /\ z.ends = e
  BY <1>4, <1>5 DEF Records
<1> QED BY <1>6, SocketsAssumption

\* A new socket that no queue holds has its descriptors.
LEMMA NewCount ==
  ASSUME Core, NEW new, NEW adr2,
         Opened(files, sockets, files', sockets', new, adrift, adr2), NEW i \in new
  PROVE  Count(files', sockets', {i}) = Cardinality(On(files', {i}))
<1>1. SocketsAre(sockets) /\ QueuesAre(files, sockets, adrift)
  BY CoreParts
<1>2. WaitingIn(sockets') = WaitingIn(sockets)
  BY <1>1, OpenedWaiting
<1>3. i \notin WaitingIn(sockets)
  <2>1. Waiters(files, sockets, adrift)
    BY <1>1, WaitingIs
  <2> QED BY <2>1 DEF Opened, Waiters, JoinedIn, LiveIn
<1> QED BY <1>2, <1>3, CountOne

\* New sockets leave the others' holders as they were.
LEMMA OpenedStay ==
  ASSUME Core, NEW new, NEW adr2, Opened(files, sockets, files', sockets', new, adrift, adr2)
  PROVE  HoldersStay
<1> SUFFICES ASSUME NEW s \in Slots
             PROVE  /\ HoldersSame(files, sockets, files', sockets', Hearing(sockets, s))
                    /\ HoldersSame(files, sockets, files', sockets', Saying(sockets, s))
  BY DEF HoldersStay
<1>1. new \cap LiveIn(sockets) = {}
  BY DEF Opened
<1>2. Hearing(sockets, s) \cap new = {} /\ Saying(sockets, s) \cap new = {}
  BY <1>1 DEF Hearing, Saying, JoinedIn, LiveIn
<1>3. SocketsAre(sockets) /\ QueuesAre(files, sockets, adrift)
  BY CoreParts
<1> QED BY <1>2, <1>3, OpenedHolders

\* socketpair.
LEMMA MakeSocketpairHolds ==
  ASSUME Core, NEW p \in Procs, MakeSocketpair(p)
  PROVE  Core' /\ Wiring
<1>1. /\ FilesAre(files) /\ SocketsAre(sockets) /\ DescriptorsLive(files, sockets)
      /\ menu \in Menus /\ QueuesAre(files, sockets, adrift)
      /\ ReferencesAre(files, sockets, adrift) /\ Len(streams) \in Nat
      /\ EventsAre(sockets, streams, Pending, net.connections)
  BY CoreParts
<1>2. PICK a, b : a = Least(FreeIds) /\ b = Least(FreeIds \ {a})
  OBVIOUS
<1>3. PICK fd : fd = Least(Free(files[p]))
  OBVIOUS
<1>4. PICK fe : fe = Least(Free(files[p]) \ {fd})
  OBVIOUS
<1>5. a \in Ids /\ b \in Ids /\ a # b /\ sockets[a] = NoSocket /\ sockets[b] = NoSocket
  <2>1. FreeIds \subseteq Ids /\ Ids \subseteq Nat /\ Cardinality(FreeIds) >= 2
    BY <1>1, SocketsAssumption DEF FreeIds, MakeSocketpair
  <2>2. a \in FreeIds /\ b \in FreeIds /\ a # b
    BY <1>2, <2>1, TwoLeast
  <2> QED BY <2>1, <2>2 DEF FreeIds, Live
<1>6. fd \in Fds /\ fe \in Fds /\ fd # fe /\ files[p][fd] = NoFile /\ files[p][fe] = NoFile
  <2>1. /\ Free(files[p]) \subseteq Fds /\ Fds \subseteq Nat
        /\ Cardinality(Free(files[p])) >= 2
    BY <1>1, SocketsAssumption DEF Free, MakeSocketpair
  <2>2. fd \in Free(files[p]) /\ fe \in Free(files[p]) /\ fd # fe
    BY <1>3, <1>4, <2>1, TwoLeast
  <2> QED BY <2>1, <2>2 DEF Free, Open
<1>7. CanConnect /\ TwoRings(2) /\ TwoStreams(0, 0)
  BY DEF MakeSocketpair
<1>8. Laid(2, 0)
  BY <1>7, LaidIs
<1>9. PICK e : e = Ends(Down, Up, Unbound, Unbound, DownStream, UpStream)
  OBVIOUS
<1>10. PICK h : h = Ends(Up, Down, Unbound, Unbound, UpStream, DownStream)
  OBVIOUS
<1>11. e \in Endpoints /\ h \in Endpoints
  <2>1. Unbound \in Addresses
    BY AddressesAre
  <2>2. Up \in Slots \cup {0} /\ Down \in Slots \cup {0} /\ UpStream \in Nat /\ DownStream \in Nat
    BY <1>1, <1>8 DEF Laid, UpStream, DownStream
  <2> QED BY <1>9, <1>10, <2>1, <2>2, EndsAre
<1>12. PICK y, z : y = PairEnd(e) /\ z = PairEnd(h)
  OBVIOUS
<1>13. /\ y \in Records /\ y # NoSocket /\ y.state = "Connected" /\ y.references = 1
       /\ y.edge = 0 /\ y.queue = <<>> /\ y.ends = e
  BY <1>11, <1>12, PairEndIs
<1>14. /\ z \in Records /\ z # NoSocket /\ z.state = "Connected" /\ z.references = 1
       /\ z.edge = 0 /\ z.queue = <<>> /\ z.ends = h
  BY <1>11, <1>12, PairEndIs
<1>15. /\ SocketsAre(sockets') /\ sockets'[a] = y /\ sockets'[b] = z
       /\ \A j \in Ids : j # a /\ j # b => sockets'[j] = sockets[j]
  <2>1. sockets' = [sockets EXCEPT ![a] = y, ![b] = z]
    BY <1>2, <1>9, <1>10, <1>12 DEF MakeSocketpair, PairEnd
  <2> QED BY <2>1, <1>1, <1>5, <1>13, <1>14 DEF SocketsAre
<1>16. PICK u, v : /\ u = [socket |-> a, cloexec |-> FALSE]
                   /\ v = [socket |-> b, cloexec |-> FALSE]
  OBVIOUS
<1>17. u \in OpenFiles /\ u.socket = a /\ v \in OpenFiles /\ v.socket = b
  BY <1>5, <1>16 DEF OpenFiles
<1>18. PICK mid : mid = [files EXCEPT ![p] = [files[p] EXCEPT ![fd] = u]]
  OBVIOUS
<1>19. FilesAre(mid) /\ Placed(files, mid, p, fd, a)
  <2>1. FilesAre(mid) /\ Placed(files, mid, p, fd, u.socket)
    BY <1>1, <1>6, <1>17, <1>18, PlacedIs
  <2> QED BY <2>1, <1>17
<1>20. mid[p][fe] = NoFile
  BY <1>6, <1>19 DEF Placed
<1>21. files' = [mid EXCEPT ![p] = [mid[p] EXCEPT ![fe] = v]]
  <2>1. files' = [files EXCEPT ![p] = [@ EXCEPT ![fd] = u, ![fe] = v]]
    BY <1>2, <1>3, <1>4, <1>16 DEF MakeSocketpair
  <2>2. files \in [Procs -> [Fds -> OpenFiles \cup {NoFile}]]
    BY <1>1 DEF FilesAre
  <2>3. files' = [files EXCEPT ![p] = [[files[p] EXCEPT ![fd] = u] EXCEPT ![fe] = v]]
    BY <2>1
  <2>4. mid[p] = [files[p] EXCEPT ![fd] = u]
    BY <2>2, <1>18
  <2> QED BY <2>2, <2>3, <2>4, <1>18
<1>22. FilesAre(files') /\ Placed(mid, files', p, fe, b)
  <2>1. FilesAre(files') /\ Placed(mid, files', p, fe, v.socket)
    BY <1>6, <1>17, <1>19, <1>20, <1>21, PlacedIs
  <2> QED BY <2>1, <1>17
<1>23. On(files, {a}) = {} /\ On(files, {b}) = {}
  BY <1>1, <1>5, NewIsUnheld
<1>24. OnElse(files, mid, a) /\ Cardinality(On(mid, {a})) = 1
  <2>1. OnElse(files, mid, a) /\ (On(files, {a}) = {} => Cardinality(On(mid, {a})) = 1)
    <3>1. fd \in Fds /\ Placed(files, mid, p, fd, a)
      BY <1>6, <1>19
    <3> QED BY <3>1, PlacedOn
  <2> QED BY <2>1, <1>23
<1>25. On(mid, {b}) = {}
  <2>1. a \notin {b}
    BY <1>5
  <2> QED BY <2>1, <1>23, <1>24 DEF OnElse
<1>26. OnElse(mid, files', b) /\ Cardinality(On(files', {b})) = 1
  BY <1>6, <1>22, <1>25, PlacedOn
<1>27. Cardinality(On(files', {a})) = 1
  <2>1. b \notin {a}
    BY <1>5
  <2> QED BY <2>1, <1>24, <1>26 DEF OnElse
<1>28. \A S : S \cap {a, b} = {} => On(files', S) = On(files, S)
  BY <1>24, <1>26 DEF OnElse
<1>29. LiveIn(sockets') = LiveIn(sockets) \cup {a, b} /\ {a, b} \cap LiveIn(sockets) = {}
  BY <1>5, <1>13, <1>14, <1>15 DEF LiveIn
<1>30. Opened(files, sockets, files', sockets', {a, b}, adrift, adrift)
  <2>1. a \notin adrift /\ b \notin adrift
    BY <1>1, <1>29 DEF ReferencesAre
  <2>2. \A j \in LiveIn(sockets) : Holds(sockets, sockets', j) /\ sockets'[j].queue = sockets[j].queue
    BY <1>15, <1>29 DEF Holds, LiveIn
  <2>3. \A j \in {a, b} : sockets'[j].queue = <<>> /\ sockets'[j].references = 1
    BY <1>13, <1>14, <1>15
  <2> QED BY <1>5, <1>26, <1>27, <1>28, <1>29, <2>1, <2>2, <2>3 DEF Opened
<1>31. WiredTo(a, {b}, 0)
  <2>1. /\ JoinedIn(sockets') = JoinedIn(sockets) \cup {a} \cup {b}
        /\ a \notin JoinedIn(sockets) /\ {b} \cap JoinedIn(sockets) = {}
    BY <1>5, <1>13, <1>14, <1>15 DEF JoinedIn
  <2>2. \A j \in JoinedIn(sockets) :
          sockets'[j].ends = sockets[j].ends /\ sockets'[j].edge = sockets[j].edge
    BY <2>1, <1>15 DEF JoinedIn
  <2>3. /\ sockets'[a].edge = 0
        /\ sockets'[a].ends.receive = Down /\ sockets'[a].ends.transmit = Up
        /\ sockets'[a].ends.hears = DownStream /\ sockets'[a].ends.says = UpStream
        /\ ~sockets'[a].ends.readShut /\ ~sockets'[a].ends.writeShut
    BY <1>9, <1>13, <1>15 DEF Ends
  <2>4. /\ sockets'[b].edge = 0
        /\ sockets'[b].ends.receive = Up /\ sockets'[b].ends.transmit = Down
        /\ sockets'[b].ends.hears = UpStream /\ sockets'[b].ends.says = DownStream
        /\ ~sockets'[b].ends.readShut /\ ~sockets'[b].ends.writeShut
    BY <1>10, <1>14, <1>15 DEF Ends
  <2> QED BY <1>5, <2>1, <2>2, <2>3, <2>4 DEF WiredTo
<1>32. OneHolder(a, {b})
  <2>1. Count(files', sockets', {a}) = 1 /\ Count(files', sockets', {b}) = 1
    <3>1. a \in {a, b} /\ b \in {a, b}
      OBVIOUS
    <3> QED BY <3>1, <1>26, <1>27, <1>30, NewCount
  <2> QED BY <2>1 DEF OneHolder
<1>33. HoldersStay
  BY <1>30, OpenedStay
<1>34. EdgesStay
  <2>1. \A j \in LiveIn(sockets) : sockets[j].edge # 0 => sockets[j].state = "Connected"
    BY <1>1 DEF EventsAre
  <2> QED BY <2>1, <1>13, <1>14, <1>15, <1>29 DEF EdgesStay, LiveIn
<1>35. DescriptorsLive(files', sockets')
  BY <1>1, <1>22, <1>30, OpenedDescriptors
<1>36. /\ net' = net /\ batch' = batch /\ menu' = menu /\ skewed' = skewed /\ adrift' = adrift
  BY DEF MakeSocketpair
<1>37. QueuesAre(files', sockets', adrift')
  <2>1. QueuesAre(files', sockets', adrift)
    BY <1>1, <1>30, OpenedQueues
  <2> QED BY <2>1, <1>36
<1>38. ReferencesAre(files', sockets', adrift')
  <2>1. ReferencesAre(files', sockets', adrift)
    BY <1>1, <1>30, OpenedReferences
  <2> QED BY <2>1, <1>36
<1>39. skewed \subseteq skewed'
  BY <1>36
<1> QED BY <1>5, <1>8, <1>15, <1>22, <1>31, <1>32, <1>33, <1>34, <1>35, <1>36, <1>37, <1>38,
           <1>39, PairHolds

\* The descriptors of a socket, two ways.
LEMMA DescriptorsAre ==
  ASSUME NEW i
  PROVE  Descriptors(i) = On(files, {i})
<1>1. \A p \in Procs, fd \in Fds :
        fd \in Naming(files[p], i) <=> files[p][fd] # NoFile /\ files[p][fd].socket \in {i}
  BY DEF Naming, Open
<1>2. ASSUME NEW d \in Descriptors(i) PROVE d \in On(files, {i})
  <2>1. PICK p \in Procs : d \in {<<p, fd>> : fd \in Naming(files[p], i)}
    BY DEF Descriptors
  <2>2. PICK fd \in Naming(files[p], i) : d = <<p, fd>>
    BY <2>1
  <2>3. fd \in Fds
    BY DEF Naming, Open
  <2> QED BY <1>1, <2>2, <2>3 DEF On
<1>3. ASSUME NEW d \in On(files, {i}) PROVE d \in Descriptors(i)
  <2>1. PICK p \in Procs, fd \in Fds : d = <<p, fd>>
    BY DEF On
  <2>2. fd \in Naming(files[p], i)
    BY <1>1, <2>1 DEF On
  <2>3. d \in {<<p, e>> : e \in Naming(files[p], i)}
    BY <2>1, <2>2
  <2> QED BY <2>3 DEF Descriptors
<1> QED BY <1>2, <1>3

\* The listener an address finds.
LEMMA ListenerIs ==
  ASSUME Core, NEW wanted, ListenersFor(wanted) # {},
         NEW listener, listener = Least(ListenersFor(wanted))
  PROVE  /\ listener \in LiveIn(sockets) /\ listener \in Ids
         /\ sockets[listener].state = "Listening" /\ sockets[listener] \in Records
         /\ sockets[listener].queue \in Seq(Ids) /\ sockets[listener].edge = 0
<1>1. ListenersFor(wanted) \subseteq Listening /\ Listening \subseteq Ids /\ Ids \subseteq Nat
  BY SocketsAssumption DEF ListenersFor, Listening, Live
<1>2. ListenersFor(wanted) \subseteq Nat
  BY <1>1
<1>3. listener \in ListenersFor(wanted)
  BY <1>2, LeastExists
<1>4. listener \in Ids /\ sockets[listener] # NoSocket /\ sockets[listener].state = "Listening"
  BY <1>1, <1>3 DEF Listening, Live
<1>5. listener \in LiveIn(sockets)
  BY <1>4 DEF LiveIn
<1>6. SocketsAre(sockets) /\ EventsAre(sockets, streams, Pending, net.connections)
  BY CoreParts
<1>7. sockets[listener] \in Records /\ sockets[listener].queue \in Seq(Ids)
  BY <1>5, <1>6, LiveIsRecord
<1>8. sockets[listener].edge = 0
  BY <1>4, <1>5, <1>6 DEF EventsAre
<1> QED BY <1>4, <1>5, <1>7, <1>8

\* The record of a listener, with one more connection on its queue.
Queueing(o, far) == [o EXCEPT !.queue = Append(@, far)]

\* The queue of a listener grows.
LEMMA AppendedIs ==
  ASSUME NEW o \in Records, NEW far \in Ids
  PROVE  /\ Queueing(o, far) \in Records /\ Queueing(o, far).state = o.state
         /\ Queueing(o, far).references = o.references
         /\ Queueing(o, far).edge = o.edge /\ Queueing(o, far).ends = o.ends
         /\ Queueing(o, far).queue = Append(o.queue, far)
<1>0. PICK z : z = Queueing(o, far)
  OBVIOUS
<1>1. PICK q : q = Append(o.queue, far)
  OBVIOUS
<1>2. o.queue \in Seq(Ids)
  BY DEF Records
<1>3. q \in Seq(Ids)
  BY <1>1, <1>2
<1>4. z = [o EXCEPT !.queue = q]
  BY <1>0, <1>1 DEF Queueing
<1>5. /\ z \in Records /\ z.state = o.state /\ z.references = o.references
      /\ z.edge = o.edge /\ z.ends = o.ends /\ z.queue = q
  BY <1>3, <1>4 DEF Records
<1> QED BY <1>0, <1>1, <1>5, Zenon

\* A connect, to whatever address.
LEMMA ConnectToHolds ==
  ASSUME Core, NEW p \in Procs, NEW fd \in Fds, NEW wanted \in Addresses,
         ConnectTo(p, fd, wanted)
  PROVE  Core' /\ Wiring
<1>1. /\ FilesAre(files) /\ SocketsAre(sockets) /\ DescriptorsLive(files, sockets)
      /\ menu \in Menus /\ QueuesAre(files, sockets, adrift)
      /\ ReferencesAre(files, sockets, adrift) /\ Len(streams) \in Nat
      /\ EventsAre(sockets, streams, Pending, net.connections)
  BY CoreParts
<1>2. PICK i : i = SocketAt(p, fd)
  OBVIOUS
<1>3. PICK l : l = Least(ListenersFor(wanted))
  OBVIOUS
<1>4. PICK far : far = Least(FreeIds)
  OBVIOUS
<1>5. PICK local : local = IF wanted.family = "inet" /\ FreePorts # {}
                           THEN Inet(Loopback, Least(FreePorts)) ELSE Unbound
  OBVIOUS
<1>6. PICK e : e = Ends(Down, Up, local, wanted, DownStream, UpStream)
  OBVIOUS
<1>7. PICK h : h = Ends(Up, Down, wanted, local, UpStream, DownStream)
  OBVIOUS
<1>8. PICK F : F = Far(h, 0)
  OBVIOUS
<1>9. /\ Names(p, fd, "Idle") \/ Names(p, fd, "Bound")
      /\ ListenersFor(wanted) # {} /\ FreeIds # {} /\ CanConnect
      /\ TwoRings(2) /\ TwoStreams(0, 0)
      /\ skewed' = IF Cardinality(Descriptors(i)) > 1
                   THEN skewed \cup {UpStream, DownStream} ELSE skewed
      /\ UNCHANGED <<files, nodes, next, accepting, net, batch, adrift, menu>>
  BY <1>2 DEF ConnectTo
<1>10. sockets' = [sockets EXCEPT
          ![far] = F, ![l].queue = Append(@, far),
          ![i].state = "Connected", ![i].address = Unbound, ![i].ends = e]
  BY <1>2, <1>3, <1>4, <1>5, <1>6, <1>7, <1>8 DEF ConnectTo
<1>11. /\ i \in LiveIn(sockets) /\ i \in Ids /\ sockets[i] \in Records
       /\ sockets[i].state \in {"Idle", "Bound"} /\ files[p][fd] # NoFile
       /\ files[p][fd].socket = i
  <2>1. CASE Names(p, fd, "Idle")
    BY <2>1, <1>2, NamedIs
  <2>2. CASE Names(p, fd, "Bound")
    BY <2>2, <1>2, NamedIs
  <2> QED BY <1>9, <2>1, <2>2
<1>12. /\ l \in LiveIn(sockets) /\ l \in Ids /\ sockets[l].state = "Listening"
       /\ sockets[l] \in Records /\ sockets[l].queue \in Seq(Ids) /\ sockets[l].edge = 0
  BY <1>3, <1>9, ListenerIs
<1>13. far \in Ids /\ sockets[far] = NoSocket
  BY <1>1, <1>4, <1>9, FreeId
<1>14. i # l /\ i # far /\ l # far
  BY <1>11, <1>12, <1>13 DEF LiveIn
<1>15. Laid(2, 0)
  BY <1>9, LaidIs
<1>16. e \in Endpoints /\ h \in Endpoints
  <2>1. local \in Addresses
    <3>1. Unbound \in Addresses /\ \A x, y \in Nat : Inet(x, y) \in Addresses
      BY AddressesAre
    <3>2. CASE wanted.family = "inet" /\ FreePorts # {}
      <4>1. Least(FreePorts) \in Nat /\ Loopback \in Nat
        BY <3>2, FreePortIs DEF Loopback
      <4> QED BY <3>1, <3>2, <4>1, <1>5
    <3>3. CASE ~(wanted.family = "inet" /\ FreePorts # {})
      BY <3>1, <3>3, <1>5
    <3> QED BY <3>2, <3>3
  <2>2. Up \in Slots \cup {0} /\ Down \in Slots \cup {0} /\ UpStream \in Nat /\ DownStream \in Nat
    BY <1>1, <1>15 DEF Laid, UpStream, DownStream
  <2> QED BY <1>6, <1>7, <2>1, <2>2, EndsAre
<1>17. /\ F \in Records /\ F.state = "Connected" /\ F.references = 1
       /\ F.edge = 0 /\ F.queue = <<>> /\ F.ends = h /\ F # NoSocket
  <2>1. 0 \in Nat
    OBVIOUS
  <2>2. /\ F \in Records /\ F.state = "Connected" /\ F.references = 1
        /\ F.edge = 0 /\ F.queue = <<>> /\ F.ends = h
    BY <2>1, <1>8, <1>16, FarIs
  <2> QED BY <2>2, SocketsAssumption
<1>18. PICK w : w = Queueing(sockets[l], far)
  OBVIOUS
<1>19. /\ w \in Records /\ w.state = "Listening" /\ w.references = sockets[l].references
       /\ w.edge = 0 /\ w.ends = sockets[l].ends /\ w.queue = Append(sockets[l].queue, far)
       /\ w # NoSocket
  <2>1. /\ w \in Records /\ w.state = sockets[l].state /\ w.references = sockets[l].references
        /\ w.edge = sockets[l].edge /\ w.ends = sockets[l].ends
        /\ w.queue = Append(sockets[l].queue, far)
    BY <1>12, <1>13, <1>18, AppendedIs
  <2> QED BY <2>1, <1>12, SocketsAssumption
<1>20. PICK o : o = sockets[i]
  OBVIOUS
<1>21. PICK x : x = [o EXCEPT !.state = "Connected"]
  OBVIOUS
<1>22. PICK y : y = [x EXCEPT !.address = Unbound]
  OBVIOUS
<1>23. PICK z : z = [y EXCEPT !.ends = e]
  OBVIOUS
<1>24. /\ z \in Records /\ z.state = "Connected" /\ z.references = o.references
       /\ z.edge = o.edge /\ z.queue = o.queue /\ z.ends = e /\ z # NoSocket
  <2>1. /\ x \in Records /\ x.state = "Connected" /\ x.references = o.references
        /\ x.edge = o.edge /\ x.queue = o.queue
    BY <1>11, <1>20, <1>21 DEF Records
  <2>2. PICK un : un = Unbound
    OBVIOUS
  <2>3. un \in Addresses
    BY <2>2, AddressesAre
  <2>4. /\ y \in Records /\ y.state = "Connected" /\ y.references = o.references
        /\ y.edge = o.edge /\ y.queue = o.queue
    BY <2>1, <2>2, <2>3, <1>22 DEF Records
  <2>5. /\ z \in Records /\ z.state = "Connected" /\ z.references = o.references
        /\ z.edge = o.edge /\ z.queue = o.queue /\ z.ends = e
    BY <2>4, <1>16, <1>23 DEF Records
  <2> QED BY <2>5, SocketsAssumption
<1>25. /\ SocketsAre(sockets') /\ sockets'[far] = F /\ sockets'[l] = w /\ sockets'[i] = z
       /\ \A j \in Ids : j # far /\ j # l /\ j # i => sockets'[j] = sockets[j]
  <2>1. z = [o EXCEPT !.state = "Connected", !.address = Unbound, !.ends = e]
    BY <1>21, <1>22, <1>23
  <2>2. sockets' = [sockets EXCEPT ![far] = F, ![l] = w, ![i] = z]
    <3>1. sockets \in [Ids -> Records \cup {NoSocket}]
      BY <1>1 DEF SocketsAre
    <3> QED BY <3>1, <1>10, <1>11, <1>12, <1>13, <1>14, <1>18, <1>20, <2>1 DEF Queueing
  <2> QED BY <2>2, <1>1, <1>11, <1>12, <1>13, <1>14, <1>17, <1>19, <1>24 DEF SocketsAre
<1>26. sockets[i].edge = 0
  BY <1>1, <1>11 DEF EventsAre
<1>27. LiveIn(sockets') = LiveIn(sockets) \cup {far} /\ far \notin LiveIn(sockets)
  BY <1>11, <1>12, <1>13, <1>17, <1>19, <1>24, <1>25 DEF LiveIn
<1>28. Enqueued(sockets, sockets', far, l)
  <2>1. \A j \in LiveIn(sockets) : Holds(sockets, sockets', j)
    BY <1>11, <1>12, <1>14, <1>19, <1>20, <1>24, <1>25, <1>27 DEF Holds, LiveIn
  <2>2. \A j \in LiveIn(sockets) \ {l} : sockets'[j].queue = sockets[j].queue
    BY <1>20, <1>24, <1>25, <1>27 DEF LiveIn
  <2> QED BY <2>1, <2>2, <1>12, <1>13, <1>17, <1>19, <1>25, <1>27 DEF Enqueued
<1>29. files' = files /\ net' = net /\ batch' = batch /\ menu' = menu /\ adrift' = adrift
  BY <1>9
<1>30. WiredTo(i, {far}, 0)
  <2>1. /\ JoinedIn(sockets') = JoinedIn(sockets) \cup {i} \cup {far}
        /\ i \notin JoinedIn(sockets) /\ {far} \cap JoinedIn(sockets) = {}
    BY <1>11, <1>12, <1>13, <1>14, <1>17, <1>19, <1>24, <1>25 DEF JoinedIn
  <2>2. \A j \in JoinedIn(sockets) :
          sockets'[j].ends = sockets[j].ends /\ sockets'[j].edge = sockets[j].edge
    BY <2>1, <1>12, <1>25 DEF JoinedIn
  <2>3. /\ sockets'[i].edge = 0
        /\ sockets'[i].ends.receive = Down /\ sockets'[i].ends.transmit = Up
        /\ sockets'[i].ends.hears = DownStream /\ sockets'[i].ends.says = UpStream
        /\ ~sockets'[i].ends.readShut /\ ~sockets'[i].ends.writeShut
    BY <1>6, <1>20, <1>24, <1>25, <1>26 DEF Ends
  <2>4. /\ sockets'[far].edge = 0
        /\ sockets'[far].ends.receive = Up /\ sockets'[far].ends.transmit = Down
        /\ sockets'[far].ends.hears = UpStream /\ sockets'[far].ends.says = DownStream
        /\ ~sockets'[far].ends.readShut /\ ~sockets'[far].ends.writeShut
    BY <1>7, <1>17, <1>25 DEF Ends
  <2> QED BY <1>11, <1>13, <1>14, <2>1, <2>2, <2>3, <2>4 DEF WiredTo
<1>31. OneHolder(i, {far})
  <2>1. Count(files', sockets', {far}) = 1
    <3>1. Count(files, sockets', {far}) = 1
      BY <1>1, <1>28, EnqueuedFar
    <3> QED BY <3>1, <1>29
  <2>2. ASSUME UpStream \notin skewed' \/ DownStream \notin skewed'
        PROVE  Count(files', sockets', {i}) = 1
    <3>1. ~(Cardinality(Descriptors(i)) > 1)
      BY <1>9, <2>2
    <3>2. On(files', {i}) = On(files, {i}) /\ Descriptors(i) = On(files, {i})
      BY <1>29, DescriptorsAre
    <3>3. <<p, fd>> \in On(files, {i})
      BY <1>11 DEF On
    <3>4. Cardinality(On(files, {i})) # 0
      BY <3>3, OnFinite, FS_EmptySet
    <3>5. Cardinality(On(files, {i})) \in Nat
      BY OnFinite
    <3>6. Cardinality(On(files', {i})) = 1
      BY <3>1, <3>2, <3>4, <3>5
    <3>7. WaitingIn(sockets') = WaitingIn(sockets) \cup {far}
      BY <1>1, <1>28, EnqueuedWaiting
    <3>8. i \notin WaitingIn(sockets)
      <4>1. Waiters(files, sockets, adrift)
        BY <1>1, WaitingIs
      <4> QED BY <4>1, <1>11 DEF Waiters, JoinedIn
    <3>9. i \notin WaitingIn(sockets')
      BY <3>7, <3>8, <1>14
    <3> QED BY <3>6, <3>9, CountOne
  <2> QED BY <2>1, <2>2 DEF OneHolder
<1>32. HoldersStay
  <2> SUFFICES ASSUME NEW s \in Slots
               PROVE  /\ HoldersSame(files, sockets, files', sockets', Hearing(sockets, s))
                      /\ HoldersSame(files, sockets, files', sockets', Saying(sockets, s))
    BY DEF HoldersStay
  <2>1. far \notin Hearing(sockets, s) /\ far \notin Saying(sockets, s)
    BY <1>13 DEF Hearing, Saying, JoinedIn
  <2>2. /\ HoldersSame(files, sockets, files, sockets', Hearing(sockets, s))
        /\ HoldersSame(files, sockets, files, sockets', Saying(sockets, s))
    BY <2>1, <1>1, <1>28, EnqueuedHolders
  <2> QED BY <2>2, <1>29
<1>33. EdgesStay
  <2>1. \A j \in LiveIn(sockets) : sockets[j].edge # 0 => sockets[j].state = "Connected"
    BY <1>1 DEF EventsAre
  <2> QED BY <2>1, <1>17, <1>19, <1>20, <1>24, <1>25, <1>26, <1>27 DEF EdgesStay, LiveIn
<1>34. DescriptorsLive(files', sockets')
  <2>1. DescriptorsLive(files, sockets')
    BY <1>1, <1>28, EnqueuedDescriptors
  <2> QED BY <2>1, <1>29
<1>35. QueuesAre(files', sockets', adrift')
  <2>1. QueuesAre(files, sockets', adrift)
    BY <1>1, <1>28, EnqueuedQueues
  <2> QED BY <2>1, <1>29
<1>36. ReferencesAre(files', sockets', adrift')
  <2>1. ReferencesAre(files, sockets', adrift)
    BY <1>1, <1>28, EnqueuedReferences
  <2> QED BY <2>1, <1>29
<1>37. skewed \subseteq skewed' /\ FilesAre(files')
  BY <1>1, <1>9
<1> QED BY <1>13, <1>15, <1>25, <1>29, <1>30, <1>31, <1>32, <1>33, <1>34, <1>35, <1>36, <1>37,
           PairHolds

\* connect, to a port.
LEMMA ConnectInetHolds ==
  ASSUME Core, NEW p \in Procs, NEW fd \in Fds, NEW port \in Ports \cup Ephemeral,
         ConnectInet(p, fd, port)
  PROVE  Core' /\ Wiring
<1>1. port \in Nat /\ Loopback \in Nat
  BY SocketsAssumption DEF Loopback
<1>2. Inet(Loopback, port) \in Addresses
  BY <1>1, AddressesAre
<1>3. ConnectTo(p, fd, Inet(Loopback, port))
  BY DEF ConnectInet
<1> QED BY <1>2, <1>3, ConnectToHolds

\* connect, to a path.
LEMMA ConnectUnixHolds ==
  ASSUME Core, RestIs, NEW p \in Procs, NEW fd \in Fds, NEW path \in Paths,
         ConnectUnix(p, fd, path)
  PROVE  Core' /\ Wiring
<1>1. PICK node \in DOMAIN nodes[p] : ConnectTo(p, fd, Unix(node, <<path>>))
  BY DEF ConnectUnix
<1>2. nodes[p] \in Seq(Paths)
  BY DEF RestIs
<1>3. node \in Nat
  BY <1>2
<1>4. Unix(node, <<path>>) \in Addresses
  BY <1>3, AddressesAre
<1> QED BY <1>1, <1>4, ConnectToHolds

\* The first event of a batch goes.
FirstGoes ==
  /\ Pending # <<>> /\ Pending' = Tail(Pending)
  /\ 1 \in DOMAIN Pending /\ Pending[1] = Head(batch)

\* A handled event is the first of those that wait.
LEMMA FirstGoesIs ==
  ASSUME Core, batch # <<>>, batch' = Tail(batch), net'.events = net.events
  PROVE  FirstGoes /\ PendingStays /\ batch' \in Seq(Events)
<1>1. batch \in Seq(Events) /\ net.events \in Seq(Events)
  BY CoreParts, ConnectionsAre
<1>2. PICK q, t : q = batch /\ t = net.events
  OBVIOUS
<1>3. Pending = q \o t /\ Pending' = Tail(q) \o t
  BY <1>2 DEF Pending
<1>4. q \in Seq(Events) /\ t \in Seq(Events) /\ q # <<>>
  BY <1>1, <1>2
<1>5. Tail(q \o t) = Tail(q) \o t /\ q \o t # <<>>
  BY <1>4
<1>6. 1 \in DOMAIN (q \o t) /\ (q \o t)[1] = Head(q)
  BY <1>4
<1>7. FirstGoes
  BY <1>2, <1>3, <1>5, <1>6 DEF FirstGoes
<1>8. batch' \in Seq(Events)
  BY <1>1
<1> QED BY <1>7, <1>8 DEF PendingStays, FirstGoes

\* A step that moves bytes, and no end and no socket.
LEMMA QuietHolds ==
  ASSUME Core, sockets' = sockets, files' = files, RingsAre(rings'), RingsStay, NetIs(net'),
         batch' \in Seq(Events), StreamsAre(streams'), StreamsKept(streams, streams'),
         Len(streams') = Len(streams), carries' = carries, skewed' = skewed,
         adrift' = adrift, menu' = menu, HostStays, PendingStays
  PROVE  Core'
<1>1. /\ FilesAre(files) /\ SocketsAre(sockets) /\ carries \in [Slots -> Nat] /\ menu \in Menus
      /\ DescriptorsLive(files, sockets) /\ QueuesAre(files, sockets, adrift)
      /\ ReferencesAre(files, sockets, adrift)
      /\ AttachedAre(sockets, rings)
      /\ CountsAre(files, sockets, rings, streams, carries, skewed)
      /\ CarriedAre(sockets, carries, streams)
      /\ EventsAre(sockets, streams, Pending, net.connections)
      /\ Len(streams) \in Nat /\ Len(net.connections) \in Nat
      /\ Pending \in Seq(Events) /\ StreamsAre(streams)
  BY CoreParts
<1>2. JoinedStay /\ PlacesStay
  BY JoinedPlaces DEF JoinedStay
<1>3. AttachedStay
  BY DEF AttachedStay, RingsStay
<1>4. AttachedAre(sockets', rings')
  BY <1>1, <1>2, <1>3, StayAttached
<1>5. StreamsStay /\ StreamsGrow
  BY <1>1 DEF StreamsKept, StreamsStay, StreamsGrow
<1>6. HoldersStay
  BY DEF HoldersStay, HoldersSame
<1>7. CountsAre(files', sockets', rings', streams', carries', skewed')
  <2>1. skewed \subseteq skewed'
    OBVIOUS
  <2> QED BY <2>1, <1>1, <1>2, <1>6, StayCounts
<1>8. CarriedAre(sockets', carries', streams')
  BY <1>1, <1>2, <1>5, StayCarried
<1>9. EdgesStay
  BY <1>1 DEF EdgesStay, EventsAre
<1>10. EventsAre(sockets', streams', Pending', net'.connections)
  BY <1>1, <1>5, <1>9, EventsStay
<1>11. /\ DescriptorsLive(files', sockets') /\ QueuesAre(files', sockets', adrift')
       /\ ReferencesAre(files', sockets', adrift')
  BY <1>1
<1> QED BY <1>1, <1>4, <1>7, <1>8, <1>10, <1>11 DEF Core, TypesAre, Agree

\* The connections of the host that the sockets have, but for one socket.
EdgesElse(a) ==
  \A i \in LiveIn(sockets') : sockets'[i].edge # 0 /\ i # a =>
    /\ i \in LiveIn(sockets) /\ sockets'[i].state = "Connected"
    /\ sockets'[i].edge = sockets[i].edge
    /\ sockets'[i].ends.hears = sockets[i].ends.hears
    /\ sockets'[i].ends.writeShut = sockets[i].ends.writeShut

\* The host's events, once an open event has its socket.
LEMMA WiredEvents ==
  ASSUME Core, NEW a, NEW c \in Nat, WiredTo(a, {}, c), Laid(1, c), net' = net,
         FirstGoes, Pending[1].kind = "open", Pending[1].conn = c, EdgesElse(a)
  PROVE  EventsAre(sockets', streams', Pending', net'.connections)
<1>1. /\ CarriedAre(sockets, carries, streams) /\ StreamsAre(streams)
      /\ EventsAre(sockets, streams, Pending, net.connections)
      /\ Len(streams) \in Nat /\ Len(net.connections) \in Nat /\ Pending \in Seq(Events)
  BY CoreParts
<1>2. PICK con : con = net.connections
  OBVIOUS
<1>3. /\ c \in 1..Len(con) /\ con[c].present /\ ~con[c].shut
      /\ \A i \in LiveIn(sockets) : sockets[i].edge # c
      /\ \A b \in DOMAIN streams : streams[b].reads # c
  BY <1>1, <1>2 DEF EventsAre, FirstGoes
<1>p. Fewer
  <2>1. PendingStays
    BY DEF FirstGoes, PendingStays
  <2> QED BY <1>1, <2>1, PendingFewer
<1>s. /\ DOMAIN streams = 1..Len(streams) /\ DOMAIN streams' = 1..Len(streams')
      /\ Len(streams') = Len(streams) + 2
      /\ \A b \in 1..Len(streams) : streams'[b] = streams[b]
      /\ streams'[UpStream].reads = c /\ streams'[DownStream].reads = 0
      /\ streams'[DownStream].writes = c
      /\ \A b \in 1..Len(streams') : b \in 1..Len(streams) \/ b = UpStream \/ b = DownStream
  <2>1. /\ DOMAIN streams = 1..Len(streams) /\ DOMAIN streams' = 1..Len(streams')
        /\ Len(streams') = Len(streams) + 2
        /\ \A b \in 1..Len(streams) : streams'[b] = streams[b]
    BY <1>1 DEF StreamsAre, Laid
  <2>2. /\ streams'[UpStream].reads = c /\ streams'[DownStream].reads = 0
        /\ streams'[DownStream].writes = c
    BY DEF Laid, Stream
  <2>3. \A b \in 1..Len(streams') : b \in 1..Len(streams) \/ b = UpStream \/ b = DownStream
    <3>1. PICK n \in Nat : n = Len(streams)
      BY <1>1
    <3>2. Len(streams') = n + 2 /\ UpStream = n + 1 /\ DownStream = n + 2
      BY <2>1, <3>1 DEF UpStream, DownStream
    <3> QED BY <3>1, <3>2
  <2> QED BY <2>1, <2>2, <2>3
<1>a. /\ a \in LiveIn(sockets') /\ sockets'[a].edge = c /\ sockets'[a].state = "Connected"
      /\ sockets'[a].ends.hears = DownStream
  <2>1. a \in JoinedIn(sockets')
    BY DEF WiredTo
  <2> QED BY <2>1 DEF WiredTo, JoinedIn, LiveIn
<1>4. \A x \in DOMAIN Pending' : Pending'[x].conn \in 1..Len(con)
  BY <1>p, <1>1, <1>2 DEF Fewer, EventsAre
<1>5. \A x \in DOMAIN Pending' : Pending'[x].kind = "eof" => ~con[Pending'[x].conn].reading
  BY <1>p, <1>1, <1>2 DEF Fewer, EventsAre
<1>6. ASSUME NEW x \in DOMAIN Pending', NEW y \in DOMAIN Pending',
             Pending'[x].kind = Pending'[y].kind, Pending'[x].kind # "data",
             Pending'[x].conn = Pending'[y].conn
      PROVE  x = y
  <2>1. PICK u \in DOMAIN Pending : Pending'[x] = Pending[u]
    BY <1>p DEF Fewer
  <2>2. PICK v \in DOMAIN Pending : Pending'[y] = Pending[v]
    BY <1>p DEF Fewer
  <2>3. u = v
    BY <2>1, <2>2, <1>6, <1>1 DEF EventsAre
  <2> QED BY <2>1, <2>2, <2>3, <1>6, <1>p DEF Fewer
<1>7. ASSUME NEW i \in LiveIn(sockets'), sockets'[i].edge # 0, i # a
      PROVE  /\ i \in LiveIn(sockets) /\ sockets[i].edge # 0
             /\ sockets'[i].edge = sockets[i].edge /\ sockets'[i].edge # c
             /\ sockets'[i].edge \in 1..Len(con)
             /\ sockets'[i].state = "Connected"
             /\ con[sockets[i].edge].present
             /\ con[sockets[i].edge].shut => sockets'[i].ends.writeShut
             /\ sockets'[i].ends.hears = sockets[i].ends.hears
  <2>1. /\ i \in LiveIn(sockets) /\ sockets'[i].edge = sockets[i].edge
        /\ sockets'[i].state = "Connected"
        /\ sockets'[i].ends.hears = sockets[i].ends.hears
        /\ sockets'[i].ends.writeShut = sockets[i].ends.writeShut
    BY <1>7 DEF EdgesElse
  <2>2. /\ sockets[i].edge \in 0..Len(con) /\ con[sockets[i].edge].present
        /\ con[sockets[i].edge].shut => sockets[i].ends.writeShut
    BY <2>1, <1>1, <1>2, <1>7 DEF EventsAre
  <2> QED BY <2>1, <2>2, <1>3, <1>7
<1>8. /\ \A i \in LiveIn(sockets') : sockets'[i].edge \in 0..Len(con)
      /\ \A i \in LiveIn(sockets') : sockets'[i].edge # 0 => sockets'[i].state = "Connected"
      /\ \A i \in LiveIn(sockets') : sockets'[i].edge # 0 => con[sockets'[i].edge].present
  <2> SUFFICES ASSUME NEW i \in LiveIn(sockets'), sockets'[i].edge # 0
               PROVE  /\ sockets'[i].edge \in 0..Len(con) /\ sockets'[i].state = "Connected"
                      /\ con[sockets'[i].edge].present
    BY <1>1, <1>2
  <2>1. CASE i = a
    BY <2>1, <1>a, <1>3
  <2>2. CASE i # a
    BY <2>2, <1>7
  <2> QED BY <2>1, <2>2
<1>9. ASSUME NEW i \in LiveIn(sockets'), NEW j \in LiveIn(sockets'),
             sockets'[i].edge = sockets'[j].edge, sockets'[i].edge # 0
      PROVE  i = j
  <2>1. CASE i = a \/ j = a
    BY <2>1, <1>7, <1>9, <1>a
  <2>2. CASE i # a /\ j # a
    <3>1. /\ i \in LiveIn(sockets) /\ sockets'[i].edge = sockets[i].edge
          /\ j \in LiveIn(sockets) /\ sockets'[j].edge = sockets[j].edge
      BY <2>2, <1>7, <1>9
    <3> QED BY <3>1, <1>1, <1>9 DEF EventsAre
  <2> QED BY <2>1, <2>2
<1>10. ASSUME NEW i \in LiveIn(sockets'), sockets'[i].edge # 0,
             \/ con[sockets'[i].edge].reading
             \/ \E x \in DOMAIN Pending' :
                  Pending'[x].kind = "eof" /\ Pending'[x].conn = sockets'[i].edge
      PROVE  streams'[sockets'[i].ends.hears].writes # 0
  <2>1. CASE i = a
    BY <2>1, <1>a, <1>s, <1>3
  <2>2. CASE i # a
    <3>1. /\ i \in LiveIn(sockets) /\ sockets[i].edge # 0
          /\ sockets'[i].edge = sockets[i].edge
          /\ sockets'[i].ends.hears = sockets[i].ends.hears
      BY <2>2, <1>7, <1>10
    <3>2. PICK h : h = sockets[i].ends.hears
      OBVIOUS
    <3>3. h \in 1..Len(streams)
      BY <3>1, <3>2, <1>1, HeardIs
    <3>4. \/ con[sockets[i].edge].reading
          \/ \E x \in DOMAIN Pending :
                  Pending[x].kind = "eof" /\ Pending[x].conn = sockets[i].edge
      <4>1. CASE con[sockets'[i].edge].reading
        BY <4>1, <3>1
      <4>2. CASE \E x \in DOMAIN Pending' :
                  Pending'[x].kind = "eof" /\ Pending'[x].conn = sockets'[i].edge
        BY <4>2, <3>1, <1>p DEF Fewer
      <4> QED BY <4>1, <4>2, <1>10
    <3>5. streams[h].writes # 0
      BY <3>1, <3>2, <3>4, <1>1, <1>2 DEF EventsAre
    <3> QED BY <3>1, <3>2, <3>3, <3>5, <1>s
  <2> QED BY <2>1, <2>2
<1>11. ASSUME NEW i \in LiveIn(sockets'), sockets'[i].edge # 0, con[sockets'[i].edge].shut
       PROVE  sockets'[i].ends.writeShut
  <2>1. CASE i = a
    BY <2>1, <1>a, <1>3, <1>11
  <2>2. CASE i # a
    BY <2>2, <1>7, <1>11
  <2> QED BY <2>1, <2>2
<1>12. /\ \A x \in DOMAIN streams' : streams'[x].reads \in 0..Len(con)
       /\ \A x \in DOMAIN streams : streams[x].reads \in 0..Len(con)
  <2>1. \A x \in DOMAIN streams : streams[x].reads \in 0..Len(con)
    BY <1>1, <1>2 DEF EventsAre
  <2> QED BY <2>1, <1>s, <1>3
<1>13. ASSUME NEW x \in DOMAIN streams', NEW y \in DOMAIN streams',
              streams'[x].reads = streams'[y].reads, streams'[x].reads # 0
       PROVE  x = y
  <2>1. CASE x \in 1..Len(streams) /\ y \in 1..Len(streams)
    BY <2>1, <1>s, <1>13, <1>1 DEF EventsAre
  <2>2. CASE x \notin 1..Len(streams)
    BY <2>2, <1>s, <1>3, <1>13
  <2>3. CASE y \notin 1..Len(streams)
    BY <2>3, <1>s, <1>3, <1>13
  <2> QED BY <2>1, <2>2, <2>3
<1>14. ASSUME NEW x \in DOMAIN Pending', Pending'[x].kind = "open"
       PROVE  LET d == Pending'[x].conn IN
              /\ \A i \in LiveIn(sockets') : sockets'[i].edge # d
              /\ \A b \in DOMAIN streams' : streams'[b].reads # d
              /\ con[d].present /\ ~con[d].shut
              /\ con[d].incoming = Numbers(0, con[d].sent)
  <2>1. PICK d : d = Pending'[x].conn
    OBVIOUS
  <2>2. /\ x \in Nat /\ x >= 1 /\ x + 1 \in DOMAIN Pending /\ Pending'[x] = Pending[x + 1]
    <3>1. PICK q : q = Pending
      OBVIOUS
    <3>2. q \in Seq(Events) /\ q # <<>> /\ Pending' = Tail(q)
      BY <3>1, <1>1 DEF FirstGoes
    <3>3. /\ DOMAIN q = 1..Len(q) /\ Len(q) \in Nat
          /\ DOMAIN Pending' = 1..(Len(q) - 1)
          /\ \A b \in 1..(Len(q) - 1) : Pending'[b] = q[b + 1]
      BY <3>2, TailIs
    <3> QED BY <3>1, <3>3
  <2>3. /\ d \in 1..Len(con)
        /\ \A i \in LiveIn(sockets) : sockets[i].edge # d
        /\ \A b \in DOMAIN streams : streams[b].reads # d
        /\ con[d].present /\ ~con[d].shut
        /\ con[d].incoming = Numbers(0, con[d].sent)
    BY <2>1, <2>2, <1>1, <1>2, <1>14 DEF EventsAre
  <2>4. d # c
    <3> SUFFICES ASSUME d = c PROVE FALSE
      OBVIOUS
    <3>1. 1 \in DOMAIN Pending
      BY DEF FirstGoes
    <3>2. x + 1 = 1
      BY <3>1, <2>1, <2>2, <1>1, <1>14 DEF EventsAre
    <3> QED BY <3>2, <2>2
  <2>5. \A i \in LiveIn(sockets') : sockets'[i].edge # d
    <3> SUFFICES ASSUME NEW i \in LiveIn(sockets'), sockets'[i].edge = d PROVE FALSE
      OBVIOUS
    <3>1. d # 0
      BY <2>3
    <3>2. i # a
      BY <1>a, <2>4
    <3>3. i \in LiveIn(sockets) /\ sockets[i].edge = d
      BY <3>1, <3>2, <1>7
    <3> QED BY <3>3, <2>3
  <2>6. \A b \in DOMAIN streams' : streams'[b].reads # d
    BY <2>3, <2>4, <1>s
  <2> QED BY <2>1, <2>3, <2>5, <2>6
<1>15. net'.connections = con
  BY <1>2
<1> QED BY <1>4, <1>5, <1>6, <1>8, <1>9, <1>10, <1>11, <1>12, <1>13, <1>14, <1>15 DEF EventsAre

\* A step that takes a connection of the host keeps the invariant.
LEMMA EdgeHolds ==
  ASSUME Core, NEW a, NEW c \in Nat, WiredTo(a, {}, c), Laid(1, c), OneHolder(a, {}),
         HoldersStay, skewed \subseteq skewed', files' = files, SocketsAre(sockets'),
         net' = net, batch' \in Seq(Events), menu' = menu, FirstGoes,
         Pending[1].kind = "open", Pending[1].conn = c, EdgesElse(a),
         DescriptorsLive(files', sockets'), QueuesAre(files', sockets', adrift'),
         ReferencesAre(files', sockets', adrift')
  PROVE  Core' /\ Wiring
<1>1. /\ FilesAre(files) /\ NetIs(net) /\ menu \in Menus
  BY CoreParts
<1>2. RingsAre(rings') /\ StreamsAre(streams') /\ carries' \in [Slots -> Nat]
  BY DEF Laid
<1>3. AttachedAre(sockets', rings')
  BY WiredAttached
<1>4. CountsAre(files', sockets', rings', streams', carries', skewed')
  BY WiredCounts
<1>5. CarriedAre(sockets', carries', streams')
  BY WiredCarried
<1>6. EventsAre(sockets', streams', Pending', net'.connections)
  BY WiredEvents
<1>7. FilesAre(files') /\ NetIs(net') /\ menu' \in Menus
  BY <1>1
<1>8. Core'
  BY <1>2, <1>3, <1>4, <1>5, <1>6, <1>7 DEF Core, TypesAre, Agree
<1>9. a \in Ids /\ {} \in SUBSET Ids
  BY DEF WiredTo
<1>10. \E x \in DOMAIN Pending : Pending[x].kind = "open" /\ Pending[x].conn = c
  BY DEF FirstGoes
<1>11. Wiring
  BY <1>9, <1>10 DEF Wiring
<1> QED BY <1>8, <1>11

\* The streams of a connection nobody will accept are given up for lost.
LEMMA AcceptEdgeHolds ==
  ASSUME Core, AcceptEdge
  PROVE  Core' /\ (Resting \/ Wiring)
<1>1. /\ FilesAre(files) /\ SocketsAre(sockets) /\ DescriptorsLive(files, sockets)
      /\ menu \in Menus /\ QueuesAre(files, sockets, adrift)
      /\ ReferencesAre(files, sockets, adrift) /\ Len(streams) \in Nat
      /\ EventsAre(sockets, streams, Pending, net.connections) /\ NetIs(net)
      /\ RingsAre(rings) /\ StreamsAre(streams) /\ batch \in Seq(Events)
      /\ Len(net.connections) \in Nat
  BY CoreParts
<1>2. PICK event : event = Head(batch)
  OBVIOUS
<1>3. PICK c : c = event.conn
  OBVIOUS
<1>4. PICK wanted : wanted = Inet(Loopback, event.port)
  OBVIOUS
<1>5. /\ batch # <<>> /\ event.kind = "open" /\ batch' = Tail(batch) /\ net' = net
      /\ files' = files /\ menu' = menu
  BY <1>2 DEF AcceptEdge, NextEvent
<1>6. FirstGoes /\ PendingStays /\ batch' \in Seq(Events)
  BY <1>5, FirstGoesIs
<1>7. CASE ListenersFor(wanted) = {}
  <2>1. UNCHANGED <<rings, sockets, history>>
    BY <1>2, <1>4, <1>7 DEF AcceptEdge
  <2>2. /\ sockets' = sockets /\ rings' = rings /\ streams' = streams /\ carries' = carries
        /\ skewed' = skewed /\ adrift' = adrift
    BY <2>1 DEF history
  <2>3. /\ RingsAre(rings') /\ RingsStay /\ NetIs(net') /\ StreamsAre(streams')
        /\ StreamsKept(streams, streams') /\ Len(streams') = Len(streams) /\ HostStays
    BY <1>1, <1>5, <2>2 DEF RingsStay, StreamsKept, HostStays
  <2>4. Core'
    BY <1>5, <1>6, <2>2, <2>3, QuietHolds
  <2>5. Resting
    BY <1>5, <2>2 DEF Resting, JoinedStay, JoinedIn
  <2> QED BY <2>4, <2>5
<1>8. CASE ListenersFor(wanted) # {}
  <2>1. PICK l : l = Least(ListenersFor(wanted))
    OBVIOUS
  <2>2. PICK made : made = Least(FreeIds)
    OBVIOUS
  <2>3. PICK e : e = Ends(Down, Up, wanted, Unbound, DownStream, UpStream)
    OBVIOUS
  <2>4. PICK F : F = Far(e, c)
    OBVIOUS
  <2>5. /\ FreeIds # {} /\ CanConnect /\ TwoRings(1) /\ TwoStreams(c, c)
        /\ \/ /\ sockets' = [sockets EXCEPT ![made] = F, ![l].queue = Append(@, made)]
              /\ UNCHANGED <<skewed, adrift>>
           \/ /\ sockets' = [sockets EXCEPT ![made] = F]
              /\ skewed' = skewed \cup {UpStream, DownStream}
              /\ adrift' = adrift \cup {made}
    BY <1>2, <1>3, <1>4, <1>8, <2>1, <2>2, <2>3, <2>4 DEF AcceptEdge
  <2>6. /\ Pending[1].kind = "open" /\ Pending[1].conn = c /\ event \in Events
        /\ c \in Nat /\ c # 0
    <3>1. Pending[1] = event /\ 1 \in DOMAIN Pending
      BY <1>2, <1>6 DEF FirstGoes
    <3>2. c \in 1..Len(net.connections)
      BY <3>1, <1>1, <1>3 DEF EventsAre
    <3>3. event \in Events
      <4>1. PICK q : q = batch
        OBVIOUS
      <4>2. q \in Seq(Events) /\ q # <<>> /\ event = Head(q)
        BY <4>1, <1>1, <1>2, <1>5
      <4> QED BY <4>2
    <3> QED BY <3>1, <3>2, <3>3, <1>3, <1>5, <1>1
  <2>7. /\ l \in LiveIn(sockets) /\ l \in Ids /\ sockets[l].state = "Listening"
        /\ sockets[l] \in Records /\ sockets[l].queue \in Seq(Ids) /\ sockets[l].edge = 0
    BY <1>8, <2>1, ListenerIs
  <2>8. made \in Ids /\ sockets[made] = NoSocket /\ made \notin LiveIn(sockets) /\ made # l
    <3>1. made \in Ids /\ sockets[made] = NoSocket
      BY <1>1, <2>2, <2>5, FreeId
    <3> QED BY <3>1, <2>7 DEF LiveIn
  <2>9. Laid(1, c)
    <3>1. 1 \in Nat
      OBVIOUS
    <3> QED BY <3>1, <2>5, <2>6, LaidIs
  <2>10. e \in Endpoints
    <3>1. Loopback \in Nat /\ event.port \in Nat
      BY <2>6 DEF Loopback, Events
    <3>2. Unbound \in Addresses /\ wanted \in Addresses
      BY <3>1, <1>4, AddressesAre
    <3>3. Up \in Slots \cup {0} /\ Down \in Slots \cup {0} /\ UpStream \in Nat /\ DownStream \in Nat
      BY <1>1, <2>9 DEF Laid, UpStream, DownStream
    <3> QED BY <2>3, <3>2, <3>3, EndsAre
  <2>11. /\ F \in Records /\ F.state = "Connected" /\ F.references = 1
         /\ F.edge = c /\ F.queue = <<>> /\ F.ends = e /\ F # NoSocket
    <3>1. /\ F \in Records /\ F.state = "Connected" /\ F.references = 1
          /\ F.edge = c /\ F.queue = <<>> /\ F.ends = e
      BY <2>4, <2>6, <2>10, FarIs
    <3> QED BY <3>1, SocketsAssumption
  <2>12. /\ e.receive = Down /\ e.transmit = Up /\ e.hears = DownStream /\ e.says = UpStream
         /\ ~e.readShut /\ ~e.writeShut
    BY <2>3 DEF Ends
  <2>13. \A j \in LiveIn(sockets) : sockets[j].edge # 0 => sockets[j].state = "Connected"
    BY <1>1 DEF EventsAre
  <2>14. On(files, {made}) = {} /\ On(files', {made}) = {}
    BY <1>1, <1>5, <2>8, NewIsUnheld
  <2>15. CASE /\ sockets' = [sockets EXCEPT ![made] = F, ![l].queue = Append(@, made)]
              /\ UNCHANGED <<skewed, adrift>>
    <3>1. PICK w : w = Queueing(sockets[l], made)
      OBVIOUS
    <3>2. /\ w \in Records /\ w.state = "Listening" /\ w.references = sockets[l].references
          /\ w.edge = 0 /\ w.ends = sockets[l].ends /\ w.queue = Append(sockets[l].queue, made)
          /\ w # NoSocket
      <4>1. /\ w \in Records /\ w.state = sockets[l].state /\ w.references = sockets[l].references
            /\ w.edge = sockets[l].edge /\ w.ends = sockets[l].ends
            /\ w.queue = Append(sockets[l].queue, made)
        BY <3>1, <2>7, <2>8, AppendedIs
      <4> QED BY <4>1, <2>7, SocketsAssumption
    <3>3. /\ SocketsAre(sockets') /\ sockets'[made] = F /\ sockets'[l] = w
          /\ \A j \in Ids : j # made /\ j # l => sockets'[j] = sockets[j]
      <4>1. sockets \in [Ids -> Records \cup {NoSocket}]
        BY <1>1 DEF SocketsAre
      <4>2. sockets' = [sockets EXCEPT ![made] = F, ![l] = w]
        BY <4>1, <2>7, <2>8, <2>15, <3>1 DEF Queueing
      <4> QED BY <4>1, <4>2, <2>7, <2>8, <2>11, <3>2 DEF SocketsAre
    <3>4. LiveIn(sockets') = LiveIn(sockets) \cup {made}
      BY <2>7, <2>8, <2>11, <3>2, <3>3 DEF LiveIn
    <3>5. Enqueued(sockets, sockets', made, l)
      <4>1. \A j \in LiveIn(sockets) : Holds(sockets, sockets', j)
        BY <2>7, <2>8, <3>2, <3>3 DEF Holds, LiveIn
      <4>2. \A j \in LiveIn(sockets) \ {l} : sockets'[j].queue = sockets[j].queue
        BY <2>8, <3>3 DEF LiveIn
      <4> QED BY <4>1, <4>2, <2>7, <2>8, <2>11, <3>2, <3>3, <3>4 DEF Enqueued
    <3>6. WiredTo(made, {}, c)
      <4>1. /\ JoinedIn(sockets') = JoinedIn(sockets) \cup {made}
            /\ made \notin JoinedIn(sockets)
        BY <2>7, <2>8, <2>11, <3>2, <3>3 DEF JoinedIn
      <4>2. \A j \in JoinedIn(sockets) :
              sockets'[j].ends = sockets[j].ends /\ sockets'[j].edge = sockets[j].edge
        BY <4>1, <2>7, <3>3 DEF JoinedIn
      <4> QED BY <4>1, <4>2, <2>6, <2>8, <2>11, <2>12, <3>3 DEF WiredTo
    <3>7. OneHolder(made, {})
      <4>1. Count(files, sockets', {made}) = 1
        BY <1>1, <3>5, EnqueuedFar
      <4> QED BY <4>1, <1>5 DEF OneHolder
    <3>8. HoldersStay
      <4> SUFFICES ASSUME NEW s \in Slots
                   PROVE  /\ HoldersSame(files, sockets, files', sockets', Hearing(sockets, s))
                          /\ HoldersSame(files, sockets, files', sockets', Saying(sockets, s))
        BY DEF HoldersStay
      <4>1. made \notin Hearing(sockets, s) /\ made \notin Saying(sockets, s)
        BY <2>8 DEF Hearing, Saying, JoinedIn, LiveIn
      <4>2. /\ HoldersSame(files, sockets, files, sockets', Hearing(sockets, s))
            /\ HoldersSame(files, sockets, files, sockets', Saying(sockets, s))
        BY <4>1, <1>1, <3>5, EnqueuedHolders
      <4> QED BY <4>2, <1>5
    <3>9. EdgesElse(made)
      BY <2>7, <2>13, <3>2, <3>3, <3>4 DEF EdgesElse, LiveIn
    <3>10. DescriptorsLive(files', sockets')
      <4>1. DescriptorsLive(files, sockets')
        BY <1>1, <3>5, EnqueuedDescriptors
      <4> QED BY <4>1, <1>5
    <3>11. QueuesAre(files', sockets', adrift')
      <4>1. QueuesAre(files, sockets', adrift)
        BY <1>1, <3>5, EnqueuedQueues
      <4> QED BY <4>1, <1>5, <2>15
    <3>12. ReferencesAre(files', sockets', adrift')
      <4>1. ReferencesAre(files, sockets', adrift)
        BY <1>1, <3>5, EnqueuedReferences
      <4> QED BY <4>1, <1>5, <2>15
    <3>13. skewed \subseteq skewed'
      BY <2>15
    <3> QED BY <1>5, <1>6, <2>6, <2>9, <3>3, <3>6, <3>7, <3>8, <3>9, <3>10, <3>11, <3>12,
               <3>13, EdgeHolds
  <2>16. CASE /\ sockets' = [sockets EXCEPT ![made] = F]
              /\ skewed' = skewed \cup {UpStream, DownStream}
              /\ adrift' = adrift \cup {made}
    <3>1. /\ SocketsAre(sockets') /\ sockets'[made] = F
          /\ \A j \in Ids : j # made => sockets'[j] = sockets[j]
      BY <1>1, <2>8, <2>11, <2>16 DEF SocketsAre
    <3>2. LiveIn(sockets') = LiveIn(sockets) \cup {made}
      BY <2>8, <2>11, <3>1 DEF LiveIn
    <3>3. Opened(files, sockets, files', sockets', {made}, adrift, adrift')
      <4>1. \A j \in LiveIn(sockets) : Holds(sockets, sockets', j) /\ sockets'[j].queue = sockets[j].queue
        BY <2>8, <3>1 DEF Holds, LiveIn
      <4>2. \A S : On(files', S) = On(files, S)
        BY <1>5
      <4>3. adrift \subseteq adrift' /\ adrift' \subseteq adrift \cup {made} /\ made \in adrift'
        BY <2>16
      <4>4. {made} \subseteq Ids /\ {made} \cap LiveIn(sockets) = {}
        BY <2>8
      <4>5. \A j \in {made} : /\ sockets'[j].queue = <<>> /\ sockets'[j].references = 1
                              /\ IF j \in adrift' THEN On(files', {j}) = {}
                                 ELSE Cardinality(On(files', {j})) = 1
        BY <2>11, <2>14, <3>1, <4>3
      <4> QED BY <3>2, <4>1, <4>2, <4>3, <4>4, <4>5 DEF Opened
    <3>4. WiredTo(made, {}, c)
      <4>1. /\ JoinedIn(sockets') = JoinedIn(sockets) \cup {made}
            /\ made \notin JoinedIn(sockets)
        BY <2>8, <2>11, <3>1 DEF JoinedIn, LiveIn
      <4>2. \A j \in JoinedIn(sockets) :
              sockets'[j].ends = sockets[j].ends /\ sockets'[j].edge = sockets[j].edge
        BY <4>1, <3>1 DEF JoinedIn
      <4> QED BY <4>1, <4>2, <2>6, <2>8, <2>11, <2>12, <3>1 DEF WiredTo
    <3>5. OneHolder(made, {})
      BY <2>16 DEF OneHolder
    <3>6. HoldersStay
      BY <3>3, OpenedStay
    <3>7. EdgesElse(made)
      BY <2>13, <3>1, <3>2 DEF EdgesElse, LiveIn
    <3>8. DescriptorsLive(files', sockets')
      <4>1. FilesAre(files')
        BY <1>1, <1>5
      <4> QED BY <4>1, <1>1, <3>3, OpenedDescriptors
    <3>9. QueuesAre(files', sockets', adrift')
      BY <1>1, <3>3, OpenedQueues
    <3>10. ReferencesAre(files', sockets', adrift')
      BY <1>1, <3>3, OpenedReferences
    <3>11. skewed \subseteq skewed'
      BY <2>16
    <3> QED BY <1>5, <1>6, <2>6, <2>9, <3>1, <3>4, <3>5, <3>6, <3>7, <3>8, <3>9, <3>10,
               <3>11, EdgeHolds
  <2> QED BY <2>5, <2>15, <2>16
<1> QED BY <1>7, <1>8

\* What a ring is after bytes were put in.
LEMMA GiveIs ==
  ASSUME NEW r \in RingRecords, NEW data \in Seq(Nat), NEW q, q = AfterGive(r, data)
  PROVE  /\ q \in RingRecords /\ q.readers = r.readers /\ q.writers = r.writers
         /\ q.attached = r.attached /\ q.bytes = r.bytes \o data
<1>1. r.bytes \in Seq(Nat)
  BY DEF RingRecords
<1>2. PICK b : b = r.bytes \o data
  OBVIOUS
<1>3. b \in Seq(Nat)
  BY <1>1, <1>2
<1>4. q = [r EXCEPT !.bytes = b]
  BY <1>2 DEF AfterGive
<1> QED BY <1>2, <1>3, <1>4 DEF RingRecords

\* What a ring is after bytes were taken.
LEMMA TakeIs ==
  ASSUME NEW r \in RingRecords, NEW count \in Nat, NEW q, q = AfterTake(r, count)
  PROVE  /\ q \in RingRecords /\ q.readers = r.readers /\ q.writers = r.writers
         /\ q.attached = r.attached
         /\ Taken(r, count) \in Seq(Nat) /\ Len(Taken(r, count)) \in Nat
         /\ r.bytes = Taken(r, count) \o q.bytes
<1>1. PICK b : b = r.bytes
  OBVIOUS
<1>2. b \in Seq(Nat) /\ Len(b) \in Nat
  BY <1>1 DEF RingRecords
<1>3. PICK m : m = Lesser(count, Queued(r))
  OBVIOUS
<1>4. m \in Nat /\ m <= Len(b)
  BY <1>1, <1>2, <1>3 DEF Lesser, Queued
<1>5. PICK u, v : u = SubSeq(b, 1, m) /\ v = SubSeq(b, m + 1, Len(b))
  OBVIOUS
<1>6. /\ u \in Seq(Nat) /\ v \in Seq(Nat) /\ Len(u) = m /\ b = u \o v
  <2>1. \A a \in 1..Len(b) : b[a] \in Nat
    BY <1>2, ElementOfSeq
  <2>2. u \in Seq(Nat) /\ Len(u) = IF 1 <= m THEN m - 1 + 1 ELSE 0
    BY <2>1, <1>4, <1>2, <1>5, SubSeqProperties
  <2>3. v \in Seq(Nat)
    BY <2>1, <1>4, <1>2, <1>5, SubSeqProperties
  <2>a. 1 \in 1..Len(b) + 1 /\ m \in (1 - 1)..Len(b) /\ Len(b) \in m..Len(b)
    BY <1>2, <1>4
  <2>b. SubSeq(b, 1, m) \o SubSeq(b, m + 1, Len(b)) = SubSeq(b, 1, Len(b))
    BY <1>2, <2>a, ConcatAdjacentSubSeq
  <2>4. u \o v = SubSeq(b, 1, Len(b))
    BY <2>b, <1>5
  <2>5. SubSeq(b, 1, Len(b)) = b
    BY <1>2, SubSeqFull
  <2>6. Len(u) = m
    BY <2>2, <1>4
  <2>7. b = u \o v
    BY <2>4, <2>5
  <2> QED BY <2>2, <2>3, <2>6, <2>7
<1>7. Taken(r, count) = u
  BY <1>1, <1>3, <1>5 DEF Taken
<1>8. q = [r EXCEPT !.bytes = v]
  BY <1>1, <1>3, <1>5 DEF AfterTake
<1>9. /\ q \in RingRecords /\ q.readers = r.readers /\ q.writers = r.writers
      /\ q.attached = r.attached /\ q.bytes = v
  BY <1>6, <1>8 DEF RingRecords
<1> QED BY <1>1, <1>4, <1>6, <1>7, <1>9

\* Numbered bytes, one by one.
LEMMA NumbersIs ==
  ASSUME NEW from \in Nat, NEW n \in Nat
  PROVE  /\ Numbers(from, n) \in Seq(Nat) /\ Len(Numbers(from, n)) = n
         /\ \A a \in 1..n : Numbers(from, n)[a] = from + a
<1>1. \A a \in 1..n : from + a \in Nat
  OBVIOUS
<1> QED BY <1>1 DEF Numbers

\* One ring is written, and keeps its counts.
LEMMA OneRing ==
  ASSUME RingsAre(rings), NEW s \in Slots, NEW q \in RingRecords,
         q.readers = rings[s].readers, q.writers = rings[s].writers,
         q.attached = rings[s].attached, rings' = [rings EXCEPT ![s] = q]
  PROVE  RingsAre(rings') /\ RingsStay
<1>1. /\ RingsAre(rings') /\ rings'[s] = q
      /\ \A t \in Slots : t # s => rings'[t] = rings[t]
  BY DEF RingsAre
<1> QED BY <1>1 DEF RingsStay

\* One stream is counted on, and keeps the host's part.
LEMMA OneStream ==
  ASSUME StreamsAre(streams), NEW k \in 1..Len(streams), NEW x \in Streams,
         x.reads = streams[k].reads, x.writes = streams[k].writes,
         streams' = [streams EXCEPT ![k] = x]
  PROVE  /\ StreamsAre(streams') /\ StreamsKept(streams, streams')
         /\ Len(streams') = Len(streams)
<1>1. /\ StreamsAre(streams') /\ Len(streams') = Len(streams) /\ streams'[k] = x
      /\ \A a \in 1..Len(streams) : a # k => streams'[a] = streams[a]
  BY DEF StreamsAre
<1> QED BY <1>1 DEF StreamsKept

\* The rings and the streams of a connected socket.
LEMMA EndIs ==
  ASSUME Core, NEW i \in JoinedIn(sockets), NEW e, e = sockets[i].ends
  PROVE  /\ e.receive \in Slots /\ e.transmit \in Slots
         /\ rings[e.receive] \in RingRecords /\ rings[e.transmit] \in RingRecords
         /\ e.hears \in 1..Len(streams) /\ e.says \in 1..Len(streams)
         /\ streams[e.hears] \in Streams /\ streams[e.says] \in Streams
<1>1. /\ CarriedAre(sockets, carries, streams) /\ RingsAre(rings) /\ StreamsAre(streams)
      /\ Len(streams) \in Nat
  BY CoreParts
<1>2. /\ e.receive \in Slots /\ e.transmit \in Slots /\ e.hears # 0 /\ e.says # 0
      /\ carries[e.receive] = e.hears /\ carries[e.transmit] = e.says
  BY <1>1 DEF CarriedAre
<1>3. carries[e.receive] \in 0..Len(streams) /\ carries[e.transmit] \in 0..Len(streams)
  BY <1>1, <1>2 DEF CarriedAre
<1>4. e.hears \in 1..Len(streams) /\ e.says \in 1..Len(streams)
  BY <1>2, <1>3
<1> QED BY <1>1, <1>2, <1>4 DEF RingsAre, StreamsAre

\* What a send puts in.
LEMMA AcceptedIs ==
  ASSUME NEW r \in RingRecords, NEW length \in Lengths, NEW n, n = Accepted(r, length), n > 0
  PROVE  n \in Nat
<1>1. length \in Nat /\ Capacity \in Nat /\ Len(r.bytes) \in Nat
  BY SocketsAssumption, RingAssumption DEF RingRecords
<1>2. Accepted(r, length) \in Int
  BY <1>1 DEF Accepted, Lesser, Room, Queued
<1> QED BY <1>2

\* A step that puts bytes in, and one that takes bytes out.
Puts ==
  \E i \in JoinedIn(sockets), n \in Nat :
    LET e == sockets[i].ends IN
    /\ ~e.writeShut /\ sockets' = sockets /\ net' = net /\ RingsStay
    /\ rings'[e.transmit].bytes = rings[e.transmit].bytes \o Numbers(streams[e.says].sent, n)
    /\ \A t \in Slots : t # e.transmit => rings'[t] = rings[t]
    /\ Len(streams') = Len(streams) /\ StreamsKept(streams, streams')
    /\ \A a \in 1..Len(streams) : a # e.says => streams'[a] = streams[a]
    /\ streams'[e.says].got = streams[e.says].got
    /\ streams'[e.says].sent = streams[e.says].sent + n

\* send.
LEMMA SendHolds ==
  ASSUME Core, NEW p \in Procs, NEW fd \in Fds, NEW length \in Lengths, Send(p, fd, length)
  PROVE  Core' /\ Puts
<1>1. PICK i : i = SocketAt(p, fd)
  OBVIOUS
<1>2. i \in LiveIn(sockets) /\ sockets[i].state = "Connected"
  BY <1>1, NamedIs DEF Send
<1>3. i \in JoinedIn(sockets)
  BY <1>2 DEF LiveIn, JoinedIn
<1>4. PICK e : e = sockets[i].ends
  OBVIOUS
<1>5. PICK r : r = rings[e.transmit]
  OBVIOUS
<1>6. PICK n : n = Accepted(r, length)
  OBVIOUS
<1>7. /\ e.transmit \in Slots /\ r \in RingRecords /\ e.says \in 1..Len(streams)
      /\ streams[e.says] \in Streams
  BY <1>3, <1>4, <1>5, EndIs
<1>8. /\ n > 0
      /\ rings' = [rings EXCEPT ![e.transmit] = AfterGive(r, Numbers(streams[e.says].sent, n))]
      /\ streams' = [streams EXCEPT ![e.says].sent = @ + n]
  BY <1>1, <1>4, <1>5, <1>6 DEF Send
<1>9. n \in Nat
  BY <1>6, <1>7, <1>8, AcceptedIs
<1>10. PICK q : q = AfterGive(r, Numbers(streams[e.says].sent, n))
  OBVIOUS
<1>11. /\ q \in RingRecords /\ q.readers = r.readers /\ q.writers = r.writers
       /\ q.attached = r.attached /\ q.bytes = r.bytes \o Numbers(streams[e.says].sent, n)
  <2>1. streams[e.says].sent \in Nat
    BY <1>7 DEF Streams
  <2>2. Numbers(streams[e.says].sent, n) \in Seq(Nat)
    BY <1>9, <2>1, NumbersIs
  <2> QED BY <1>7, <1>10, <2>2, GiveIs
<1>12. /\ RingsAre(rings) /\ StreamsAre(streams) /\ NetIs(net) /\ batch \in Seq(Events)
  BY CoreParts
<1>13. RingsAre(rings') /\ RingsStay
  BY <1>5, <1>7, <1>8, <1>10, <1>11, <1>12, OneRing
<1>14. PICK x : x = [streams[e.says] EXCEPT !.sent = @ + n]
  OBVIOUS
<1>15. x \in Streams /\ x.reads = streams[e.says].reads /\ x.writes = streams[e.says].writes
  BY <1>7, <1>9, <1>14 DEF Streams
<1>16. streams' = [streams EXCEPT ![e.says] = x]
  BY <1>7, <1>8, <1>12, <1>14 DEF StreamsAre
<1>17. /\ StreamsAre(streams') /\ StreamsKept(streams, streams')
       /\ Len(streams') = Len(streams)
  BY <1>7, <1>12, <1>15, <1>16, OneStream
<1>18. /\ sockets' = sockets /\ files' = files /\ net' = net /\ batch' = batch
       /\ carries' = carries /\ skewed' = skewed /\ adrift' = adrift /\ menu' = menu
  BY DEF Send
<1>19. Pending' = Pending
  BY <1>18, PendingStill
<1>20. HostStays /\ PendingStays
  BY <1>18, <1>19 DEF HostStays, PendingStays
<1>21. NetIs(net') /\ batch' \in Seq(Events)
  BY <1>12, <1>18
<1>22. Core'
  BY <1>13, <1>17, <1>18, <1>20, <1>21, QuietHolds
<1>23. /\ rings'[e.transmit] = q
       /\ \A t \in Slots : t # e.transmit => rings'[t] = rings[t]
  BY <1>7, <1>8, <1>10, <1>12 DEF RingsAre
<1>24. /\ streams'[e.says] = x
       /\ \A a \in 1..Len(streams) : a # e.says => streams'[a] = streams[a]
  BY <1>7, <1>12, <1>16 DEF StreamsAre
<1>25. x.got = streams[e.says].got /\ x.sent = streams[e.says].sent + n
  BY <1>7, <1>14 DEF Streams
<1>26. ~e.writeShut
  BY <1>1, <1>4 DEF Send
<1>27. Puts
  BY <1>3, <1>4, <1>5, <1>9, <1>11, <1>13, <1>17, <1>18, <1>23, <1>24, <1>25, <1>26 DEF Puts
<1> QED BY <1>22, <1>27

Takes ==
  \E i \in JoinedIn(sockets), x \in Seq(Nat) :
    LET e == sockets[i].ends IN
    /\ sockets' = sockets /\ net' = net /\ RingsStay
    /\ rings'[e.receive].bytes \in Seq(Nat)
    /\ rings[e.receive].bytes = x \o rings'[e.receive].bytes
    /\ \A t \in Slots : t # e.receive => rings'[t] = rings[t]
    /\ Len(streams') = Len(streams) /\ StreamsKept(streams, streams')
    /\ \A a \in 1..Len(streams) : a # e.hears => streams'[a] = streams[a]
    /\ streams'[e.hears].got = streams[e.hears].got + Len(x)
    /\ streams'[e.hears].sent = streams[e.hears].sent

\* receive.
LEMMA ReceiveHolds ==
  ASSUME Core, NEW p \in Procs, NEW fd \in Fds, NEW length \in Lengths, Receive(p, fd, length)
  PROVE  Core' /\ Takes
<1>1. PICK i : i = SocketAt(p, fd)
  OBVIOUS
<1>2. i \in LiveIn(sockets) /\ sockets[i].state = "Connected"
  BY <1>1, NamedIs DEF Receive
<1>3. i \in JoinedIn(sockets)
  BY <1>2 DEF LiveIn, JoinedIn
<1>4. PICK e : e = sockets[i].ends
  OBVIOUS
<1>5. PICK r : r = rings[e.receive]
  OBVIOUS
<1>7. /\ e.receive \in Slots /\ r \in RingRecords /\ e.hears \in 1..Len(streams)
      /\ streams[e.hears] \in Streams
  BY <1>3, <1>4, <1>5, EndIs
<1>8. /\ rings' = [rings EXCEPT ![e.receive] = AfterTake(r, length)]
      /\ streams' = [streams EXCEPT ![e.hears].got = @ + Len(Taken(r, length))]
  BY <1>1, <1>4, <1>5 DEF Receive
<1>9. length \in Nat
  BY SocketsAssumption
<1>10. PICK q : q = AfterTake(r, length)
  OBVIOUS
<1>11. /\ q \in RingRecords /\ q.readers = r.readers /\ q.writers = r.writers
       /\ q.attached = r.attached /\ Len(Taken(r, length)) \in Nat
       /\ Taken(r, length) \in Seq(Nat) /\ r.bytes = Taken(r, length) \o q.bytes
  <2>1. r \in RingRecords /\ length \in Nat /\ q = AfterTake(r, length)
    BY <1>7, <1>9, <1>10
  <2> QED BY <2>1, TakeIs
<1>12. /\ RingsAre(rings) /\ StreamsAre(streams) /\ NetIs(net) /\ batch \in Seq(Events)
  BY CoreParts
<1>13. RingsAre(rings') /\ RingsStay
  BY <1>5, <1>7, <1>8, <1>10, <1>11, <1>12, OneRing
<1>14. PICK n : n = Len(Taken(r, length))
  OBVIOUS
<1>15. PICK x : x = [streams[e.hears] EXCEPT !.got = @ + n]
  OBVIOUS
<1>16. x \in Streams /\ x.reads = streams[e.hears].reads /\ x.writes = streams[e.hears].writes
  <2>1. PICK y \in Streams : y = streams[e.hears]
    BY <1>7
  <2>2. n \in Nat
    BY <1>11, <1>14
  <2>3. x = [y EXCEPT !.got = y.got + n]
    BY <2>1, <1>15
  <2>4. x \in Streams /\ x.reads = y.reads /\ x.writes = y.writes
    BY <2>2, <2>3 DEF Streams
  <2> QED BY <2>1, <2>4
<1>17. streams' = [streams EXCEPT ![e.hears] = x]
  BY <1>7, <1>8, <1>12, <1>14, <1>15 DEF StreamsAre
<1>18. /\ StreamsAre(streams') /\ StreamsKept(streams, streams')
       /\ Len(streams') = Len(streams)
  BY <1>7, <1>12, <1>16, <1>17, OneStream
<1>19. /\ sockets' = sockets /\ files' = files /\ net' = net /\ batch' = batch
       /\ carries' = carries /\ skewed' = skewed /\ adrift' = adrift /\ menu' = menu
  BY DEF Receive
<1>20. Pending' = Pending
  BY <1>19, PendingStill
<1>21. HostStays /\ PendingStays
  BY <1>19, <1>20 DEF HostStays, PendingStays
<1>22. NetIs(net') /\ batch' \in Seq(Events)
  BY <1>12, <1>19
<1>23. Core'
  BY <1>13, <1>18, <1>19, <1>21, <1>22, QuietHolds
<1>24. /\ rings'[e.receive] = q
       /\ \A t \in Slots : t # e.receive => rings'[t] = rings[t]
  BY <1>7, <1>8, <1>10, <1>12 DEF RingsAre
<1>25. /\ streams'[e.hears] = x
       /\ \A a \in 1..Len(streams) : a # e.hears => streams'[a] = streams[a]
  BY <1>7, <1>12, <1>17 DEF StreamsAre
<1>26. x.got = streams[e.hears].got + n /\ x.sent = streams[e.hears].sent
  BY <1>7, <1>15 DEF Streams
<1>27. q.bytes \in Seq(Nat)
  BY <1>11 DEF RingRecords
<1>28. PICK y \in Seq(Nat) : y = Taken(r, length)
  BY <1>11
<1>29. Takes
  BY <1>3, <1>4, <1>5, <1>11, <1>13, <1>14, <1>18, <1>19, <1>24, <1>25, <1>26, <1>27, <1>28
     DEF Takes
<1> QED BY <1>23, <1>29

\* What flush_edges leaves.
LEMMA FlushIs ==
  ASSUME Core, FlushEdges
  PROVE  /\ RingsAre(rings') /\ RingsStay
         /\ StreamsAre(streams') /\ StreamsKept(streams, streams')
         /\ Len(streams') = Len(streams)
<1>1. RingsAre(rings) /\ StreamsAre(streams)
  BY CoreParts
<1>2. ASSUME NEW s \in Slots
      PROVE  /\ rings'[s] \in RingRecords
             /\ rings'[s].readers = rings[s].readers /\ rings'[s].writers = rings[s].writers
             /\ rings'[s].attached = rings[s].attached
  <2>1. PICK r : r = rings[s]
    OBVIOUS
  <2>2. r \in RingRecords
    BY <1>1, <2>1 DEF RingsAre
  <2>3. rings'[s] = IF s \in Flushed(Sending) THEN Emptied(r) ELSE r
    BY <2>1 DEF FlushEdges
  <2>4. <<>> \in Seq(Nat)
    OBVIOUS
  <2>5. /\ Emptied(r) \in RingRecords
        /\ Emptied(r).readers = r.readers /\ Emptied(r).writers = r.writers
        /\ Emptied(r).attached = r.attached
    BY <2>2, <2>4 DEF Emptied, RingRecords
  <2> QED BY <2>1, <2>2, <2>3, <2>5
<1>3. RingsAre(rings')
  <2>1. rings' = [s \in Slots |-> rings'[s]]
    BY DEF FlushEdges
  <2> QED BY <2>1, <1>2 DEF RingsAre
<1>4. RingsStay
  BY <1>2 DEF RingsStay
<1>5. streams \in Seq(Streams) /\ Len(streams) \in Nat /\ DOMAIN streams = 1..Len(streams)
  BY <1>1 DEF StreamsAre
<1>6. ASSUME NEW a \in 1..Len(streams)
      PROVE  /\ streams'[a] \in Streams
             /\ streams'[a].reads = streams[a].reads /\ streams'[a].writes = streams[a].writes
  <2>1. streams[a] \in Streams
    BY <1>5
  <2>2. streams'[a] = IF \E i \in Sending : sockets[i].ends.says = a
                      THEN [streams[a] EXCEPT !.got = streams[a].sent] ELSE streams[a]
    BY <1>5 DEF FlushEdges
  <2> QED BY <2>1, <2>2 DEF Streams
<1>7. StreamsAre(streams') /\ Len(streams') = Len(streams)
  <2>1. streams' = [a \in 1..Len(streams) |-> streams'[a]]
    BY <1>5 DEF FlushEdges
  <2> QED BY <2>1, <1>5, <1>6 DEF StreamsAre
<1>8. StreamsKept(streams, streams')
  BY <1>6 DEF StreamsKept
<1> QED BY <1>3, <1>4, <1>7, <1>8

\* The transmit rings are flushed to the host.
LEMMA FlushHolds ==
  ASSUME Core, Flush
  PROVE  Core'
<1>1. FlushEdges /\ net' = net /\ batch' = batch
  BY DEF Flush
<1>2. /\ sockets' = sockets /\ files' = files /\ carries' = carries /\ skewed' = skewed
      /\ adrift' = adrift /\ menu' = menu
  BY <1>1 DEF FlushEdges
<1>3. /\ RingsAre(rings') /\ RingsStay
      /\ StreamsAre(streams') /\ StreamsKept(streams, streams')
      /\ Len(streams') = Len(streams)
  BY <1>1, FlushIs
<1>4. Pending' = Pending
  BY <1>1, PendingStill
<1>5. HostStays /\ PendingStays /\ NetIs(net') /\ batch' \in Seq(Events)
  BY <1>1, <1>4, CoreParts DEF HostStays, PendingStays
<1> QED BY <1>1, <1>2, <1>3, <1>5, QuietHolds

\* The host's events are taken over.
LEMMA PumpHolds ==
  ASSUME Core, Pump
  PROVE  Core'
<1>1. FlushEdges /\ batch = <<>> /\ batch' = net.events /\ net' = [net EXCEPT !.events = <<>>]
  BY DEF Pump
<1>2. /\ sockets' = sockets /\ files' = files /\ carries' = carries /\ skewed' = skewed
      /\ adrift' = adrift /\ menu' = menu
  BY <1>1 DEF FlushEdges
<1>3. /\ RingsAre(rings') /\ RingsStay
      /\ StreamsAre(streams') /\ StreamsKept(streams, streams')
      /\ Len(streams') = Len(streams)
  BY <1>1, FlushIs
<1>4. NetIs(net)
  BY CoreParts
<1>5. <<>> \in Seq(Events)
  OBVIOUS
<1>6. /\ NetIs(net') /\ net'.events = <<>> /\ net'.connections = net.connections
  BY <1>1, <1>4, <1>5 DEF NetIs
<1>7. batch' \in Seq(Events) /\ Pending' = Pending
  <2>1. PICK q : q = net.events
    OBVIOUS
  <2>2. q \in Seq(Events)
    BY <1>4, <2>1, ConnectionsAre
  <2>3. q \o <<>> = q /\ <<>> \o q = q
    BY <2>2
  <2>4. batch' = q /\ Pending = <<>> \o q /\ Pending' = q \o <<>>
    BY <1>1, <1>6, <2>1 DEF Pending
  <2> QED BY <2>2, <2>3, <2>4
<1>8. HostStays /\ PendingStays
  BY <1>6, <1>7 DEF HostStays, PendingStays
<1> QED BY <1>2, <1>3, <1>6, <1>7, <1>8, QuietHolds

\* What drain_edge leaves of the ring of socket i and of the host's connection c.
DrainedTo(i, c, q, n) ==
  /\ q \in RingRecords
  /\ q.readers = rings[sockets[i].ends.receive].readers
  /\ q.writers = rings[sockets[i].ends.receive].writers
  /\ q.attached = rings[sockets[i].ends.receive].attached
  /\ NetIs(n) /\ n.events = net.events /\ n.listening = net.listening
  /\ Len(n.connections) = Len(net.connections)
  /\ \A d \in 1..Len(net.connections) :
       /\ d # c => n.connections[d] = net.connections[d]
       /\ n.connections[d].reading = net.connections[d].reading
       /\ n.connections[d].present = net.connections[d].present
       /\ n.connections[d].shut = net.connections[d].shut
       /\ n.connections[d].sent = net.connections[d].sent
  /\ q.bytes \o n.connections[c].incoming
       = rings[sockets[i].ends.receive].bytes \o net.connections[c].incoming

\* The socket of a connection of the host has it.
LEMMA EdgeSocketIs ==
  ASSUME NEW c, SocketForEdge(c) # {}, NEW i, i = Least(SocketForEdge(c))
  PROVE  i \in JoinedIn(sockets) /\ sockets[i].edge = c /\ c # 0
<1>1. SocketForEdge(c) \subseteq Ids
  BY DEF SocketForEdge, Edges, Connected, Live
<1>2. SocketForEdge(c) \subseteq Nat
  BY <1>1, SocketsAssumption
<1>3. i \in SocketForEdge(c)
  BY <1>2, LeastExists
<1> QED BY <1>3 DEF SocketForEdge, Edges, Connected, Live, JoinedIn

\* A prefix and the rest are the whole.
Leading(b, m)   == SubSeq(b, 1, m)
TheRest(b, m) == SubSeq(b, Len(Leading(b, m)) + 1, Len(b))

\* A prefix and what is left make the whole.
LEMMA SplitIs ==
  ASSUME NEW b \in Seq(Nat), NEW m \in Int, m <= Len(b)
  PROVE  /\ Leading(b, m) \in Seq(Nat) /\ TheRest(b, m) \in Seq(Nat)
         /\ b = Leading(b, m) \o TheRest(b, m)
<1>a. PICK u : u = Leading(b, m)
  OBVIOUS
<1>b. PICK v : v = TheRest(b, m)
  OBVIOUS
<1>c. u = SubSeq(b, 1, m) /\ v = SubSeq(b, Len(u) + 1, Len(b))
  BY <1>a, <1>b DEF Leading, TheRest
<1>1. Len(b) \in Nat /\ \A a \in 1..Len(b) : b[a] \in Nat
  BY ElementOfSeq
<1>2. u \in Seq(Nat) /\ Len(u) = IF 1 <= m THEN m - 1 + 1 ELSE 0
  <2>1. \A a \in 1..m : b[a] \in Nat
    BY <1>1
  <2> QED BY <2>1, <1>1, <1>c, SubSeqProperties
<1>3. PICK k : k = Len(u)
  OBVIOUS
<1>4. k \in Nat /\ k <= Len(b)
  BY <1>1, <1>2, <1>3
<1>5. u = SubSeq(b, 1, k)
  <2>1. CASE 1 <= m
    BY <2>1, <1>2, <1>3, <1>c
  <2>2. CASE ~(1 <= m)
    <3>1. k = 0 /\ m < 1
      BY <2>2, <1>2, <1>3
    <3>2. SubSeq(b, 1, m) = <<>> /\ SubSeq(b, 1, 0) = <<>>
      BY <3>1, SubSeqEmpty
    <3> QED BY <3>1, <3>2, <1>c
  <2> QED BY <2>1, <2>2
<1>6. v = SubSeq(b, k + 1, Len(b))
  BY <1>3, <1>c
<1>7. v \in Seq(Nat)
  <2>1. \A a \in (k + 1)..Len(b) : b[a] \in Nat
    BY <1>1, <1>4
  <2> QED BY <2>1, <1>1, <1>4, <1>6, SubSeqProperties
<1>8. SubSeq(b, 1, k) \o SubSeq(b, k + 1, Len(b)) = SubSeq(b, 1, Len(b))
  <2>1. 1 \in 1..Len(b) + 1 /\ k \in (1 - 1)..Len(b) /\ Len(b) \in k..Len(b)
    BY <1>1, <1>4
  <2> QED BY <2>1, ConcatAdjacentSubSeq
<1>9. SubSeq(b, 1, Len(b)) = b
  BY SubSeqFull
<1>10. b = u \o v
  BY <1>5, <1>6, <1>8, <1>9
<1> QED BY <1>2, <1>7, <1>10, <1>a, <1>b

\* Three sequences joined either way.
LEMMA Regroup ==
  ASSUME NEW u \in Seq(Nat), NEW v \in Seq(Nat), NEW w \in Seq(Nat)
  PROVE  (u \o v) \o w = u \o (v \o w)
<1>1. PICK S : S = Nat
  OBVIOUS
<1>2. u \in Seq(S) /\ v \in Seq(S) /\ w \in Seq(S)
  BY <1>1
<1> HIDE <1>1
<1> QED
  BY <1>2, ConcatAssociative

\* drain_edge moves bytes from the host to the ring, in their order.
LEMMA DrainIs ==
  ASSUME Core, NEW c \in 1..Len(net.connections), SocketForEdge(c) # {},
         NEW i, i = Least(SocketForEdge(c))
  PROVE  DrainedTo(i, c, DrainEdge(c).ring, DrainEdge(c).net)
<1>1. i \in JoinedIn(sockets)
  BY EdgeSocketIs
<1>2. PICK e : e = sockets[i].ends
  OBVIOUS
<1>3. PICK r : r = rings[e.receive]
  OBVIOUS
<1>4. r \in RingRecords
  BY <1>1, <1>2, <1>3, EndIs
<1>5. NetIs(net)
  BY CoreParts
<1>6. CASE Room(r) = 0
  <2>1. DrainEdge(c) = [ring |-> r, net |-> net]
    BY <1>2, <1>3, <1>6 DEF DrainEdge
  <2>2. DrainEdge(c).ring = r /\ DrainEdge(c).net = net
    BY <2>1
  <2> QED BY <2>2, <1>2, <1>3, <1>4, <1>5 DEF DrainedTo
<1>7. CASE Room(r) # 0
  <2>1. DrainEdge(c) = [ring |-> AfterGive(r, Rx(net, c, Room(r))),
                        net |-> AfterRx(net, c, Room(r))]
    BY <1>2, <1>3, <1>7 DEF DrainEdge
  <2>2. PICK con : con = net.connections
    OBVIOUS
  <2>3. /\ con \in Seq(Connections) /\ con[c] \in Connections /\ DOMAIN con = 1..Len(con)
        /\ net = [events |-> net.events, connections |-> con, listening |-> net.listening]
        /\ net.events \in Seq(Events) /\ net.listening \in SUBSET Mapped
        /\ Len(con) \in Nat
    BY <1>5, <2>2, ConnectionsAre DEF NetIs
  <2>4. PICK h : h = con[c].incoming
    OBVIOUS
  <2>5. h \in Seq(Nat) /\ Len(h) \in Nat
    BY <2>3, <2>4 DEF Connections
  <2>6. PICK m : m = IF Room(r) <= Len(h) THEN Room(r) ELSE Len(h)
    OBVIOUS
  <2>7. Room(r) \in Int
    <3>1. Queued(r) \in Nat
      BY <1>4 DEF Queued, RingRecords
    <3> QED BY <3>1, RingAssumption DEF Room
  <2>8. m \in Int /\ m <= Len(h)
    BY <2>5, <2>6, <2>7
  <2>9. PICK x : x = SubSeq(h, 1, m)
    OBVIOUS
  <2>10. PICK w : w = SubSeq(h, Len(x) + 1, Len(h))
    OBVIOUS
  <2>11. x \in Seq(Nat) /\ w \in Seq(Nat) /\ h = x \o w
    <3>1. h \in Seq(Nat) /\ m \in Int /\ m <= Len(h)
      BY <2>5, <2>8
    <3>2. /\ Leading(h, m) \in Seq(Nat) /\ TheRest(h, m) \in Seq(Nat)
          /\ h = Leading(h, m) \o TheRest(h, m)
      BY <3>1, SplitIs
    <3>3. x = Leading(h, m) /\ w = TheRest(h, m)
      BY <2>9, <2>10 DEF Leading, TheRest
    <3> QED BY <3>2, <3>3
  <2>12. Rx(net, c, Room(r)) = x
    BY <2>2, <2>4, <2>6, <2>9 DEF Rx
  <2>13. PICK y : y = [con[c] EXCEPT !.incoming = w]
    OBVIOUS
  <2>14. /\ y \in Connections /\ y.reading = con[c].reading /\ y.present = con[c].present
         /\ y.shut = con[c].shut /\ y.sent = con[c].sent /\ y.incoming = w
    BY <2>3, <2>11, <2>13 DEF Connections
  <2>15. PICK n : n = AfterRx(net, c, Room(r))
    OBVIOUS
  <2>16. n = [net EXCEPT !.connections[c].incoming = w]
    BY <2>2, <2>4, <2>10, <2>12, <2>15 DEF AfterRx
  <2>17. PICK z : z = [con EXCEPT ![c] = y]
    OBVIOUS
  <2>18. /\ z \in Seq(Connections) /\ Len(z) = Len(con) /\ z[c] = y
         /\ \A d \in 1..Len(con) : d # c => z[d] = con[d]
    BY <2>2, <2>3, <2>14, <2>17, ExceptSeq
  <2>19. n = [net EXCEPT !.connections = z]
    BY <2>2, <2>3, <2>13, <2>16, <2>17
  <2>20. /\ NetIs(n) /\ n.connections = z /\ n.events = net.events
         /\ n.listening = net.listening
    BY <2>3, <2>18, <2>19 DEF NetIs
  <2>21. PICK q : q = AfterGive(r, x)
    OBVIOUS
  <2>22. /\ q \in RingRecords /\ q.readers = r.readers /\ q.writers = r.writers
         /\ q.attached = r.attached /\ q.bytes = r.bytes \o x
    BY <1>4, <2>11, <2>21, GiveIs
  <2>23. DrainEdge(c).ring = q /\ DrainEdge(c).net = n
    BY <2>1, <2>12, <2>15, <2>21
  <2>24. r.bytes \in Seq(Nat)
    BY <1>4 DEF RingRecords
  <2>25. (r.bytes \o x) \o w = r.bytes \o (x \o w)
    BY <2>11, <2>24, Regroup, Zenon
  <2>26. q.bytes \o n.connections[c].incoming = r.bytes \o net.connections[c].incoming
    BY <2>2, <2>4, <2>11, <2>14, <2>18, <2>20, <2>22, <2>25
  <2>27. ASSUME NEW d \in 1..Len(con)
         PROVE  /\ d # c => n.connections[d] = con[d]
                /\ n.connections[d].reading = con[d].reading
                /\ n.connections[d].present = con[d].present
                /\ n.connections[d].shut = con[d].shut
                /\ n.connections[d].sent = con[d].sent
    BY <2>14, <2>18, <2>20
  <2> QED BY <1>2, <1>3, <2>2, <2>18, <2>20, <2>22, <2>23, <2>26, <2>27 DEF DrainedTo
<1> QED BY <1>6, <1>7

\* The event a step handles names a connection.
LEMMA FirstEventIs ==
  ASSUME Core, batch # <<>>, batch' = Tail(batch), net'.events = net.events
  PROVE  /\ FirstGoes /\ PendingStays /\ batch' \in Seq(Events)
         /\ Head(batch).conn \in 1..Len(net.connections)
<1>1. FirstGoes /\ PendingStays /\ batch' \in Seq(Events)
  BY FirstGoesIs
<1>2. EventsAre(sockets, streams, Pending, net.connections)
  BY CoreParts
<1>3. Pending[1].conn \in 1..Len(net.connections)
  BY <1>1, <1>2 DEF FirstGoes, EventsAre
<1> QED BY <1>1, <1>3 DEF FirstGoes

\* The connection the drained socket has.
LEMMA DrainStays ==
  ASSUME NEW i \in JoinedIn(sockets'), NEW c, sockets'[i].edge = c, NEW q,
         DrainedTo(i, c, q, net')
  PROVE  HostStays
<1>1. i \in LiveIn(sockets')
  BY DEF JoinedIn, LiveIn
<1> QED BY <1>1 DEF HostStays, DrainedTo

\* A step that moves the host's bytes into a ring, and may end its writing.
Draining ==
  \E i \in JoinedIn(sockets), q \in RingRecords :
    LET s == sockets[i].ends.receive IN
    /\ sockets' = sockets /\ sockets[i].edge # 0
    /\ DrainedTo(i, sockets[i].edge, q, net')
    /\ rings'[s].bytes = q.bytes \/ rings'[s] = FreeRing
    /\ rings'[s].readers = rings[s].readers
    /\ rings'[s].writers \in {rings[s].writers, SaturatingSub(rings[s].writers, 1)}
    /\ \A t \in Slots : t # s => rings'[t] = rings[t]
    /\ Len(streams') = Len(streams)
    /\ \A a \in 1..Len(streams) :
         /\ streams'[a].sent = streams[a].sent /\ streams'[a].got = streams[a].got
         /\ streams'[a].reads = streams[a].reads

\* The host reports bytes.
LEMMA DataHolds ==
  ASSUME Core, Data
  PROVE  Core' /\ (Resting \/ Draining)
<1>1. PICK c : c = Head(batch).conn
  OBVIOUS
<1>2. /\ batch # <<>> /\ batch' = Tail(batch) /\ net' = DrainEdge(c).net
      /\ sockets' = sockets /\ files' = files /\ menu' = menu
      /\ streams' = streams /\ carries' = carries /\ skewed' = skewed /\ adrift' = adrift
      /\ SocketForEdge(c) = {} => rings' = rings
      /\ SocketForEdge(c) # {} =>
           rings' = [rings EXCEPT ![sockets[Least(SocketForEdge(c))].ends.receive] =
                       DrainEdge(c).ring]
  BY <1>1 DEF Data, NextEvent, history
<1>3. /\ RingsAre(rings) /\ StreamsAre(streams) /\ NetIs(net)
      /\ EventsAre(sockets, streams, Pending, net.connections)
      /\ Len(streams) \in Nat
  BY CoreParts
<1>4. StreamsAre(streams') /\ StreamsKept(streams, streams') /\ Len(streams') = Len(streams)
  BY <1>2, <1>3 DEF StreamsKept
<1>5. CASE SocketForEdge(c) = {}
  <2>1. net' = net
    BY <1>2, <1>5 DEF DrainEdge
  <2>2. /\ PendingStays /\ batch' \in Seq(Events)
    BY <1>2, <2>1, FirstEventIs
  <2>3. HostStays
    BY <2>1 DEF HostStays
  <2>4. RingsAre(rings') /\ RingsStay
    BY <1>2, <1>3, <1>5 DEF RingsStay
  <2>5. NetIs(net')
    BY <1>3, <2>1
  <2>6. Core'
    BY <1>2, <1>4, <2>2, <2>3, <2>4, <2>5, QuietHolds
  <2>7. Resting
    BY <1>2, <1>5, <2>1 DEF Resting, JoinedStay, JoinedIn, history
  <2> QED BY <2>6, <2>7
<1>6. CASE SocketForEdge(c) # {}
  <2>1. PICK i : i = Least(SocketForEdge(c))
    OBVIOUS
  <2>2. i \in JoinedIn(sockets) /\ sockets[i].edge = c
    BY <1>6, <2>1, EdgeSocketIs
  <2>4. c \in 1..Len(net.connections)
    <3>1. i \in LiveIn(sockets) /\ sockets[i].edge # 0
      BY <1>6, <2>1, <2>2, EdgeSocketIs DEF JoinedIn, LiveIn
    <3>2. sockets[i].edge \in 0..Len(net.connections)
      BY <1>3, <3>1 DEF EventsAre
    <3> QED BY <2>2, <3>1, <3>2, CoreParts
  <2>5. PICK q : q = DrainEdge(c).ring
    OBVIOUS
  <2>6. DrainedTo(i, c, q, net')
    BY <1>2, <1>6, <2>1, <2>4, <2>5, DrainIs
  <2>7. net'.events = net.events /\ NetIs(net')
    BY <2>6 DEF DrainedTo
  <2>8. PendingStays /\ batch' \in Seq(Events)
    BY <1>2, <2>7, FirstEventIs
  <2>9. HostStays
    BY <1>2, <2>2, <2>6, DrainStays
  <2>10. PICK s : s = sockets[i].ends.receive
    OBVIOUS
  <2>11. s \in Slots
    BY <2>2, <2>10, EndIs
  <2>12. rings' = [rings EXCEPT ![s] = q]
    BY <1>2, <1>6, <2>1, <2>5, <2>10
  <2>13. /\ q \in RingRecords /\ q.readers = rings[s].readers
         /\ q.writers = rings[s].writers /\ q.attached = rings[s].attached
    BY <2>6, <2>10 DEF DrainedTo
  <2>14. RingsAre(rings') /\ RingsStay
    BY <1>3, <2>11, <2>12, <2>13, OneRing
  <2>15. Core'
    BY <1>2, <1>4, <2>7, <2>8, <2>9, <2>14, QuietHolds
  <2>16. sockets[i].edge # 0 /\ sockets' = sockets /\ streams' = streams
    BY <1>2, <2>2, <2>4
  <2>17. /\ rings'[s] = q /\ \A t \in Slots : t # s => rings'[t] = rings[t]
    BY <1>3, <2>11, <2>12 DEF RingsAre
  <2>18. DrainedTo(i, sockets[i].edge, q, net')
    BY <2>2, <2>6
  <2>19. Draining
    BY <2>2, <2>10, <2>13, <2>16, <2>17, <2>18 DEF Draining
  <2> QED BY <2>15, <2>19
<1> QED BY <1>5, <1>6

\* The writing end of a drained ring goes, and the ring with its last end.
LEMMA LastIs ==
  ASSUME NEW r \in RingRecords, NEW q,
         q = FreeIfUnused([r EXCEPT !.writers = SaturatingSub(r.writers, 1)])
  PROVE  /\ q \in RingRecords /\ q.readers = r.readers /\ q.attached = r.attached
         /\ q.writers = SaturatingSub(r.writers, 1)
         /\ q.bytes = r.bytes \/ q = FreeRing
<1>1. PICK w : w = SaturatingSub(r.writers, 1)
  OBVIOUS
<1>2. r.writers \in Nat
  BY DEF RingRecords
<1>3. w \in Nat
  BY <1>1, <1>2 DEF SaturatingSub
<1>4. PICK x : x = [r EXCEPT !.writers = w]
  OBVIOUS
<1>5. /\ x \in RingRecords /\ x.readers = r.readers /\ x.attached = r.attached
      /\ x.writers = w /\ x.bytes = r.bytes
  BY <1>3, <1>4 DEF RingRecords
<1>6. q = FreeIfUnused(x)
  BY <1>1, <1>4
<1>7. CASE x.readers = 0 /\ x.writers = 0 /\ x.attached = 0
  <2>1. q = FreeRing
    BY <1>6, <1>7 DEF FreeIfUnused
  <2>2. FreeRing \in RingRecords
    <3>1. <<>> \in Seq(Nat)
      OBVIOUS
    <3> QED BY <3>1 DEF FreeRing, RingRecords
  <2> QED BY <2>1, <2>2, <1>1, <1>5, <1>7 DEF FreeRing
<1>8. CASE ~(x.readers = 0 /\ x.writers = 0 /\ x.attached = 0)
  <2>1. q = x
    BY <1>6, <1>8 DEF FreeIfUnused
  <2> QED BY <2>1, <1>1, <1>5
<1> QED BY <1>7, <1>8

\* The host's writing of what socket i hears has ended.
StreamEnds(k) ==
  /\ StreamsAre(streams') /\ Len(streams') = Len(streams)
  /\ \A a \in 1..Len(streams) :
       /\ streams'[a].reads = streams[a].reads
       /\ a # k => streams'[a] = streams[a]
  /\ streams'[k].writes = 0 /\ streams'[k].sent = streams[k].sent
  /\ streams'[k].got = streams[k].got

\* The end of the host's writing.
LEMMA StreamEndsIs ==
  ASSUME StreamsAre(streams), NEW k \in 1..Len(streams),
         streams' = [streams EXCEPT ![k].writes = 0]
  PROVE  StreamEnds(k)
<1>1. streams \in Seq(Streams) /\ streams[k] \in Streams
  BY DEF StreamsAre
<1>2. PICK x : x = [streams[k] EXCEPT !.writes = 0]
  OBVIOUS
<1>3. PICK y : y = streams[k]
  OBVIOUS
<1>4. /\ x \in Streams /\ x.reads = y.reads /\ x.writes = 0 /\ x.sent = y.sent
      /\ x.got = y.got
  BY <1>1, <1>2, <1>3 DEF Streams
<1>5. streams' = [streams EXCEPT ![k] = x]
  BY <1>1, <1>2
<1>6. /\ streams' \in Seq(Streams) /\ Len(streams') = Len(streams) /\ streams'[k] = x
      /\ \A a \in 1..Len(streams) : a # k => streams'[a] = streams[a]
  BY <1>1, <1>4, <1>5, ExceptSeq
<1> QED BY <1>3, <1>4, <1>6 DEF StreamEnds, StreamsAre

\* The ends of the rings, once the host's writing ended.
LEMMA EofCounts ==
  ASSUME Core, sockets' = sockets, files' = files, carries' = carries, skewed' = skewed,
         NEW i \in JoinedIn(sockets), NEW e, e = sockets[i].ends,
         streams[e.hears].writes # 0, StreamEnds(e.hears), NEW q,
         rings' = [rings EXCEPT ![e.receive] = q],
         q.readers = rings[e.receive].readers,
         q.writers = SaturatingSub(rings[e.receive].writers, 1)
  PROVE  CountsAre(files', sockets', rings', streams', carries', skewed')
<1>1. /\ CarriedAre(sockets, carries, streams) /\ RingsAre(rings) /\ Len(streams) \in Nat
      /\ CountsAre(files, sockets, rings, streams, carries, skewed)
  BY CoreParts
<1>2. /\ e.receive \in Slots /\ carries[e.receive] = e.hears
      /\ e.hears \in 1..Len(streams)
  <2>1. carries[e.receive] = e.hears
    BY <1>1 DEF CarriedAre
  <2> QED BY <2>1, EndIs
<1> SUFFICES ASSUME NEW s \in Slots, carries[s] \notin skewed \cup {0}
             PROVE  /\ rings'[s].readers = Count(files, sockets, Hearing(sockets, s))
                                             + One(streams'[carries[s]].reads # 0)
                    /\ rings'[s].writers = Count(files, sockets, Saying(sockets, s))
                                             + One(streams'[carries[s]].writes # 0)
  BY DEF CountsAre
<1>3. /\ rings[s].readers = Count(files, sockets, Hearing(sockets, s))
                              + One(streams[carries[s]].reads # 0)
      /\ rings[s].writers = Count(files, sockets, Saying(sockets, s))
                              + One(streams[carries[s]].writes # 0)
  BY <1>1 DEF CountsAre
<1>4. carries[s] \in 1..Len(streams)
  <2>1. carries[s] \in 0..Len(streams) /\ carries[s] # 0
    BY <1>1 DEF CarriedAre
  <2> QED BY <2>1
<1>5. CASE s = e.receive
  <2>1. rings'[s] = q
    BY <1>1, <1>2, <1>5 DEF RingsAre
  <2>2. streams'[carries[s]].reads = streams[carries[s]].reads
    BY <1>4 DEF StreamEnds
  <2>3. streams'[carries[s]].writes = 0 /\ streams[carries[s]].writes # 0
    BY <1>2, <1>5 DEF StreamEnds
  <2>4. rings[s].writers = Count(files, sockets, Saying(sockets, s)) + 1
    BY <1>3, <2>3 DEF One
  <2>5. Count(files, sockets, Saying(sockets, s)) \in Nat
    BY CountNat
  <2>6. SaturatingSub(rings[s].writers, 1) = Count(files, sockets, Saying(sockets, s))
    BY <2>4, <2>5 DEF SaturatingSub
  <2>7. rings'[s].writers = Count(files, sockets, Saying(sockets, s)) + 0
    BY <2>1, <2>5, <2>6, <1>5
  <2>8. One(streams'[carries[s]].writes # 0) = 0
    BY <2>3 DEF One
  <2>9. rings'[s].readers = rings[s].readers
    BY <2>1, <1>5
  <2> QED BY <2>2, <2>7, <2>8, <2>9, <1>3
<1>6. CASE s # e.receive
  <2>1. rings'[s] = rings[s]
    BY <1>1, <1>2, <1>6 DEF RingsAre
  <2>2. carries[s] # e.hears
    <3>1. \A t \in Slots : carries[s] = carries[t] /\ carries[s] # 0 => s = t
      BY <1>1 DEF CarriedAre
    <3> QED BY <3>1, <1>2, <1>4, <1>6
  <2>3. streams'[carries[s]] = streams[carries[s]]
    BY <1>4, <2>2 DEF StreamEnds
  <2> QED BY <2>1, <2>3, <1>3
<1> QED BY <1>5, <1>6

\* Only the connection whose end of file this is lost its writer.
LEMMA EofGrows ==
  ASSUME Core, sockets' = sockets, FirstGoes, NEW c, Pending[1].kind = "eof",
         Pending[1].conn = c, NEW i \in JoinedIn(sockets), sockets[i].edge = c, c # 0,
         StreamEnds(sockets[i].ends.hears), HostStays
  PROVE  StreamsStay /\ StreamsGrow /\ streams[sockets[i].ends.hears].writes # 0
<1>1. /\ CarriedAre(sockets, carries, streams) /\ Len(streams) \in Nat
      /\ EventsAre(sockets, streams, Pending, net.connections)
      /\ Pending \in Seq(Events)
  BY CoreParts
<1>2. PICK h : h = sockets[i].ends.hears
  OBVIOUS
<1>3. i \in LiveIn(sockets)
  BY DEF JoinedIn, LiveIn
<1>4. 1 \in DOMAIN Pending /\ Pending' = Tail(Pending)
  BY DEF FirstGoes
<1>5. streams[h].writes # 0
  <2>1. \E a \in DOMAIN Pending : Pending[a].kind = "eof" /\ Pending[a].conn = sockets[i].edge
    BY <1>4
  <2> QED BY <2>1, <1>1, <1>2, <1>3 DEF EventsAre
<1>6. ~net.connections[c].reading /\ c \in 1..Len(net.connections)
  BY <1>1, <1>4 DEF EventsAre
<1>7. ~net'.connections[c].reading
  BY <1>6 DEF HostStays
<1>8. \A b \in DOMAIN Pending' : ~(Pending'[b].kind = "eof" /\ Pending'[b].conn = c)
  <2> SUFFICES ASSUME NEW b \in DOMAIN Pending', Pending'[b].kind = "eof",
                      Pending'[b].conn = c
               PROVE  FALSE
    OBVIOUS
  <2>1. PICK q : q = Pending
    OBVIOUS
  <2>2. PICK z : z = Pending'
    OBVIOUS
  <2>3. q \in Seq(Events) /\ q # <<>> /\ z = Tail(q) /\ DOMAIN q = 1..Len(q) /\ Len(q) \in Nat
    BY <1>1, <1>4, <2>1, <2>2 DEF FirstGoes
  <2>4. /\ DOMAIN z = 1..(Len(q) - 1) /\ Len(q) >= 1
        /\ \A a \in 1..(Len(q) - 1) : z[a] = q[a + 1]
    BY <2>3, TailIs
  <2>5. b \in Nat /\ b >= 1 /\ b + 1 \in DOMAIN q /\ z[b] = q[b + 1]
    BY <2>2, <2>3, <2>4
  <2>6. Pending[b + 1].kind = "eof" /\ Pending[b + 1].conn = c /\ b + 1 \in DOMAIN Pending
    BY <2>1, <2>2, <2>5
  <2>7. \A x, y \in DOMAIN Pending : Pending[x].kind = Pending[y].kind
          /\ Pending[x].kind # "data" /\ Pending[x].conn = Pending[y].conn => x = y
    BY <1>1 DEF EventsAre
  <2>8. b + 1 = 1
    <3>1. Pending[b + 1].kind = Pending[1].kind /\ Pending[b + 1].kind # "data"
          /\ Pending[b + 1].conn = Pending[1].conn
      BY <2>6
    <3> QED BY <3>1, <2>6, <2>7, <1>4
  <2> QED BY <2>5, <2>8
<1>9. ASSUME NEW a \in 1..Len(streams)
      PROVE  \/ streams'[a].writes = streams[a].writes
             \/ \A j \in LiveIn(sockets) : sockets[j].edge # 0 /\ sockets[j].ends.hears = a =>
                  /\ ~net'.connections[sockets[j].edge].reading
                  /\ \A b \in DOMAIN Pending' :
                       ~(Pending'[b].kind = "eof" /\ Pending'[b].conn = sockets[j].edge)
  <2>1. CASE a # h
    BY <1>2, <2>1 DEF StreamEnds
  <2>2. CASE a = h
    <3> SUFFICES ASSUME NEW j \in LiveIn(sockets), sockets[j].edge # 0,
                        sockets[j].ends.hears = h
                 PROVE  sockets[j].edge = c
      BY <2>2, <1>7, <1>8
    <3>1. j \in JoinedIn(sockets)
      BY <1>1, HeardIs
    <3>2. i = j
      BY <3>1, <1>1, <1>2 DEF CarriedAre
    <3> QED BY <3>2
  <2> QED BY <2>1, <2>2
<1>10. /\ Len(streams') = Len(streams)
       /\ \A a \in 1..Len(streams) : streams'[a].reads = streams[a].reads
       /\ \A a \in 1..Len(streams) : a # h => streams'[a] = streams[a]
       /\ streams'[h].writes = 0
  BY <1>2 DEF StreamEnds
<1>11. StreamsStay
  BY <1>10 DEF StreamsStay
<1>12. StreamsGrow
  <2>1. \A a \in 1..Len(streams') : a > Len(streams) => streams'[a].reads = 0
    BY <1>1, <1>10
  <2> QED BY <1>1, <1>9, <1>10, <2>1 DEF StreamsGrow
<1> QED BY <1>2, <1>5, <1>11, <1>12

\* The host reports an end of file.
LEMMA EofHolds ==
  ASSUME Core, Eof
  PROVE  Core' /\ (Resting \/ Draining)
<1>1. PICK c : c = Head(batch).conn
  OBVIOUS
<1>2. /\ batch # <<>> /\ batch' = Tail(batch) /\ net' = DrainEdge(c).net
      /\ Head(batch).kind = "eof"
      /\ sockets' = sockets /\ files' = files /\ menu' = menu
      /\ carries' = carries /\ skewed' = skewed /\ adrift' = adrift
      /\ SocketForEdge(c) = {} => rings' = rings /\ streams' = streams
  BY <1>1 DEF Eof, NextEvent
<1>3. /\ RingsAre(rings) /\ StreamsAre(streams) /\ NetIs(net)
      /\ EventsAre(sockets, streams, Pending, net.connections)
      /\ Len(streams) \in Nat
  BY CoreParts
<1>5. CASE SocketForEdge(c) = {}
  <2>1. net' = net
    BY <1>2, <1>5 DEF DrainEdge
  <2>2. PendingStays /\ batch' \in Seq(Events)
    BY <1>2, <2>1, FirstEventIs
  <2>3. HostStays
    BY <2>1 DEF HostStays
  <2>4. RingsAre(rings') /\ RingsStay
    BY <1>2, <1>3, <1>5 DEF RingsStay
  <2>5. NetIs(net')
    BY <1>3, <2>1
  <2>6. StreamsAre(streams') /\ StreamsKept(streams, streams') /\ Len(streams') = Len(streams)
    BY <1>2, <1>3, <1>5 DEF StreamsKept
  <2>7. Core'
    BY <1>2, <2>2, <2>3, <2>4, <2>5, <2>6, QuietHolds
  <2>8. Resting
    BY <1>2, <1>5, <2>1 DEF Resting, JoinedStay, JoinedIn
  <2> QED BY <2>7, <2>8
<1>6. CASE SocketForEdge(c) # {}
  <2>1. PICK i : i = Least(SocketForEdge(c))
    OBVIOUS
  <2>2. i \in JoinedIn(sockets) /\ sockets[i].edge = c /\ c # 0
    BY <1>6, <2>1, EdgeSocketIs
  <2>4. c \in 1..Len(net.connections)
    <3>1. i \in LiveIn(sockets)
      BY <2>2 DEF JoinedIn, LiveIn
    <3>2. sockets[i].edge \in 0..Len(net.connections)
      BY <1>3, <3>1 DEF EventsAre
    <3> QED BY <2>2, <3>2, CoreParts
  <2>5. PICK x : x = DrainEdge(c).ring
    OBVIOUS
  <2>6. DrainedTo(i, c, x, net')
    BY <1>2, <1>6, <2>1, <2>4, <2>5, DrainIs
  <2>7. net'.events = net.events /\ NetIs(net')
    BY <2>6 DEF DrainedTo
  <2>8. FirstGoes /\ PendingStays /\ batch' \in Seq(Events)
    BY <1>2, <2>7, FirstEventIs
  <2>9. HostStays
    BY <1>2, <2>2, <2>6, DrainStays
  <2>10. PICK e : e = sockets[i].ends
    OBVIOUS
  <2>11. e.receive \in Slots /\ e.hears \in 1..Len(streams)
    BY <2>2, <2>10, EndIs
  <2>12. /\ rings' = [rings EXCEPT ![e.receive] =
                        FreeIfUnused([x EXCEPT !.writers = SaturatingSub(@, 1)])]
         /\ streams' = [streams EXCEPT ![e.hears].writes = 0]
    BY <1>1, <1>6, <2>1, <2>5, <2>10 DEF Eof
  <2>13. /\ x \in RingRecords /\ x.readers = rings[e.receive].readers
         /\ x.writers = rings[e.receive].writers /\ x.attached = rings[e.receive].attached
    BY <2>6, <2>10 DEF DrainedTo
  <2>14. PICK q : q = FreeIfUnused([x EXCEPT !.writers = SaturatingSub(x.writers, 1)])
    OBVIOUS
  <2>15. /\ q \in RingRecords /\ q.readers = x.readers /\ q.attached = x.attached
         /\ q.writers = SaturatingSub(x.writers, 1)
         /\ q.bytes = x.bytes \/ q = FreeRing
    BY <2>13, <2>14, LastIs
  <2>16. rings' = [rings EXCEPT ![e.receive] = q]
    BY <2>12, <2>14
  <2>17. RingsAre(rings') /\ AttachedStay
    <3>1. /\ RingsAre(rings') /\ rings'[e.receive] = q
          /\ \A t \in Slots : t # e.receive => rings'[t] = rings[t]
      BY <1>3, <2>11, <2>15, <2>16 DEF RingsAre
    <3> QED BY <3>1, <2>13, <2>15 DEF AttachedStay
  <2>18. StreamEnds(e.hears)
    BY <1>3, <2>11, <2>12, StreamEndsIs
  <2>19. StreamsStay /\ StreamsGrow /\ streams[e.hears].writes # 0
    <3>1. Pending[1].kind = "eof" /\ Pending[1].conn = c
      BY <1>1, <1>2, <2>8 DEF FirstGoes
    <3>2. StreamsStay /\ StreamsGrow /\ streams[sockets[i].ends.hears].writes # 0
      <4>1. StreamEnds(sockets[i].ends.hears)
        BY <2>10, <2>18
      <4> QED BY <4>1, <1>2, <2>2, <2>8, <2>9, <3>1, EofGrows
    <3> QED BY <3>2, <2>10
  <2>20. CountsAre(files', sockets', rings', streams', carries', skewed')
    BY <1>2, <2>2, <2>10, <2>13, <2>15, <2>16, <2>18, <2>19, EofCounts
  <2>21. JoinedStay /\ PlacesStay
    BY <1>2, JoinedPlaces DEF JoinedStay
  <2>22. /\ CarriedAre(sockets, carries, streams) /\ AttachedAre(sockets, rings)
         /\ Len(net.connections) \in Nat /\ Pending \in Seq(Events)
         /\ FilesAre(files) /\ SocketsAre(sockets) /\ carries \in [Slots -> Nat]
         /\ menu \in Menus
         /\ DescriptorsLive(files, sockets) /\ QueuesAre(files, sockets, adrift)
         /\ ReferencesAre(files, sockets, adrift)
    BY CoreParts
  <2>23. AttachedAre(sockets', rings')
    BY <2>17, <2>21, <2>22, StayAttached
  <2>24. CarriedAre(sockets', carries', streams')
    BY <1>2, <1>3, <2>19, <2>21, <2>22, StayCarried
  <2>25. EdgesStay
    BY <1>2, <1>3 DEF EdgesStay, EventsAre
  <2>26. StreamsAre(streams')
    BY <2>18 DEF StreamEnds
  <2>27. EventsAre(sockets', streams', Pending', net'.connections)
    BY <1>3, <2>8, <2>9, <2>19, <2>22, <2>25, <2>26, EventsStay
  <2>28. /\ DescriptorsLive(files', sockets') /\ QueuesAre(files', sockets', adrift')
         /\ ReferencesAre(files', sockets', adrift') /\ FilesAre(files')
         /\ SocketsAre(sockets') /\ carries' \in [Slots -> Nat] /\ menu' \in Menus
    BY <1>2, <2>22
  <2>29. TypesAre'
    BY <2>7, <2>8, <2>17, <2>26, <2>28 DEF TypesAre
  <2>30. Agree'
    BY <2>20, <2>23, <2>24, <2>27, <2>28 DEF Agree
  <2>31. Core'
    BY <2>29, <2>30 DEF Core
  <2>32. PICK s : s = e.receive
    OBVIOUS
  <2>33. /\ rings'[s] = q /\ \A t \in Slots : t # s => rings'[t] = rings[t]
    BY <1>3, <2>11, <2>16, <2>32 DEF RingsAre
  <2>34. /\ rings'[s].bytes = x.bytes \/ rings'[s] = FreeRing
         /\ rings'[s].readers = rings[s].readers
         /\ rings'[s].writers \in {rings[s].writers, SaturatingSub(rings[s].writers, 1)}
    BY <2>13, <2>15, <2>32, <2>33
  <2>35. /\ Len(streams') = Len(streams)
         /\ \A a \in 1..Len(streams) :
              /\ streams'[a].sent = streams[a].sent /\ streams'[a].got = streams[a].got
              /\ streams'[a].reads = streams[a].reads
    BY <2>18 DEF StreamEnds
  <2>36. /\ DrainedTo(i, sockets[i].edge, x, net') /\ s = sockets[i].ends.receive
         /\ sockets' = sockets /\ sockets[i].edge # 0
    BY <1>2, <2>2, <2>6, <2>10, <2>32
  <2>37. Draining
    BY <2>2, <2>13, <2>33, <2>34, <2>35, <2>36 DEF Draining
  <2> QED BY <2>31, <2>37
<1> QED BY <1>5, <1>6

\* What one end less of each kind that is given up leaves of a ring.
Gives(a, b) == [d \in End |-> IF d = "Read" THEN a ELSE b]
Released(r, a, b, q) ==
  /\ q \in RingRecords /\ q.attached = r.attached
  /\ q.readers = SaturatingSub(r.readers, a) /\ q.writers = SaturatingSub(r.writers, b)
  /\ q.bytes = r.bytes \/ q = FreeRing

\* What reconcile leaves of a ring that loses an end.
LEMMA ReleasedIs ==
  ASSUME NEW r \in RingRecords, NEW a \in {0, 1}, NEW b \in {0, 1},
         r = FreeRing => a = 0 /\ b = 0
  PROVE  Released(r, a, b, Reconciled(r, Gives(a, b), Gives(0, 0)))
<1>0. r.readers \in Nat /\ r.writers \in Nat /\ r.attached \in Nat /\ r.bytes \in Seq(Nat)
  BY DEF RingRecords
<1>1. /\ Gives(a, b)["Read"] = a /\ Gives(a, b)["Write"] = b
      /\ Gives(0, 0)["Read"] = 0 /\ Gives(0, 0)["Write"] = 0
  BY DEF Gives, End
<1>2. PICK rd : rd = SaturatingSub(r.readers, a)
  OBVIOUS
<1>3. PICK wr : wr = SaturatingSub(r.writers, b)
  OBVIOUS
<1>4. /\ rd \in Nat /\ wr \in Nat
      /\ Adjusted(r.readers, a, 0) = rd /\ Adjusted(r.writers, b, 0) = wr
  BY <1>0, <1>2, <1>3 DEF Adjusted, SaturatingSub
<1>5. PICK q : q = Reconciled(r, Gives(a, b), Gives(0, 0))
  OBVIOUS
<1>6. CASE r = FreeRing
  <2>1. q = r
    BY <1>5, <1>6 DEF Reconciled
  <2>2. rd = r.readers /\ wr = r.writers
    BY <1>0, <1>2, <1>3, <1>6 DEF SaturatingSub
  <2> QED BY <2>1, <2>2, <1>2, <1>3, <1>5 DEF Released
<1>7. CASE r # FreeRing
  <2>1. PICK x : x = [r EXCEPT !.readers = rd]
    OBVIOUS
  <2>2. PICK y : y = [x EXCEPT !.writers = wr]
    OBVIOUS
  <2>3. x \in RingRecords /\ x.readers = rd /\ x.writers = r.writers
        /\ x.attached = r.attached /\ x.bytes = r.bytes
    BY <1>4, <2>1 DEF RingRecords
  <2>4. y \in RingRecords /\ y.readers = rd /\ y.writers = wr
        /\ y.attached = r.attached /\ y.bytes = r.bytes
    BY <1>4, <2>2, <2>3 DEF RingRecords
  <2>5. y = [r EXCEPT !.readers = rd, !.writers = wr]
    BY <2>1, <2>2
  <2>6. q = FreeIfUnused(y)
    BY <1>1, <1>4, <1>5, <1>7, <2>5 DEF Reconciled
  <2>7. CASE y.readers = 0 /\ y.writers = 0 /\ y.attached = 0
    <3>1. q = FreeRing
      BY <2>6, <2>7 DEF FreeIfUnused
    <3>2. FreeRing \in RingRecords
      <4>1. <<>> \in Seq(Nat)
        OBVIOUS
      <4> QED BY <4>1 DEF FreeRing, RingRecords
    <3>3. /\ FreeRing.readers = 0 /\ FreeRing.writers = 0 /\ FreeRing.attached = 0
      BY DEF FreeRing
    <3> QED BY <3>1, <3>2, <3>3, <2>4, <2>7, <1>2, <1>3, <1>5 DEF Released
  <2>8. CASE ~(y.readers = 0 /\ y.writers = 0 /\ y.attached = 0)
    <3>1. q = y
      BY <2>6, <2>8 DEF FreeIfUnused
    <3> QED BY <3>1, <2>4, <1>2, <1>3, <1>5 DEF Released
  <2> QED BY <2>7, <2>8
<1> QED BY <1>6, <1>7

\* One socket gives up the directions rd and wr.
Shuts(i, rd, wr) ==
  /\ SocketsAre(sockets')
  /\ \A j \in Ids : j # i => sockets'[j] = sockets[j]
  /\ sockets'[i] # NoSocket
  /\ sockets'[i].state = sockets[i].state /\ sockets'[i].references = sockets[i].references
  /\ sockets'[i].edge = sockets[i].edge /\ sockets'[i].queue = sockets[i].queue
  /\ sockets'[i].ends.receive = sockets[i].ends.receive
  /\ sockets'[i].ends.transmit = sockets[i].ends.transmit
  /\ sockets'[i].ends.hears = sockets[i].ends.hears
  /\ sockets'[i].ends.says = sockets[i].ends.says
  /\ (sockets'[i].ends.readShut <=> sockets[i].ends.readShut \/ rd)
  /\ (sockets'[i].ends.writeShut <=> sockets[i].ends.writeShut \/ wr)

\* A shutdown sets flags of one socket.
LEMMA ShutsIs ==
  ASSUME SocketsAre(sockets), NEW i \in LiveIn(sockets), NEW rd \in BOOLEAN, NEW wr \in BOOLEAN,
         sockets' = [sockets EXCEPT ![i].ends.readShut = @ \/ rd,
                                    ![i].ends.writeShut = @ \/ wr]
  PROVE  Shuts(i, rd, wr)
<1>1. i \in Ids /\ sockets[i] \in Records /\ sockets[i].ends \in Endpoints
  BY LiveIsRecord
<1>2. PICK x : x = sockets[i]
  OBVIOUS
<1>3. PICK e : e = x.ends
  OBVIOUS
<1>4. e.readShut \in BOOLEAN /\ e.writeShut \in BOOLEAN /\ e \in Endpoints
  BY <1>1, <1>2, <1>3 DEF Endpoints
<1>5. PICK u : u = (e.readShut \/ rd)
  OBVIOUS
<1>6. PICK v : v = (e.writeShut \/ wr)
  OBVIOUS
<1>7. u \in BOOLEAN /\ v \in BOOLEAN
  BY <1>4, <1>5, <1>6
<1>8. PICK f : f = [e EXCEPT !.readShut = u]
  OBVIOUS
<1>9. PICK g : g = [f EXCEPT !.writeShut = v]
  OBVIOUS
<1>10. f \in Endpoints /\ f.receive = e.receive /\ f.transmit = e.transmit
       /\ f.hears = e.hears /\ f.says = e.says /\ f.readShut = u /\ f.writeShut = e.writeShut
  BY <1>4, <1>7, <1>8 DEF Endpoints
<1>11. g \in Endpoints /\ g.receive = e.receive /\ g.transmit = e.transmit
       /\ g.hears = e.hears /\ g.says = e.says /\ g.readShut = u /\ g.writeShut = v
  BY <1>7, <1>9, <1>10 DEF Endpoints
<1>12. PICK z : z = [x EXCEPT !.ends = g]
  OBVIOUS
<1>13. /\ z \in Records /\ z.state = x.state /\ z.references = x.references
       /\ z.edge = x.edge /\ z.queue = x.queue /\ z.ends = g
  BY <1>1, <1>2, <1>11, <1>12 DEF Records
<1>14. sockets' = [sockets EXCEPT ![i] = z]
  <2>1. PICK k : k = [sockets EXCEPT ![i].ends.readShut = u]
    OBVIOUS
  <2>2. k = [sockets EXCEPT ![i] = [x EXCEPT !.ends = f]]
    BY <2>1, <1>2, <1>3, <1>8
  <2>3. PICK y : y = [x EXCEPT !.ends = f]
    OBVIOUS
  <2>4. k[i] = y /\ y.ends = f /\ k = [sockets EXCEPT ![i] = y]
    BY <2>2, <2>3, <1>1, <1>2 DEF SocketsAre, Records
  <2>5. sockets' = [k EXCEPT ![i].ends.writeShut = v]
    BY <2>1, <2>4, <1>2, <1>3, <1>5, <1>6, <1>8, <1>10
  <2>6. sockets' = [k EXCEPT ![i] = [y EXCEPT !.ends = g]]
    BY <2>4, <2>5, <1>9
  <2>7. [y EXCEPT !.ends = g] = z
    BY <2>3, <1>12
  <2> QED BY <2>4, <2>6, <2>7
<1>15. z # NoSocket
  BY <1>13, SocketsAssumption
<1>16. /\ SocketsAre(sockets') /\ sockets'[i] = z
       /\ \A j \in Ids : j # i => sockets'[j] = sockets[j]
  BY <1>1, <1>13, <1>14 DEF SocketsAre
<1> QED BY <1>2, <1>3, <1>4, <1>5, <1>6, <1>11, <1>13, <1>15, <1>16 DEF Shuts

\* What a shutdown leaves of the rings, two ways.
ShutRings(e, rd, wr) ==
  [s \in Slots |-> Reconciled(rings[s], Gives(IF rd /\ s = e.receive THEN 1 ELSE 0,
                                              IF wr /\ s = e.transmit THEN 1 ELSE 0),
                              Gives(0, 0))]

GivenBy(e, rd, wr, s) ==
  [d \in End |-> IF \/ d = "Read" /\ rd /\ s = e.receive
                    \/ d = "Write" /\ wr /\ s = e.transmit THEN 1 ELSE 0]

\* What the ends a shutdown gives up leave of the rings.
LEMMA GivenIs ==
  ASSUME NEW e, NEW rd \in BOOLEAN, NEW wr \in BOOLEAN
  PROVE  [s \in Slots |-> Reconciled(rings[s], GivenBy(e, rd, wr, s), [d \in End |-> 0])]
           = ShutRings(e, rd, wr)
<1>1. [d \in End |-> 0] = Gives(0, 0)
  BY DEF Gives, End
<1>2. ASSUME NEW s
      PROVE  GivenBy(e, rd, wr, s) =
               Gives(IF rd /\ s = e.receive THEN 1 ELSE 0, IF wr /\ s = e.transmit THEN 1 ELSE 0)
  BY DEF Gives, End, GivenBy
<1>3. ASSUME NEW s \in Slots
      PROVE  Reconciled(rings[s], GivenBy(e, rd, wr, s), [d \in End |-> 0])
               = Reconciled(rings[s], Gives(IF rd /\ s = e.receive THEN 1 ELSE 0,
                                            IF wr /\ s = e.transmit THEN 1 ELSE 0),
                            Gives(0, 0))
  <2>1. PICK x, y : x = GivenBy(e, rd, wr, s) /\ y = [d \in End |-> 0]
    OBVIOUS
  <2>2. /\ x = Gives(IF rd /\ s = e.receive THEN 1 ELSE 0,
                     IF wr /\ s = e.transmit THEN 1 ELSE 0)
        /\ y = Gives(0, 0)
    BY <2>1, <1>1, <1>2
  <2> QED BY <2>1, <2>2, Zenon
<1> QED BY <1>3 DEF ShutRings

\* The sockets that can still move bytes through a ring.
LEMMA ShutMovers ==
  ASSUME NEW i \in JoinedIn(sockets), NEW rd \in BOOLEAN, NEW wr \in BOOLEAN, Shuts(i, rd, wr),
         NEW s
  PROVE  /\ WaitingIn(sockets') = WaitingIn(sockets)
         /\ LiveIn(sockets') = LiveIn(sockets) /\ JoinedIn(sockets') = JoinedIn(sockets)
         /\ Hearing(sockets', s) =
              IF rd /\ s = sockets[i].ends.receive THEN Hearing(sockets, s) \ {i}
              ELSE Hearing(sockets, s)
         /\ Saying(sockets', s) =
              IF wr /\ s = sockets[i].ends.transmit THEN Saying(sockets, s) \ {i}
              ELSE Saying(sockets, s)
<1>1. i \in Ids /\ sockets[i] # NoSocket
  BY DEF JoinedIn
<1>2. \A j \in Ids : /\ sockets'[j] # NoSocket <=> sockets[j] # NoSocket
                     /\ sockets'[j].state = sockets[j].state
                     /\ sockets'[j].queue = sockets[j].queue
                     /\ sockets'[j].ends.receive = sockets[j].ends.receive
                     /\ sockets'[j].ends.transmit = sockets[j].ends.transmit
                     /\ j # i => sockets'[j] = sockets[j]
  BY <1>1 DEF Shuts
<1>3. LiveIn(sockets') = LiveIn(sockets) /\ JoinedIn(sockets') = JoinedIn(sockets)
  BY <1>2 DEF LiveIn, JoinedIn
<1>4. WaitingIn(sockets') = WaitingIn(sockets)
  BY <1>2 DEF WaitingIn
<1>5. /\ (sockets'[i].ends.readShut <=> sockets[i].ends.readShut \/ rd)
      /\ (sockets'[i].ends.writeShut <=> sockets[i].ends.writeShut \/ wr)
  BY DEF Shuts
<1>6. ASSUME NEW j \in JoinedIn(sockets)
      PROVE  /\ (j \in Hearing(sockets', s) <=>
                   j \in Hearing(sockets, s) /\ ~(rd /\ s = sockets[i].ends.receive /\ j = i))
             /\ (j \in Saying(sockets', s) <=>
                   j \in Saying(sockets, s) /\ ~(wr /\ s = sockets[i].ends.transmit /\ j = i))
  <2>1. j \in Ids /\ j \in JoinedIn(sockets')
    BY <1>3 DEF JoinedIn
  <2>2. CASE j # i
    BY <2>1, <2>2, <1>2 DEF Hearing, Saying
  <2>3. CASE j = i
    BY <2>1, <2>3, <1>2, <1>5 DEF Hearing, Saying
  <2> QED BY <2>2, <2>3
<1>7. /\ Hearing(sockets', s) \subseteq JoinedIn(sockets)
      /\ Saying(sockets', s) \subseteq JoinedIn(sockets)
      /\ Hearing(sockets, s) \subseteq JoinedIn(sockets)
      /\ Saying(sockets, s) \subseteq JoinedIn(sockets)
  BY <1>3 DEF Hearing, Saying
<1>8. Hearing(sockets', s) =
        IF rd /\ s = sockets[i].ends.receive THEN Hearing(sockets, s) \ {i}
        ELSE Hearing(sockets, s)
  BY <1>6, <1>7
<1>9. Saying(sockets', s) =
        IF wr /\ s = sockets[i].ends.transmit THEN Saying(sockets, s) \ {i}
        ELSE Saying(sockets, s)
  BY <1>6, <1>7
<1> QED BY <1>3, <1>4, <1>8, <1>9

\* A descriptor of a connected socket, and no more, is the one that holds it.
LEMMA HeldOnce ==
  ASSUME Core, NEW p \in Procs, NEW fd, Names(p, fd, "Connected"), NEW i, i = SocketAt(p, fd),
         ~(Cardinality(Descriptors(i)) > 1)
  PROVE  Count(files, sockets, {i}) = 1
<1>1. /\ fd \in Fds /\ files[p][fd] # NoFile /\ files[p][fd].socket = i
  BY NamedIs
<1>2. PICK S : S = On(files, {i})
  OBVIOUS
<1>3. <<p, fd>> \in S
  BY <1>1, <1>2 DEF On
<1>4. Descriptors(i) = S
  BY <1>2, DescriptorsAre
<1>5. IsFiniteSet(S) /\ Cardinality(S) \in Nat
  BY <1>2, OnFinite
<1>6. Cardinality(S) # 0
  BY <1>3, <1>5, FS_EmptySet
<1>7. Cardinality(S) = 1
  BY <1>4, <1>5, <1>6
<1>8. i \notin WaitingIn(sockets)
  <2>1. QueuesAre(files, sockets, adrift) /\ SocketsAre(sockets)
    BY CoreParts
  <2>2. Waiters(files, sockets, adrift)
    BY <2>1, WaitingIs
  <2> QED BY <2>2, <1>2, <1>3 DEF Waiters
<1> QED BY <1>2, <1>7, <1>8, CountOne

\* The ends a shutdown takes of the rings.
ShutTo(e, rd, wr) ==
  \A s \in Slots :
    /\ rings'[s].readers = SaturatingSub(rings[s].readers, IF rd /\ s = e.receive THEN 1 ELSE 0)
    /\ rings'[s].writers = SaturatingSub(rings[s].writers, IF wr /\ s = e.transmit THEN 1 ELSE 0)

\* The ends of the rings after a shutdown.
LEMMA ShutCounts ==
  ASSUME Core, NEW i \in JoinedIn(sockets), NEW rd \in BOOLEAN, NEW wr \in BOOLEAN,
         Shuts(i, rd, wr), files' = files, carries' = carries, StreamsKept(streams, streams'),
         NEW e, e = sockets[i].ends, rd => ~e.readShut, wr => ~e.writeShut,
         ShutTo(e, rd, wr),
         skewed \subseteq skewed',
         rd /\ e.hears \notin skewed' => Count(files, sockets, {i}) = 1,
         wr /\ e.says \notin skewed' => Count(files, sockets, {i}) = 1
  PROVE  CountsAre(files', sockets', rings', streams', carries', skewed')
<1>1. /\ CarriedAre(sockets, carries, streams) /\ RingsAre(rings) /\ Len(streams) \in Nat
      /\ CountsAre(files, sockets, rings, streams, carries, skewed)
  BY CoreParts
<1>2. carries[e.receive] = e.hears /\ carries[e.transmit] = e.says
  BY <1>1 DEF CarriedAre
<1> SUFFICES ASSUME NEW s \in Slots, carries[s] \notin skewed' \cup {0}
             PROVE  /\ rings'[s].readers = Count(files', sockets', Hearing(sockets', s))
                                             + One(streams'[carries[s]].reads # 0)
                    /\ rings'[s].writers = Count(files', sockets', Saying(sockets', s))
                                             + One(streams'[carries[s]].writes # 0)
  BY DEF CountsAre
<1>3. /\ rings[s].readers = Count(files, sockets, Hearing(sockets, s))
                              + One(streams[carries[s]].reads # 0)
      /\ rings[s].writers = Count(files, sockets, Saying(sockets, s))
                              + One(streams[carries[s]].writes # 0)
  BY <1>1 DEF CountsAre
<1>4. carries[s] \in 1..Len(streams)
  <2>1. carries[s] \in 0..Len(streams) /\ carries[s] # 0
    BY <1>1 DEF CarriedAre
  <2> QED BY <2>1
<1>5. /\ streams'[carries[s]].reads = streams[carries[s]].reads
      /\ streams'[carries[s]].writes = streams[carries[s]].writes
  BY <1>4 DEF StreamsKept
<1>6. WaitingIn(sockets') = WaitingIn(sockets)
  BY ShutMovers
<1>7. \A S : Count(files', sockets', S) = Count(files, sockets, S)
  BY <1>6 DEF Count
<1>8. PICK a : a = One(streams[carries[s]].reads # 0)
  OBVIOUS
<1>9. PICK b : b = One(streams[carries[s]].writes # 0)
  OBVIOUS
<1>10. a \in Nat /\ b \in Nat
  BY <1>8, <1>9 DEF One
<1>11. \A S : Count(files, sockets, S) \in Nat
  BY CountNat
<1>12. rings'[s].readers = Count(files, sockets, Hearing(sockets', s)) + a
  <2>1. PICK H : H = Hearing(sockets, s)
    OBVIOUS
  <2>2. CASE rd /\ s = e.receive
    <3>1. Hearing(sockets', s) = H \ {i}
      BY <2>1, <2>2, ShutMovers
    <3>2. i \in H
      BY <2>1, <2>2 DEF Hearing
    <3>3. Count(files, sockets, {i}) = 1
      BY <2>2, <1>2
    <3>4. (H \ {i}) \cup {i} = H /\ (H \ {i}) \cap {i} = {}
      BY <3>2
    <3>5. Count(files, sockets, (H \ {i}) \cup {i})
            = Count(files, sockets, H \ {i}) + Count(files, sockets, {i})
      BY <3>4, CountSplits
    <3>6. Count(files, sockets, H) = Count(files, sockets, H \ {i}) + 1
      BY <3>3, <3>4, <3>5
    <3>7. rings[s].readers = Count(files, sockets, H) + a
      BY <1>3, <1>8, <2>1
    <3>8. rings'[s].readers = SaturatingSub(rings[s].readers, 1)
      BY <2>2 DEF ShutTo
    <3>9. PICK n : n = Count(files, sockets, H \ {i})
      OBVIOUS
    <3>10. n \in Nat /\ rings[s].readers = n + 1 + a
      BY <1>10, <1>11, <3>6, <3>7, <3>9
    <3>11. rings'[s].readers = n + a
      BY <3>8, <3>10, <1>10 DEF SaturatingSub
    <3> QED BY <3>1, <3>9, <3>11
  <2>3. CASE ~(rd /\ s = e.receive)
    <3>1. Hearing(sockets', s) = Hearing(sockets, s)
      BY <2>3, ShutMovers
    <3>2. rings'[s].readers = SaturatingSub(rings[s].readers, 0)
      BY <2>3 DEF ShutTo
    <3>3. rings[s].readers \in Nat
      BY <1>1 DEF RingsAre, RingRecords
    <3>4. rings'[s].readers = rings[s].readers
      BY <3>2, <3>3 DEF SaturatingSub
    <3> QED BY <3>1, <3>4, <1>3, <1>8
  <2> QED BY <2>2, <2>3
<1>13. rings'[s].writers = Count(files, sockets, Saying(sockets', s)) + b
  <2>1. PICK H : H = Saying(sockets, s)
    OBVIOUS
  <2>2. CASE wr /\ s = e.transmit
    <3>1. Saying(sockets', s) = H \ {i}
      BY <2>1, <2>2, ShutMovers
    <3>2. i \in H
      BY <2>1, <2>2 DEF Saying
    <3>3. Count(files, sockets, {i}) = 1
      BY <2>2, <1>2
    <3>4. (H \ {i}) \cup {i} = H /\ (H \ {i}) \cap {i} = {}
      BY <3>2
    <3>5. Count(files, sockets, (H \ {i}) \cup {i})
            = Count(files, sockets, H \ {i}) + Count(files, sockets, {i})
      BY <3>4, CountSplits
    <3>6. Count(files, sockets, H) = Count(files, sockets, H \ {i}) + 1
      BY <3>3, <3>4, <3>5
    <3>7. rings[s].writers = Count(files, sockets, H) + b
      BY <1>3, <1>9, <2>1
    <3>8. rings'[s].writers = SaturatingSub(rings[s].writers, 1)
      BY <2>2 DEF ShutTo
    <3>9. PICK n : n = Count(files, sockets, H \ {i})
      OBVIOUS
    <3>10. n \in Nat /\ rings[s].writers = n + 1 + b
      BY <1>10, <1>11, <3>6, <3>7, <3>9
    <3>11. rings'[s].writers = n + b
      BY <3>8, <3>10, <1>10 DEF SaturatingSub
    <3> QED BY <3>1, <3>9, <3>11
  <2>3. CASE ~(wr /\ s = e.transmit)
    <3>1. Saying(sockets', s) = Saying(sockets, s)
      BY <2>3, ShutMovers
    <3>2. rings'[s].writers = SaturatingSub(rings[s].writers, 0)
      BY <2>3 DEF ShutTo
    <3>3. rings[s].writers \in Nat
      BY <1>1 DEF RingsAre, RingRecords
    <3>4. rings'[s].writers = rings[s].writers
      BY <3>2, <3>3 DEF SaturatingSub
    <3> QED BY <3>1, <3>4, <1>3, <1>9
  <2> QED BY <2>2, <2>3
<1> QED BY <1>5, <1>7, <1>8, <1>9, <1>12, <1>13

\* A step that gives up directions of one connection.
Shutting ==
  \E i \in JoinedIn(sockets), rd \in BOOLEAN, wr \in BOOLEAN, E \in SUBSET Ids :
    /\ Shuts(i, rd, wr) /\ ShutTo(sockets[i].ends, rd, wr)
    /\ \A j \in E : j = i /\ sockets[j].edge # 0
    /\ \E settled : EdgesEnded(E, "shutdown", settled) /\ BytesStay(settled)

\* shutdown.
LEMMA ShutdownHolds ==
  ASSUME Core, NEW p \in Procs, NEW fd, NEW directions, Shutdown(p, fd, directions)
  PROVE  Core' /\ Shutting
<1>1. PICK i : i = SocketAt(p, fd)
  OBVIOUS
<1>2. Names(p, fd, "Connected")
  BY DEF Shutdown
<1>3. /\ i \in LiveIn(sockets) /\ sockets[i].state = "Connected" /\ i \in Ids
      /\ i \in JoinedIn(sockets)
  <2>1. i \in LiveIn(sockets) /\ sockets[i].state = "Connected" /\ i \in Ids
    BY <1>1, <1>2, NamedIs
  <2> QED BY <2>1 DEF LiveIn, JoinedIn
<1>4. PICK e : e = sockets[i].ends
  OBVIOUS
<1>5. PICK rd \in BOOLEAN : rd = ("Read" \in directions /\ ~e.readShut)
  OBVIOUS
<1>6. PICK wr \in BOOLEAN : wr = ("Write" \in directions /\ ~e.writeShut)
  OBVIOUS
<1>7. /\ FilesAre(files) /\ SocketsAre(sockets) /\ DescriptorsLive(files, sockets)
      /\ QueuesAre(files, sockets, adrift) /\ ReferencesAre(files, sockets, adrift)
      /\ RingsAre(rings) /\ AttachedAre(sockets, rings)
      /\ CarriedAre(sockets, carries, streams)
      /\ EventsAre(sockets, streams, Pending, net.connections)
      /\ NetIs(net) /\ StreamsAre(streams) /\ batch \in Seq(Events)
      /\ carries \in [Slots -> Nat] /\ menu \in Menus
      /\ Len(streams) \in Nat /\ Len(net.connections) \in Nat /\ Pending \in Seq(Events)
  BY CoreParts
<1>8. PICK E : E = IF wr /\ sockets[i].edge # 0 THEN {i} ELSE {}
  OBVIOUS
<1>9. PICK settled : settled =
        [s \in Slots |-> Reconciled(rings[s], GivenBy(e, rd, wr, s), [d \in End |-> 0])]
  OBVIOUS
<1>10. /\ sockets' = [sockets EXCEPT ![i].ends.readShut = @ \/ rd,
                                     ![i].ends.writeShut = @ \/ wr]
       /\ EndEdges(E, "shutdown", settled)
       /\ skewed' = IF Cardinality(Descriptors(i)) > 1
                    THEN skewed \cup (IF rd THEN {e.hears} ELSE {})
                                \cup (IF wr THEN {e.says} ELSE {})
                    ELSE skewed
       /\ files' = files /\ batch' = batch /\ carries' = carries /\ adrift' = adrift
       /\ menu' = menu
  BY <1>1, <1>4, <1>5, <1>6, <1>8, <1>9 DEF Shutdown, GivenBy
<1>11. Shuts(i, rd, wr)
  BY <1>3, <1>7, <1>10, ShutsIs
<1>12. settled = ShutRings(e, rd, wr)
  BY <1>9, GivenIs
<1>13. ASSUME NEW s \in Slots
       PROVE  Released(rings[s], IF rd /\ s = e.receive THEN 1 ELSE 0,
                       IF wr /\ s = e.transmit THEN 1 ELSE 0, settled[s])
  <2>1. PICK a \in {0, 1} : a = IF rd /\ s = e.receive THEN 1 ELSE 0
    OBVIOUS
  <2>2. PICK b \in {0, 1} : b = IF wr /\ s = e.transmit THEN 1 ELSE 0
    OBVIOUS
  <2>3. rings[s] \in RingRecords
    BY <1>7 DEF RingsAre
  <2>4. rings[s] = FreeRing => a = 0 /\ b = 0
    <3>1. rings[s] = FreeRing => s # e.receive /\ s # e.transmit
      BY <1>3, <1>4, <1>7, FreeIsUnnamed
    <3> QED BY <3>1, <2>1, <2>2
  <2>5. settled[s] = Reconciled(rings[s], Gives(a, b), Gives(0, 0))
    BY <1>12, <2>1, <2>2 DEF ShutRings
  <2>6. Released(rings[s], a, b, Reconciled(rings[s], Gives(a, b), Gives(0, 0)))
    BY <2>3, <2>4, ReleasedIs
  <2> QED BY <2>1, <2>2, <2>5, <2>6
<1>14. settled \in [Slots -> RingRecords]
  <2>1. \A s \in Slots : settled[s] \in RingRecords
    BY <1>13 DEF Released
  <2> QED BY <2>1, <1>9
<1>15. EdgesEnded(E, "shutdown", settled)
  BY <1>7, <1>10, <1>14, EndEdgesIs
<1>16. /\ RingsAre(rings') /\ NetIs(net') /\ StreamsAre(streams')
       /\ net'.events = net.events /\ Len(net'.connections) = Len(net.connections)
       /\ Len(streams') = Len(streams) /\ StreamsKept(streams, streams')
  BY <1>15 DEF EdgesEnded
<1>17. ShutTo(e, rd, wr) /\ AttachedStay
  <2>1. \A s \in Slots :
          /\ rings'[s].readers = settled[s].readers /\ rings'[s].writers = settled[s].writers
          /\ rings'[s].attached = settled[s].attached
    BY <1>15 DEF EdgesEnded
  <2> QED BY <2>1, <1>13 DEF Released, ShutTo, AttachedStay
<1>18. PlacesStay
  <2>1. JoinedIn(sockets') = JoinedIn(sockets)
    BY <1>3, <1>11, ShutMovers
  <2> QED BY <2>1, <1>11 DEF PlacesStay, Shuts, JoinedIn
<1>19. AttachedAre(sockets', rings')
  BY <1>7, <1>17, <1>18, StayAttached
<1>20. StreamsStay /\ StreamsGrow
  BY <1>7, <1>16 DEF StreamsKept, StreamsStay, StreamsGrow
<1>21. CarriedAre(sockets', carries', streams')
  BY <1>7, <1>10, <1>18, <1>20, StayCarried
<1>22. CountsAre(files', sockets', rings', streams', carries', skewed')
  <2>1. skewed \subseteq skewed'
    BY <1>10
  <2>2. /\ rd /\ e.hears \notin skewed' => Count(files, sockets, {i}) = 1
        /\ wr /\ e.says \notin skewed' => Count(files, sockets, {i}) = 1
    <3>1. CASE Cardinality(Descriptors(i)) > 1
      BY <3>1, <1>10
    <3>2. CASE ~(Cardinality(Descriptors(i)) > 1)
      BY <3>2, <1>1, <1>2, HeldOnce
    <3> QED BY <3>1, <3>2
  <2>3. (rd => ~e.readShut) /\ (wr => ~e.writeShut)
    BY <1>5, <1>6
  <2> QED BY <2>1, <2>2, <2>3, <1>3, <1>4, <1>10, <1>11, <1>16, <1>17, ShutCounts
<1>23. EdgesStay
  <2>1. LiveIn(sockets') = LiveIn(sockets)
    BY <1>3, <1>11, ShutMovers
  <2>2. \A j \in LiveIn(sockets) :
          /\ sockets'[j].state = sockets[j].state /\ sockets'[j].edge = sockets[j].edge
          /\ sockets'[j].ends.hears = sockets[j].ends.hears
          /\ sockets[j].ends.writeShut => sockets'[j].ends.writeShut
    BY <1>11 DEF Shuts, LiveIn
  <2> QED BY <2>1, <2>2, <1>7 DEF EdgesStay, EventsAre
<1>24. HostStays
  <2> SUFFICES ASSUME NEW c \in 1..Len(net.connections), net'.connections[c] # net.connections[c]
               PROVE  \E j \in LiveIn(sockets') :
            /\ sockets'[j].edge = c
            /\ net'.connections[c].reading = net.connections[c].reading
            /\ net'.connections[c].present = net.connections[c].present
            /\ (net'.connections[c].shut = net.connections[c].shut) \/ sockets'[j].ends.writeShut
    BY <1>16 DEF HostStays
  <2>1. PICK j \in E : sockets[j].edge = c
    BY <1>15 DEF EdgesEnded
  <2>2. wr /\ j = i
    BY <1>8, <2>1
  <2>3. /\ net'.connections[c].reading = net.connections[c].reading
        /\ net'.connections[c].present = net.connections[c].present
    BY <1>15 DEF EdgesEnded
  <2>4. LiveIn(sockets') = LiveIn(sockets)
    BY <1>3, <1>11, ShutMovers
  <2>5. sockets'[i].edge = c /\ sockets'[i].ends.writeShut
    BY <1>11, <2>1, <2>2 DEF Shuts
  <2> QED BY <2>3, <2>4, <2>5, <1>3
<1>25. PendingStays
  BY <1>10, <1>16, PendingStill DEF PendingStays
<1>26. EventsAre(sockets', streams', Pending', net'.connections)
  BY <1>7, <1>16, <1>20, <1>23, <1>24, <1>25, EventsStay
<1>27. Opened(files, sockets, files', sockets', {}, adrift, adrift)
  <2>1. LiveIn(sockets') = LiveIn(sockets)
    BY <1>3, <1>11, ShutMovers
  <2>2. \A j \in LiveIn(sockets) : Holds(sockets, sockets', j) /\ sockets'[j].queue = sockets[j].queue
    BY <1>11 DEF Shuts, LiveIn, Holds
  <2> QED BY <2>1, <2>2, <1>10 DEF Opened
<1>28. QueuesAre(files', sockets', adrift')
  <2>1. QueuesAre(files', sockets', adrift)
    BY <1>7, <1>27, OpenedQueues
  <2> QED BY <2>1, <1>10
<1>29. ReferencesAre(files', sockets', adrift')
  <2>1. ReferencesAre(files', sockets', adrift)
    BY <1>7, <1>27, OpenedReferences
  <2> QED BY <2>1, <1>10
<1>30. DescriptorsLive(files', sockets')
  BY <1>7, <1>10, <1>27, OpenedDescriptors
<1>31. SocketsAre(sockets')
  BY <1>11 DEF Shuts
<1>32. TypesAre'
  BY <1>7, <1>10, <1>16, <1>31 DEF TypesAre
<1>33. Agree'
  BY <1>19, <1>21, <1>22, <1>26, <1>28, <1>29, <1>30 DEF Agree
<1>34. BytesStay(settled)
  BY <1>13 DEF Released, BytesStay
<1>35. E \in SUBSET Ids /\ \A j \in E : j = i /\ sockets[j].edge # 0
  BY <1>3, <1>8
<1>36. ShutTo(sockets[i].ends, rd, wr)
  BY <1>4, <1>17
<1>37. Shutting
  BY <1>3, <1>11, <1>15, <1>34, <1>35, <1>36 DEF Shutting
<1>38. Core'
  BY <1>32, <1>33 DEF Core
<1> QED BY <1>37, <1>38

---------------------------------------------------------------------------
(* The host's threads.                                                     *)

\* What a host thread does to the connections `con`, reporting `ev`.
Adds(con, now, ev) ==
  /\ now \in Seq(Connections) /\ Len(con) <= Len(now)
  /\ ev \in Events /\ ev.conn \in 1..Len(now)
  /\ \A c \in 1..Len(con) :
       /\ now[c].present = con[c].present /\ now[c].shut = con[c].shut
       /\ now[c].reading => con[c].reading
       /\ con[c].present /\ con[c].incoming = Numbers(0, con[c].sent)
            => now[c].incoming = Numbers(0, now[c].sent)
  /\ ev.kind = "eof" => /\ ev.conn \in 1..Len(con) /\ con[ev.conn].reading
                        /\ ~now[ev.conn].reading
  /\ ev.kind = "open" => /\ ev.conn = Len(con) + 1
                         /\ now[ev.conn].present /\ ~now[ev.conn].shut
                         /\ now[ev.conn].incoming = Numbers(0, now[ev.conn].sent)

\* The host's events, with one more.
LEMMA EventsAdded ==
  ASSUME NEW k, NEW str, NEW P \in Seq(Events), NEW con \in Seq(Connections), NEW now, NEW ev,
         EventsAre(k, str, P, con), Adds(con, now, ev), NEW q, q = Append(P, ev)
  PROVE  EventsAre(k, str, q, now)
<1>1. Len(con) \in Nat /\ Len(now) \in Nat /\ Len(con) <= Len(now) /\ Len(P) \in Nat
  BY DEF Adds
<1>2. /\ DOMAIN P = 1..Len(P) /\ DOMAIN q = 1..(Len(P) + 1)
      /\ \A a \in 1..Len(P) : q[a] = P[a]
      /\ q[Len(P) + 1] = ev
  <2>1. ev \in Events
    BY DEF Adds
  <2> QED BY <2>1, AppendProperties
<1>3. \A a \in DOMAIN q : (a \in DOMAIN P /\ q[a] = P[a]) \/ (a = Len(P) + 1 /\ q[a] = ev)
  BY <1>1, <1>2
<1>4. \A a \in DOMAIN P : P[a].conn \in 1..Len(con)
  BY DEF EventsAre
<1>5. \A c \in 1..Len(con) :
        /\ now[c].present = con[c].present /\ now[c].shut = con[c].shut
        /\ now[c].reading => con[c].reading
        /\ con[c].present /\ con[c].incoming = Numbers(0, con[c].sent)
             => now[c].incoming = Numbers(0, now[c].sent)
  BY DEF Adds
<1>6. \A a \in DOMAIN q : q[a].conn \in 1..Len(now)
  <2>1. ev.conn \in 1..Len(now)
    BY DEF Adds
  <2> QED BY <2>1, <1>1, <1>3, <1>4
<1>7. ASSUME NEW a \in DOMAIN q, q[a].kind = "eof" PROVE ~now[q[a].conn].reading
  <2>1. CASE a \in DOMAIN P /\ q[a] = P[a]
    <3>1. ~con[P[a].conn].reading
      BY <2>1, <1>7 DEF EventsAre
    <3> QED BY <3>1, <2>1, <1>4, <1>5
  <2>2. CASE q[a] = ev
    BY <2>2, <1>7 DEF Adds
  <2> QED BY <2>1, <2>2, <1>3
<1>8. ASSUME NEW b \in DOMAIN P, P[b].kind = ev.kind, ev.kind # "data", P[b].conn = ev.conn
      PROVE  FALSE
  <2>1. CASE ev.kind = "eof"
    <3>1. ~con[P[b].conn].reading
      BY <2>1, <1>8 DEF EventsAre
    <3> QED BY <3>1, <2>1, <1>8 DEF Adds
  <2>2. CASE ev.kind = "open"
    <3>1. ev.conn = Len(con) + 1
      BY <2>2 DEF Adds
    <3> QED BY <3>1, <1>1, <1>4, <1>8
  <2>3. ev.kind \in {"open", "data", "eof"}
    BY DEF Adds, Events
  <2> QED BY <2>1, <2>2, <2>3, <1>8
<1>9. ASSUME NEW a \in DOMAIN q, NEW b \in DOMAIN q, q[a].kind = q[b].kind, q[a].kind # "data",
             q[a].conn = q[b].conn
      PROVE  a = b
  <2>1. CASE a \in DOMAIN P /\ b \in DOMAIN P
    <3>1. q[a] = P[a] /\ q[b] = P[b]
      BY <2>1, <1>2
    <3> QED BY <3>1, <2>1, <1>9 DEF EventsAre
  <2>2. CASE a \in DOMAIN P /\ b = Len(P) + 1
    <3>1. q[a] = P[a] /\ q[b] = ev
      BY <2>2, <1>2
    <3> QED BY <3>1, <2>2, <1>8, <1>9
  <2>3. CASE a = Len(P) + 1 /\ b \in DOMAIN P
    <3>1. q[a] = ev /\ q[b] = P[b]
      BY <2>3, <1>2
    <3> QED BY <3>1, <2>3, <1>8, <1>9
  <2> QED BY <2>1, <2>2, <2>3, <1>3
<1>10. ASSUME NEW i \in LiveIn(k), k[i].edge # 0
       PROVE  k[i].edge \in 1..Len(con)
  <2>1. k[i].edge \in 0..Len(con)
    BY DEF EventsAre
  <2> QED BY <2>1, <1>10, <1>1
<1>11. /\ \A i \in LiveIn(k) : k[i].edge \in 0..Len(now)
       /\ \A i \in LiveIn(k) : k[i].edge # 0 => k[i].state = "Connected"
       /\ \A i, j \in LiveIn(k) : k[i].edge = k[j].edge /\ k[i].edge # 0 => i = j
       /\ \A i \in LiveIn(k) : k[i].edge # 0 => now[k[i].edge].present
       /\ \A i \in LiveIn(k) : k[i].edge # 0 /\ now[k[i].edge].shut => k[i].ends.writeShut
  <2>1. \A i \in LiveIn(k) : k[i].edge \in 0..Len(now)
    BY <1>1 DEF EventsAre
  <2>2. /\ \A i \in LiveIn(k) : k[i].edge # 0 => k[i].state = "Connected"
        /\ \A i, j \in LiveIn(k) : k[i].edge = k[j].edge /\ k[i].edge # 0 => i = j
    BY DEF EventsAre
  <2>3. \A i \in LiveIn(k) : k[i].edge # 0 => now[k[i].edge].present
    BY <1>5, <1>10 DEF EventsAre
  <2>4. \A i \in LiveIn(k) : k[i].edge # 0 /\ now[k[i].edge].shut => k[i].ends.writeShut
    BY <1>5, <1>10 DEF EventsAre
  <2> QED BY <2>1, <2>2, <2>3, <2>4
<1>12. ASSUME NEW i \in LiveIn(k), k[i].edge # 0,
              \/ now[k[i].edge].reading
              \/ \E a \in DOMAIN q : q[a].kind = "eof" /\ q[a].conn = k[i].edge
       PROVE  str[k[i].ends.hears].writes # 0
  <2>1. CASE now[k[i].edge].reading
    <3>1. con[k[i].edge].reading
      BY <2>1, <1>5, <1>10, <1>12
    <3> QED BY <3>1, <1>12 DEF EventsAre
  <2>2. CASE \E a \in DOMAIN P : P[a].kind = "eof" /\ P[a].conn = k[i].edge
    BY <2>2, <1>12 DEF EventsAre
  <2>3. CASE ev.kind = "eof" /\ ev.conn = k[i].edge
    <3>1. con[k[i].edge].reading
      BY <2>3 DEF Adds
    <3> QED BY <3>1, <1>12 DEF EventsAre
  <2> QED BY <2>1, <2>2, <2>3, <1>3, <1>12
<1>13. /\ \A a \in DOMAIN str : str[a].reads \in 0..Len(now)
       /\ \A a, b \in DOMAIN str : str[a].reads = str[b].reads /\ str[a].reads # 0 => a = b
  BY <1>1 DEF EventsAre
<1>14. ASSUME NEW a \in DOMAIN q, q[a].kind = "open"
       PROVE  LET c == q[a].conn IN
              /\ \A i \in LiveIn(k) : k[i].edge # c
              /\ \A b \in DOMAIN str : str[b].reads # c
              /\ now[c].present /\ ~now[c].shut /\ now[c].incoming = Numbers(0, now[c].sent)
  <2>1. CASE a \in DOMAIN P /\ q[a] = P[a]
    <3>1. PICK c : c = P[a].conn
      OBVIOUS
    <3>2. /\ \A i \in LiveIn(k) : k[i].edge # c
          /\ \A b \in DOMAIN str : str[b].reads # c
          /\ con[c].present /\ ~con[c].shut /\ con[c].incoming = Numbers(0, con[c].sent)
      BY <2>1, <3>1, <1>14 DEF EventsAre
    <3>3. c \in 1..Len(con)
      BY <2>1, <3>1, <1>4
    <3>4. now[c].present /\ ~now[c].shut /\ now[c].incoming = Numbers(0, now[c].sent)
      BY <3>2, <3>3, <1>5
    <3> QED BY <3>1, <3>2, <3>4, <2>1
  <2>2. CASE q[a] = ev
    <3>1. PICK c : c = ev.conn
      OBVIOUS
    <3>2. /\ c = Len(con) + 1
          /\ now[c].present /\ ~now[c].shut /\ now[c].incoming = Numbers(0, now[c].sent)
      BY <2>2, <3>1, <1>14 DEF Adds
    <3>3. \A i \in LiveIn(k) : k[i].edge # c
      BY <3>2, <1>1 DEF EventsAre
    <3>4. \A b \in DOMAIN str : str[b].reads # c
      BY <3>2, <1>1 DEF EventsAre
    <3> QED BY <3>1, <3>2, <3>3, <3>4, <2>2
  <2> QED BY <2>1, <2>2, <1>3
<1> QED BY <1>6, <1>7, <1>9, <1>11, <1>12, <1>13, <1>14 DEF EventsAre

\* A host thread's report keeps the invariant.
LEMMA ReportedIs ==
  ASSUME Core, HostStep, streams' = streams, NEW n, NetIs(n), n.events = net.events,
         NEW kind, NEW conn, NEW port, NEW ev,
         ev = [kind |-> kind, conn |-> conn, port |-> port],
         net' = Report(n, kind, conn, port), Adds(net.connections, n.connections, ev),
         n.listening = net.listening
  PROVE  Core' /\ net'.connections = n.connections /\ net'.events = Append(net.events, ev)
<1>1. ev \in Events
  BY DEF Adds
<1>2. n.events \in Seq(Events)
  BY ConnectionsAre
<1>3. PICK E : E = Append(n.events, ev)
  OBVIOUS
<1>4. E \in Seq(Events)
  BY <1>1, <1>2, <1>3, AppendProperties
<1>5. net' = [n EXCEPT !.events = E]
  BY <1>3 DEF Report
<1>6. NetIs(net') /\ net'.connections = n.connections /\ net'.events = E
  BY <1>4, <1>5 DEF NetIs
<1>7. /\ batch \in Seq(Events) /\ Pending \in Seq(Events) /\ NetIs(net)
      /\ EventsAre(sockets, streams, Pending, net.connections)
      /\ RingsAre(rings) /\ SocketsAre(sockets) /\ FilesAre(files)
      /\ StreamsAre(streams) /\ carries \in [Slots -> Nat] /\ menu \in Menus
      /\ DescriptorsLive(files, sockets) /\ QueuesAre(files, sockets, adrift)
      /\ ReferencesAre(files, sockets, adrift) /\ AttachedAre(sockets, rings)
      /\ CountsAre(files, sockets, rings, streams, carries, skewed)
      /\ CarriedAre(sockets, carries, streams)
  BY CoreParts
<1>8. /\ rings' = rings /\ sockets' = sockets /\ files' = files /\ batch' = batch
      /\ carries' = carries /\ skewed' = skewed /\ adrift' = adrift /\ menu' = menu
  BY DEF HostStep
<1>9. Pending' = Append(Pending, ev)
  <2>1. PICK b, t : b = batch /\ t = net.events
    OBVIOUS
  <2>2. b \in Seq(Events) /\ t \in Seq(Events)
    BY <1>2, <1>7, <2>1
  <2>3. b \o Append(t, ev) = Append(b \o t, ev)
    BY <1>1, <2>2
  <2>4. Pending' = b \o Append(t, ev)
    BY <1>3, <1>6, <1>8, <2>1 DEF Pending
  <2> QED BY <2>1, <2>3, <2>4 DEF Pending
<1>10. EventsAre(sockets, streams, Pending', n.connections)
  <2>1. net.connections \in Seq(Connections)
    BY <1>7, ConnectionsAre
  <2> QED BY <2>1, <1>7, <1>9, EventsAdded
<1>11. TypesAre'
  BY <1>6, <1>7, <1>8 DEF TypesAre
<1>12. Agree'
  BY <1>6, <1>7, <1>8, <1>10 DEF Agree
<1> QED BY <1>3, <1>6, <1>11, <1>12 DEF Core

\* What was numbered, and what is numbered on from it.
LEMMA NumbersJoin ==
  ASSUME NEW a \in Nat, NEW n \in Nat, NEW m \in Nat
  PROVE  Numbers(a, n) \o Numbers(a + n, m) = Numbers(a, n + m)
<1>1. PICK u : u = Numbers(a, n)
  OBVIOUS
<1>2. PICK v : v = Numbers(a + n, m)
  OBVIOUS
<1>3. PICK w : w = Numbers(a, n + m)
  OBVIOUS
<1>a. a + n \in Nat /\ n + m \in Nat
  OBVIOUS
<1>4. u \in Seq(Nat) /\ Len(u) = n /\ \A k \in 1..n : u[k] = a + k
  BY <1>1, NumbersIs
<1>5. v \in Seq(Nat) /\ Len(v) = m /\ \A k \in 1..m : v[k] = a + n + k
  BY <1>2, <1>a, NumbersIs
<1>6. w \in Seq(Nat) /\ Len(w) = n + m /\ \A k \in 1..(n + m) : w[k] = a + k
  BY <1>3, <1>a, NumbersIs
<1>7. /\ u \o v \in Seq(Nat) /\ Len(u \o v) = n + m
      /\ \A k \in 1..(n + m) : (u \o v)[k] = IF k <= n THEN u[k] ELSE v[k - n]
  <2>1. /\ u \o v \in Seq(Nat) /\ Len(u \o v) = Len(u) + Len(v)
        /\ \A k \in 1..(Len(u) + Len(v)) :
             (u \o v)[k] = IF k <= Len(u) THEN u[k] ELSE v[k - Len(u)]
    BY <1>4, <1>5, ConcatProperties, Zenon
  <2> QED BY <2>1, <1>4, <1>5
<1>8. ASSUME NEW k \in 1..(n + m) PROVE (u \o v)[k] = w[k]
  <2>1. CASE k <= n
    <3>1. (u \o v)[k] = u[k] /\ k \in 1..n
      BY <2>1, <1>7
    <3> QED BY <3>1, <1>4, <1>6
  <2>2. CASE ~(k <= n)
    <3>1. (u \o v)[k] = v[k - n] /\ k - n \in 1..m
      BY <2>2, <1>7
    <3>2. v[k - n] = a + n + (k - n)
      BY <3>1, <1>5
    <3>3. a + n + (k - n) = a + k
      OBVIOUS
    <3> QED BY <3>1, <3>2, <3>3, <1>6
  <2> QED BY <2>1, <2>2
<1>9. PICK z : z = u \o v
  OBVIOUS
<1>10. z = w
  BY <1>6, <1>7, <1>8, <1>9, SeqEqual
<1> QED BY <1>1, <1>2, <1>3, <1>9, <1>10

\* What arrives of the bytes, and what the record of its connection becomes.
Kept(x, bytes)    == IF x.present THEN bytes ELSE <<>>
ReadMore(x, bytes) ==
  [x EXCEPT !.incoming = @ \o Kept(x, bytes), !.sent = @ + Len(bytes)]

ReadOn(x, n, y) ==
  /\ y \in Connections /\ y.present = x.present /\ y.shut = x.shut
  /\ y.reading = x.reading /\ y.sent = x.sent + n
  /\ y.incoming = x.incoming \o (IF x.present THEN Numbers(x.sent, n) ELSE <<>>)
  /\ x.present /\ x.incoming = Numbers(0, x.sent) => y.incoming = Numbers(0, y.sent)

\* A connection after its thread read more.
LEMMA ReadMoreIs ==
  ASSUME NEW x \in Connections, NEW n \in Nat
  PROVE  ReadOn(x, n, ReadMore(x, Numbers(x.sent, n)))
<1>y. PICK y : y = ReadMore(x, Numbers(x.sent, n))
  OBVIOUS
<1>1. x.incoming \in Seq(Nat) /\ x.sent \in Nat
  BY DEF Connections
<1>2. PICK d : d = Numbers(x.sent, n)
  OBVIOUS
<1>3. d \in Seq(Nat) /\ Len(d) = n
  BY <1>1, <1>2, NumbersIs
<1>4. PICK k : k = IF x.present THEN d ELSE <<>>
  OBVIOUS
<1>5. k \in Seq(Nat)
  <2>1. <<>> \in Seq(Nat)
    OBVIOUS
  <2> QED BY <2>1, <1>3, <1>4
<1>6. PICK h : h = x.incoming \o k
  OBVIOUS
<1>7. h \in Seq(Nat)
  BY <1>1, <1>5, <1>6, ConcatProperties
<1>8. PICK t : t = x.sent + n
  OBVIOUS
<1>9. t \in Nat
  BY <1>1, <1>8
<1>10. PICK z : z = [x EXCEPT !.incoming = h]
  OBVIOUS
<1>11. z \in Connections /\ z.present = x.present /\ z.shut = x.shut
       /\ z.reading = x.reading /\ z.sent = x.sent /\ z.incoming = h
  BY <1>7, <1>10 DEF Connections
<1>12. y = [z EXCEPT !.sent = t]
  BY <1>y, <1>2, <1>3, <1>4, <1>6, <1>8, <1>10 DEF ReadMore, Kept
<1>13. y \in Connections /\ y.present = x.present /\ y.shut = x.shut
       /\ y.reading = x.reading /\ y.sent = t /\ y.incoming = h
  BY <1>9, <1>11, <1>12 DEF Connections
<1>14. ASSUME x.present, x.incoming = Numbers(0, x.sent) PROVE y.incoming = Numbers(0, y.sent)
  <2>1. Numbers(0, x.sent) \o Numbers(0 + x.sent, n) = Numbers(0, x.sent + n)
    BY <1>1, NumbersJoin
  <2>2. 0 + x.sent = x.sent
    BY <1>1
  <2>3. h = Numbers(0, x.sent) \o Numbers(x.sent, n)
    BY <1>2, <1>4, <1>6, <1>14
  <2>4. h = Numbers(0, t)
    BY <2>1, <2>2, <2>3, <1>8
  <2> QED BY <2>4, <1>13
<1> QED BY <1>y, <1>2, <1>4, <1>6, <1>8, <1>13, <1>14 DEF ReadOn

\* The connections, when one of them becomes y.
LEMMA OneConnection ==
  ASSUME NetIs(net), NEW c \in 1..Len(net.connections), NEW y \in Connections, NEW n,
         n = [net EXCEPT !.connections = [net.connections EXCEPT ![c] = y]]
  PROVE  /\ NetIs(n) /\ n.events = net.events /\ n.listening = net.listening
         /\ Len(n.connections) = Len(net.connections) /\ n.connections[c] = y
         /\ \A d \in 1..Len(net.connections) : d # c => n.connections[d] = net.connections[d]
         /\ n.connections \in Seq(Connections)
<1>1. net.connections \in Seq(Connections)
  BY ConnectionsAre
<1>2. PICK z : z = [net.connections EXCEPT ![c] = y]
  OBVIOUS
<1>3. /\ z \in Seq(Connections) /\ Len(z) = Len(net.connections) /\ z[c] = y
      /\ \A d \in 1..Len(net.connections) : d # c => z[d] = net.connections[d]
  BY <1>1, <1>2, ExceptSeq
<1>4. n = [net EXCEPT !.connections = z]
  BY <1>2
<1>5. NetIs(n) /\ n.events = net.events /\ n.listening = net.listening /\ n.connections = z
  BY <1>3, <1>4 DEF NetIs
<1> QED BY <1>3, <1>5

\* The peer sends.
LEMMA PeerSendsHolds ==
  ASSUME Core, NEW c \in DOMAIN net.connections, NEW length \in Lengths, PeerSends(c, length)
  PROVE  /\ Core' /\ net'.events = Append(net.events, [kind |-> "data", conn |-> c, port |-> 0])
         /\ Len(net'.connections) = Len(net.connections)
         /\ \A d \in 1..Len(net.connections) : d # c => net'.connections[d] = net.connections[d]
         /\ ReadOn(net.connections[c], length, net'.connections[c])
<1>1. NetIs(net)
  BY CoreParts
<1>2. /\ net.connections \in Seq(Connections) /\ DOMAIN net.connections = 1..Len(net.connections)
      /\ c \in 1..Len(net.connections) /\ Len(net.connections) \in Nat
      /\ net.connections[c] \in Connections
  BY <1>1, ConnectionsAre
<1>3. PICK con : con = net.connections
  OBVIOUS
<1>4. PICK x : x = con[c]
  OBVIOUS
<1>5. PICK y : y = ReadMore(x, Numbers(x.sent, length))
  OBVIOUS
<1>6. length \in Nat
  BY SocketsAssumption
<1>7. /\ y \in Connections /\ y.present = x.present /\ y.shut = x.shut
      /\ y.reading = x.reading
      /\ x.present /\ x.incoming = Numbers(0, x.sent) => y.incoming = Numbers(0, y.sent)
      /\ ReadOn(x, length, y)
  <2>1. x \in Connections
    BY <1>2, <1>3, <1>4
  <2>2. ReadOn(x, length, y)
    BY <2>1, <1>5, <1>6, ReadMoreIs
  <2> QED BY <2>2 DEF ReadOn
<1>8. PICK n : n = [net EXCEPT !.connections = [net.connections EXCEPT ![c] = y]]
  OBVIOUS
<1>9. /\ NetIs(n) /\ n.events = net.events /\ n.listening = net.listening
      /\ Len(n.connections) = Len(con) /\ n.connections[c] = y
      /\ \A d \in 1..Len(con) : d # c => n.connections[d] = con[d]
      /\ n.connections \in Seq(Connections)
  BY <1>1, <1>2, <1>3, <1>7, <1>8, OneConnection
<1>10. PICK ev : ev = [kind |-> "data", conn |-> c, port |-> 0]
  OBVIOUS
<1>11. net' = Report(n, "data", c, 0)
  <2>1. PICK bytes : bytes = Numbers(x.sent, length)
    OBVIOUS
  <2>2. y = [x EXCEPT !.incoming = @ \o Kept(x, bytes), !.sent = @ + Len(bytes)]
    BY <1>5, <2>1 DEF ReadMore
  <2>3. net' = Arrived(net, c, bytes)
    BY <2>1, <1>3, <1>4 DEF PeerSends
  <2>4. PICK k : k = Kept(x, bytes)
    OBVIOUS
  <2>5. net' = Report([net EXCEPT !.connections[c].incoming = @ \o k,
                                  !.connections[c].sent = @ + Len(bytes)], "data", c, 0)
    BY <2>3, <2>4, <1>3, <1>4 DEF Arrived, Kept
  <2>6. PICK m : m = [net EXCEPT !.connections[c].incoming = @ \o k,
                                 !.connections[c].sent = @ + Len(bytes)]
    OBVIOUS
  <2>7. PICK h, t : h = x.incoming \o k /\ t = x.sent + Len(bytes)
    OBVIOUS
  <2>8. PICK z : z = [x EXCEPT !.incoming = h]
    OBVIOUS
  <2>9. y = [z EXCEPT !.sent = t]
    BY <2>2, <2>4, <2>7, <2>8
  <2>10. PICK w : w = [net EXCEPT !.connections = [con EXCEPT ![c] = z]]
    OBVIOUS
  <2>11. z.sent = x.sent
    BY <2>8, <1>2, <1>3, <1>4 DEF Connections
  <2>12. w.connections = [con EXCEPT ![c] = z] /\ w.connections[c] = z
    BY <2>10, <1>1, <1>2, <1>3 DEF NetIs
  <2>13. m = [w EXCEPT !.connections[c].sent = t]
    BY <2>6, <2>7, <2>8, <2>10, <2>11, <2>12, <1>3, <1>4
  <2>14. m = [w EXCEPT !.connections = [w.connections EXCEPT ![c] = y]]
    BY <2>9, <2>12, <2>13
  <2>15. m = [net EXCEPT !.connections = [con EXCEPT ![c] = y]]
    BY <2>10, <2>12, <2>14
  <2> QED BY <2>5, <2>6, <2>15, <1>3, <1>8
<1>12. Adds(con, n.connections, ev)
  <2>1. ev \in Events /\ ev.kind = "data" /\ ev.conn = c
    BY <1>2, <1>10 DEF Events
  <2> QED BY <2>1, <1>2, <1>3, <1>4, <1>7, <1>9 DEF Adds
<1>13. HostStep /\ streams' = streams
  BY DEF PeerSends
<1>14. Core' /\ net'.connections = n.connections /\ net'.events = Append(net.events, ev)
  BY <1>3, <1>9, <1>10, <1>11, <1>12, <1>13, ReportedIs
<1> QED BY <1>3, <1>4, <1>7, <1>9, <1>10, <1>14

\* The peer ends its side.
LEMMA PeerFinishesHolds ==
  ASSUME Core, NEW c \in DOMAIN net.connections, PeerFinishes(c)
  PROVE  /\ Core' /\ Len(net'.connections) = Len(net.connections)
         /\ \A d \in 1..Len(net.connections) :
              /\ net'.connections[d].incoming = net.connections[d].incoming
              /\ net'.connections[d].sent = net.connections[d].sent
              /\ net'.connections[d].shut = net.connections[d].shut
<1>1. NetIs(net)
  BY CoreParts
<1>2. /\ net.connections \in Seq(Connections) /\ DOMAIN net.connections = 1..Len(net.connections)
      /\ c \in 1..Len(net.connections) /\ Len(net.connections) \in Nat
      /\ net.connections[c] \in Connections
  BY <1>1, ConnectionsAre
<1>3. PICK con : con = net.connections
  OBVIOUS
<1>4. PICK x : x = con[c]
  OBVIOUS
<1>5. PICK y : y = [x EXCEPT !.reading = FALSE]
  OBVIOUS
<1>7. /\ y \in Connections /\ y.present = x.present /\ y.shut = x.shut
      /\ ~y.reading /\ y.incoming = x.incoming /\ y.sent = x.sent
  BY <1>2, <1>3, <1>4, <1>5 DEF Connections
<1>8. PICK n : n = [net EXCEPT !.connections = [net.connections EXCEPT ![c] = y]]
  OBVIOUS
<1>9. /\ NetIs(n) /\ n.events = net.events /\ n.listening = net.listening
      /\ Len(n.connections) = Len(con) /\ n.connections[c] = y
      /\ \A d \in 1..Len(con) : d # c => n.connections[d] = con[d]
      /\ n.connections \in Seq(Connections)
  BY <1>1, <1>2, <1>3, <1>7, <1>8, OneConnection
<1>10. PICK ev : ev = [kind |-> "eof", conn |-> c, port |-> 0]
  OBVIOUS
<1>11. net' = Report(n, "eof", c, 0) /\ x.reading
  BY <1>3, <1>4, <1>5, <1>8 DEF PeerFinishes, Ended
<1>12. Adds(con, n.connections, ev)
  <2>1. ev \in Events /\ ev.kind = "eof" /\ ev.conn = c
    BY <1>2, <1>10 DEF Events
  <2> QED BY <2>1, <1>2, <1>3, <1>4, <1>7, <1>9, <1>11 DEF Adds
<1>13. HostStep /\ streams' = streams
  BY DEF PeerFinishes
<1>14. Core' /\ net'.connections = n.connections
  BY <1>3, <1>9, <1>10, <1>11, <1>12, <1>13, ReportedIs
<1> QED BY <1>3, <1>4, <1>7, <1>9, <1>14

\* A peer connects.
LEMMA PeerConnectsHolds ==
  ASSUME Core, NEW port \in Mapped, PeerConnects(port)
  PROVE  /\ Core' /\ Len(net.connections) <= Len(net'.connections)
         /\ \A d \in 1..Len(net.connections) : net'.connections[d] = net.connections[d]
<1>1. NetIs(net)
  BY CoreParts
<1>2. /\ net.connections \in Seq(Connections) /\ Len(net.connections) \in Nat
  BY <1>1, ConnectionsAre
<1>3. PICK con : con = net.connections
  OBVIOUS
<1>4. NewConnection \in Connections
  <2>1. <<>> \in Seq(Nat)
    OBVIOUS
  <2> QED BY <2>1 DEF NewConnection, Connections
<1>5. PICK z : z = Append(con, NewConnection)
  OBVIOUS
<1>6. /\ z \in Seq(Connections) /\ Len(z) = Len(con) + 1
      /\ \A d \in 1..Len(con) : z[d] = con[d]
      /\ z[Len(con) + 1] = NewConnection
  BY <1>2, <1>3, <1>4, <1>5, AppendProperties
<1>7. PICK n : n = [net EXCEPT !.connections = z]
  OBVIOUS
<1>8. NetIs(n) /\ n.events = net.events /\ n.listening = net.listening /\ n.connections = z
  BY <1>1, <1>6, <1>7 DEF NetIs
<1>9. PICK ev : ev = [kind |-> "open", conn |-> Len(con) + 1, port |-> port]
  OBVIOUS
<1>10. net' = Report(n, "open", Len(con) + 1, port)
  BY <1>3, <1>5, <1>7 DEF PeerConnects, HostAccepts
<1>11. NewConnection.present /\ ~NewConnection.shut
       /\ NewConnection.incoming = Numbers(0, NewConnection.sent)
  <2>1. NewConnection.sent = 0 /\ NewConnection.incoming = <<>>
        /\ NewConnection.present /\ ~NewConnection.shut
    BY DEF NewConnection
  <2>2. Len(Numbers(0, 0)) = 0 /\ Numbers(0, 0) \in Seq(Nat)
    BY NumbersIs
  <2>3. Numbers(0, 0) = <<>>
    BY <2>2, EmptySeq
  <2> QED BY <2>1, <2>3
<1>12. Adds(con, z, ev)
  <2>1. ev \in Events /\ ev.kind = "open" /\ ev.conn = Len(con) + 1
    BY <1>2, <1>3, <1>9, SocketsAssumption DEF Events
  <2> QED BY <2>1, <1>2, <1>3, <1>6, <1>11 DEF Adds
<1>13. HostStep /\ streams' = streams
  BY DEF PeerConnects
<1>14. Core' /\ net'.connections = z
  BY <1>3, <1>8, <1>9, <1>10, <1>12, <1>13, ReportedIs
<1> QED BY <1>2, <1>3, <1>6, <1>14

---------------------------------------------------------------------------
(* The invariant.                                                          *)

\* The inductive invariant.
Inv == Core /\ RestIs

\* A container starts with no socket.
LEMMA InitHolds ==
  ASSUME Init
  PROVE  Inv
<1>1. <<>> \in Seq(Events) /\ <<>> \in Seq(Nat) /\ <<>> \in Seq(Streams)
      /\ <<>> \in Seq(Connections) /\ <<>> \in Seq(Paths)
  OBVIOUS
<1>2. FreeRing \in RingRecords
  BY <1>1 DEF FreeRing, RingRecords
<1>3. NewNet = [events |-> <<>>, connections |-> <<>>, listening |-> {}] /\ net = NewNet
  BY DEF NewNet, Init
<1>4. TypesAre
  BY <1>1, <1>2, <1>3 DEF Init, TypesAre, RingsAre, SocketsAre, FilesAre, NetIs, StreamsAre, NoFiles
<1>5. /\ LiveIn(sockets) = {} /\ JoinedIn(sockets) = {} /\ WaitingIn(sockets) = {}
  BY DEF Init, LiveIn, JoinedIn, WaitingIn
<1>6. DescriptorsLive(files, sockets) /\ QueuesAre(files, sockets, adrift)
      /\ ReferencesAre(files, sockets, adrift)
  BY <1>5 DEF Init, NoFiles, DescriptorsLive, QueuesAre, ReferencesAre
<1>7. AttachedAre(sockets, rings)
  <2> SUFFICES ASSUME NEW s \in Slots PROVE rings[s].attached = NamingIn(sockets, s)
    BY DEF AttachedAre
  <2>1. /\ {i \in JoinedIn(sockets) : sockets[i].ends.receive = s} = {}
        /\ {i \in JoinedIn(sockets) : sockets[i].ends.transmit = s} = {}
    BY <1>5
  <2>2. Cardinality({}) = 0
    BY FS_EmptySet
  <2>3. NamingIn(sockets, s) = 0
    <3>1. PICK A, B : /\ A = {i \in JoinedIn(sockets) : sockets[i].ends.receive = s}
                      /\ B = {i \in JoinedIn(sockets) : sockets[i].ends.transmit = s}
      OBVIOUS
    <3>2. A = {} /\ B = {}
      BY <2>1, <3>1
    <3>3. NamingIn(sockets, s) = Cardinality(A) + Cardinality(B)
      BY <3>1 DEF NamingIn
    <3> QED BY <2>2, <3>2, <3>3
  <2> QED BY <2>3 DEF Init, FreeRing
<1>8. CountsAre(files, sockets, rings, streams, carries, skewed)
  BY DEF Init, CountsAre
<1>9. CarriedAre(sockets, carries, streams)
  BY <1>5 DEF Init, CarriedAre
<1>10. Pending = <<>>
  BY <1>3 DEF Init, Pending
<1>11. EventsAre(sockets, streams, Pending, net.connections)
  BY <1>3, <1>5, <1>10 DEF Init, EventsAre
<1>12. RestIs
  BY <1>1 DEF Init, RestIs
<1> QED BY <1>4, <1>6, <1>7, <1>8, <1>9, <1>11, <1>12 DEF Inv, Core, Agree

\* The parts no count depends on have their types.
LEMMA RestStays ==
  ASSUME Inv, [Next]_vars
  PROVE  RestIs'
<1>1. RestIs /\ FilesAre(files)
  BY CoreParts DEF Inv
<1>2. CASE UNCHANGED <<nodes, next, accepting>>
  BY <1>1, <1>2 DEF RestIs
<1>3. CASE UNCHANGED vars
  BY <1>2, <1>3 DEF vars
<1>4. ASSUME NEW p \in Procs, NEW cloexec \in BOOLEAN,
             MakeSocket(p, cloexec)
               \/ \E fd \in Fds, fault \in BOOLEAN : Accept(p, fd, cloexec, fault)
      PROVE  RestIs'
  BY <1>2, <1>4 DEF MakeSocket, Accept
<1>5. ASSUME NEW p \in Procs, MakeSocketpair(p) PROVE RestIs'
  BY <1>2, <1>5 DEF MakeSocketpair
<1>6. ASSUME NEW p \in Procs, NEW fd \in Fds, NEW host, NEW port, BindInet(p, fd, host, port)
      PROVE  RestIs'
  BY <1>2, <1>6 DEF BindInet
<1>7. ASSUME NEW p \in Procs, NEW fd \in Fds, NEW path \in Paths, BindUnix(p, fd, path)
      PROVE  RestIs'
  <2>1. /\ nodes' = [nodes EXCEPT ![p] = Append(nodes[p], path)]
        /\ next' = next /\ accepting' = accepting
    BY <1>7 DEF BindUnix
  <2>2. nodes[p] \in Seq(Paths)
    BY <1>1 DEF RestIs
  <2>3. Append(nodes[p], path) \in Seq(Paths)
    BY <2>2, AppendProperties
  <2> QED BY <1>1, <2>1, <2>3 DEF RestIs
<1>8. ASSUME NEW p \in Procs, NEW fd \in Fds, NEW path \in Paths, ConnectUnix(p, fd, path)
      PROVE  RestIs'
  BY <1>2, <1>8 DEF ConnectUnix, ConnectTo
<1>9. ASSUME NEW p \in Procs, NEW fd \in Fds, NEW backlog, Listen(p, fd, backlog)
      PROVE  RestIs'
  BY <1>2, <1>9 DEF Listen
<1>10. ASSUME NEW p \in Procs, NEW fd \in Fds, NEW port, ConnectInet(p, fd, port)
       PROVE  RestIs'
  BY <1>2, <1>10 DEF ConnectInet, ConnectTo
<1>11. ASSUME NEW p \in Procs, NEW fd \in Fds, ParkOnAccept(p, fd)
       PROVE  RestIs'
  <2>1. SocketAt(p, fd) \in Ids
    BY <1>11, NamedIs DEF ParkOnAccept, Inv
  <2> QED BY <1>1, <1>11, <2>1 DEF ParkOnAccept, RestIs
<1>12. ASSUME NEW p \in Procs, NEW fd \in Fds, NEW length,
              Send(p, fd, length) \/ Receive(p, fd, length)
       PROVE  RestIs'
  BY <1>2, <1>12 DEF Send, Receive
<1>13. ASSUME NEW p \in Procs, NEW fd \in Fds, NEW directions, Shutdown(p, fd, directions)
       PROVE  RestIs'
  BY <1>2, <1>13 DEF Shutdown
<1>14. ASSUME NEW p \in Procs, NEW fd \in Fds,
              Dup(p, fd) \/ Close(p, fd) \/ \E new \in Fds : Dup2(p, fd, new)
       PROVE  RestIs'
  BY <1>2, <1>14 DEF Dup, Close, Dup2
<1>15. ASSUME NEW p \in Procs, NEW fault, ResumeAccept(p, fault) PROVE RestIs'
  BY <1>1, <1>15 DEF ResumeAccept, RestIs
<1>16. ASSUME NEW p \in Procs, Fork(p) PROVE RestIs'
  BY <1>1, <1>16 DEF Fork, RestIs
<1>17. ASSUME NEW p \in Procs, Exit(p) PROVE RestIs'
  BY <1>1, <1>17 DEF Exit, RestIs
<1>18. ASSUME NEW p \in Procs, Execve(p) PROVE RestIs'
  BY <1>1, <1>18 DEF Execve, RestIs
<1>19. CASE Flush \/ Pump \/ AcceptEdge \/ Data \/ Eof
  BY <1>2, <1>19 DEF Flush, Pump, FlushEdges, AcceptEdge, Data, Eof
<1>20. CASE Host
  BY <1>2, <1>20 DEF Host, PeerConnects, PeerSends, PeerFinishes, HostStep
<1> QED BY <1>3, <1>4, <1>5, <1>6, <1>7, <1>8, <1>9, <1>10, <1>11, <1>12, <1>13, <1>14,
           <1>15, <1>16, <1>17, <1>18, <1>19, <1>20 DEF Next, Opens, Rows

\* The shapes of a step.
Moves ==
  \/ Resting \/ Dropping \/ Tabling \/ Wiring \/ Shutting
  \/ Puts \/ Takes \/ Draining \/ Flush \/ Pump \/ Host

\* Every step keeps what the counts say.
LEMMA CoreStays ==
  ASSUME Inv, [Next]_vars
  PROVE  Core' /\ Moves
<1>1. Core /\ RestIs
  BY DEF Inv
<1>2. menu.backlogs \subseteq Nat
  BY <1>1, CoreParts, SocketsAssumption
<1>3. CASE UNCHANGED vars
  BY <1>1, <1>3, UnchangedHolds DEF vars, history, Moves
<1>4. CASE Opens
  BY <1>1, <1>4, MakeSocketHolds, AcceptHolds DEF Opens, Moves
<1>5. ASSUME NEW p \in Procs, NEW fd \in Fds,
             \/ \E host \in {Wildcard, Loopback}, port \in Ports \cup {0} : BindInet(p, fd, host, port)
             \/ \E path \in Paths : BindUnix(p, fd, path) \/ ConnectUnix(p, fd, path)
             \/ \E backlog \in menu.backlogs : Listen(p, fd, backlog)
             \/ \E port \in Ports \cup Ephemeral : ConnectInet(p, fd, port)
             \/ ParkOnAccept(p, fd)
             \/ \E length \in Lengths : Send(p, fd, length) \/ Receive(p, fd, length)
             \/ \E directions \in SUBSET End \ {{}} : Shutdown(p, fd, directions)
             \/ Dup(p, fd) \/ Close(p, fd)
             \/ \E new \in Fds : Dup2(p, fd, new)
      PROVE  Core' /\ Moves
  <2>1. CASE \E host \in {Wildcard, Loopback}, port \in Ports \cup {0} : BindInet(p, fd, host, port)
    BY <1>1, <2>1, BindInetHolds DEF Moves
  <2>2. CASE \E path \in Paths : BindUnix(p, fd, path) \/ ConnectUnix(p, fd, path)
    BY <1>1, <2>2, BindUnixHolds, ConnectUnixHolds DEF Moves
  <2>3. CASE \E backlog \in menu.backlogs : Listen(p, fd, backlog)
    BY <1>1, <1>2, <2>3, ListenHolds DEF Moves
  <2>4. CASE \E port \in Ports \cup Ephemeral : ConnectInet(p, fd, port)
    BY <1>1, <2>4, ConnectInetHolds DEF Moves
  <2>5. CASE ParkOnAccept(p, fd)
    BY <1>1, <2>5, ParkOnAcceptHolds DEF Moves
  <2>6. CASE \E length \in Lengths : Send(p, fd, length) \/ Receive(p, fd, length)
    BY <1>1, <2>6, SendHolds, ReceiveHolds DEF Moves
  <2>7. CASE \E directions \in SUBSET End \ {{}} : Shutdown(p, fd, directions)
    BY <1>1, <2>7, ShutdownHolds DEF Moves
  <2>8. CASE Dup(p, fd)
    BY <1>1, <2>8, DupHolds DEF Moves
  <2>9. CASE Close(p, fd)
    BY <1>1, <2>9, CloseHolds DEF Moves
  <2>10. CASE \E new \in Fds : Dup2(p, fd, new)
    BY <1>1, <2>10, Dup2Holds DEF Moves
  <2> QED BY <1>5, <2>1, <2>2, <2>3, <2>4, <2>5, <2>6, <2>7, <2>8, <2>9, <2>10
<1>6. CASE Rows
  <2>1. PICK p \in Procs :
          \/ MakeSocketpair(p)
          \/ \E fd \in Fds :
             \/ \E host \in {Wildcard, Loopback}, port \in Ports \cup {0} : BindInet(p, fd, host, port)
             \/ \E path \in Paths : BindUnix(p, fd, path) \/ ConnectUnix(p, fd, path)
             \/ \E backlog \in menu.backlogs : Listen(p, fd, backlog)
             \/ \E port \in Ports \cup Ephemeral : ConnectInet(p, fd, port)
             \/ ParkOnAccept(p, fd)
             \/ \E length \in Lengths : Send(p, fd, length) \/ Receive(p, fd, length)
             \/ \E directions \in SUBSET End \ {{}} : Shutdown(p, fd, directions)
             \/ Dup(p, fd) \/ Close(p, fd)
             \/ \E new \in Fds : Dup2(p, fd, new)
          \/ \E fault \in BOOLEAN : ResumeAccept(p, fault)
          \/ Fork(p) \/ Exit(p) \/ Execve(p)
    BY <1>6 DEF Rows
  <2>2. CASE MakeSocketpair(p)
    BY <1>1, <2>2, MakeSocketpairHolds DEF Moves
  <2>3. CASE \E fault \in BOOLEAN : ResumeAccept(p, fault)
    BY <1>1, <2>3, ResumeAcceptHolds DEF Moves
  <2>4. CASE Fork(p) \/ Exit(p) \/ Execve(p)
    BY <1>1, <2>4, ForkHolds, ExitHolds, ExecveHolds DEF Moves
  <2> QED BY <1>5, <2>1, <2>2, <2>3, <2>4
<1>7. CASE Flush \/ Pump \/ AcceptEdge \/ Data \/ Eof
  BY <1>1, <1>7, FlushHolds, PumpHolds, AcceptEdgeHolds, DataHolds, EofHolds DEF Moves
<1>8. CASE Host
  BY <1>1, <1>8, PeerConnectsHolds, PeerSendsHolds, PeerFinishesHolds DEF Host, Moves
<1> QED BY <1>3, <1>4, <1>6, <1>7, <1>8 DEF Next

\* Every step keeps the invariant.
LEMMA NextHolds ==
  ASSUME Inv, [Next]_vars
  PROVE  Inv'
BY CoreStays, RestStays DEF Inv

(* For any processes, descriptors, sockets and rings: Inv holds in every   *)
(* reachable state. A socket's references, a ring's readers, writers and   *)
(* attached sockets are what the tables and the queues say, a connection's *)
(* rings are its own, and what the host still has to report is of a        *)
(* connection whose socket and stream wait for it.                         *)
THEOREM CoreHolds == Spec => []Inv
<1>1. Init => Inv
  BY InitHolds
<1>2. Inv /\ [Next]_vars => Inv'
  BY NextHolds
<1> QED BY <1>1, <1>2, PTL DEF Spec

---------------------------------------------------------------------------
(* The counts of the model are those of the invariant.                     *)

\* The members of a queue are sockets.
LEMMA QueueMembers ==
  ASSUME NEW i \in Ids, NEW q, q \in Seq(Ids), NEW a \in DOMAIN q
  PROVE  q[a] \in Ids
OBVIOUS

\* The sets of the module, as the lemmas put them.
LEMMA SetsAre ==
  ASSUME SocketsAre(sockets)
  PROVE  /\ Live = LiveIn(sockets) /\ Connected = JoinedIn(sockets)
         /\ InQueues = WaitingIn(sockets)
<1>1. Live = LiveIn(sockets)
  BY DEF Live, LiveIn
<1>2. Connected = JoinedIn(sockets)
  BY DEF Live, Connected, JoinedIn
<1>3. ASSUME NEW j \in InQueues PROVE j \in WaitingIn(sockets)
  <2>1. PICK i \in Listening : j \in Range(sockets[i].queue)
    BY DEF InQueues
  <2>2. PICK q : q = sockets[i].queue
    OBVIOUS
  <2>3. PICK a \in DOMAIN q : q[a] = j
    BY <2>1, <2>2 DEF Range
  <2>4. i \in LiveIn(sockets) /\ sockets[i].state = "Listening"
    BY <1>1 DEF Listening
  <2>5. i \in Ids /\ sockets[i] # NoSocket /\ q \in Seq(Ids)
    BY <2>2, <2>4, LiveIsRecord
  <2>6. j \in Ids
    BY <2>3, <2>5, QueueMembers
  <2> QED BY <2>2, <2>3, <2>4, <2>5, <2>6 DEF WaitingIn
<1>4. ASSUME NEW j \in WaitingIn(sockets) PROVE j \in InQueues
  <2>1. PICK i \in Ids : /\ sockets[i] # NoSocket /\ sockets[i].state = "Listening"
                         /\ \E a \in DOMAIN sockets[i].queue : sockets[i].queue[a] = j
    BY DEF WaitingIn
  <2>2. i \in Listening
    BY <2>1 DEF Listening, Live
  <2>3. j \in Range(sockets[i].queue)
    BY <2>1 DEF Range
  <2> QED BY <2>2, <2>3 DEF InQueues
<1> QED BY <1>1, <1>2, <1>3, <1>4

\* HeldBy is the count of the lemmas.
LEMMA HeldByIs ==
  ASSUME SocketsAre(sockets), NEW S
  PROVE  HeldBy(S) = Count(files, sockets, S)
<1>1. UNION {Descriptors(i) : i \in S} = On(files, S)
  <2>1. \A i : Descriptors(i) = On(files, {i})
    BY DescriptorsAre
  <2>2. \A d : d \in UNION {Descriptors(i) : i \in S} <=> \E i \in S : d \in On(files, {i})
    BY <2>1
  <2>3. \A d : d \in On(files, S) <=> \E i \in S : d \in On(files, {i})
    BY DEF On
  <2> QED BY <2>2, <2>3
<1> QED BY <1>1, SetsAre DEF HeldBy, Count

\* Holders is the count of one socket.
LEMMA HoldersIs ==
  ASSUME SocketsAre(sockets), NEW i
  PROVE  Holders(i) = Count(files, sockets, {i})
<1>1. Descriptors(i) = On(files, {i})
  BY DescriptorsAre
<1>2. Cardinality(On(files, {i})) \in Nat
  BY OnFinite
<1>3. CASE i \in InQueues
  BY <1>1, <1>2, <1>3, SetsAre, CountOne DEF Holders
<1>4. CASE i \notin InQueues
  BY <1>1, <1>2, <1>4, SetsAre, CountOne DEF Holders
<1> QED BY <1>3, <1>4

\* The invariant says that every count is true.
LEMMA InvAgrees ==
  ASSUME Inv
  PROVE  EndsAgree
<1>1. /\ ReferencesAre(files, sockets, adrift) /\ AttachedAre(sockets, rings)
      /\ CountsAre(files, sockets, rings, streams, carries, skewed)
      /\ SocketsAre(sockets)
  BY CoreParts DEF Inv
<1>2. ASSUME NEW i \in Live \ adrift PROVE sockets[i].references = Holders(i)
  <2>1. i \in LiveIn(sockets) /\ i \notin adrift
    BY SetsAre, <1>1
  <2>2. sockets[i].references = Count(files, sockets, {i})
    BY <2>1, <1>1 DEF ReferencesAre
  <2> QED BY <2>2, HoldersIs, <1>1
<1>3. ASSUME NEW s \in Slots PROVE rings[s].attached = NamedBy(Connected, s)
  <2>1. rings[s].attached = NamingIn(sockets, s)
    BY <1>1 DEF AttachedAre
  <2>2. PICK J : J = JoinedIn(sockets)
    OBVIOUS
  <2>3. Connected = J /\ J \cap J = J
    BY <2>2, SetsAre, <1>1
  <2>4. NamedBy(Connected, s) = Cardinality({i \in J : sockets[i].ends.receive = s})
                                  + Cardinality({i \in J : sockets[i].ends.transmit = s})
    BY <2>3 DEF NamedBy
  <2>5. NamingIn(sockets, s) = Cardinality({i \in J : sockets[i].ends.receive = s})
                                  + Cardinality({i \in J : sockets[i].ends.transmit = s})
    BY <2>2 DEF NamingIn
  <2> QED BY <2>1, <2>4, <2>5
<1>4. ASSUME NEW s \in Slots, carries[s] \notin skewed \cup {0}
      PROVE  rings[s].readers = Readers(s) /\ rings[s].writers = Writers(s)
  <2>1. /\ rings[s].readers = Count(files, sockets, Hearing(sockets, s))
                                + One(streams[carries[s]].reads # 0)
        /\ rings[s].writers = Count(files, sockets, Saying(sockets, s))
                                + One(streams[carries[s]].writes # 0)
    BY <1>1, <1>4 DEF CountsAre
  <2>2. /\ Hearing(sockets, s) = {i \in Connected : sockets[i].ends.receive = s
                                                      /\ ~sockets[i].ends.readShut}
        /\ Saying(sockets, s) = {i \in Connected : sockets[i].ends.transmit = s
                                                      /\ ~sockets[i].ends.writeShut}
    BY SetsAre, <1>1 DEF Hearing, Saying
  <2>3. Readers(s) = HeldBy(Hearing(sockets, s)) + One(streams[carries[s]].reads # 0)
    BY <2>2 DEF Readers, One
  <2>4. Writers(s) = HeldBy(Saying(sockets, s)) + One(streams[carries[s]].writes # 0)
    BY <2>2 DEF Writers, One
  <2> QED BY <2>1, <2>3, <2>4, HeldByIs, <1>1
<1> QED BY <1>2, <1>3, <1>4 DEF EndsAgree

(* For any processes, descriptors, sockets and rings, however descriptors  *)
(* are copied, inherited, closed, passed over execve and shut down, and    *)
(* whatever the host reports when: every count of the arena is what the    *)
(* tables say (EndsAgree), so no peer sees an end of file or an EPIPE      *)
(* early and no ring is reused while a socket names it.                    *)
THEOREM EveryCountIsTrue == Spec => []EndsAgree
<1>1. Spec => []Inv
  BY CoreHolds
<1>2. Inv => EndsAgree
  BY InvAgrees
<1> QED BY <1>1, <1>2, PTL
=============================================================================
