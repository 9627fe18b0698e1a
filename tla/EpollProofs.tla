---------------------------- MODULE EpollProofs ----------------------------
(***************************************************************************)
(* What is proved of waiting for descriptors, for any number of threads,   *)
(* descriptor numbers, counters and interest sets, and any ceiling.        *)
(*                                                                         *)
(* A registration names a description by its slot and a descriptor names   *)
(* one by the same slot, so that no registration is left on a slot that    *)
(* was freed depends on the reference counts being right, and those on     *)
(* nothing but the table.  An interest set is freed by a count which a     *)
(* fork may leave too high but which is never below what names and holds   *)
(* the set; a held set is never named, so nothing a table does reaches it. *)
(***************************************************************************)
EXTENDS Epoll, FiniteSetTheorems, TLAPS

\* The descriptors on a description.
NamersOf(f, d) == {fd \in Numbers : f[fd] = d}

CountedOn(table, d) == IF table[d] = None THEN 0 ELSE table[d].references

ReferencesAreRight ==
  \A d \in Slots : Cardinality(NamersOf(files, d)) = CountedOn(descriptions, d)

CountersExist ==
  \A d \in InUse(descriptions) :
    descriptions[d].backing.kind = "event" => events[descriptions[d].backing.id] # None

WatchedAreOpen ==
  \A s \in InUse(sets) : \A fd \in InUse(Entries(s)) :
    descriptions[Entries(s)[fd].description] # None

WaitsHaveCounters ==
  /\ \A t \in InUse(parked) : ~IsWatch(t) => events[parked[t].event] # None
  /\ \A id \in shared : events[id] # None

LookingAtParked ==
  /\ todo \subseteq InUse(parked)
  /\ ~turn => todo = {}

IInv ==
  /\ TypeOK
  /\ ReferencesAreRight
  /\ CountersExist
  /\ WatchedAreOpen
  /\ SetsAreHeld
  /\ WaitsHaveCounters
  /\ LookingAtParked

---------------------------------------------------------------------------
(* Counting descriptors.                                                   *)

\* A function on the numbers, after one of them names something else.
Renamed(f, fd, x) == [f EXCEPT ![fd] = x]

One(b) == IF b THEN 1 ELSE 0

\* The descriptors on a description can be counted.
LEMMA NamersType ==
  ASSUME NEW f, NEW d
  PROVE  /\ IsFiniteSet(NamersOf(f, d))
         /\ Cardinality(NamersOf(f, d)) \in Nat
<1>1. NamersOf(f, d) \in SUBSET Numbers
  BY DEF NamersOf
<1>2. IsFiniteSet(Numbers)
  BY EpollAssumption
<1> QED
  BY <1>1, <1>2, FS_Subset, FS_CardinalityType

\* There is one exactly when the count says so.
LEMMA NamersNone ==
  ASSUME NEW f, NEW d
  PROVE  Cardinality(NamersOf(f, d)) = 0 <=> \A fd \in Numbers : f[fd] # d
<1>1. Cardinality(NamersOf(f, d)) = 0 <=> NamersOf(f, d) = {}
  BY NamersType, FS_EmptySet
<1> QED
  BY <1>1 DEF NamersOf

\* One descriptor that changes its description moves the two counts by one.
LEMMA NamersMove ==
  ASSUME NEW f \in [Numbers -> Slots \cup {None}], NEW fd \in Numbers,
         NEW x \in Slots \cup {None}, NEW d \in Slots
  PROVE  Cardinality(NamersOf(Renamed(f, fd, x), d))
           = Cardinality(NamersOf(f, d)) - One(f[fd] = d) + One(x = d)
<1> DEFINE Rest == NamersOf(f, d) \ {fd}
<1>1. IsFiniteSet(Rest) /\ Cardinality(Rest) \in Nat
  BY NamersType, FS_Subset, FS_CardinalityType
<1>2. fd \notin Rest
  OBVIOUS
<1>3. Cardinality(Rest \cup {fd}) = Cardinality(Rest) + 1
  BY <1>1, <1>2, FS_AddElement
<1>4. NamersOf(f, d) = IF f[fd] = d THEN Rest \cup {fd} ELSE Rest
  BY DEF NamersOf
<1>5. NamersOf(Renamed(f, fd, x), d) = IF x = d THEN Rest \cup {fd} ELSE Rest
  BY DEF NamersOf, Renamed
<1> HIDE DEF Rest
<1>6. Cardinality(NamersOf(f, d)) = Cardinality(Rest) + One(f[fd] = d)
  BY <1>1, <1>3, <1>4 DEF One
<1>7. Cardinality(NamersOf(Renamed(f, fd, x), d)) = Cardinality(Rest) + One(x = d)
  BY <1>1, <1>3, <1>5 DEF One
<1> QED
  BY <1>1, <1>6, <1>7 DEF One

\* A description two descriptors name has a count of at least two.
LEMMA NamersTwo ==
  ASSUME NEW f \in [Numbers -> Slots \cup {None}], NEW d \in Slots,
         NEW old \in Numbers, NEW new \in Numbers, old # new,
         f[old] = d, f[new] = d
  PROVE  Cardinality(NamersOf(f, d)) >= 2
<1> DEFINE g == Renamed(f, new, None)
<1>1. None \notin Slots
  BY NoneAssumption
<1>2. Cardinality(NamersOf(g, d)) = Cardinality(NamersOf(f, d)) - 1
  BY <1>1, NamersMove, NamersType DEF One
<1>3. g[old] = d
  BY DEF Renamed
<1>4. Cardinality(NamersOf(g, d)) \in Nat /\ Cardinality(NamersOf(g, d)) # 0
  BY <1>3, NamersType, NamersNone
<1> QED
  BY <1>2, <1>4, NamersType

---------------------------------------------------------------------------
(* What names and what holds an interest set.                              *)

\* A parked poll or select.
Holding(x) == x # None /\ x.call # "event" /\ x.call # "epoll"

HoldersIn(w, s) == {t \in Threads : Holding(w[t]) /\ w[t].set = s}

\* One set is named and held no more than its count says, and held alone.
HeldIn(table, opened, kept, w, s) ==
  /\ Census(table, opened, s) <= CountedOn(kept, s)
  /\ \A t \in HoldersIn(w, s) :
       /\ Census(table, opened, s) = 0
       /\ CountedOn(kept, s) = 1
       /\ HoldersIn(w, s) = {t}

Names(table, opened, fd, s) ==
  table[fd] # None /\ opened[table[fd]].backing = [kind |-> "epoll", id |-> s]

LEMMA CensusType ==
  ASSUME NEW table \in [Numbers -> Slots \cup {None}], NEW opened, NEW s
  PROVE  /\ Census(table, opened, s) \in Nat
         /\ Census(table, opened, s) = 0
              <=> \A fd \in Numbers : ~Names(table, opened, fd, s)
<1> DEFINE On == {fd \in InUse(table) :
                    opened[table[fd]].backing = [kind |-> "epoll", id |-> s]}
<1>1. On \in SUBSET Numbers
  BY DEF InUse
<1>2. IsFiniteSet(On)
  BY <1>1, EpollAssumption, FS_Subset
<1>3. Cardinality(On) \in Nat /\ (Cardinality(On) = 0 <=> On = {})
  BY <1>2, FS_CardinalityType, FS_EmptySet
<1>4. On = {} <=> \A fd \in Numbers : ~Names(table, opened, fd, s)
  BY DEF InUse, Names
<1> QED
  BY <1>3, <1>4 DEF Census

LEMMA CountedType ==
  ASSUME TypeOK, NEW s \in Sets
  PROVE  /\ CountedOn(sets, s) \in Nat
         /\ CountedOn(sets, s) = 0 <=> sets[s] = None
BY DEF TypeOK, CountedOn, EpollSet

\* SetsAreHeld, one set at a time and without cardinalities of holders.
LEMMA HeldMeans ==
  TypeOK => (SetsAreHeld <=> \A s \in Sets : HeldIn(files, descriptions, sets, parked, s))
<1> SUFFICES ASSUME TypeOK, NEW s \in Sets
             PROVE  (LET named == Census(files, descriptions, s)
                         held  == Cardinality(HoldersOf(s))
                     IN /\ named + held <= IF sets[s] = None THEN 0 ELSE sets[s].references
                        /\ held > 0 => named = 0 /\ held = 1 /\ sets[s].references = 1)
                    <=> HeldIn(files, descriptions, sets, parked, s)
  BY DEF SetsAreHeld
<1> DEFINE H == HoldersIn(parked, s)
           N == Census(files, descriptions, s)
           C == CountedOn(sets, s)
<1>1. HoldersOf(s) = H
  BY DEF TypeOK, HoldersOf, InUse, IsWatch, HoldersIn, Holding
<1>2. H \in SUBSET Threads
  BY DEF HoldersIn
<1>3. IsFiniteSet(H)
  BY <1>2, EpollAssumption, FS_Subset
<1>4. Cardinality(H) \in Nat /\ (Cardinality(H) = 0 <=> H = {})
  BY <1>3, FS_CardinalityType, FS_EmptySet
<1>5. Cardinality(H) = 1 <=> \E t : H = {t}
  BY <1>3, FS_Singleton
<1>6. N \in Nat
  BY CensusType DEF TypeOK
<1>7. C \in Nat /\ C = IF sets[s] = None THEN 0 ELSE sets[s].references
  BY CountedType DEF CountedOn
<1>8. HeldIn(files, descriptions, sets, parked, s)
        <=> N <= C /\ \A t \in H : N = 0 /\ C = 1 /\ H = {t}
  BY DEF HeldIn
<1>9. (LET named == Census(files, descriptions, s)
           held  == Cardinality(HoldersOf(s))
       IN /\ named + held <= IF sets[s] = None THEN 0 ELSE sets[s].references
          /\ held > 0 => named = 0 /\ held = 1 /\ sets[s].references = 1)
      <=> /\ N + Cardinality(H) <= C
          /\ Cardinality(H) > 0 => N = 0 /\ Cardinality(H) = 1 /\ sets[s].references = 1
  BY <1>1, <1>7
<1> SUFFICES (/\ N + Cardinality(H) <= C
              /\ Cardinality(H) > 0 => N = 0 /\ Cardinality(H) = 1 /\ sets[s].references = 1)
             <=> N <= C /\ \A t \in H : N = 0 /\ C = 1 /\ H = {t}
  BY <1>8, <1>9, Zenon
<1> HIDE DEF H, N, C
<1>10. CASE H = {}
  BY <1>4, <1>6, <1>7, <1>10
<1>11. CASE H # {}
  <2>1. (\A t \in H : N = 0 /\ C = 1 /\ H = {t}) <=> N = 0 /\ C = 1 /\ Cardinality(H) = 1
    BY <1>5, <1>11
  <2>2. Cardinality(H) > 0
    BY <1>4, <1>11
  <2> QED
    BY <1>4, <1>6, <1>7, <2>1, <2>2
<1> QED
  BY <1>10, <1>11

---------------------------------------------------------------------------
(* Tables: a descriptor table and the descriptions it counts.              *)

Counted(f, o) ==
  /\ f \in [Numbers -> Slots \cup {None}]
  /\ o \in [Slots -> OpenFile \cup {None}]
  /\ \A d \in Slots : Cardinality(NamersOf(f, d)) = CountedOn(o, d)

\* What is there afterwards was there before; and what has gone is at most d.
Kept(f, o, d) ==
  /\ \A n \in Numbers : f[n] # None => \E m \in Numbers : files[m] = f[n]
  /\ \A e \in Slots : o[e] # None =>
       descriptions[e] # None /\ o[e].backing = descriptions[e].backing
  /\ \A e \in Slots : o[e] = None => descriptions[e] = None \/ e = d

\* A table that is counted names only descriptions that are open.
LEMMA CountedIsOpen ==
  ASSUME NEW f, NEW o, Counted(f, o)
  PROVE  /\ \A n \in Numbers : f[n] # None => f[n] \in Slots /\ o[f[n]] # None
         /\ \A d \in Slots : o[d] # None => \E n \in Numbers : f[n] = d
<1>1. ASSUME NEW n \in Numbers, f[n] # None
      PROVE  f[n] \in Slots /\ o[f[n]] # None
  <2>1. f[n] \in Slots
    BY <1>1 DEF Counted
  <2>2. Cardinality(NamersOf(f, f[n])) # 0
    BY NamersNone
  <2> QED
    BY <2>1, <2>2 DEF Counted, CountedOn
<1>2. ASSUME NEW d \in Slots, o[d] # None
      PROVE  \E n \in Numbers : f[n] = d
  <2>1. CountedOn(o, d) # 0
    BY <1>2 DEF Counted, OpenFile, CountedOn
  <2>2. Cardinality(NamersOf(f, d)) # 0
    BY <2>1 DEF Counted
  <2> QED
    BY <2>2, NamersNone
<1> QED
  BY <1>1, <1>2

LEMMA NowCounted ==
  ASSUME TypeOK, ReferencesAreRight
  PROVE  Counted(files, descriptions)
BY DEF TypeOK, ReferencesAreRight, Counted

\* The count of a description after one descriptor has let go of it.
LEMMA ReleasedCounts ==
  ASSUME TypeOK, ReferencesAreRight, NEW d \in Slots, descriptions[d] # None
  PROVE  /\ Released(descriptions, d) \in [Slots -> OpenFile \cup {None}]
         /\ \A e \in Slots : CountedOn(Released(descriptions, d), e)
                               = CountedOn(descriptions, e) - One(e = d)
         /\ \A e \in Slots : e # d => Released(descriptions, d)[e] = descriptions[e]
         /\ Released(descriptions, d)[d] # None =>
              Released(descriptions, d)[d].backing = descriptions[d].backing
<1> DEFINE x == descriptions[d]
           o == Released(descriptions, d)
<1>1. x \in OpenFile /\ x.references \in Nat \ {0} /\ x.backing \in Backing
  BY DEF TypeOK, OpenFile
<1>2. descriptions \in [Slots -> OpenFile \cup {None}]
  BY DEF TypeOK
<1>3. /\ o[d] = IF x.references = 1 THEN None ELSE [x EXCEPT !.references = @ - 1]
      /\ \A e \in Slots : e # d => o[e] = descriptions[e]
      /\ DOMAIN o = Slots
  BY <1>2 DEF Released
<1>4. None \notin OpenFile
  BY NoneAssumption
<1>5. CASE x.references = 1
  <2>1. o[d] = None
    BY <1>3, <1>5
  <2>2. o \in [Slots -> OpenFile \cup {None}]
    BY <1>2, <2>1 DEF Released
  <2>3. CountedOn(o, d) = 0 /\ CountedOn(descriptions, d) = 1
    BY <1>5, <2>1 DEF CountedOn
  <2>4. \A e \in Slots : e # d => CountedOn(o, e) = CountedOn(descriptions, e)
                                  /\ CountedOn(descriptions, e) \in Nat
    BY <1>2, <1>3 DEF CountedOn, OpenFile
  <2> HIDE DEF o
  <2> QED
    BY <1>3, <2>1, <2>2, <2>3, <2>4 DEF One, o
<1>6. CASE x.references # 1
  <2> DEFINE y == [x EXCEPT !.references = @ - 1]
  <2>1. y \in OpenFile /\ y.references = x.references - 1 /\ y.backing = x.backing
    BY <1>1, <1>6 DEF OpenFile
  <2>2. o[d] = y
    BY <1>3, <1>6
  <2> HIDE DEF y
  <2>3. o \in [Slots -> OpenFile \cup {None}]
    <3>1. \A e \in Slots : o[e] \in OpenFile \cup {None}
      BY <1>2, <1>3, <2>1, <2>2
    <3>2. o = [e \in Slots |-> o[e]]
      BY <1>2 DEF Released
    <3> HIDE DEF o
    <3> QED
      BY <3>1, <3>2
  <2>4. CountedOn(o, d) = x.references - 1 /\ CountedOn(descriptions, d) = x.references
    BY <1>4, <2>1, <2>2 DEF CountedOn
  <2>5. \A e \in Slots : e # d => CountedOn(o, e) = CountedOn(descriptions, e)
                                  /\ CountedOn(descriptions, e) \in Nat
    BY <1>2, <1>3 DEF CountedOn, OpenFile
  <2> HIDE DEF o
  <2> QED
    BY <1>1, <1>3, <2>1, <2>2, <2>3, <2>4, <2>5 DEF One, o
<1> QED
  BY <1>5, <1>6

\* And after one more descriptor names it.
LEMMA RetainedCounts ==
  ASSUME NEW table \in [Slots -> OpenFile \cup {None}], NEW d \in Slots, table[d] # None
  PROVE  /\ Retained(table, d) \in [Slots -> OpenFile \cup {None}]
         /\ \A e \in Slots : CountedOn(Retained(table, d), e)
                               = CountedOn(table, e) + One(e = d)
         /\ \A e \in Slots : e # d => Retained(table, d)[e] = table[e]
         /\ Retained(table, d)[d] # None
         /\ Retained(table, d)[d].backing = table[d].backing
<1> DEFINE x == table[d]
           y == [x EXCEPT !.references = @ + 1]
           o == Retained(table, d)
<1>1. x \in OpenFile /\ x.references \in Nat \ {0} /\ x.backing \in Backing
  BY DEF OpenFile
<1>2. y \in OpenFile /\ y.references = x.references + 1 /\ y.backing = x.backing
  BY <1>1 DEF OpenFile
<1>3. None \notin OpenFile
  BY NoneAssumption
<1>4. o[d] = y /\ (\A e \in Slots : e # d => o[e] = table[e])
  BY DEF Retained
<1> HIDE DEF y
<1>5. o \in [Slots -> OpenFile \cup {None}]
  <2>1. \A e \in Slots : o[e] \in OpenFile \cup {None}
    BY <1>2, <1>4
  <2>2. o = [e \in Slots |-> o[e]]
    BY DEF Retained
  <2> HIDE DEF o
  <2> QED
    BY <2>1, <2>2
<1>6. CountedOn(o, d) = x.references + 1 /\ CountedOn(table, d) = x.references
  BY <1>2, <1>3, <1>4 DEF CountedOn
<1>7. \A e \in Slots : e # d => CountedOn(o, e) = CountedOn(table, e)
                                /\ CountedOn(table, e) \in Nat
  BY <1>4 DEF CountedOn, OpenFile
<1> HIDE DEF o
<1> QED
  BY <1>1, <1>2, <1>3, <1>4, <1>5, <1>6, <1>7 DEF One, o

\* close: one descriptor fewer.
LEMMA ClosedTable ==
  ASSUME TypeOK, ReferencesAreRight, NEW fd \in Numbers, files[fd] # None
  PROVE  LET f == Renamed(files, fd, None)
             o == Released(descriptions, files[fd])
         IN Counted(f, o) /\ Kept(f, o, files[fd])
<1> DEFINE d == files[fd]
           f == Renamed(files, fd, None)
           o == Released(descriptions, d)
<1>1. files \in [Numbers -> Slots \cup {None}] /\ d \in Slots
  BY DEF TypeOK
<1>2. descriptions[d] # None
  BY NowCounted, CountedIsOpen
<1>3. None \notin Slots
  BY NoneAssumption
<1>4. f \in [Numbers -> Slots \cup {None}] /\ f[fd] = None
      /\ \A n \in Numbers : n # fd => f[n] = files[n]
  BY <1>1 DEF Renamed
<1>5. \A e \in Slots : Cardinality(NamersOf(f, e)) = CountedOn(o, e)
  <2> SUFFICES ASSUME NEW e \in Slots
               PROVE  Cardinality(NamersOf(f, e)) = CountedOn(o, e)
    OBVIOUS
  <2>1. Cardinality(NamersOf(f, e))
          = Cardinality(NamersOf(files, e)) - One(d = e) + One(None = e)
    BY <1>1, NamersMove
  <2>2. CountedOn(o, e) = CountedOn(descriptions, e) - One(e = d)
    BY <1>1, <1>2, ReleasedCounts
  <2>3. Cardinality(NamersOf(files, e)) = CountedOn(descriptions, e)
        /\ Cardinality(NamersOf(files, e)) \in Nat
    BY NamersType DEF ReferencesAreRight
  <2>4. One(None = e) = 0 /\ One(d = e) = One(e = d) /\ One(e = d) \in Nat
    BY <1>3 DEF One
  <2> HIDE DEF d, f, o
  <2> QED
    BY <2>1, <2>2, <2>3, <2>4
<1>6. Counted(f, o)
  BY <1>1, <1>2, <1>4, <1>5, ReleasedCounts DEF Counted
<1>7. Kept(f, o, d)
  <2>1. \A n \in Numbers : f[n] # None => \E m \in Numbers : files[m] = f[n]
    BY <1>4
  <2>2. \A e \in Slots : e # d => o[e] = descriptions[e]
    BY <1>1, <1>2, ReleasedCounts
  <2>3. o[d] # None => o[d].backing = descriptions[d].backing
    BY <1>1, <1>2, ReleasedCounts
  <2> HIDE DEF d, f, o
  <2> QED
    BY <1>2, <2>1, <2>2, <2>3 DEF Kept
<1> QED
  BY <1>6, <1>7

\* dup, dup2 and dup3: a descriptor that names what another names.
LEMMA CopiedTable ==
  ASSUME TypeOK, ReferencesAreRight, NEW old \in Numbers, NEW new \in Numbers,
         files[old] # None, old # new
  PROVE  LET f == Renamed(files, new, files[old])
             c == IF files[new] # None THEN Released(descriptions, files[new]) ELSE descriptions
             o == Retained(c, files[old])
         IN Counted(f, o) /\ Kept(f, o, files[new])
<1> DEFINE d == files[old]
           x == files[new]
           f == Renamed(files, new, d)
           c == IF x # None THEN Released(descriptions, x) ELSE descriptions
           o == Retained(c, d)
<1>1. files \in [Numbers -> Slots \cup {None}] /\ d \in Slots /\ x \in Slots \cup {None}
  BY DEF TypeOK
<1>2. descriptions[d] # None /\ (x # None => descriptions[x] # None)
  BY NowCounted, CountedIsOpen
<1>3. None \notin Slots
  BY NoneAssumption
<1>4. f \in [Numbers -> Slots \cup {None}] /\ f[new] = files[old]
      /\ \A n \in Numbers : n # new => f[n] = files[n]
  BY <1>1 DEF Renamed
<1>5. /\ c \in [Slots -> OpenFile \cup {None}]
      /\ \A e \in Slots : CountedOn(c, e) = CountedOn(descriptions, e) - One(e = x)
      /\ \A e \in Slots : e # x => c[e] = descriptions[e]
      /\ x # None /\ c[x] # None => c[x].backing = descriptions[x].backing
  <2>1. CASE x # None
    <3>1. c = Released(descriptions, x) /\ x \in Slots
      BY <1>1, <2>1
    <3> HIDE DEF c
    <3> QED
      BY <1>2, <2>1, <3>1, ReleasedCounts
  <2>2. CASE x = None
    <3>1. c = descriptions
      BY <2>2
    <3>2. \A e \in Slots : CountedOn(descriptions, e) \in Nat /\ e # x
      BY <1>3, <2>2, NamersType DEF ReferencesAreRight
    <3> HIDE DEF c, x
    <3> QED
      BY <2>2, <3>1, <3>2 DEF TypeOK, One
  <2> QED
    BY <2>1, <2>2
<1>6. c[d] # None
  <2>1. CASE x = d
    <3>1. Cardinality(NamersOf(files, d)) >= 2
      BY <1>1, <2>1, NamersTwo
    <3>2. CountedOn(c, d) = CountedOn(descriptions, d) - 1
      BY <1>1, <1>5, <2>1 DEF One
    <3>3. CountedOn(descriptions, d) = Cardinality(NamersOf(files, d))
      BY <1>1 DEF ReferencesAreRight
    <3>4. Cardinality(NamersOf(files, d)) \in Nat
      BY NamersType
    <3>5. CountedOn(c, d) # 0
      BY <3>1, <3>2, <3>3, <3>4
    <3> QED
      BY <3>5 DEF CountedOn
  <2>2. CASE x # d
    BY <1>1, <1>2, <1>5, <2>2
  <2> QED
    BY <2>1, <2>2
<1>7. /\ o \in [Slots -> OpenFile \cup {None}]
      /\ \A e \in Slots : CountedOn(o, e) = CountedOn(c, e) + One(e = d)
      /\ \A e \in Slots : e # d => o[e] = c[e]
      /\ o[d] # None /\ o[d].backing = c[d].backing
  <2> HIDE DEF c, d
  <2> QED
    BY <1>1, <1>5, <1>6, RetainedCounts
<1>8. \A e \in Slots : Cardinality(NamersOf(f, e)) = CountedOn(o, e)
  <2> SUFFICES ASSUME NEW e \in Slots
               PROVE  Cardinality(NamersOf(f, e)) = CountedOn(o, e)
    OBVIOUS
  <2>1. Cardinality(NamersOf(f, e))
          = Cardinality(NamersOf(files, e)) - One(x = e) + One(d = e)
    BY <1>1, NamersMove
  <2>2. CountedOn(o, e) = CountedOn(descriptions, e) - One(e = x) + One(e = d)
    BY <1>5, <1>7
  <2>3. Cardinality(NamersOf(files, e)) = CountedOn(descriptions, e)
    BY DEF ReferencesAreRight
  <2>4. One(x = e) = One(e = x) /\ One(d = e) = One(e = d)
    BY DEF One
  <2> HIDE DEF d, x, f, o
  <2> QED
    BY <2>1, <2>2, <2>3, <2>4
<1>9. Counted(f, o)
  BY <1>4, <1>7, <1>8 DEF Counted
<1>10. Kept(f, o, x)
  <2>1. \A n \in Numbers : f[n] # None => \E m \in Numbers : files[m] = f[n]
    BY <1>4
  <2>2. \A e \in Slots : o[e] # None =>
          descriptions[e] # None /\ o[e].backing = descriptions[e].backing
    <3> SUFFICES ASSUME NEW e \in Slots, o[e] # None
                 PROVE  descriptions[e] # None /\ o[e].backing = descriptions[e].backing
      OBVIOUS
    <3>1. c[e] # None /\ o[e].backing = c[e].backing
      BY <1>6, <1>7
    <3> HIDE DEF c, o, d
    <3>2. CASE e = x
      BY <1>2, <1>3, <1>5, <3>1, <3>2
    <3>3. CASE e # x
      BY <1>5, <3>1, <3>3
    <3> QED
      BY <3>2, <3>3
  <2>3. \A e \in Slots : o[e] = None => descriptions[e] = None \/ e = x
    BY <1>5, <1>7
  <2> HIDE DEF d, x, f, o
  <2> QED
    BY <2>1, <2>2, <2>3 DEF Kept
<1> QED
  BY <1>9, <1>10

\* eventfd2 and epoll_create: a new description with one descriptor.
LEMMA OpenedTable ==
  ASSUME TypeOK, ReferencesAreRight,
         NEW fd \in Numbers, NEW d \in Slots, NEW backing \in Backing,
         files[fd] = None, descriptions[d] = None
  PROVE  LET f == Renamed(files, fd, d)
             o == [descriptions EXCEPT ![d] = [backing |-> backing, references |-> 1]]
         IN /\ Counted(f, o)
            /\ \A n \in Numbers : n # fd => f[n] = files[n] /\ files[n] # d
            /\ f[fd] = d /\ o[d].backing = backing /\ o[d] # None
            /\ \A e \in Slots : e # d => o[e] = descriptions[e]
<1> DEFINE f == Renamed(files, fd, d)
           new == [backing |-> backing, references |-> 1]
           o == [descriptions EXCEPT ![d] = new]
<1>1. files \in [Numbers -> Slots \cup {None}]
      /\ descriptions \in [Slots -> OpenFile \cup {None}]
  BY DEF TypeOK
<1>2. None \notin Slots /\ None \notin OpenFile
  BY NoneAssumption
<1>3. new \in OpenFile /\ new.references = 1 /\ new.backing = backing
  BY DEF OpenFile
<1> HIDE DEF new
<1>4. f \in [Numbers -> Slots \cup {None}] /\ f[fd] = d
      /\ \A n \in Numbers : n # fd => f[n] = files[n]
  BY <1>1 DEF Renamed
<1>5. \A n \in Numbers : files[n] # d
  BY <1>2, NowCounted, CountedIsOpen
<1>6. o \in [Slots -> OpenFile \cup {None}] /\ o[d] = new
      /\ \A e \in Slots : e # d => o[e] = descriptions[e]
  BY <1>1, <1>3
<1>7. \A e \in Slots : Cardinality(NamersOf(f, e)) = CountedOn(o, e)
  <2> SUFFICES ASSUME NEW e \in Slots
               PROVE  Cardinality(NamersOf(f, e)) = CountedOn(o, e)
    OBVIOUS
  <2>1. Cardinality(NamersOf(f, e)) = Cardinality(NamersOf(files, e)) + One(d = e)
    <3>1. Cardinality(NamersOf(f, e))
            = Cardinality(NamersOf(files, e)) - One(files[fd] = e) + One(d = e)
      BY <1>1, NamersMove
    <3>2. One(files[fd] = e) = 0
      BY <1>2 DEF One
    <3>3. Cardinality(NamersOf(files, e)) \in Nat
      BY NamersType
    <3> HIDE DEF f
    <3> QED
      BY <3>1, <3>2, <3>3
  <2>2. Cardinality(NamersOf(files, e)) = CountedOn(descriptions, e)
        /\ CountedOn(descriptions, e) \in Nat
    BY NamersType DEF ReferencesAreRight
  <2>3. CASE e = d
    <3>1. CountedOn(o, e) = 1 /\ CountedOn(descriptions, e) = 0
      BY <1>2, <1>3, <1>6, <2>3 DEF CountedOn
    <3> HIDE DEF f, o
    <3> QED
      BY <2>1, <2>2, <2>3, <3>1 DEF One
  <2>4. CASE e # d
    <3>1. CountedOn(o, e) = CountedOn(descriptions, e)
      BY <1>6, <2>4 DEF CountedOn
    <3> HIDE DEF f, o
    <3> QED
      BY <2>1, <2>2, <2>4, <3>1 DEF One
  <2> QED
    BY <2>3, <2>4
<1> QED
  BY <1>2, <1>3, <1>4, <1>5, <1>6, <1>7 DEF Counted, new

---------------------------------------------------------------------------
(* Interest sets over a table that changes.                                *)

\* A set nothing names is named by nothing drawn from the same table.
LEMMA StillUnnamed ==
  ASSUME TypeOK, NEW f, NEW o, NEW d, Counted(f, o), Kept(f, o, d), NEW s,
         Census(files, descriptions, s) = 0
  PROVE  Census(f, o, s) = 0
<1>1. \A n \in Numbers : ~Names(files, descriptions, n, s)
  BY CensusType DEF TypeOK
<1>2. ASSUME NEW n \in Numbers, Names(f, o, n, s)
      PROVE  FALSE
  <2>1. f[n] # None /\ f[n] \in Slots /\ o[f[n]] # None
    BY <1>2, CountedIsOpen DEF Names
  <2>2. PICK m \in Numbers : files[m] = f[n]
    BY <2>1 DEF Kept
  <2>3. descriptions[f[n]] # None /\ o[f[n]].backing = descriptions[f[n]].backing
    BY <2>1 DEF Kept
  <2>4. Names(files, descriptions, m, s)
    BY <1>2, <2>1, <2>2, <2>3 DEF Names
  <2> QED
    BY <1>1, <2>4
<1> QED
  BY <1>2, CensusType DEF Counted

\* What reconcile_shared leaves of a set.
LEMMA ReconciledSet ==
  ASSUME IInv, NEW f, NEW o, NEW d, Counted(f, o), Kept(f, o, d), NEW s \in Sets,
         NEW kept, kept = Reconciled(f, o)
  PROVE  /\ DOMAIN kept = Sets
         /\ kept[s] \in EpollSet \cup {None}
         /\ HeldIn(f, o, kept, parked, s)
         /\ kept[s] # None => sets[s] # None /\ kept[s].watched = sets[s].watched
<1> DEFINE before == Census(files, descriptions, s)
           after == Census(f, o, s)
           left == sets[s].references + after - before
<1>1. before \in Nat /\ after \in Nat
  BY CensusType DEF IInv, TypeOK, Counted
<1>2. HeldIn(files, descriptions, sets, parked, s)
  BY HeldMeans DEF IInv
<1>3. before = 0 => after = 0
  BY StillUnnamed DEF IInv
<1>4. None \notin EpollSet /\ sets[s] \in EpollSet \cup {None}
  BY NoneAssumption DEF IInv, TypeOK
<1>5. /\ kept[s] = IF sets[s] = None THEN None
                   ELSE IF left <= 0 THEN None ELSE [sets[s] EXCEPT !.references = left]
      /\ DOMAIN kept = Sets
  BY DEF Reconciled
<1> HIDE DEF left
<1>6. CASE sets[s] = None
  <2>1. CountedOn(sets, s) = 0 /\ kept[s] = None
    BY <1>5, <1>6 DEF CountedOn
  <2>2. before = 0 /\ HoldersIn(parked, s) = {}
    BY <1>1, <1>2, <2>1 DEF HeldIn
  <2>3. HeldIn(f, o, kept, parked, s)
    BY <1>3, <2>1, <2>2 DEF HeldIn, CountedOn
  <2> QED
    BY <1>5, <2>1, <2>3
<1>7. CASE sets[s] # None
  <2>1. sets[s] \in EpollSet /\ sets[s].references \in Nat \ {0}
    BY <1>4, <1>7 DEF EpollSet
  <2>2. CountedOn(sets, s) = sets[s].references /\ before <= sets[s].references
    BY <1>2, <1>7 DEF CountedOn, HeldIn
  <2>3. left \in Nat /\ left >= after
    BY <1>1, <2>1, <2>2 DEF left
  <2>4. \A t \in HoldersIn(parked, s) :
          after = 0 /\ left = 1 /\ HoldersIn(parked, s) = {t}
    BY <1>1, <1>2, <1>3, <2>2 DEF HeldIn, left
  <2>5. CASE left = 0
    <3>1. kept[s] = None /\ after = 0
      BY <1>1, <1>5, <1>7, <2>3, <2>5
    <3>2. HoldersIn(parked, s) = {}
      BY <2>4, <2>5
    <3> QED
      BY <1>5, <3>1, <3>2 DEF HeldIn, CountedOn
  <2>6. CASE left # 0
    <3> DEFINE x == [sets[s] EXCEPT !.references = left]
    <3>1. x \in EpollSet /\ x.references = left /\ x.watched = sets[s].watched
      BY <2>1, <2>3, <2>6 DEF EpollSet
    <3>2. ~(left <= 0)
      BY <2>3, <2>6
    <3>3. kept[s] = x
      BY <1>5, <1>7, <3>2
    <3> HIDE DEF x
    <3>4. CountedOn(kept, s) = left
      BY <1>4, <3>1, <3>3 DEF CountedOn
    <3>5. HeldIn(f, o, kept, parked, s)
      BY <2>3, <2>4, <3>4 DEF HeldIn
    <3> QED
      BY <1>5, <1>7, <3>1, <3>3, <3>5
  <2> QED
    BY <2>5, <2>6
<1> QED
  BY <1>6, <1>7

\* And what forget_description leaves of that.
LEMMA ForgottenSet ==
  ASSUME NEW kept, NEW o, NEW d, NEW f, NEW w, NEW s \in Sets,
         kept[s] \in EpollSet \cup {None},
         HeldIn(f, o, kept, w, s),
         NEW left, left = Forgotten(kept, o, d)
  PROVE  /\ DOMAIN left = Sets
         /\ left[s] \in EpollSet \cup {None}
         /\ HeldIn(f, o, left, w, s)
         /\ left[s] # None =>
              /\ kept[s] # None
              /\ \A fd \in Numbers : left[s].watched[fd] # None =>
                   /\ left[s].watched[fd] = kept[s].watched[fd]
                   /\ o[d] = None => left[s].watched[fd].description # d
<1> DEFINE x == [kept[s] EXCEPT !.watched = Without(kept[s].watched, d)]
<1>1. DOMAIN left = Sets
      /\ left[s] = IF kept[s] = None \/ o[d] # None THEN kept[s] ELSE x
  BY DEF Forgotten
<1>2. None \notin EpollSet
  BY NoneAssumption
<1>3. CASE kept[s] = None \/ o[d] # None
  <2>1. left[s] = kept[s]
    BY <1>1, <1>3
  <2>2. CountedOn(left, s) = CountedOn(kept, s)
    BY <2>1 DEF CountedOn
  <2> QED
    BY <1>1, <1>3, <2>1, <2>2 DEF HeldIn
<1>4. CASE ~(kept[s] = None \/ o[d] # None)
  <2>1. left[s] = x /\ kept[s] \in EpollSet
    BY <1>1, <1>4
  <2>2. Without(kept[s].watched, d) \in [Numbers -> Watched \cup {None}]
    BY <2>1 DEF Without, EpollSet
  <2>3. x \in EpollSet /\ x.references = kept[s].references
        /\ x.watched = Without(kept[s].watched, d)
    BY <2>1, <2>2 DEF EpollSet
  <2> HIDE DEF x
  <2>4. \A fd \in Numbers : x.watched[fd] # None =>
          x.watched[fd] = kept[s].watched[fd] /\ x.watched[fd].description # d
    BY <2>3 DEF Without
  <2>5. CountedOn(left, s) = CountedOn(kept, s)
    BY <1>2, <1>4, <2>1, <2>3 DEF CountedOn
  <2> QED
    BY <1>1, <1>4, <2>1, <2>3, <2>4, <2>5 DEF HeldIn
<1> QED
  BY <1>3, <1>4

---------------------------------------------------------------------------
(* Steps.                                                                  *)

\* What a step has to show.
LEMMA Reestablished ==
  ASSUME TypeOK', Counted(files', descriptions'), CountersExist', WatchedAreOpen',
         \A s \in Sets : HeldIn(files', descriptions', sets', parked', s),
         WaitsHaveCounters', LookingAtParked'
  PROVE  IInv'
<1>1. (TypeOK => (SetsAreHeld <=>
         \A s \in Sets : HeldIn(files, descriptions, sets, parked, s)))'
  BY HeldMeans, PTL
<1>2. SetsAreHeld'
  BY <1>1
<1>3. ReferencesAreRight'
  BY DEF ReferencesAreRight, Counted
<1> QED
  BY <1>2, <1>3 DEF IInv

\* Whatever a call leaves parked is looked at again.
LEMMA LooksAgain ==
  ASSUME LookAgain, turn' = turn, turn
  PROVE  LookingAtParked'
BY DEF LookAgain, LookingAtParked

\* A step that only closes or copies descriptors.
LEMMA TableStep ==
  ASSUME IInv, NEW f, NEW o, NEW d, Counted(f, o), Kept(f, o, d),
         files' = f, descriptions' = o,
         UNCHANGED <<events, shared, turn>>, Done, LookAgain, turn,
         DOMAIN sets' = Sets, sets' = [s \in Sets |-> sets'[s]],
         \A s \in Sets :
           /\ sets'[s] \in EpollSet \cup {None}
           /\ HeldIn(f, o, sets', parked, s)
           /\ sets'[s] # None =>
                /\ sets[s] # None
                /\ \A fd \in Numbers : sets'[s].watched[fd] # None =>
                     /\ sets'[s].watched[fd] = sets[s].watched[fd]
                     /\ o[d] = None => sets'[s].watched[fd].description # d
  PROVE  IInv'
<1>1. parked' = parked /\ rax' = 0
  BY DEF Done
<1>2. TypeOK'
  <2>1. sets' \in [Sets -> EpollSet \cup {None}]
    OBVIOUS
  <2>2. todo' \in SUBSET Threads
    BY <1>1 DEF LookAgain, InUse, IInv, TypeOK
  <2> QED
    BY <1>1, <2>1, <2>2 DEF IInv, TypeOK, Counted
<1>3. CountersExist'
  BY DEF IInv, CountersExist, InUse, Kept, Counted, TypeOK
<1>4. WatchedAreOpen'
  <2> SUFFICES ASSUME NEW s \in Sets, sets'[s] # None,
                      NEW fd \in Numbers, sets'[s].watched[fd] # None
               PROVE  o[sets'[s].watched[fd].description] # None
    BY <1>2 DEF WatchedAreOpen, InUse, Entries, TypeOK, EpollSet
  <2> DEFINE w == sets'[s].watched[fd]
  <2>1. sets[s] # None /\ w = sets[s].watched[fd] /\ (o[d] = None => w.description # d)
    OBVIOUS
  <2>2. sets[s] \in EpollSet
    BY <2>1 DEF IInv, TypeOK
  <2>3. w \in Watched /\ w.description \in Slots
    BY <2>1, <2>2 DEF EpollSet, Watched
  <2>4. fd \in InUse(Entries(s)) /\ s \in InUse(sets)
    BY <2>1, <2>2 DEF InUse, Entries, EpollSet, IInv, TypeOK
  <2>5. descriptions[w.description] # None
    BY <2>1, <2>4 DEF IInv, WatchedAreOpen, Entries
  <2> HIDE DEF w
  <2>6. o[w.description] # None
    BY <2>1, <2>3, <2>5 DEF Kept
  <2> QED
    BY <2>6 DEF w
<1>5. WaitsHaveCounters'
  BY <1>1 DEF IInv, WaitsHaveCounters, InUse, IsWatch
<1>6. LookingAtParked'
  BY LooksAgain
<1>7. \A s \in Sets : HeldIn(files', descriptions', sets', parked', s)
  BY <1>1
<1> QED
  BY <1>2, <1>3, <1>4, <1>5, <1>6, <1>7, Reestablished

LEMMA CloseStep ==
  ASSUME IInv, NEW t \in Threads, NEW fd \in Numbers, Close(t, fd)
  PROVE  IInv'
<1> DEFINE f == Renamed(files, fd, None)
           d == files[fd]
           o == Released(descriptions, d)
           kept == Reconciled(f, o)
           left == Forgotten(kept, o, d)
<1>1. fd \in Numbers /\ d # None /\ turn
  BY DEF Close, CanCall, Open, InUse
<1>2. Counted(f, o) /\ Kept(f, o, d)
  BY <1>1, ClosedTable DEF IInv
<1>3. files' = f /\ descriptions' = o /\ sets' = left
      /\ UNCHANGED <<events, shared, turn>> /\ Done /\ LookAgain
  BY DEF Close, Renamed
<1>4. \A s \in Sets :
        /\ kept[s] \in EpollSet \cup {None}
        /\ HeldIn(f, o, kept, parked, s)
        /\ kept[s] # None => sets[s] # None /\ kept[s].watched = sets[s].watched
  BY <1>2, ReconciledSet
<1>5. left = [s \in Sets |-> left[s]] /\ DOMAIN left = Sets
  BY DEF Forgotten
<1>6. left = Forgotten(kept, o, d)
  OBVIOUS
<1> HIDE DEF f, d, o, kept, left
<1>7. \A s \in Sets :
        /\ left[s] \in EpollSet \cup {None}
        /\ HeldIn(f, o, left, parked, s)
        /\ left[s] # None =>
             /\ kept[s] # None
             /\ \A n \in Numbers : left[s].watched[n] # None =>
                  /\ left[s].watched[n] = kept[s].watched[n]
                  /\ o[d] = None => left[s].watched[n].description # d
  <2> SUFFICES ASSUME NEW s \in Sets
               PROVE  /\ left[s] \in EpollSet \cup {None}
                      /\ HeldIn(f, o, left, parked, s)
                      /\ left[s] # None =>
                           /\ kept[s] # None
                           /\ \A n \in Numbers : left[s].watched[n] # None =>
                                /\ left[s].watched[n] = kept[s].watched[n]
                                /\ o[d] = None => left[s].watched[n].description # d
    OBVIOUS
  <2> QED
    BY <1>4, <1>6, ForgottenSet
<1> QED
  BY <1>1, <1>2, <1>3, <1>4, <1>5, <1>7, TableStep

LEMMA DupStep ==
  ASSUME IInv, NEW t \in Threads, NEW old \in Numbers, Dup(t, old)
  PROVE  IInv'
<1>1. PICK new \in Numbers :
        /\ Lowest(Free(files), new)
        /\ files' = [files EXCEPT ![new] = files[old]]
        /\ descriptions' = Retained(descriptions, files[old])
        /\ sets' = Reconciled([files EXCEPT ![new] = files[old]],
                              Retained(descriptions, files[old]))
  BY DEF Dup
<1>2. files[old] # None /\ files[new] = None /\ old # new /\ turn
  BY <1>1 DEF Dup, CanCall, Open, InUse, Lowest, Free
<1> DEFINE f == Renamed(files, new, files[old])
           o == Retained(descriptions, files[old])
           kept == Reconciled(f, o)
<1>3. Counted(f, o) /\ Kept(f, o, None)
  BY <1>2, CopiedTable DEF IInv
<1>4. files' = f /\ descriptions' = o /\ sets' = kept
      /\ UNCHANGED <<events, shared, turn>> /\ Done /\ LookAgain
  BY <1>1 DEF Dup, Renamed
<1>5. \A s \in Sets :
        /\ kept[s] \in EpollSet \cup {None}
        /\ HeldIn(f, o, kept, parked, s)
        /\ kept[s] # None => sets[s] # None /\ kept[s].watched = sets[s].watched
  BY <1>3, ReconciledSet
<1>6. kept = [s \in Sets |-> kept[s]] /\ DOMAIN kept = Sets
  BY DEF Reconciled
<1> HIDE DEF f, o, kept
<1>7. \A s \in Sets : kept[s] # None =>
        \A n \in Numbers : kept[s].watched[n] # None => kept[s].watched[n].description # None
  <2> SUFFICES ASSUME NEW s \in Sets, kept[s] # None,
                      NEW n \in Numbers, kept[s].watched[n] # None
               PROVE  kept[s].watched[n].description # None
    OBVIOUS
  <2>1. kept[s] \in EpollSet
    BY <1>5
  <2>2. kept[s].watched[n] \in Watched
    BY <2>1 DEF EpollSet
  <2> QED
    BY <2>2, NoneAssumption DEF Watched
<1> QED
  BY <1>2, <1>3, <1>4, <1>5, <1>6, <1>7, TableStep

LEMMA Dup2Step ==
  ASSUME IInv, NEW t \in Threads, NEW old \in Numbers, NEW new \in Numbers,
         Dup2(t, old, new)
  PROVE  IInv'
<1> DEFINE f == Renamed(files, new, files[old])
           d == files[new]
           c == IF d # None THEN Released(descriptions, d) ELSE descriptions
           o == Retained(c, files[old])
           kept == Reconciled(f, o)
           left == Forgotten(kept, o, d)
<1>1. files[old] # None /\ old # new /\ turn
  BY DEF Dup2, CanCall, Open, InUse
<1>2. Counted(f, o) /\ Kept(f, o, d)
  BY <1>1, CopiedTable DEF IInv
<1>3. d # None <=> new \in Open
  BY DEF Open, InUse, IInv, TypeOK
<1>4. files' = f /\ descriptions' = o
      /\ sets' = (IF d # None THEN left ELSE kept)
      /\ UNCHANGED <<events, shared, turn>> /\ Done /\ LookAgain
  BY <1>3 DEF Dup2, Renamed
<1>5. \A s \in Sets :
        /\ kept[s] \in EpollSet \cup {None}
        /\ HeldIn(f, o, kept, parked, s)
        /\ kept[s] # None => sets[s] # None /\ kept[s].watched = sets[s].watched
  BY <1>2, ReconciledSet
<1>6. /\ left = [s \in Sets |-> left[s]] /\ DOMAIN left = Sets
      /\ kept = [s \in Sets |-> kept[s]] /\ DOMAIN kept = Sets
  BY DEF Forgotten, Reconciled
<1>7. left = Forgotten(kept, o, d)
  OBVIOUS
<1>8. d \in Slots \cup {None} /\ None \notin Slots
  BY NoneAssumption DEF IInv, TypeOK
<1> HIDE DEF f, d, c, o, kept, left
<1>9. CASE d # None
  <2>1. \A s \in Sets :
          /\ left[s] \in EpollSet \cup {None}
          /\ HeldIn(f, o, left, parked, s)
          /\ left[s] # None =>
               /\ kept[s] # None
               /\ \A n \in Numbers : left[s].watched[n] # None =>
                    /\ left[s].watched[n] = kept[s].watched[n]
                    /\ o[d] = None => left[s].watched[n].description # d
    <3> SUFFICES ASSUME NEW s \in Sets
                 PROVE  /\ left[s] \in EpollSet \cup {None}
                        /\ HeldIn(f, o, left, parked, s)
                        /\ left[s] # None =>
                             /\ kept[s] # None
                             /\ \A n \in Numbers : left[s].watched[n] # None =>
                                  /\ left[s].watched[n] = kept[s].watched[n]
                                  /\ o[d] = None => left[s].watched[n].description # d
      OBVIOUS
    <3> QED
      BY <1>5, <1>7, ForgottenSet
  <2> QED
    BY <1>1, <1>2, <1>4, <1>5, <1>6, <1>9, <2>1, TableStep
<1>10. CASE d = None
  <2>1. \A s \in Sets : kept[s] # None =>
          \A n \in Numbers : kept[s].watched[n] # None => kept[s].watched[n].description # d
    <3> SUFFICES ASSUME NEW s \in Sets, kept[s] # None,
                        NEW n \in Numbers, kept[s].watched[n] # None
                 PROVE  kept[s].watched[n].description # d
      OBVIOUS
    <3>1. kept[s] \in EpollSet
      BY <1>5
    <3>2. kept[s].watched[n] \in Watched
      BY <3>1 DEF EpollSet
    <3> QED
      BY <1>8, <1>10, <3>2 DEF Watched
  <2> QED
    BY <1>1, <1>2, <1>4, <1>5, <1>6, <1>10, <2>1, TableStep
<1> QED
  BY <1>9, <1>10

\* A descriptor on a new description, as both tables and every census see it.
LEMMA OpensTable ==
  ASSUME IInv, NEW backing \in Backing, Opens(backing)
  PROVE  /\ Counted(files', descriptions')
         /\ \A e \in Slots : descriptions[e] # None => descriptions'[e] = descriptions[e]
         /\ \A e \in Slots : descriptions'[e] # None =>
              descriptions'[e].backing = backing \/ descriptions'[e] = descriptions[e]
         /\ \A s : Census(files', descriptions', s)
                     = Census(files, descriptions, s)
                         + One(backing = [kind |-> "epoll", id |-> s])
<1>1. PICK fd \in Numbers, d \in Slots :
        /\ Lowest(Free(files), fd)
        /\ Lowest(Free(descriptions), d)
        /\ files' = [files EXCEPT ![fd] = d]
        /\ descriptions' = [descriptions EXCEPT ![d] = [backing |-> backing, references |-> 1]]
  BY DEF Opens
<1> DEFINE f == Renamed(files, fd, d)
           o == [descriptions EXCEPT ![d] = [backing |-> backing, references |-> 1]]
<1>2. files[fd] = None /\ descriptions[d] = None
  BY <1>1 DEF Lowest, Free, InUse
<1>3. files' = f /\ descriptions' = o
  BY <1>1 DEF Renamed
<1>4. /\ Counted(f, o)
      /\ \A n \in Numbers : n # fd => f[n] = files[n] /\ files[n] # d
      /\ f[fd] = d /\ o[d].backing = backing /\ o[d] # None
      /\ \A e \in Slots : e # d => o[e] = descriptions[e]
  BY <1>2, OpenedTable DEF IInv
<1>5. d # None /\ None \notin Slots
  BY NoneAssumption
<1> HIDE DEF f, o
<1>6. ASSUME NEW s
      PROVE  Census(f, o, s) = Census(files, descriptions, s)
                                 + One(backing = [kind |-> "epoll", id |-> s])
  <2> DEFINE Old == {n \in InUse(files) :
                       descriptions[files[n]].backing = [kind |-> "epoll", id |-> s]}
             New == {n \in InUse(f) : o[f[n]].backing = [kind |-> "epoll", id |-> s]}
  <2>1. DOMAIN files = Numbers /\ DOMAIN f = Numbers
    BY <1>4 DEF IInv, TypeOK, Counted
  <2>2. \A n \in Numbers : files[n] # None => files[n] \in Slots
    BY DEF IInv, TypeOK
  <2>3. \A n \in Numbers : n # fd => (n \in New <=> n \in Old)
    BY <1>4, <2>1, <2>2 DEF InUse
  <2>4. fd \notin Old /\ (fd \in New <=> backing = [kind |-> "epoll", id |-> s])
    BY <1>2, <1>4, <1>5, <2>1 DEF InUse
  <2>5. Old \in SUBSET Numbers /\ New \in SUBSET Numbers
    BY <2>1 DEF InUse
  <2>6. IsFiniteSet(Old) /\ Cardinality(Old) \in Nat
    BY <2>5, EpollAssumption, FS_Subset, FS_CardinalityType
  <2> HIDE DEF Old, New
  <2>7. CASE backing = [kind |-> "epoll", id |-> s]
    <3>1. New = Old \cup {fd}
      BY <2>3, <2>4, <2>5, <2>7
    <3>2. Cardinality(New) = Cardinality(Old) + 1
      BY <2>4, <2>6, <3>1, FS_AddElement
    <3> QED
      BY <2>7, <3>2 DEF Census, One, Old, New
  <2>8. CASE backing # [kind |-> "epoll", id |-> s]
    <3>1. New = Old
      BY <2>3, <2>4, <2>5, <2>8
    <3>2. Cardinality(New) = Cardinality(Old) + 0
      BY <2>6, <3>1
    <3> QED
      BY <2>8, <3>2 DEF Census, One, Old, New
  <2> QED
    BY <2>7, <2>8
<1>7. \A e \in Slots : descriptions[e] # None => o[e] = descriptions[e]
  BY <1>2, <1>4
<1>8. \A e \in Slots : o[e] # None => o[e].backing = backing \/ o[e] = descriptions[e]
  BY <1>4
<1> QED
  BY <1>3, <1>4, <1>6, <1>7, <1>8

\* Registrations on descriptions that are still open.
LEMMA StillOpen ==
  ASSUME IInv, NEW s \in Sets, sets[s] # None, NEW fd \in Numbers,
         sets[s].watched[fd] # None
  PROVE  /\ sets[s].watched[fd] \in Watched
         /\ sets[s].watched[fd].description \in Slots
         /\ descriptions[sets[s].watched[fd].description] # None
<1>1. sets[s] \in EpollSet
  BY DEF IInv, TypeOK
<1>2. sets[s].watched \in [Numbers -> Watched \cup {None}]
  BY <1>1 DEF EpollSet
<1>3. fd \in InUse(Entries(s)) /\ s \in InUse(sets)
  BY <1>2 DEF InUse, Entries, IInv, TypeOK
<1>4. descriptions[sets[s].watched[fd].description] # None
  BY <1>3 DEF IInv, WatchedAreOpen, Entries
<1> QED
  BY <1>2, <1>4 DEF Watched

\* A counter in use stays in use, and so does what waits on one.
LEMMA WaitsStay ==
  ASSUME IInv,
         \A i \in Counters : events[i] # None => events'[i] # None,
         DOMAIN parked' = Threads,
         \A t \in Threads : \/ parked'[t] = parked[t]
                            \/ parked'[t] = None
                            \/ parked'[t].call # "event"
                            \/ events'[parked'[t].event] # None,
         \A id \in shared' : events'[id] # None
  PROVE  WaitsHaveCounters'
<1> SUFFICES ASSUME NEW t \in Threads, parked'[t] # None, parked'[t].call = "event"
             PROVE  events'[parked'[t].event] # None
  BY DEF WaitsHaveCounters, InUse, IsWatch
<1>1. CASE parked'[t] = parked[t]
  <2>1. parked[t] \in Eventing
    BY <1>1 DEF IInv, TypeOK, Watching
  <2>2. parked[t].event \in Counters
    BY <2>1 DEF Eventing
  <2>3. t \in InUse(parked) /\ ~IsWatch(t)
    BY <1>1 DEF InUse, IsWatch, IInv, TypeOK
  <2>4. events[parked[t].event] # None
    BY <2>3 DEF IInv, WaitsHaveCounters
  <2> QED
    BY <1>1, <2>2, <2>4
<1> QED
  BY <1>1

LEMMA CounterOf ==
  ASSUME IInv, NEW d \in Slots, descriptions[d] # None, descriptions[d].backing.kind = "event"
  PROVE  /\ descriptions[d].backing.id \in Counters
         /\ events[descriptions[d].backing.id] # None
         /\ events[descriptions[d].backing.id] \in Event
<1>1. descriptions[d].backing \in Backing
  BY DEF IInv, TypeOK, OpenFile
<1>2. descriptions[d].backing.id \in Counters
  BY <1>1 DEF Backing
<1>3. d \in InUse(descriptions)
  BY DEF InUse, IInv, TypeOK
<1>4. events[descriptions[d].backing.id] # None
  BY <1>3 DEF IInv, CountersExist
<1> QED
  BY <1>2, <1>4 DEF IInv, TypeOK

\* A new descriptor on a new description.
LEMMA OpenStep ==
  ASSUME IInv, NEW backing \in Backing, Opens(backing), TypeOK',
         \A i \in Counters : events[i] # None => events'[i] # None,
         backing.kind = "event" => events'[backing.id] # None,
         parked' = parked, shared' = shared, turn, turn' = turn, LookAgain,
         \A s \in Sets :
           HeldIn(files', descriptions', sets', parked, s),
         \A s \in Sets : sets'[s] = sets[s] \/ sets'[s].watched = NoEntries
  PROVE  IInv'
<1>1. /\ Counted(files', descriptions')
      /\ \A e \in Slots : descriptions[e] # None => descriptions'[e] = descriptions[e]
      /\ \A e \in Slots : descriptions'[e] # None =>
           descriptions'[e].backing = backing \/ descriptions'[e] = descriptions[e]
  BY OpensTable
<1>2. CountersExist'
  <2> SUFFICES ASSUME NEW e \in Slots, descriptions'[e] # None,
                      descriptions'[e].backing.kind = "event"
               PROVE  events'[descriptions'[e].backing.id] # None
    BY DEF CountersExist, InUse, TypeOK
  <2> QED
    BY <1>1, CounterOf
<1>3. WatchedAreOpen'
  <2> SUFFICES ASSUME NEW s \in Sets, sets'[s] # None,
                      NEW fd \in Numbers, sets'[s].watched[fd] # None
               PROVE  descriptions'[sets'[s].watched[fd].description] # None
    BY DEF WatchedAreOpen, InUse, Entries, TypeOK, EpollSet
  <2>1. sets'[s] = sets[s]
    BY DEF NoEntries
  <2> QED
    BY <1>1, <2>1, StillOpen
<1>4. WaitsHaveCounters'
  <2>1. \A id \in shared' : events'[id] # None
    BY DEF IInv, WaitsHaveCounters, TypeOK
  <2> QED
    BY <2>1, WaitsStay DEF IInv, TypeOK
<1>5. LookingAtParked'
  BY LooksAgain
<1> QED
  BY <1>1, <1>2, <1>3, <1>4, <1>5, Reestablished

LEMMA MakeEventfdStep ==
  ASSUME IInv, NEW t \in Threads, NEW count \in Initials, NEW semaphore \in Semaphores,
         MakeEventfd(t, count, semaphore)
  PROVE  IInv'
<1>1. PICK id \in Counters :
        /\ Lowest(Free(events), id)
        /\ events' = [events EXCEPT ![id] = [count |-> count, semaphore |-> semaphore]]
        /\ Opens([kind |-> "event", id |-> id])
  BY DEF MakeEventfd
<1> DEFINE backing == [kind |-> "event", id |-> id]
           new == [count |-> count, semaphore |-> semaphore]
<1>2. backing \in Backing /\ backing.kind = "event" /\ backing.id = id
      /\ \A s : backing # [kind |-> "epoll", id |-> s]
  BY DEF Backing
<1>3. new \in Event /\ new # None
  BY EpollAssumption, NoneAssumption DEF Event
<1>4. /\ parked' = parked /\ rax' = 0 /\ turn /\ turn' = turn /\ LookAgain
      /\ sets' = sets /\ shared' = shared
  BY DEF MakeEventfd, CanCall, Done
<1>5. events' = [events EXCEPT ![id] = new] /\ Opens(backing)
  BY <1>1
<1> HIDE DEF new, backing
<1>6. events' \in [Counters -> Event \cup {None}] /\ events'[id] # None
      /\ \A i \in Counters : events[i] # None => events'[i] # None
  BY <1>3, <1>5 DEF IInv, TypeOK
<1>7. /\ Counted(files', descriptions')
      /\ \A s : Census(files', descriptions', s)
                  = Census(files, descriptions, s) + One(backing = [kind |-> "epoll", id |-> s])
  BY <1>2, <1>5, OpensTable
<1>8. TypeOK'
  <2>1. todo' \in SUBSET Threads
    BY <1>4 DEF LookAgain, InUse, IInv, TypeOK
  <2> QED
    BY <1>4, <1>6, <1>7, <2>1 DEF IInv, TypeOK, Counted
<1>9. \A s \in Sets : HeldIn(files', descriptions', sets', parked, s)
  <2> SUFFICES ASSUME NEW s \in Sets
               PROVE  HeldIn(files', descriptions', sets', parked, s)
    OBVIOUS
  <2>1. HeldIn(files, descriptions, sets, parked, s)
    BY HeldMeans DEF IInv
  <2>2. Census(files, descriptions, s) \in Nat
    BY CensusType DEF IInv, TypeOK
  <2>3. One(backing = [kind |-> "epoll", id |-> s]) = 0
    BY <1>2 DEF One
  <2>4. Census(files', descriptions', s) = Census(files, descriptions, s)
    BY <1>7, <2>2, <2>3
  <2> QED
    BY <1>4, <2>1, <2>4 DEF HeldIn
<1> QED
  BY <1>2, <1>4, <1>5, <1>6, <1>8, <1>9, OpenStep

LEMMA EpollCreateStep ==
  ASSUME IInv, NEW t \in Threads, EpollCreate(t)
  PROVE  IInv'
<1>1. PICK s \in Sets :
        /\ Lowest(Free(sets), s)
        /\ sets' = [sets EXCEPT ![s] = [watched |-> NoEntries, references |-> 1]]
        /\ Opens([kind |-> "epoll", id |-> s])
  BY DEF EpollCreate
<1> DEFINE backing == [kind |-> "epoll", id |-> s]
           new == [watched |-> NoEntries, references |-> 1]
<1>2. backing \in Backing /\ backing.kind = "epoll"
      /\ \A x : backing = [kind |-> "epoll", id |-> x] <=> x = s
  <2>1. backing.id = s /\ \A x : [kind |-> "epoll", id |-> x].id = x
    OBVIOUS
  <2> QED
    BY <2>1 DEF Backing
<1>3. NoEntries \in [Numbers -> Watched \cup {None}]
  BY DEF NoEntries
<1>4. new \in EpollSet /\ new.references = 1 /\ new.watched = NoEntries
  BY <1>3 DEF EpollSet
<1>5. None \notin EpollSet
  BY NoneAssumption
<1>6. /\ parked' = parked /\ rax' = 0 /\ turn /\ turn' = turn /\ LookAgain
      /\ events' = events /\ shared' = shared
  BY DEF EpollCreate, CanCall, Done
<1>7. sets' = [sets EXCEPT ![s] = new] /\ Opens(backing) /\ sets[s] = None
  BY <1>1 DEF Lowest, Free, InUse
<1> HIDE DEF new, backing
<1>8. /\ sets' \in [Sets -> EpollSet \cup {None}] /\ sets'[s] = new
      /\ \A x \in Sets : x # s => sets'[x] = sets[x]
  BY <1>4, <1>7 DEF IInv, TypeOK
<1>9. /\ Counted(files', descriptions')
      /\ \A x : Census(files', descriptions', x) = Census(files, descriptions, x) + One(x = s)
  BY <1>2, <1>7, OpensTable
<1>10. TypeOK'
  <2>1. todo' \in SUBSET Threads
    BY <1>6 DEF LookAgain, InUse, IInv, TypeOK
  <2> QED
    BY <1>6, <1>8, <1>9, <2>1 DEF IInv, TypeOK, Counted
<1>11. \A x \in Sets : HeldIn(files', descriptions', sets', parked, x)
  <2> SUFFICES ASSUME NEW x \in Sets
               PROVE  HeldIn(files', descriptions', sets', parked, x)
    OBVIOUS
  <2>1. HeldIn(files, descriptions, sets, parked, x)
    BY HeldMeans DEF IInv
  <2>2. Census(files, descriptions, x) \in Nat
    BY CensusType DEF IInv, TypeOK
  <2>3. CASE x = s
    <3>1. CountedOn(sets, x) = 0 /\ CountedOn(sets', x) = 1
      BY <1>4, <1>5, <1>7, <1>8, <2>3 DEF CountedOn
    <3>2. Census(files, descriptions, x) = 0 /\ HoldersIn(parked, x) = {}
      BY <2>1, <2>2, <3>1 DEF HeldIn
    <3>3. Census(files', descriptions', x) = 1
      BY <1>9, <2>3, <3>2 DEF One
    <3> QED
      BY <3>1, <3>2, <3>3 DEF HeldIn
  <2>4. CASE x # s
    <3>1. CountedOn(sets', x) = CountedOn(sets, x)
      BY <1>8, <2>4 DEF CountedOn
    <3>2. Census(files', descriptions', x) = Census(files, descriptions, x)
      BY <1>9, <2>2, <2>4 DEF One
    <3> QED
      BY <2>1, <3>1, <3>2 DEF HeldIn
  <2> QED
    BY <2>3, <2>4
<1>12. \A x \in Sets : sets'[x] = sets[x] \/ sets'[x].watched = NoEntries
  BY <1>4, <1>8
<1> QED
  BY <1>2, <1>6, <1>7, <1>10, <1>11, <1>12, OpenStep

\* A step that leaves the tables alone.
LEMMA SameTable ==
  ASSUME IInv, TypeOK', UNCHANGED <<files, descriptions>>,
         \A i \in Counters : events[i] # None => events'[i] # None,
         \A t \in Threads : \/ parked'[t] = parked[t]
                            \/ parked'[t] = None
                            \/ parked'[t].call # "event"
                            \/ events'[parked'[t].event] # None,
         \A id \in shared' : events'[id] # None,
         \A s \in Sets : HeldIn(files, descriptions, sets', parked', s),
         \A s \in Sets : sets'[s] # None =>
           \A fd \in Numbers : sets'[s].watched[fd] # None =>
             descriptions[sets'[s].watched[fd].description] # None,
         LookingAtParked'
  PROVE  IInv'
<1>1. Counted(files', descriptions')
  BY NowCounted DEF IInv
<1>2. CountersExist'
  BY CounterOf DEF CountersExist, InUse, IInv, TypeOK
<1>3. WatchedAreOpen'
  BY DEF WatchedAreOpen, InUse, Entries, TypeOK, EpollSet
<1>4. WaitsHaveCounters'
  BY WaitsStay DEF TypeOK
<1> QED
  BY <1>1, <1>2, <1>3, <1>4, Reestablished

\* A set nothing was done to, and that no holder came to or left.
LEMMA StaysHeld ==
  ASSUME IInv, NEW s \in Sets, CountedOn(sets', s) = CountedOn(sets, s),
         \A t \in Threads : \/ parked'[t] = parked[t]
                            \/ ~Holding(parked[t]) /\ ~Holding(parked'[t])
  PROVE  HeldIn(files, descriptions, sets', parked', s)
<1>1. HeldIn(files, descriptions, sets, parked, s)
  BY HeldMeans DEF IInv
<1>2. HoldersIn(parked', s) = HoldersIn(parked, s)
  BY DEF HoldersIn
<1> QED
  BY <1>1, <1>2 DEF HeldIn

\* One set gets other registrations.
LEMMA SetChanges ==
  ASSUME IInv, NEW s \in Sets, sets[s] # None, NEW x \in EpollSet,
         x.references = sets[s].references, sets' = [sets EXCEPT ![s] = x],
         \A n \in Numbers : x.watched[n] # None =>
           descriptions[x.watched[n].description] # None
  PROVE  /\ sets' \in [Sets -> EpollSet \cup {None}]
         /\ \A i \in Sets : CountedOn(sets', i) = CountedOn(sets, i)
         /\ \A i \in Sets : sets'[i] # None =>
              \A n \in Numbers : sets'[i].watched[n] # None =>
                descriptions[sets'[i].watched[n].description] # None
<1>1. None \notin EpollSet
  BY NoneAssumption
<1>2. sets \in [Sets -> EpollSet \cup {None}]
  BY DEF IInv, TypeOK
<1>3. sets'[s] = x /\ \A i \in Sets : i # s => sets'[i] = sets[i]
  BY <1>2
<1>4. sets' \in [Sets -> EpollSet \cup {None}]
  BY <1>2
<1>5. \A i \in Sets : CountedOn(sets', i) = CountedOn(sets, i)
  BY <1>1, <1>3 DEF CountedOn
<1>6. ASSUME NEW i \in Sets, sets'[i] # None,
             NEW n \in Numbers, sets'[i].watched[n] # None
      PROVE  descriptions[sets'[i].watched[n].description] # None
  BY <1>3, <1>6, StillOpen
<1> QED
  BY <1>4, <1>5, <1>6

\* fork: a set is counted once more for every descriptor the copy has on it.
LEMMA ForkStep ==
  ASSUME IInv, NEW t \in Threads, Fork(t)
  PROVE  IInv'
<1> DEFINE named(s) == Census(files, descriptions, s)
<1>1. /\ parked' = parked /\ rax' = 0 /\ turn /\ turn' = turn /\ LookAgain
      /\ events' = events /\ descriptions' = descriptions /\ files' = files
  BY DEF Fork, CanCall, Done
<1>2. \A s \in Sets : named(s) \in Nat
  BY CensusType DEF IInv, TypeOK
<1>3. sets \in [Sets -> EpollSet \cup {None}] /\ None \notin EpollSet
  BY NoneAssumption DEF IInv, TypeOK
<1>4. /\ DOMAIN sets' = Sets /\ sets' = [s \in Sets |-> sets'[s]]
      /\ \A s \in Sets : sets'[s] = IF sets[s] = None THEN None
           ELSE [sets[s] EXCEPT !.references = sets[s].references + named(s)]
  BY DEF Fork
<1>5. ASSUME NEW s \in Sets
      PROVE  /\ sets'[s] \in EpollSet \cup {None}
             /\ HeldIn(files, descriptions, sets', parked', s)
             /\ sets'[s] # None => sets[s] # None /\ sets'[s].watched = sets[s].watched
  <2>1. HeldIn(files, descriptions, sets, parked, s)
    BY HeldMeans DEF IInv
  <2>2. CASE sets[s] = None
    <3>1. sets'[s] = None
      BY <1>4, <2>2
    <3>2. CountedOn(sets', s) = CountedOn(sets, s)
      BY <2>2, <3>1 DEF CountedOn
    <3> QED
      BY <1>1, <2>1, <3>1, <3>2 DEF HeldIn
  <2>3. CASE sets[s] # None
    <3> DEFINE x == [sets[s] EXCEPT !.references = sets[s].references + named(s)]
    <3>1. sets[s] \in EpollSet /\ sets[s].references \in Nat \ {0}
      BY <1>3, <2>3 DEF EpollSet
    <3>2. sets[s].references + named(s) \in Nat \ {0}
      BY <1>2, <3>1
    <3>3. x \in EpollSet /\ x.references = sets[s].references + named(s)
          /\ x.watched = sets[s].watched
      BY <3>1, <3>2 DEF EpollSet
    <3>4. sets'[s] = x
      BY <1>4, <2>3
    <3> HIDE DEF x
    <3>5. CountedOn(sets', s) = CountedOn(sets, s) + named(s)
      BY <1>3, <2>3, <3>3, <3>4 DEF CountedOn
    <3>6. CountedOn(sets, s) \in Nat
      BY CountedType DEF IInv
    <3>7. HeldIn(files, descriptions, sets', parked', s)
      BY <1>1, <1>2, <2>1, <3>5, <3>6 DEF HeldIn
    <3> QED
      BY <2>3, <3>3, <3>4, <3>7
  <2> QED
    BY <2>2, <2>3
<1>6. shared' \subseteq Counters
  BY DEF Fork, IInv, TypeOK
<1>7. \A id \in shared' : events'[id] # None
  <2> SUFFICES ASSUME NEW id \in shared', id \notin shared
               PROVE  events[id] # None
    BY <1>1 DEF IInv, WaitsHaveCounters
  <2>1. PICK fd \in Open : BackingOf(fd) = [kind |-> "event", id |-> id]
    BY DEF Fork
  <2>2. fd \in Numbers /\ files[fd] # None
    BY DEF Open, InUse, IInv, TypeOK
  <2>3. files[fd] \in Slots /\ descriptions[files[fd]] # None
    BY <2>2, NowCounted, CountedIsOpen DEF IInv
  <2> QED
    BY <2>1, <2>3, CounterOf DEF BackingOf
<1>8. TypeOK'
  <2>1. todo' \in SUBSET Threads
    BY <1>1 DEF LookAgain, InUse, IInv, TypeOK
  <2>2. sets' \in [Sets -> EpollSet \cup {None}]
    BY <1>4, <1>5
  <2> QED
    BY <1>1, <1>6, <2>1, <2>2 DEF IInv, TypeOK
<1>9. \A s \in Sets : sets'[s] # None =>
        \A fd \in Numbers : sets'[s].watched[fd] # None =>
          descriptions[sets'[s].watched[fd].description] # None
  BY <1>5, StillOpen
<1>10. LookingAtParked'
  BY <1>1, LooksAgain
<1> QED
  BY <1>1, <1>5, <1>7, <1>8, <1>9, <1>10, SameTable

---------------------------------------------------------------------------
(* Interest sets that are registered with, waited on and let go of.        *)

\* An epoll descriptor names a set that is there.
LEMMA EpollOf ==
  ASSUME IInv, NEW ep \in Numbers, IsEpoll(ep)
  PROVE  SetOf(ep) \in Sets /\ sets[SetOf(ep)] \in EpollSet /\ sets[SetOf(ep)] # None
<1>1. files[ep] # None
  BY DEF IsEpoll, Open, InUse
<1>2. files[ep] \in Slots /\ descriptions[files[ep]] # None
  BY <1>1, NowCounted, CountedIsOpen DEF IInv
<1>3. BackingOf(ep) \in Backing /\ BackingOf(ep).kind = "epoll"
  BY <1>2 DEF IInv, TypeOK, OpenFile, BackingOf, IsEpoll
<1>4. SetOf(ep) \in Sets /\ BackingOf(ep) = [kind |-> "epoll", id |-> SetOf(ep)]
  BY <1>3 DEF Backing, SetOf
<1>5. Names(files, descriptions, ep, SetOf(ep))
  BY <1>1, <1>4 DEF Names, BackingOf
<1>6. Census(files, descriptions, SetOf(ep)) # 0
      /\ Census(files, descriptions, SetOf(ep)) \in Nat
  BY <1>5, CensusType DEF IInv, TypeOK
<1>7. HeldIn(files, descriptions, sets, parked, SetOf(ep))
  BY <1>4, HeldMeans DEF IInv
<1>8. CountedOn(sets, SetOf(ep)) # 0
  BY <1>4, <1>6, <1>7, CountedType DEF HeldIn, IInv
<1>9. sets[SetOf(ep)] # None
  BY <1>8 DEF CountedOn
<1> QED
  BY <1>4, <1>9 DEF IInv, TypeOK

\* What is asked of a number is asked of an open description.
LEMMA RegistrationType ==
  ASSUME IInv, NEW fd \in Numbers, files[fd] # None,
         NEW interest \in Interests, NEW edge \in BOOLEAN, NEW oneshot \in BOOLEAN
  PROVE  LET w == Registration(fd, interest, edge, oneshot)
         IN w \in Watched /\ w # None /\ descriptions[w.description] # None
<1>1. files[fd] \in Slots /\ descriptions[files[fd]] # None
  BY NowCounted, CountedIsOpen DEF IInv
<1>2. interest \in SUBSET Bits
  BY EpollAssumption
<1>3. Registration(fd, interest, edge, oneshot) \in Watched
  BY <1>1, <1>2 DEF Registration, Watched
<1> QED
  BY <1>1, <1>3, NoneAssumption DEF Registration

LEMMA ControlStep ==
  ASSUME IInv, NEW t \in Threads, NEW ep \in Numbers, NEW fd \in Numbers,
         NEW entry \in Watched \cup {None}, IsEpoll(ep), Control(t, ep, fd, entry),
         entry # None => descriptions[entry.description] # None
  PROVE  IInv'
<1> DEFINE s == SetOf(ep)
           x == [sets[s] EXCEPT !.watched = [sets[s].watched EXCEPT ![fd] = entry]]
<1>1. s \in Sets /\ sets[s] \in EpollSet /\ sets[s] # None
  BY EpollOf
<1>2. /\ parked' = parked /\ rax' = 0 /\ turn /\ turn' = turn /\ LookAgain
      /\ UNCHANGED <<events, descriptions, files, shared>>
  BY DEF Control, CanCall, Done
<1>3. sets' = [sets EXCEPT ![s] = x]
  BY DEF Control
<1>4. sets[s].watched \in [Numbers -> Watched \cup {None}]
  BY <1>1 DEF EpollSet
<1>5. x \in EpollSet /\ x.references = sets[s].references
      /\ x.watched = [sets[s].watched EXCEPT ![fd] = entry]
  BY <1>1, <1>4 DEF EpollSet
<1> HIDE DEF x, s
<1>6. \A n \in Numbers : x.watched[n] # None =>
        descriptions[x.watched[n].description] # None
  BY <1>1, <1>4, <1>5, StillOpen
<1>7. /\ sets' \in [Sets -> EpollSet \cup {None}]
      /\ \A i \in Sets : CountedOn(sets', i) = CountedOn(sets, i)
      /\ \A i \in Sets : sets'[i] # None =>
           \A n \in Numbers : sets'[i].watched[n] # None =>
             descriptions[sets'[i].watched[n].description] # None
  BY <1>1, <1>3, <1>5, <1>6, SetChanges
<1>8. TypeOK'
  <2>1. todo' \in SUBSET Threads
    BY <1>2 DEF LookAgain, InUse, IInv, TypeOK
  <2> QED
    BY <1>2, <1>7, <2>1 DEF IInv, TypeOK
<1>9. \A i \in Sets : HeldIn(files, descriptions, sets', parked', i)
  BY <1>2, <1>7, StaysHeld
<1>10. LookingAtParked'
  BY <1>2, LooksAgain
<1>11. \A id \in shared' : events'[id] # None
  BY <1>2 DEF IInv, WaitsHaveCounters
<1> QED
  BY <1>2, <1>7, <1>8, <1>9, <1>10, <1>11, SameTable

LEMMA RegisteringStep ==
  ASSUME IInv, NEW t \in Threads, Registering(t)
  PROVE  IInv'
<1>1. PICK ep \in Numbers, fd \in Numbers :
        \/ \E interest \in Interests, edge \in Triggers, oneshot \in Shots :
             Add(t, ep, fd, interest, edge, oneshot) \/ Mod(t, ep, fd, interest, edge, oneshot)
        \/ Del(t, ep, fd)
  BY DEF Registering
<1>2. ASSUME NEW interest \in Interests, NEW edge \in Triggers, NEW oneshot \in Shots,
             Add(t, ep, fd, interest, edge, oneshot) \/ Mod(t, ep, fd, interest, edge, oneshot)
      PROVE  IInv'
  <2> DEFINE w == Registration(fd, interest, edge, oneshot)
  <2>1. IsEpoll(ep) /\ Control(t, ep, fd, w)
    BY <1>2 DEF Add, Mod
  <2>2. edge \in BOOLEAN /\ oneshot \in BOOLEAN
    BY EpollAssumption
  <2>3. files[fd] # None
    BY <2>1 DEF Control, IsCounter, Open, InUse
  <2>4. w \in Watched /\ w # None /\ descriptions[w.description] # None
    BY <2>2, <2>3, RegistrationType
  <2> HIDE DEF w
  <2> QED
    BY <2>1, <2>4, ControlStep
<1>3. ASSUME Del(t, ep, fd)
      PROVE  IInv'
  BY <1>3, ControlStep DEF Del
<1> QED
  BY <1>1, <1>2, <1>3

\* Recording a report leaves a registration on its description.
LEMMA RecordType ==
  ASSUME NEW w \in Watched, NEW delivered \in BOOLEAN
  PROVE  /\ Record(w, delivered) \in Watched
         /\ Record(w, delivered).description = w.description
<1>1. ReadyNow(w) \in SUBSET (Bits \cup {"NVAL"})
  <2>1. w.events \in SUBSET Bits
    BY DEF Watched
  <2> QED
    BY <2>1 DEF ReadyNow, Readiness
<1> DEFINE reported == IF w.edge THEN ReadyNow(w) ELSE w.reported
           armed == IF Fires(w) # {} /\ w.oneshot THEN {} ELSE w.events
           told == IF delivered /\ w.oneshot /\ w.told < 2 THEN w.told + 1 ELSE w.told
<1>2. /\ w.description \in Slots /\ w.reported \in SUBSET (Bits \cup {"NVAL"})
      /\ w.events \in SUBSET Bits /\ w.told \in 0..2
  BY DEF Watched
<1>3. reported \in SUBSET (Bits \cup {"NVAL"}) /\ armed \in SUBSET Bits /\ told \in 0..2
  BY <1>1, <1>2
<1>4. Record(w, delivered) = [w EXCEPT !.reported = reported, !.events = armed, !.told = told]
  BY DEF Record
<1> HIDE DEF reported, armed, told
<1> QED
  BY <1>3, <1>4 DEF Watched

\* The set a wait has just reported from.
LEMMA RecordedSet ==
  ASSUME IInv, NEW s \in Sets, sets[s] \in EpollSet, sets[s] # None, NEW delivered,
         sets' = Recorded(s, delivered)
  PROVE  /\ sets' \in [Sets -> EpollSet \cup {None}]
         /\ \A i \in Sets : CountedOn(sets', i) = CountedOn(sets, i)
         /\ \A i \in Sets : sets'[i] # None =>
              \A n \in Numbers : sets'[i].watched[n] # None =>
                descriptions[sets'[i].watched[n].description] # None
<1> DEFINE W == [fd \in Numbers |-> IF Entries(s)[fd] = None THEN None
                                    ELSE Record(Entries(s)[fd], fd \in delivered)]
           x == [sets[s] EXCEPT !.watched = W]
<1>1. Entries(s) \in [Numbers -> Watched \cup {None}] /\ Entries(s) = sets[s].watched
  BY DEF EpollSet, Entries
<1>2. ASSUME NEW n \in Numbers
      PROVE  /\ W[n] \in Watched \cup {None}
             /\ W[n] # None => descriptions[W[n].description] # None
  <2>1. CASE Entries(s)[n] = None
    BY <2>1
  <2>2. CASE Entries(s)[n] # None
    <3>1. Entries(s)[n] \in Watched /\ descriptions[Entries(s)[n].description] # None
      BY <1>1, <2>2, StillOpen
    <3>2. PICK b \in BOOLEAN : b <=> n \in delivered
      <4>1. CASE n \in delivered
        <5>1. TRUE \in BOOLEAN /\ (TRUE <=> n \in delivered)
          BY <4>1
        <5> QED
          BY <5>1
      <4>2. CASE n \notin delivered
        <5>1. FALSE \in BOOLEAN /\ (FALSE <=> n \in delivered)
          BY <4>2
        <5> QED
          BY <5>1
      <4> QED
        BY <4>1, <4>2
    <3>3. W[n] = Record(Entries(s)[n], b)
      BY <2>2, <3>2 DEF Record
    <3> HIDE DEF W
    <3> QED
      BY <3>1, <3>3, RecordType
  <2> QED
    BY <2>1, <2>2
<1>3. W \in [Numbers -> Watched \cup {None}]
  BY <1>2
<1>4. sets' = [sets EXCEPT ![s] = x]
  BY DEF Recorded
<1> HIDE DEF W
<1>5. x \in EpollSet /\ x.references = sets[s].references /\ x.watched = W
  BY <1>3 DEF EpollSet
<1> HIDE DEF x
<1>6. \A n \in Numbers : x.watched[n] # None =>
        descriptions[x.watched[n].description] # None
  BY <1>2, <1>5
<1> QED
  BY <1>4, <1>5, <1>6, SetChanges

LEMMA EpollWaitStep ==
  ASSUME IInv, NEW t \in Threads, NEW ep \in Numbers, NEW max \in Most,
         NEW timeout \in Timeouts, EpollWait(t, ep, max, timeout)
  PROVE  IInv'
<1> DEFINE s == SetOf(ep)
           x == Wait("epoll", s, {}, {}, max, timeout)
<1>1. /\ IsEpoll(ep) /\ turn /\ turn' = turn /\ LookAgain /\ parked[t] = None
      /\ UNCHANGED <<events, descriptions, files, shared>>
  BY DEF EpollWait, CanCall
<1>2. s \in Sets /\ sets[s] \in EpollSet /\ sets[s] # None
  BY <1>1, EpollOf
<1>3. PICK delivered : sets' = Recorded(s, delivered)
  BY DEF EpollWait
<1>4. rax' = 0 /\ (parked' = parked \/ parked' = [parked EXCEPT ![t] = x])
  BY DEF EpollWait, Done, Parks
<1>5. x \in Watching /\ x.call = "epoll"
  <2>1. max \in Nat
    BY EpollAssumption
  <2> QED
    BY <1>2, <2>1 DEF Wait, Watching
<1> HIDE DEF s, x
<1>6. /\ sets' \in [Sets -> EpollSet \cup {None}]
      /\ \A i \in Sets : CountedOn(sets', i) = CountedOn(sets, i)
      /\ \A i \in Sets : sets'[i] # None =>
           \A n \in Numbers : sets'[i].watched[n] # None =>
             descriptions[sets'[i].watched[n].description] # None
  BY <1>2, <1>3, RecordedSet
<1>7. parked' \in [Threads -> Watching \cup Eventing \cup {None}]
  BY <1>4, <1>5 DEF IInv, TypeOK
<1>8. \A u \in Threads : parked'[u] = parked[u] \/ (u = t /\ parked'[u] = x)
  BY <1>4 DEF IInv, TypeOK
<1>9. TypeOK'
  <2>1. todo' \in SUBSET Threads
    BY <1>1, <1>7 DEF LookAgain, InUse
  <2> QED
    BY <1>1, <1>4, <1>6, <1>7, <2>1 DEF IInv, TypeOK
<1>10. \A u \in Threads : \/ parked'[u] = parked[u]
                          \/ ~Holding(parked[u]) /\ ~Holding(parked'[u])
  BY <1>1, <1>5, <1>8 DEF Holding
<1>11. \A i \in Sets : HeldIn(files, descriptions, sets', parked', i)
  BY <1>6, <1>10, StaysHeld
<1>12. LookingAtParked'
  BY <1>1, LooksAgain
<1>13. \A id \in shared' : events'[id] # None
  BY <1>1 DEF IInv, WaitsHaveCounters
<1> QED
  BY <1>1, <1>5, <1>6, <1>8, <1>9, <1>11, <1>12, <1>13, SameTable

\* A poll or a select that finds nothing asks only of numbers that are open.
LEMMA AskedAreOpen ==
  ASSUME IInv, NEW asked \in Asked, NEW interest \in Interests, NEW call,
         call = "select" => asked \subseteq Open,
         ~((IF call = "poll" THEN PollAnswer(asked, interest)
            ELSE SelectAnswer(Held(asked, interest))) > 0),
         call \in {"poll", "select"}
  PROVE  \A fd \in asked : fd \in Numbers /\ files[fd] # None
<1>1. asked \in SUBSET Numbers
  BY EpollAssumption
<1>2. CASE call = "poll"
  <2> DEFINE A == {fd \in asked : IF files[fd] = None THEN TRUE
                                  ELSE Readiness(files[fd], interest) # {}}
  <2>1. A \in SUBSET Numbers
    BY <1>1
  <2>2. IsFiniteSet(A)
    BY <2>1, EpollAssumption, FS_Subset
  <2>3. Cardinality(A) \in Nat /\ (Cardinality(A) = 0 <=> A = {})
    BY <2>2, FS_CardinalityType, FS_EmptySet
  <2>4. ~(Cardinality(A) > 0)
    BY <1>2 DEF PollAnswer
  <2>5. A = {}
    <3> HIDE DEF A
    <3> QED
      BY <2>3, <2>4
  <2> QED
    BY <1>1, <2>5
<1>3. CASE call = "select"
  BY <1>1, <1>3 DEF Open, InUse
<1> QED
  BY <1>2, <1>3

\* The set a poll or a select parks with is new, and its own.
LEMMA PollParks ==
  ASSUME IInv, NEW t \in Threads, NEW call \in {"poll", "select"}, NEW asked \in Asked,
         NEW interest \in Interests, NEW timeout \in Timeouts, NEW s \in Sets,
         \A fd \in asked : fd \in Numbers /\ files[fd] # None,
         Lowest(Free(sets), s), turn, turn' = turn, LookAgain, parked[t] = None,
         UNCHANGED <<events, descriptions, files, shared>>,
         sets' = [sets EXCEPT ![s] = [watched |-> Held(asked, interest), references |-> 1]],
         Parks(t, Wait(call, s, asked, interest, 0, timeout))
  PROVE  IInv'
<1> DEFINE W == Held(asked, interest)
           new == [watched |-> W, references |-> 1]
           x == Wait(call, s, asked, interest, 0, timeout)
<1>1. ASSUME NEW n \in Numbers
      PROVE  /\ W[n] \in Watched \cup {None}
             /\ W[n] # None => descriptions[W[n].description] # None
  <2>1. CASE n \in asked
    <3>1. files[n] # None
      BY <2>1
    <3>2. W[n] = Registration(n, interest, FALSE, FALSE)
      BY <2>1 DEF Held
    <3> HIDE DEF W
    <3> QED
      BY <3>1, <3>2, RegistrationType
  <2>2. CASE n \notin asked
    BY <2>2 DEF Held
  <2> QED
    BY <2>1, <2>2
<1>2. W \in [Numbers -> Watched \cup {None}]
  <2>1. W = [n \in Numbers |-> W[n]]
    BY DEF Held
  <2> HIDE DEF W
  <2> QED
    BY <1>1, <2>1
<1> HIDE DEF W
<1>3. new \in EpollSet /\ new.references = 1 /\ new.watched = W /\ None \notin EpollSet
  BY <1>2, NoneAssumption DEF EpollSet
<1>4. sets' = [sets EXCEPT ![s] = new] /\ sets[s] = None
  BY DEF W, Lowest, Free, InUse
<1> HIDE DEF new
<1>5. /\ sets' \in [Sets -> EpollSet \cup {None}] /\ sets'[s] = new
      /\ \A i \in Sets : i # s => sets'[i] = sets[i]
  BY <1>3, <1>4 DEF IInv, TypeOK
<1>6. x \in Watching /\ x.call = call /\ x.set = s /\ x # None
  <2>1. asked \in SUBSET Numbers /\ interest \in SUBSET Bits
    BY EpollAssumption
  <2>2. x \in Watching /\ x.call = call /\ x.set = s
    BY <2>1 DEF Wait, Watching
  <2> QED
    BY <2>2, NoneAssumption
<1>7. rax' = 0 /\ parked' = [parked EXCEPT ![t] = x]
  BY DEF Parks
<1> HIDE DEF x
<1>8. /\ parked' \in [Threads -> Watching \cup Eventing \cup {None}] /\ parked'[t] = x
      /\ \A u \in Threads : u # t => parked'[u] = parked[u]
  BY <1>6, <1>7 DEF IInv, TypeOK
<1>9. TypeOK'
  <2>1. todo' \in SUBSET Threads
    BY <1>8 DEF LookAgain, InUse
  <2> QED
    BY <1>5, <1>7, <1>8, <2>1 DEF IInv, TypeOK
<1>10. ASSUME NEW i \in Sets
       PROVE  HeldIn(files, descriptions, sets', parked', i)
  <2>1. HeldIn(files, descriptions, sets, parked, i)
    BY HeldMeans DEF IInv
  <2>2. CASE i = s
    <3>1. CountedOn(sets, i) = 0 /\ CountedOn(sets', i) = 1
      BY <1>3, <1>4, <1>5, <2>2 DEF CountedOn
    <3>2. Census(files, descriptions, i) \in Nat
      BY CensusType DEF IInv, TypeOK
    <3>3. Census(files, descriptions, i) = 0 /\ HoldersIn(parked, i) = {}
      BY <2>1, <3>1, <3>2 DEF HeldIn
    <3>4. HoldersIn(parked', i) = {t}
      <4>1. t \in HoldersIn(parked', i)
        BY <1>6, <1>8, <2>2 DEF HoldersIn, Holding
      <4>2. \A u \in HoldersIn(parked', i) : u = t
        BY <1>8, <3>3 DEF HoldersIn
      <4> QED
        BY <4>1, <4>2
    <3> QED
      BY <3>1, <3>3, <3>4 DEF HeldIn
  <2>3. CASE i # s
    <3>1. CountedOn(sets', i) = CountedOn(sets, i)
      BY <1>5, <2>3 DEF CountedOn
    <3>2. HoldersIn(parked', i) = HoldersIn(parked, i)
      BY <1>6, <1>8, <2>3 DEF HoldersIn, Holding
    <3> QED
      BY <2>1, <3>1, <3>2 DEF HeldIn
  <2> QED
    BY <2>2, <2>3
<1>11. ASSUME NEW i \in Sets, sets'[i] # None, NEW n \in Numbers, sets'[i].watched[n] # None
       PROVE  descriptions[sets'[i].watched[n].description] # None
  <2>1. CASE i = s
    BY <1>1, <1>3, <1>5, <1>11, <2>1
  <2>2. CASE i # s
    BY <1>5, <1>11, <2>2, StillOpen
  <2> QED
    BY <2>1, <2>2
<1>12. LookingAtParked'
  BY LooksAgain
<1>13. \A id \in shared' : events'[id] # None
  BY DEF IInv, WaitsHaveCounters
<1>14. \A u \in Threads : parked'[u] = parked[u] \/ parked'[u].call # "event"
  BY <1>6, <1>8
<1> QED
  BY <1>9, <1>10, <1>11, <1>12, <1>13, <1>14, SameTable

LEMMA PollOrSelectStep ==
  ASSUME IInv, NEW t \in Threads, NEW call \in {"poll", "select"}, NEW asked \in Asked,
         NEW interest \in Interests, NEW timeout \in Timeouts,
         PollOrSelect(t, call, asked, interest, timeout)
  PROVE  IInv'
<1> DEFINE n == IF call = "poll" THEN PollAnswer(asked, interest)
                ELSE SelectAnswer(Held(asked, interest))
<1>1. /\ turn /\ turn' = turn /\ LookAgain /\ parked[t] = None
      /\ UNCHANGED <<events, descriptions, files, shared>>
      /\ call = "select" => asked \subseteq Open
  BY DEF PollOrSelect, CanCall
<1>2. CASE n > 0 \/ timeout = "now"
  <2>1. sets' = sets /\ parked' = parked /\ rax' = 0
    BY <1>2 DEF PollOrSelect, Done
  <2>2. TypeOK'
    <3>1. todo' \in SUBSET Threads
      BY <1>1, <2>1 DEF LookAgain, InUse, IInv, TypeOK
    <3> QED
      BY <1>1, <2>1, <3>1 DEF IInv, TypeOK
  <2>3. \A s \in Sets : HeldIn(files, descriptions, sets', parked', s)
    BY <2>1, StaysHeld
  <2>4. \A s \in Sets : sets'[s] # None =>
          \A fd \in Numbers : sets'[s].watched[fd] # None =>
            descriptions[sets'[s].watched[fd].description] # None
    BY <2>1, StillOpen
  <2>5. LookingAtParked'
    BY <1>1, LooksAgain
  <2>6. \A id \in shared' : events'[id] # None
    BY <1>1 DEF IInv, WaitsHaveCounters
  <2> QED
    BY <1>1, <2>1, <2>2, <2>3, <2>4, <2>5, <2>6, SameTable
<1>3. CASE ~(n > 0 \/ timeout = "now")
  <2>1. PICK s \in Sets :
          /\ Lowest(Free(sets), s)
          /\ sets' = [sets EXCEPT ![s] =
               [watched |-> Held(asked, interest), references |-> 1]]
          /\ Parks(t, Wait(call, s, asked, interest, 0, timeout))
    BY <1>3 DEF PollOrSelect
  <2>2. \A fd \in asked : fd \in Numbers /\ files[fd] # None
    BY <1>1, <1>3, AskedAreOpen
  <2> QED
    BY <1>1, <2>1, <2>2, PollParks
<1> QED
  BY <1>2, <1>3

\* The sets held by the waits that end, and nobody else's.
LEMMA LetGoSets ==
  ASSUME IInv, NEW S \in SUBSET Threads, \A t \in S : parked[t] # None /\ IsWatch(t),
         sets' = LetGo(S),
         \A t \in Threads : parked'[t] = IF t \in S THEN None ELSE parked[t]
  PROVE  /\ sets' \in [Sets -> EpollSet \cup {None}]
         /\ \A s \in Sets : HeldIn(files, descriptions, sets', parked', s)
         /\ \A s \in Sets : sets'[s] # None =>
              \A n \in Numbers : sets'[s].watched[n] # None =>
                descriptions[sets'[s].watched[n].description] # None
<1>1. ASSUME NEW s \in Sets
      PROVE  /\ sets'[s] = None \/ sets'[s] = sets[s]
             /\ HeldIn(files, descriptions, sets', parked', s)
  <2>1. HeldIn(files, descriptions, sets, parked, s)
    BY HeldMeans DEF IInv
  <2>2. CASE \E t \in S : parked[t].call # "epoll" /\ parked[t].set = s
    <3>1. PICK t \in S : parked[t].call # "epoll" /\ parked[t].set = s
      BY <2>2
    <3>2. t \in HoldersIn(parked, s)
      BY <3>1 DEF HoldersIn, Holding, IsWatch
    <3>3. /\ Census(files, descriptions, s) = 0 /\ CountedOn(sets, s) = 1
          /\ HoldersIn(parked, s) = {t}
      BY <2>1, <3>2 DEF HeldIn
    <3>4. sets[s].references = 1
      BY <3>3 DEF CountedOn
    <3>5. sets'[s] = None
      BY <2>2, <3>4 DEF LetGo, Released, IInv, TypeOK
    <3>6. HoldersIn(parked', s) = {}
      BY <3>3 DEF HoldersIn, Holding
    <3>7. CountedOn(sets', s) = 0
      BY <3>5 DEF CountedOn
    <3> QED
      BY <3>3, <3>5, <3>6, <3>7 DEF HeldIn
  <2>3. CASE ~ \E t \in S : parked[t].call # "epoll" /\ parked[t].set = s
    <3>1. sets'[s] = sets[s]
      BY <2>3 DEF LetGo
    <3>2. HoldersIn(parked', s) = HoldersIn(parked, s)
      BY <2>3 DEF HoldersIn, Holding
    <3>3. CountedOn(sets', s) = CountedOn(sets, s)
      BY <3>1 DEF CountedOn
    <3> QED
      BY <2>1, <3>1, <3>2, <3>3 DEF HeldIn
  <2> QED
    BY <2>2, <2>3
<1>2. sets' = [s \in Sets |-> sets'[s]]
  BY DEF LetGo
<1>3. sets' \in [Sets -> EpollSet \cup {None}]
  BY <1>1, <1>2 DEF IInv, TypeOK
<1>4. \A s \in Sets : sets'[s] # None =>
        \A n \in Numbers : sets'[s].watched[n] # None =>
          descriptions[sets'[s].watched[n].description] # None
  BY <1>1, StillOpen
<1> QED
  BY <1>1, <1>3, <1>4

---------------------------------------------------------------------------
(* Waits that are answered.                                                *)

\* The list of parked threads still to look at, after one has been answered.
LEMMA LooksOn ==
  ASSUME IInv, NEW t \in Threads, NEW value, NextToLookAt(t), Answers(t, value),
         LookedAt(t), turn' = turn
  PROVE  /\ LookingAtParked'
         /\ todo' \subseteq Threads
         /\ parked[t] # None
         /\ parked' \in [Threads -> Watching \cup Eventing \cup {None}]
         /\ \A u \in Threads : parked'[u] = IF u \in {t} THEN None ELSE parked[u]
         /\ \A u \in Threads : parked'[u] = parked[u] \/ parked'[u] = None
<1>1. t \in todo /\ todo \subseteq InUse(parked) /\ (~turn => todo = {})
  BY DEF NextToLookAt, IInv, LookingAtParked
<1>2. /\ parked' \in [Threads -> Watching \cup Eventing \cup {None}]
      /\ \A u \in Threads : parked'[u] = IF u \in {t} THEN None ELSE parked[u]
  BY DEF Answers, IInv, TypeOK
<1>3. ~Before(t, t)
  <2>1. t \in Nat
    BY EpollAssumption
  <2> QED
    BY <2>1 DEF Before
<1>4. todo' \subseteq todo /\ t \notin todo'
  BY <1>3 DEF LookedAt
<1>5. todo' \subseteq InUse(parked')
  BY <1>1, <1>2, <1>4 DEF InUse, IInv, TypeOK
<1>6. LookingAtParked'
  BY <1>1, <1>4, <1>5 DEF LookingAtParked
<1>7. parked[t] # None
  BY <1>1 DEF InUse
<1> QED
  BY <1>1, <1>2, <1>4, <1>6, <1>7 DEF IInv, TypeOK

\* A watch that is answered records its set, or lets go of it.
LEMMA WatchAnswered ==
  ASSUME IInv, NEW t \in Threads, NEW value \in Int, NextToLookAt(t), IsWatch(t),
         Answers(t, value), LookedAt(t),
         UNCHANGED <<events, descriptions, files, shared, turn>>,
         \/ sets' = LetGo({t})
         \/ /\ parked[t].call = "epoll" /\ sets[parked[t].set] # None
            /\ \E delivered : sets' = Recorded(parked[t].set, delivered)
  PROVE  IInv'
<1>1. /\ LookingAtParked' /\ todo' \subseteq Threads /\ parked[t] # None
      /\ parked' \in [Threads -> Watching \cup Eventing \cup {None}]
      /\ \A u \in Threads : parked'[u] = IF u \in {t} THEN None ELSE parked[u]
      /\ \A u \in Threads : parked'[u] = parked[u] \/ parked'[u] = None
  BY LooksOn
<1>2. /\ sets' \in [Sets -> EpollSet \cup {None}]
      /\ \A s \in Sets : HeldIn(files, descriptions, sets', parked', s)
      /\ \A s \in Sets : sets'[s] # None =>
           \A n \in Numbers : sets'[s].watched[n] # None =>
             descriptions[sets'[s].watched[n].description] # None
  <2>1. CASE sets' = LetGo({t})
    <3>1. {t} \in SUBSET Threads /\ \A u \in {t} : parked[u] # None /\ IsWatch(u)
      BY <1>1
    <3> QED
      BY <1>1, <2>1, <3>1, LetGoSets
  <2>2. CASE /\ parked[t].call = "epoll" /\ sets[parked[t].set] # None
             /\ \E delivered : sets' = Recorded(parked[t].set, delivered)
    <3>1. PICK delivered : sets' = Recorded(parked[t].set, delivered)
      BY <2>2
    <3>2. parked[t] \in Watching
      BY <1>1, <2>2 DEF IInv, TypeOK, Eventing
    <3>3. parked[t].set \in Sets
      BY <3>2 DEF Watching
    <3>4. sets[parked[t].set] \in EpollSet
      BY <2>2, <3>3 DEF IInv, TypeOK
    <3>5. /\ sets' \in [Sets -> EpollSet \cup {None}]
          /\ \A i \in Sets : CountedOn(sets', i) = CountedOn(sets, i)
          /\ \A i \in Sets : sets'[i] # None =>
               \A n \in Numbers : sets'[i].watched[n] # None =>
                 descriptions[sets'[i].watched[n].description] # None
      BY <2>2, <3>1, <3>3, <3>4, RecordedSet
    <3>6. \A u \in Threads : \/ parked'[u] = parked[u]
                             \/ ~Holding(parked[u]) /\ ~Holding(parked'[u])
      BY <1>1, <2>2 DEF Holding
    <3>7. \A s \in Sets : HeldIn(files, descriptions, sets', parked', s)
      BY <3>5, <3>6, StaysHeld
    <3> QED
      BY <3>5, <3>7
  <2> QED
    BY <2>1, <2>2
<1>3. TypeOK'
  <2>1. rax' \in Int
    BY DEF Answers
  <2> QED
    BY <1>1, <1>2, <2>1 DEF IInv, TypeOK
<1>4. \A id \in shared' : events'[id] # None
  BY DEF IInv, WaitsHaveCounters
<1> QED
  BY <1>1, <1>2, <1>3, <1>4, SameTable

\* What a parked call is answered is a number.
LEMMA AnswersAreNumbers ==
  ASSUME NEW S \in SUBSET (Numbers \X Bits), NEW D \in SUBSET Numbers
  PROVE  Cardinality(S) \in Int /\ Cardinality(D) \in Int
<1>1. IsFiniteSet(Numbers) /\ IsFiniteSet(D)
  BY EpollAssumption, FS_Subset
<1>2. IsFiniteSet(Bits)
  <2>1. Bits = {"IN"} \cup {"OUT"}
    BY DEF Bits
  <2>2. IsFiniteSet({"IN"}) /\ IsFiniteSet({"OUT"})
    BY FS_Singleton
  <2> QED
    BY <2>1, <2>2, FS_Union
<1>3. IsFiniteSet(Numbers \X Bits)
  BY <1>1, <1>2, FS_Product
<1>4. IsFiniteSet(S)
  BY <1>3, FS_Subset
<1> QED
  BY <1>1, <1>4, FS_CardinalityType

LEMMA ResumeWatchStep ==
  ASSUME IInv, NEW t \in Threads, ResumeWatch(t)
  PROVE  IInv'
<1> DEFINE x == parked[t]
<1>1. /\ NextToLookAt(t) /\ Ready(t) /\ IsWatch(t) /\ LookedAt(t)
      /\ UNCHANGED <<events, descriptions, files, shared, turn>>
  BY DEF ResumeWatch
<1>2. x # None /\ Firing(x.set) # {}
  BY <1>1 DEF Ready, IsWatch
<1>3. x \in Watching
  BY <1>1, <1>2 DEF IInv, TypeOK, Eventing, IsWatch
<1>4. x.set \in Sets /\ x.asked \in SUBSET Numbers
  BY <1>3 DEF Watching
<1>5. sets[x.set] # None
  BY <1>2 DEF Firing
<1>6. sets[x.set] \in EpollSet
  BY <1>4, <1>5 DEF IInv, TypeOK
<1>7. Entries(x.set) \in [Numbers -> Watched \cup {None}]
  BY <1>6 DEF Entries, EpollSet
<1>8. ASSUME x.call = "epoll",
             \E delivered \in Written(x.set, x.max) :
               /\ sets' = Recorded(x.set, delivered)
               /\ Answers(t, Cardinality(delivered))
      PROVE  IInv'
  <2>1. PICK delivered \in Written(x.set, x.max) :
          /\ sets' = Recorded(x.set, delivered)
          /\ Answers(t, Cardinality(delivered))
    BY <1>8
  <2>2. delivered \in SUBSET Numbers
    BY <1>5, <1>7 DEF Written, Firing, InUse, Entries
  <2>3. Cardinality(delivered) \in Int
    BY <2>2, AnswersAreNumbers
  <2> QED
    BY <1>1, <1>5, <1>8, <2>1, <2>3, WatchAnswered
<1>9. ASSUME sets' = LetGo({t}), Answers(t, PollAnswer(x.asked, x.interest))
      PROVE  IInv'
  <2>1. PollAnswer(x.asked, x.interest) \in Int
    <3> DEFINE D == {fd \in x.asked : IF files[fd] = None THEN TRUE
                                      ELSE Readiness(files[fd], x.interest) # {}}
    <3>1. D \in SUBSET Numbers
      BY <1>4
    <3>2. PollAnswer(x.asked, x.interest) = Cardinality(D)
      BY DEF PollAnswer
    <3> HIDE DEF D
    <3> QED
      BY <3>1, <3>2, AnswersAreNumbers
  <2> QED
    BY <1>1, <1>9, <2>1, WatchAnswered
<1>10. ASSUME sets' = LetGo({t}), Answers(t, SelectAnswer(Entries(x.set)))
       PROVE  IInv'
  <2>1. SelectAnswer(Entries(x.set)) \in Int
    <3> DEFINE D == {y \in InUse(Entries(x.set)) \X Bits :
                       y[2] \in ReadyNow(Entries(x.set)[y[1]])}
    <3>1. D \in SUBSET (Numbers \X Bits)
      BY <1>7 DEF InUse
    <3>2. SelectAnswer(Entries(x.set)) = Cardinality(D)
      BY DEF SelectAnswer
    <3> HIDE DEF D
    <3> QED
      BY <3>1, <3>2, AnswersAreNumbers
  <2> QED
    BY <1>1, <1>10, <2>1, WatchAnswered
<1>11. ASSUME sets' = (IF x.call = "epoll" THEN Recorded(x.set, {}) ELSE LetGo({t})),
              Answers(t, EFAULT)
       PROVE  IInv'
  <2>1. EFAULT \in Int
    BY DEF EFAULT
  <2>2. CASE x.call = "epoll"
    <3>1. \E delivered : sets' = Recorded(x.set, delivered)
      BY <1>11, <2>2
    <3> QED
      BY <1>1, <1>5, <1>11, <2>1, <2>2, <3>1, WatchAnswered
  <2>3. CASE x.call # "epoll"
    BY <1>1, <1>11, <2>1, <2>3, WatchAnswered
  <2> QED
    BY <2>2, <2>3
<1> QED
  BY <1>8, <1>9, <1>10, <1>11 DEF ResumeWatch

LEMMA TimesOutStep ==
  ASSUME IInv, NEW t \in Threads, TimesOut(t)
  PROVE  IInv'
<1>1. /\ NextToLookAt(t) /\ IsWatch(t) /\ LookedAt(t) /\ sets' = LetGo({t}) /\ Answers(t, 0)
      /\ UNCHANGED <<events, descriptions, files, shared, turn>>
  BY DEF TimesOut
<1> QED
  BY <1>1, WatchAnswered

LEMMA ExpireStep ==
  ASSUME IInv, NEW S \in SUBSET InUse(parked), Expire(S)
  PROVE  IInv'
<1>1. /\ ~turn /\ sets' = LetGo(S) /\ rax' = 0
      /\ parked' = [t \in Threads |-> IF t \in S THEN None ELSE parked[t]]
      /\ UNCHANGED <<events, descriptions, files, shared, turn, todo>>
      /\ \A t \in S : IsWatch(t)
  BY DEF Expire
<1>2. S \in SUBSET Threads /\ \A t \in S : parked[t] # None /\ IsWatch(t)
  BY <1>1 DEF InUse, IInv, TypeOK
<1>3. \A t \in Threads : parked'[t] = IF t \in S THEN None ELSE parked[t]
  BY <1>1
<1>4. /\ sets' \in [Sets -> EpollSet \cup {None}]
      /\ \A s \in Sets : HeldIn(files, descriptions, sets', parked', s)
      /\ \A s \in Sets : sets'[s] # None =>
           \A n \in Numbers : sets'[s].watched[n] # None =>
             descriptions[sets'[s].watched[n].description] # None
  BY <1>1, <1>2, <1>3, LetGoSets
<1>5. TypeOK'
  BY <1>1, <1>4 DEF IInv, TypeOK
<1>6. LookingAtParked'
  BY <1>1 DEF IInv, LookingAtParked
<1>7. \A id \in shared' : events'[id] # None
  BY <1>1 DEF IInv, WaitsHaveCounters
<1> QED
  BY <1>1, <1>3, <1>4, <1>5, <1>6, <1>7, SameTable

---------------------------------------------------------------------------
(* Counters.                                                               *)

\* A step that moves one counter, and answers or parks nobody but on it.
LEMMA EventStep ==
  ASSUME IInv, events' \in [Counters -> Event \cup {None}],
         \A i \in Counters : events[i] # None => events'[i] # None,
         UNCHANGED <<descriptions, files, sets, shared>>,
         parked' \in [Threads -> Watching \cup Eventing \cup {None}],
         \A t \in Threads :
           \/ parked'[t] = parked[t]
           \/ /\ ~Holding(parked[t]) /\ ~Holding(parked'[t])
              /\ parked'[t] # None => events'[parked'[t].event] # None,
         turn' \in BOOLEAN, todo' \subseteq Threads, rax' \in Int, LookingAtParked'
  PROVE  IInv'
<1>1. TypeOK'
  BY DEF IInv, TypeOK
<1>2. \A s \in Sets : HeldIn(files, descriptions, sets', parked', s)
  BY StaysHeld
<1>3. \A s \in Sets : sets'[s] # None =>
        \A n \in Numbers : sets'[s].watched[n] # None =>
          descriptions[sets'[s].watched[n].description] # None
  BY StillOpen
<1>4. \A id \in shared' : events'[id] # None
  BY DEF IInv, WaitsHaveCounters, TypeOK
<1> QED
  BY <1>1, <1>2, <1>3, <1>4, SameTable

\* What take and a write leave in a counter that could be read or had room.
LEMMA TakenType ==
  ASSUME NEW e \in Event, e.count > 0
  PROVE  Taken(e) \in Event
<1>1. e.count \in 0..Ceiling /\ Ceiling \in Nat
  BY EpollAssumption DEF Event
<1>2. (IF e.semaphore THEN e.count - 1 ELSE 0) \in 0..Ceiling
  BY <1>1
<1> QED
  BY <1>2 DEF Taken, Event

LEMMA GivenType ==
  ASSUME NEW e \in Event, NEW value \in 0..Ceiling, e.count + value <= Ceiling
  PROVE  Given(e, value) \in Event
<1>1. e.count \in 0..Ceiling /\ Ceiling \in Nat
  BY EpollAssumption DEF Event
<1>2. e.count + value \in 0..Ceiling
  BY <1>1
<1> QED
  BY <1>2 DEF Given, Event

\* One counter that is given another value stays a counter, as all others do.
LEMMA CounterMoves ==
  ASSUME IInv, NEW id \in Counters, NEW e \in Event, events' = [events EXCEPT ![id] = e]
  PROVE  /\ events' \in [Counters -> Event \cup {None}]
         /\ events'[id] # None
         /\ \A i \in Counters : events[i] # None => events'[i] # None
<1>1. e # None
  BY NoneAssumption
<1> QED
  BY <1>1 DEF IInv, TypeOK

LEMMA TransferStep ==
  ASSUME IInv, NEW t \in Threads, NEW fd \in Numbers, NEW writing \in BOOLEAN,
         NEW value \in 0..Ceiling, Transfer(t, fd, writing, value)
  PROVE  IInv'
<1> DEFINE id == BackingOf(fd).id
           x == [call |-> "event", event |-> id, writing |-> writing, value |-> value]
<1>1. /\ fd \in Open /\ BackingOf(fd).kind = "event" /\ turn /\ turn' = turn /\ LookAgain
      /\ parked[t] = None /\ UNCHANGED <<descriptions, files, sets, shared>>
  BY DEF Transfer, CanCall
<1>2. files[fd] \in Slots /\ descriptions[files[fd]] # None
  BY <1>1, NowCounted, CountedIsOpen DEF IInv, Open, InUse
<1>3. id \in Counters /\ events[id] # None /\ events[id] \in Event
  BY <1>1, <1>2, CounterOf DEF BackingOf
<1>4. x \in Eventing /\ x.call = "event" /\ x.event = id /\ x.writing = writing
      /\ x.value = value
  BY <1>3 DEF Eventing
<1> HIDE DEF x, id
<1>5. LookingAtParked'
  BY <1>1, LooksAgain
<1>6. CASE IF writing THEN events[id].count + value <= Ceiling ELSE events[id].count > 0
  <2>1. events' = [events EXCEPT ![id] = Moved(x)] /\ parked' = parked /\ rax' = 0
    BY <1>6 DEF Transfer, Done, id, x
  <2>2. Moved(x) \in Event
    BY <1>3, <1>4, <1>6, TakenType, GivenType DEF Moved
  <2>3. /\ events' \in [Counters -> Event \cup {None}]
        /\ \A i \in Counters : events[i] # None => events'[i] # None
    BY <1>3, <2>1, <2>2, CounterMoves
  <2>4. parked' \in [Threads -> Watching \cup Eventing \cup {None}]
    BY <2>1 DEF IInv, TypeOK
  <2>5. todo' \subseteq Threads
    BY <1>1, <2>4 DEF LookAgain, InUse
  <2>6. turn' \in BOOLEAN /\ rax' \in Int
    BY <1>1, <2>1
  <2> QED
    BY <1>1, <1>5, <2>1, <2>3, <2>4, <2>5, <2>6, EventStep
<1>7. CASE ~(IF writing THEN events[id].count + value <= Ceiling ELSE events[id].count > 0)
  <2>1. events' = events /\ parked' = [parked EXCEPT ![t] = x] /\ rax' = 0
    BY <1>7 DEF Transfer, Parks, id, x
  <2>2. parked' \in [Threads -> Watching \cup Eventing \cup {None}]
    BY <1>4, <2>1 DEF IInv, TypeOK
  <2>3. \A u \in Threads : parked'[u] = parked[u] \/ (u = t /\ parked'[u] = x)
    BY <2>1 DEF IInv, TypeOK
  <2>4. \A u \in Threads :
          \/ parked'[u] = parked[u]
          \/ /\ ~Holding(parked[u]) /\ ~Holding(parked'[u])
             /\ parked'[u] # None => events'[parked'[u].event] # None
    BY <1>1, <1>3, <1>4, <2>1, <2>3 DEF Holding
  <2>5. todo' \subseteq Threads
    BY <1>1, <2>2 DEF LookAgain, InUse
  <2>6. turn' \in BOOLEAN /\ rax' \in Int /\ events' \in [Counters -> Event \cup {None}]
    BY <1>1, <2>1 DEF IInv, TypeOK
  <2> QED
    BY <1>1, <1>5, <2>1, <2>2, <2>4, <2>5, <2>6, EventStep
<1> QED
  BY <1>6, <1>7

LEMMA MovingStep ==
  ASSUME IInv, NEW t \in Threads, Moving(t)
  PROVE  IInv'
<1>1. PICK fd \in Numbers : \/ Transfer(t, fd, FALSE, 0)
                            \/ \E value \in Values : Transfer(t, fd, TRUE, value)
  BY DEF Moving
<1>2. 0 \in 0..Ceiling /\ Values \subseteq 0..Ceiling
  BY EpollAssumption
<1>3. CASE Transfer(t, fd, FALSE, 0)
  BY <1>2, <1>3, TransferStep
<1>4. CASE \E value \in Values : Transfer(t, fd, TRUE, value)
  BY <1>2, <1>4, TransferStep
<1> QED
  BY <1>1, <1>3, <1>4

LEMMA ResumeEventStep ==
  ASSUME IInv, NEW t \in Threads, ResumeEvent(t)
  PROVE  IInv'
<1> DEFINE x == parked[t]
<1>1. /\ NextToLookAt(t) /\ Ready(t) /\ x.call = "event" /\ LookedAt(t)
      /\ events' = [events EXCEPT ![x.event] = Moved(x)]
      /\ UNCHANGED <<descriptions, files, sets, shared, turn>>
  BY DEF ResumeEvent, IsWatch
<1>2. PICK value \in {8, EFAULT} : Answers(t, value)
  BY DEF ResumeEvent
<1>3. /\ LookingAtParked' /\ todo' \subseteq Threads /\ x # None
      /\ parked' \in [Threads -> Watching \cup Eventing \cup {None}]
      /\ \A u \in Threads : parked'[u] = IF u \in {t} THEN None ELSE parked[u]
  BY <1>1, <1>2, LooksOn
<1>4. x \in Eventing
  BY <1>1, <1>3 DEF IInv, TypeOK, Watching
<1>5. x.event \in Counters /\ x.writing \in BOOLEAN /\ x.value \in 0..Ceiling
  BY <1>4 DEF Eventing
<1>6. events[x.event] # None
  BY <1>1, <1>3 DEF IInv, WaitsHaveCounters, InUse, IsWatch, TypeOK
<1>7. events[x.event] \in Event
  BY <1>5, <1>6 DEF IInv, TypeOK
<1>8. IF x.writing THEN events[x.event].count + x.value <= Ceiling
      ELSE events[x.event].count > 0
  BY <1>1 DEF Ready
<1>9. Moved(x) \in Event
  BY <1>5, <1>7, <1>8, TakenType, GivenType DEF Moved
<1>10. /\ events' \in [Counters -> Event \cup {None}]
       /\ \A i \in Counters : events[i] # None => events'[i] # None
  BY <1>1, <1>5, <1>9, CounterMoves
<1>11. \A u \in Threads :
         \/ parked'[u] = parked[u]
         \/ /\ ~Holding(parked[u]) /\ ~Holding(parked'[u])
            /\ parked'[u] # None => events'[parked'[u].event] # None
  BY <1>1, <1>3 DEF Holding
<1>12. turn' \in BOOLEAN /\ rax' \in Int
  BY <1>1, <1>2 DEF Answers, EFAULT, IInv, TypeOK
<1> QED
  BY <1>1, <1>3, <1>10, <1>11, <1>12, EventStep

LEMMA ElsewhereStep ==
  ASSUME IInv, NEW id \in Counters, Elsewhere(id)
  PROVE  IInv'
<1>1. /\ id \in shared /\ rax' = 0
      /\ UNCHANGED <<descriptions, files, sets, parked, shared, turn, todo>>
  BY DEF Elsewhere
<1>2. events[id] # None /\ events[id] \in Event
  BY <1>1 DEF IInv, TypeOK, WaitsHaveCounters
<1>3. PICK e \in Event : events' = [events EXCEPT ![id] = e]
  <2>1. CASE \E value \in Values :
               /\ events[id].count + value <= Ceiling
               /\ events' = [events EXCEPT ![id] = Given(@, value)]
    <3>1. PICK value \in Values :
            /\ events[id].count + value <= Ceiling
            /\ events' = [events EXCEPT ![id] = Given(events[id], value)]
      BY <2>1
    <3>2. Given(events[id], value) \in Event
      BY <1>2, <3>1, EpollAssumption, GivenType
    <3> QED
      BY <3>1, <3>2
  <2>2. CASE events[id].count > 0 /\ events' = [events EXCEPT ![id] = Taken(@)]
    <3>1. Taken(events[id]) \in Event
      BY <1>2, <2>2, TakenType
    <3> QED
      BY <2>2, <3>1
  <2> QED
    BY <2>1, <2>2 DEF Elsewhere
<1>4. /\ events' \in [Counters -> Event \cup {None}]
      /\ \A i \in Counters : events[i] # None => events'[i] # None
  BY <1>3, CounterMoves
<1>5. LookingAtParked'
  BY <1>1 DEF IInv, LookingAtParked
<1> QED
  BY <1>1, <1>4, <1>5, EventStep DEF IInv, TypeOK

LEMMA TurnStep ==
  ASSUME IInv, TakeTurn \/ EndTurn
  PROVE  IInv'
<1>1. /\ UNCHANGED <<events, descriptions, files, sets, parked, shared>> /\ rax' = 0
      /\ \/ turn' = TRUE /\ todo' = InUse(parked)
         \/ turn' = FALSE /\ todo' = {}
  BY DEF TakeTurn, EndTurn
<1>2. LookingAtParked' /\ todo' \subseteq Threads /\ turn' \in BOOLEAN
  BY <1>1 DEF LookingAtParked, InUse, IInv, TypeOK
<1> QED
  BY <1>1, <1>2, EventStep DEF IInv, TypeOK

LEMMA StutteringStep ==
  ASSUME IInv, UNCHANGED vars
  PROVE  IInv'
<1>1. UNCHANGED <<events, descriptions, files, sets, parked, shared, turn, todo, rax>>
  BY DEF vars
<1>2. LookingAtParked'
  BY <1>1 DEF IInv, LookingAtParked
<1> QED
  BY <1>1, <1>2, EventStep DEF IInv, TypeOK

---------------------------------------------------------------------------
(* What every run satisfies.                                               *)

LEMMA InitIInv ==
  ASSUME Init
  PROVE  IInv
<1>1. TypeOK
  BY DEF Init, TypeOK
<1>2. Counted(files, descriptions)
  <2>1. ASSUME NEW d \in Slots
        PROVE  Cardinality(NamersOf(files, d)) = CountedOn(descriptions, d)
    <3>1. \A fd \in Numbers : files[fd] # d
      BY NoneAssumption DEF Init
    <3>2. CountedOn(descriptions, d) = 0
      BY DEF Init, CountedOn
    <3> QED
      BY <3>1, <3>2, NamersNone
  <2> QED
    BY <1>1, <2>1 DEF Counted, TypeOK
<1>3. ASSUME NEW s \in Sets
      PROVE  HeldIn(files, descriptions, sets, parked, s)
  <2>1. \A fd \in Numbers : ~Names(files, descriptions, fd, s)
    BY DEF Init, Names
  <2>2. Census(files, descriptions, s) = 0
    BY <1>1, <2>1, CensusType DEF TypeOK
  <2>3. CountedOn(sets, s) = 0 /\ HoldersIn(parked, s) = {}
    BY DEF Init, CountedOn, HoldersIn, Holding
  <2> QED
    BY <2>2, <2>3 DEF HeldIn
<1>4. SetsAreHeld
  BY <1>1, <1>3, HeldMeans
<1>5. CountersExist /\ WatchedAreOpen /\ WaitsHaveCounters /\ LookingAtParked
  BY DEF Init, CountersExist, WatchedAreOpen, WaitsHaveCounters, LookingAtParked, InUse
<1> QED
  BY <1>1, <1>2, <1>4, <1>5 DEF IInv, ReferencesAreRight, Counted

LEMMA NextIInv ==
  ASSUME IInv, [Next]_vars
  PROVE  IInv'
<1>1. ASSUME NEW t \in Threads, Describing(t)
      PROVE  IInv'
  BY <1>1, MakeEventfdStep, EpollCreateStep, CloseStep, DupStep, Dup2Step, ForkStep
  DEF Describing
<1>2. ASSUME NEW t \in Threads, Registering(t)
      PROVE  IInv'
  BY <1>2, RegisteringStep
<1>3. ASSUME NEW t \in Threads, Asking(t)
      PROVE  IInv'
  BY <1>3, EpollWaitStep, PollOrSelectStep DEF Asking
<1>4. ASSUME NEW t \in Threads, Moving(t)
      PROVE  IInv'
  BY <1>4, MovingStep
<1>5. ASSUME Resuming
      PROVE  IInv'
  BY <1>5, ResumeEventStep, ResumeWatchStep DEF Resuming
<1>6. ASSUME NEW t \in Threads, TimesOut(t)
      PROVE  IInv'
  BY <1>6, TimesOutStep
<1>7. ASSUME NEW S \in SUBSET InUse(parked), Expire(S)
      PROVE  IInv'
  BY <1>7, ExpireStep
<1>8. ASSUME NEW id \in Counters, Elsewhere(id)
      PROVE  IInv'
  BY <1>8, ElsewhereStep
<1>9. ASSUME TakeTurn \/ EndTurn
      PROVE  IInv'
  BY <1>9, TurnStep
<1>10. CASE UNCHANGED vars
  BY <1>10, StutteringStep
<1> QED
  BY <1>1, <1>2, <1>3, <1>4, <1>5, <1>6, <1>7, <1>8, <1>9, <1>10 DEF Next

\* A registration is on an open description, and an open one is counted.
LEMMA IInvLive ==
  ASSUME IInv
  PROVE  RegistrationsAreLive
<1> SUFFICES ASSUME NEW s \in InUse(sets), NEW fd \in InUse(Entries(s))
             PROVE  Entries(s)[fd].description \in {files[n] : n \in Open}
  BY DEF RegistrationsAreLive
<1>1. s \in Sets /\ sets[s] # None /\ sets[s] \in EpollSet
  BY DEF InUse, IInv, TypeOK
<1>2. fd \in Numbers /\ sets[s].watched[fd] # None /\ Entries(s)[fd] = sets[s].watched[fd]
  BY <1>1 DEF InUse, Entries, EpollSet
<1>3. Entries(s)[fd].description \in Slots /\ descriptions[Entries(s)[fd].description] # None
  BY <1>1, <1>2, StillOpen
<1>4. PICK n \in Numbers : files[n] = Entries(s)[fd].description
  BY <1>3, NowCounted, CountedIsOpen DEF IInv
<1>5. n \in Open
  BY <1>3, <1>4, NoneAssumption DEF Open, InUse, IInv, TypeOK
<1> QED
  BY <1>4, <1>5

(***************************************************************************)
(* The inductive invariant holds in every run: the counts are those of the *)
(* table, a set's is never too low, and what waits waits on what exists.   *)
(***************************************************************************)
THEOREM Invariance == Spec => []IInv
<1>1. Init => IInv
  BY InitIInv
<1>2. IInv /\ [Next]_vars => IInv'
  BY NextIInv
<1> QED
  BY <1>1, <1>2, PTL DEF Spec

(***************************************************************************)
(* Every variable has its type, for any number of everything: no count of  *)
(* an eventfd passes the ceiling or goes below zero, and nothing in use    *)
(* has no reference (Events::take, complete_event, reconcile_shared).      *)
(***************************************************************************)
THEOREM TypeCorrect == Spec => []TypeOK
<1>1. IInv => TypeOK
  BY DEF IInv
<1> QED
  BY <1>1, Invariance, PTL

(***************************************************************************)
(* No registration, of an epoll instance or of a parked poll or select, is *)
(* ever on a description no descriptor names (forget_description).         *)
(***************************************************************************)
THEOREM RegistrationsLive == Spec => []RegistrationsAreLive
<1>1. IInv => RegistrationsAreLive
  BY IInvLive
<1> QED
  BY <1>1, Invariance, PTL

(***************************************************************************)
(* No interest set is freed while it is named or held, and a set held for  *)
(* one call is that call's alone (hold, reconcile_shared, release_watch).  *)
(***************************************************************************)
THEOREM SetsStayHeld == Spec => []SetsAreHeld
<1>1. IInv => SetsAreHeld
  BY DEF IInv
<1> QED
  BY <1>1, Invariance, PTL

---------------------------------------------------------------------------
(* One-shot registrations.  record disarms an entry whether or not it was  *)
(* written out, and a disarmed entry still asks for NVAL, which every set  *)
(* does.  It stays silent only because no registration is ever left on a   *)
(* closed description.                                                     *)

\* A registration that was told is disarmed.
Spent(w) == w.told = 0 \/ (w.told = 1 /\ w.events = {})

TellsOnce(kept) ==
  \A s \in Sets : \A fd \in Numbers :
    kept[s] # None /\ kept[s].watched[fd] # None => Spent(kept[s].watched[fd])

\* Every entry of `later` is in the same set now, or is yet to be told.
KeepsEntries(later) ==
  \A s \in Sets : \A fd \in Numbers :
    later[s] # None /\ later[s].watched[fd] # None =>
      \/ later[s].watched[fd].told = 0
      \/ sets[s] # None /\ later[s].watched[fd] = sets[s].watched[fd]

LEMMA KeptOnce ==
  ASSUME NEW later, KeepsEntries(later), TellsOnce(sets)
  PROVE  TellsOnce(later)
BY DEF KeepsEntries, TellsOnce, Spent

---------------------------------------------------------------------------
(* What a table, a fork and a wait that is let go do to the sets.          *)

LEMMA ReconciledKeeps ==
  ASSUME IInv, NEW table, NEW opened
  PROVE  KeepsEntries(Reconciled(table, opened))
<1> SUFFICES ASSUME NEW s \in Sets, NEW fd \in Numbers,
                    Reconciled(table, opened)[s] # None
             PROVE  /\ sets[s] # None
                    /\ Reconciled(table, opened)[s].watched[fd] = sets[s].watched[fd]
  BY DEF KeepsEntries
<1>1. sets[s] # None
  BY DEF Reconciled
<1>2. sets[s] \in EpollSet
  BY <1>1 DEF IInv, TypeOK
<1>3. PICK left : Reconciled(table, opened)[s] = [sets[s] EXCEPT !.references = left]
  BY <1>1 DEF Reconciled
<1>4. Reconciled(table, opened)[s].watched = sets[s].watched
  BY <1>2, <1>3 DEF EpollSet
<1> QED
  BY <1>1, <1>4

LEMMA ForgottenKeeps ==
  ASSUME IInv, NEW table, NEW opened, NEW gone, NEW d
  PROVE  KeepsEntries(Forgotten(Reconciled(table, opened), gone, d))
<1> DEFINE kept == Reconciled(table, opened)
<1> SUFFICES ASSUME NEW s \in Sets, NEW fd \in Numbers,
                    Forgotten(kept, gone, d)[s] # None,
                    Forgotten(kept, gone, d)[s].watched[fd] # None
             PROVE  /\ sets[s] # None
                    /\ Forgotten(kept, gone, d)[s].watched[fd] = sets[s].watched[fd]
  BY DEF KeepsEntries
<1>1. kept[s] # None
  BY DEF Forgotten
<1>2. sets[s] # None /\ sets[s] \in EpollSet
  BY <1>1 DEF Reconciled, IInv, TypeOK
<1>3. PICK left : kept[s] = [sets[s] EXCEPT !.references = left]
  BY <1>1, <1>2 DEF Reconciled
<1>4. kept[s] \in [watched : [Numbers -> Watched \cup {None}], references : {left}]
      /\ kept[s].watched = sets[s].watched
  BY <1>2, <1>3 DEF EpollSet
<1> HIDE DEF kept
<1>5. CASE gone[d] # None
  BY <1>1, <1>2, <1>4, <1>5 DEF Forgotten
<1>6. CASE gone[d] = None
  <2>1. Forgotten(kept, gone, d)[s] =
          [kept[s] EXCEPT !.watched = Without(kept[s].watched, d)]
    BY <1>1, <1>6 DEF Forgotten
  <2>2. Forgotten(kept, gone, d)[s].watched = Without(kept[s].watched, d)
    BY <1>4, <2>1
  <2> QED
    BY <1>2, <1>4, <2>2 DEF Without
<1> QED
  BY <1>5, <1>6

\* A set made now has nothing told in it.
LEMMA MadeKeeps ==
  ASSUME IInv, NEW s \in Sets, NEW watched,
         \A fd \in Numbers : watched[fd] # None => watched[fd].told = 0
  PROVE  KeepsEntries([sets EXCEPT ![s] = [watched |-> watched, references |-> 1]])
BY DEF KeepsEntries, IInv, TypeOK

\* Who lets a set go holds it alone, so the set goes with the wait.
LEMMA LetGoKeeps ==
  ASSUME IInv, NEW S \in SUBSET Threads, \A t \in S : parked[t] # None /\ IsWatch(t)
  PROVE  KeepsEntries(LetGo(S))
<1> SUFFICES ASSUME NEW s \in Sets
             PROVE  LetGo(S)[s] = None \/ LetGo(S)[s] = sets[s]
  BY DEF KeepsEntries
<1>1. HeldIn(files, descriptions, sets, parked, s)
  BY HeldMeans DEF IInv
<1>2. CASE \E t \in S : parked[t].call # "epoll" /\ parked[t].set = s
  <2>1. PICK t \in S : parked[t].call # "epoll" /\ parked[t].set = s
    BY <1>2
  <2>2. t \in HoldersIn(parked, s)
    BY <2>1 DEF HoldersIn, Holding, IsWatch
  <2>3. CountedOn(sets, s) = 1
    BY <1>1, <2>2 DEF HeldIn
  <2>4. sets[s].references = 1
    BY <2>3 DEF CountedOn
  <2> QED
    BY <1>2, <2>4 DEF LetGo, Released, IInv, TypeOK
<1>3. CASE ~ \E t \in S : parked[t].call # "epoll" /\ parked[t].set = s
  BY <1>3 DEF LetGo
<1> QED
  BY <1>2, <1>3

---------------------------------------------------------------------------
(* The calls that report: epoll_wait, and its resumption.                  *)

\* An entry that is disarmed does not fire.
LEMMA DisarmedIsSilent ==
  ASSUME IInv, NEW s \in Sets, sets[s] # None, NEW fd \in Numbers,
         sets[s].watched[fd] # None, sets[s].watched[fd].events = {}
  PROVE  Fires(sets[s].watched[fd]) = {}
<1> DEFINE w == sets[s].watched[fd]
           d == w.description
<1>1. d \in Slots /\ descriptions[d] # None
  BY StillOpen
<1>2. "NVAL" \notin Bits
  BY EpollAssumption DEF Bits
<1>3. "NVAL" \notin BitsOf(d)
  BY <1>1, <1>2 DEF BitsOf, EventBits
<1>4. ReadyNow(w) = {}
  BY <1>3 DEF ReadyNow, Readiness
<1> HIDE DEF w
<1> QED
  BY <1>4 DEF Fires, Reportable, w

LEMMA RecordedOnce ==
  ASSUME IInv, TellsOnce(sets), NEW s \in Sets, sets[s] # None,
         NEW delivered \in SUBSET Firing(s)
  PROVE  TellsOnce(Recorded(s, delivered))
<1> DEFINE later == Recorded(s, delivered)
<1> SUFFICES ASSUME NEW r \in Sets, NEW fd \in Numbers,
                    later[r] # None, later[r].watched[fd] # None
             PROVE  Spent(later[r].watched[fd])
  BY DEF TellsOnce
<1>1. sets[s] \in EpollSet
  BY DEF IInv, TypeOK
<1>2. CASE r # s
  <2>1. later[r] = sets[r]
    BY <1>2 DEF Recorded
  <2> QED
    BY <2>1 DEF TellsOnce
<1>3. CASE r = s
  <2> DEFINE w == sets[s].watched[fd]
  <2>1. later[s].watched = [n \in Numbers |->
                              IF Entries(s)[n] = None THEN None
                              ELSE Record(Entries(s)[n], n \in delivered)]
    BY <1>1 DEF Recorded, EpollSet, IInv, TypeOK
  <2>2. w # None /\ later[s].watched[fd] = Record(w, fd \in delivered)
    BY <1>3, <2>1 DEF Entries
  <2>3. w \in Watched /\ Spent(w)
    BY <1>1, <2>2 DEF EpollSet, TellsOnce
  <2>4. fd \in delivered => Fires(w) # {}
    BY DEF Firing
  <2>5. w.events = {} => Fires(w) = {}
    BY <2>2, DisarmedIsSilent
  <2> HIDE DEF w
  <2>6. CASE fd \in delivered /\ w.oneshot
    <3>1. w.told = 0
      BY <2>3, <2>4, <2>5, <2>6 DEF Spent
    <3>2. Record(w, TRUE).told = 1 /\ Record(w, TRUE).events = {}
      BY <2>3, <2>4, <2>6, <3>1 DEF Record, Watched
    <3> QED
      BY <1>3, <2>2, <2>6, <3>2 DEF Spent
  <2>7. CASE ~(fd \in delivered /\ w.oneshot)
    <3>1. Record(w, fd \in delivered).told = w.told
      BY <2>3, <2>7 DEF Record, Watched
    <3>2. Record(w, fd \in delivered).events \in {w.events, {}}
      BY <2>3 DEF Record, Watched
    <3> QED
      BY <1>3, <2>2, <2>3, <3>1, <3>2 DEF Spent
  <2> QED
    BY <2>6, <2>7
<1> QED
  BY <1>2, <1>3

---------------------------------------------------------------------------
(* Every step.                                                             *)

LEMMA DescribingOnce ==
  ASSUME IInv, TellsOnce(sets), NEW t \in Threads, Describing(t)
  PROVE  TellsOnce(sets')
<1>1. CASE \E count \in Initials, semaphore \in Semaphores :
             MakeEventfd(t, count, semaphore)
  BY <1>1 DEF MakeEventfd
<1>2. CASE EpollCreate(t)
  <2>1. PICK s \in Sets :
          sets' = [sets EXCEPT ![s] = [watched |-> NoEntries, references |-> 1]]
    BY <1>2 DEF EpollCreate
  <2>2. \A fd \in Numbers : NoEntries[fd] = None
    BY DEF NoEntries
  <2> QED
    BY <2>1, <2>2, MadeKeeps, KeptOnce
<1>3. ASSUME NEW fd \in Numbers, Close(t, fd)
      PROVE  TellsOnce(sets')
  <2>1. PICK table, opened : sets' = Forgotten(Reconciled(table, opened), opened, files[fd])
    BY <1>3 DEF Close
  <2> QED
    BY <2>1, ForgottenKeeps, KeptOnce
<1>4. ASSUME NEW fd \in Numbers, Dup(t, fd)
      PROVE  TellsOnce(sets')
  <2>1. PICK table, opened : sets' = Reconciled(table, opened)
    BY <1>4 DEF Dup
  <2> QED
    BY <2>1, ReconciledKeeps, KeptOnce
<1>5. ASSUME NEW old \in Numbers, NEW new \in Numbers, Dup2(t, old, new)
      PROVE  TellsOnce(sets')
  <2>1. \E table, opened :
          \/ sets' = Reconciled(table, opened)
          \/ sets' = Forgotten(Reconciled(table, opened), opened, files[new])
    BY <1>5 DEF Dup2
  <2> QED
    BY <2>1, ReconciledKeeps, ForgottenKeeps, KeptOnce
<1>6. CASE Fork(t)
  <2> SUFFICES ASSUME NEW s \in Sets, NEW fd \in Numbers, sets'[s] # None
               PROVE  /\ sets[s] # None
                      /\ sets'[s].watched[fd] = sets[s].watched[fd]
    BY KeptOnce DEF KeepsEntries
  <2>1. sets[s] # None
    BY <1>6 DEF Fork
  <2>2. sets[s] \in EpollSet
    BY <2>1 DEF IInv, TypeOK
  <2>3. PICK raised : sets'[s] = [sets[s] EXCEPT !.references = raised]
    BY <1>6, <2>1 DEF Fork
  <2> QED
    BY <2>1, <2>2, <2>3 DEF EpollSet
<1> QED
  BY <1>1, <1>2, <1>3, <1>4, <1>5, <1>6 DEF Describing

\* A registration that is made or made again is yet to be told.
LEMMA ControlOnce ==
  ASSUME IInv, TellsOnce(sets), NEW t \in Threads, NEW ep \in Numbers,
         NEW fd \in Numbers, NEW entry, IsEpoll(ep),
         entry = None \/ entry.told = 0, Control(t, ep, fd, entry)
  PROVE  TellsOnce(sets')
<1>1. SetOf(ep) \in Sets /\ sets[SetOf(ep)] \in EpollSet /\ sets[SetOf(ep)] # None
  BY EpollOf
<1>2. sets' = [sets EXCEPT ![SetOf(ep)].watched[fd] = entry]
  BY DEF Control
<1>3. sets'[SetOf(ep)].watched = [sets[SetOf(ep)].watched EXCEPT ![fd] = entry]
  BY <1>1, <1>2 DEF EpollSet, IInv, TypeOK
<1>4. \A s \in Sets : s # SetOf(ep) => sets'[s] = sets[s]
  BY <1>2
<1>5. \A n \in Numbers : sets'[SetOf(ep)].watched[n] =
        IF n = fd THEN entry ELSE sets[SetOf(ep)].watched[n]
  BY <1>1, <1>3 DEF EpollSet
<1>6. KeepsEntries(sets')
  BY <1>1, <1>4, <1>5 DEF KeepsEntries
<1> QED
  BY <1>6, KeptOnce

LEMMA RegisteringOnce ==
  ASSUME IInv, TellsOnce(sets), NEW t \in Threads, Registering(t)
  PROVE  TellsOnce(sets')
<1>1. PICK ep \in Numbers, fd \in Numbers :
        \/ \E interest \in Interests, edge \in Triggers, oneshot \in Shots :
             \/ Add(t, ep, fd, interest, edge, oneshot)
             \/ Mod(t, ep, fd, interest, edge, oneshot)
        \/ Del(t, ep, fd)
  BY DEF Registering
<1>2. \A interest, edge, oneshot :
        Registration(fd, interest, edge, oneshot).told = 0
  BY DEF Registration
<1> QED
  BY <1>1, <1>2, ControlOnce DEF Add, Mod, Del

LEMMA AskingOnce ==
  ASSUME IInv, TellsOnce(sets), NEW t \in Threads, Asking(t)
  PROVE  TellsOnce(sets')
<1>1. ASSUME NEW ep \in Numbers, NEW max \in Most, NEW timeout \in Timeouts,
             EpollWait(t, ep, max, timeout)
      PROVE  TellsOnce(sets')
  <2>1. IsEpoll(ep)
    BY <1>1 DEF EpollWait
  <2>2. SetOf(ep) \in Sets /\ sets[SetOf(ep)] # None
    BY <2>1, EpollOf
  <2>3. PICK delivered \in Written(SetOf(ep), max) :
          sets' = Recorded(SetOf(ep), delivered)
    BY <1>1 DEF EpollWait
  <2>4. delivered \in SUBSET Firing(SetOf(ep))
    BY <2>3 DEF Written
  <2> QED
    BY <2>2, <2>3, <2>4, RecordedOnce
<1>2. ASSUME NEW call \in {"poll", "select"}, NEW asked \in Asked,
             NEW interest \in Interests, NEW timeout \in Timeouts,
             PollOrSelect(t, call, asked, interest, timeout)
      PROVE  TellsOnce(sets')
  <2>1. \A fd \in Numbers : Held(asked, interest)[fd] # None =>
          Held(asked, interest)[fd].told = 0
    BY DEF Held, Registration
  <2>2. \/ UNCHANGED sets
        \/ \E s \in Sets :
             sets' = [sets EXCEPT ![s] =
                        [watched |-> Held(asked, interest), references |-> 1]]
    BY <1>2 DEF PollOrSelect
  <2> QED
    BY <2>1, <2>2, MadeKeeps, KeptOnce
<1> QED
  BY <1>1, <1>2 DEF Asking

LEMMA ResumeWatchOnce ==
  ASSUME IInv, TellsOnce(sets), NEW t \in Threads, ResumeWatch(t)
  PROVE  TellsOnce(sets')
<1>1. parked[t] # None /\ IsWatch(t) /\ Firing(parked[t].set) # {}
  BY DEF ResumeWatch, Ready, IsWatch
<1>2. parked[t] \in Watching
  BY <1>1 DEF IInv, TypeOK, Eventing, IsWatch
<1>3. parked[t].set \in Sets /\ sets[parked[t].set] # None
  BY <1>1, <1>2 DEF Watching, Firing
<1>4. \/ \E delivered \in SUBSET Firing(parked[t].set) :
           sets' = Recorded(parked[t].set, delivered)
      \/ sets' = LetGo({t})
  BY DEF ResumeWatch, Written
<1>5. KeepsEntries(LetGo({t}))
  BY <1>1, LetGoKeeps
<1> QED
  BY <1>3, <1>4, <1>5, RecordedOnce, KeptOnce

LEMMA NextOnce ==
  ASSUME IInv, TellsOnce(sets), [Next]_vars
  PROVE  TellsOnce(sets')
<1>1. ASSUME NEW t \in Threads, Moving(t)
      PROVE  TellsOnce(sets')
  BY <1>1 DEF Moving, Transfer
<1>2. CASE Resuming
  BY <1>2, ResumeWatchOnce DEF Resuming, ResumeEvent
<1>3. ASSUME NEW t \in Threads, TimesOut(t)
      PROVE  TellsOnce(sets')
  <2>1. parked[t] # None /\ IsWatch(t) /\ sets' = LetGo({t})
    BY <1>3 DEF TimesOut, NextToLookAt, IInv, LookingAtParked, InUse
  <2>2. KeepsEntries(LetGo({t}))
    BY <2>1, LetGoKeeps
  <2> QED
    BY <2>1, <2>2, KeptOnce
<1>4. ASSUME NEW S \in SUBSET InUse(parked), Expire(S)
      PROVE  TellsOnce(sets')
  <2>1. S \in SUBSET Threads /\ \A t \in S : parked[t] # None
    BY DEF InUse, IInv, TypeOK
  <2>2. sets' = LetGo(S) /\ \A t \in S : IsWatch(t)
    BY <1>4 DEF Expire
  <2>3. KeepsEntries(LetGo(S))
    BY <2>1, <2>2, LetGoKeeps
  <2> QED
    BY <2>2, <2>3, KeptOnce
<1>5. CASE UNCHANGED sets
  BY <1>5
<1>6. ASSUME NEW id \in Counters, Elsewhere(id)
      PROVE  UNCHANGED sets
  BY <1>6 DEF Elsewhere
<1>7. TakeTurn \/ EndTurn \/ UNCHANGED vars => UNCHANGED sets
  BY DEF TakeTurn, EndTurn, vars
<1> QED
  BY <1>1, <1>2, <1>3, <1>4, <1>5, <1>6, <1>7,
     DescribingOnce, RegisteringOnce, AskingOnce DEF Next

(***************************************************************************)
(* A one-shot registration is told to one waiter once until it is armed    *)
(* again, for any number of threads waiting on the set and descriptors     *)
(* closed, copied and reused under it (Epolls::record, poll.rs).           *)
(***************************************************************************)
THEOREM OneshotTold == Spec => []OneshotIsOnce
<1>1. Init => TellsOnce(sets)
  BY DEF Init, TellsOnce
<1>2. IInv /\ TellsOnce(sets) /\ [Next]_vars => TellsOnce(sets)'
  BY NextOnce DEF TellsOnce
<1>3. IInv /\ TellsOnce(sets) => OneshotIsOnce
  <2> SUFFICES ASSUME IInv, TellsOnce(sets), NEW s \in InUse(sets),
                      NEW fd \in InUse(Entries(s))
               PROVE  Entries(s)[fd].told <= 1
    BY DEF OneshotIsOnce
  <2>1. s \in Sets /\ sets[s] # None /\ sets[s] \in EpollSet
    BY DEF InUse, IInv, TypeOK
  <2>2. fd \in Numbers /\ sets[s].watched[fd] # None
    BY <2>1 DEF InUse, Entries, EpollSet
  <2>3. Spent(sets[s].watched[fd])
    BY <2>1, <2>2 DEF TellsOnce
  <2> QED
    BY <2>3 DEF Spent, Entries
<1> QED
  BY <1>1, <1>2, <1>3, Invariance, PTL DEF Spec

---------------------------------------------------------------------------
(* Timeouts.  What woke a wait is looked at again when it is answered, in  *)
(* the same step and from the same set, so an answer of zero means that    *)
(* the time was up.                                                        *)

MaxesArePositive ==
  \A t \in Threads : parked[t] # None /\ parked[t].call = "epoll"
                       => parked[t].max \in Nat \ {0}

\* What may be parked on: what was, nothing, or a wait with room in it.
Roomy(x) == x # None /\ x.call = "epoll" => x.max \in Nat \ {0}

LEMMA StaysRoomy ==
  ASSUME TypeOK, MaxesArePositive,
         \A t \in Threads : parked'[t] = parked[t] \/ Roomy(parked'[t])
  PROVE  MaxesArePositive'
BY DEF MaxesArePositive, Roomy

LEMMA ParksRoomy ==
  ASSUME TypeOK, MaxesArePositive, NEW t \in Threads, NEW x,
         parked' = [parked EXCEPT ![t] = x], Roomy(x)
  PROVE  MaxesArePositive'
<1>1. \A u \in Threads : parked'[u] = IF u = t THEN x ELSE parked[u]
  BY DEF TypeOK
<1> QED
  BY <1>1, StaysRoomy

LEMMA AskingRoomy ==
  ASSUME IInv, MaxesArePositive, NEW t \in Threads, Asking(t)
  PROVE  MaxesArePositive'
<1> TypeOK
  BY DEF IInv
<1>1. ASSUME NEW ep \in Numbers, NEW max \in Most, NEW timeout \in Timeouts,
             EpollWait(t, ep, max, timeout)
      PROVE  MaxesArePositive'
  <2> DEFINE x == Wait("epoll", SetOf(ep), {}, {}, max, timeout)
  <2>1. max \in Nat \ {0} /\ x.max = max
    BY EpollAssumption DEF Wait
  <2>2. Roomy(x)
    BY <2>1 DEF Roomy
  <2>3. UNCHANGED parked \/ parked' = [parked EXCEPT ![t] = x]
    BY <1>1 DEF EpollWait, Done, Parks
  <2> HIDE DEF x
  <2> QED
    BY <2>2, <2>3, ParksRoomy DEF MaxesArePositive
<1>2. ASSUME NEW call \in {"poll", "select"}, NEW asked \in Asked,
             NEW interest \in Interests, NEW timeout \in Timeouts,
             PollOrSelect(t, call, asked, interest, timeout)
      PROVE  MaxesArePositive'
  <2>1. \/ UNCHANGED parked
        \/ \E s \in Sets :
             parked' = [parked EXCEPT ![t] = Wait(call, s, asked, interest, 0, timeout)]
    BY <1>2 DEF PollOrSelect, Done, Parks
  <2>2. \A s \in Sets : Roomy(Wait(call, s, asked, interest, 0, timeout))
    BY DEF Roomy, Wait
  <2> QED
    BY <2>1, <2>2, ParksRoomy DEF MaxesArePositive
<1> QED
  BY <1>1, <1>2 DEF Asking

LEMMA MovingRoomy ==
  ASSUME IInv, MaxesArePositive, NEW t \in Threads, Moving(t)
  PROVE  MaxesArePositive'
<1> TypeOK
  BY DEF IInv
<1>1. ASSUME NEW fd \in Numbers, NEW writing, NEW value, Transfer(t, fd, writing, value)
      PROVE  MaxesArePositive'
  <2> DEFINE x == [call |-> "event", event |-> BackingOf(fd).id, writing |-> writing,
                   value |-> value]
  <2>1. UNCHANGED parked \/ parked' = [parked EXCEPT ![t] = x]
    BY <1>1 DEF Transfer, Done, Parks
  <2>2. Roomy(x)
    BY DEF Roomy
  <2> HIDE DEF x
  <2> QED
    BY <2>1, <2>2, ParksRoomy DEF MaxesArePositive
<1> QED
  BY <1>1 DEF Moving

\* A call is made by a thread that may, and parks nobody else.
LEMMA CallersMove ==
  ASSUME NEW u \in Threads, Describing(u) \/ Registering(u) \/ Asking(u) \/ Moving(u)
  PROVE  /\ CanCall(u)
         /\ UNCHANGED parked \/ \E x : parked' = [parked EXCEPT ![u] = x]
         /\ Describing(u) \/ Registering(u) => UNCHANGED parked
<1>1. ASSUME Describing(u)
      PROVE  CanCall(u) /\ UNCHANGED parked
  <2>1. ASSUME NEW fd \in Numbers, Close(u, fd) \/ Dup(u, fd)
        PROVE  CanCall(u) /\ UNCHANGED parked
    BY <2>1 DEF Close, Dup, Done
  <2>2. ASSUME NEW old \in Numbers, NEW new \in Numbers, Dup2(u, old, new)
        PROVE  CanCall(u) /\ UNCHANGED parked
    BY <2>2 DEF Dup2, Done
  <2>3. ASSUME NEW count, NEW semaphore, MakeEventfd(u, count, semaphore)
        PROVE  CanCall(u) /\ UNCHANGED parked
    BY <2>3 DEF MakeEventfd, Done
  <2>4. EpollCreate(u) \/ Fork(u) => CanCall(u) /\ UNCHANGED parked
    BY DEF EpollCreate, Fork, Done
  <2> QED
    BY <1>1, <2>1, <2>2, <2>3, <2>4 DEF Describing
<1>2. ASSUME Registering(u)
      PROVE  CanCall(u) /\ UNCHANGED parked
  <2>1. PICK ep, fd, entry : Control(u, ep, fd, entry)
    BY <1>2 DEF Registering, Add, Mod, Del
  <2> QED
    BY <2>1 DEF Control, Done
<1>3. ASSUME Asking(u)
      PROVE  CanCall(u) /\ (UNCHANGED parked \/ \E x : parked' = [parked EXCEPT ![u] = x])
  <2>1. ASSUME NEW ep, NEW max, NEW timeout, EpollWait(u, ep, max, timeout)
        PROVE  CanCall(u) /\ (UNCHANGED parked \/ \E x : parked' = [parked EXCEPT ![u] = x])
    BY <2>1 DEF EpollWait, Done, Parks
  <2>2. ASSUME NEW call, NEW asked, NEW interest, NEW timeout,
               PollOrSelect(u, call, asked, interest, timeout)
        PROVE  CanCall(u) /\ (UNCHANGED parked \/ \E x : parked' = [parked EXCEPT ![u] = x])
    BY <2>2 DEF PollOrSelect, Done, Parks
  <2> QED
    BY <1>3, <2>1, <2>2 DEF Asking
<1>4. ASSUME Moving(u)
      PROVE  CanCall(u) /\ (UNCHANGED parked \/ \E x : parked' = [parked EXCEPT ![u] = x])
  <2>1. PICK fd, writing, value : Transfer(u, fd, writing, value)
    BY <1>4 DEF Moving
  <2> QED
    BY <2>1 DEF Transfer, Done, Parks
<1>5. Describing(u) \/ Registering(u) => CanCall(u) /\ UNCHANGED parked
  BY <1>1, <1>2
<1> QED
  BY <1>3, <1>4, <1>5

LEMMA NextRoomy ==
  ASSUME IInv, MaxesArePositive, [Next]_vars
  PROVE  MaxesArePositive'
<1> TypeOK /\ Roomy(None)
  BY DEF IInv, Roomy
<1>1. ASSUME NEW t \in Threads, NEW value, Answers(t, value)
      PROVE  MaxesArePositive'
  BY <1>1, ParksRoomy DEF Answers
<1>2. CASE Resuming
  BY <1>1, <1>2 DEF Resuming, ResumeEvent, ResumeWatch
<1>3. ASSUME NEW t \in Threads, TimesOut(t)
      PROVE  MaxesArePositive'
  BY <1>1, <1>3 DEF TimesOut
<1>4. ASSUME NEW S \in SUBSET InUse(parked), Expire(S)
      PROVE  MaxesArePositive'
  BY <1>4, StaysRoomy DEF Expire
<1>5. ASSUME NEW t \in Threads, Describing(t) \/ Registering(t)
      PROVE  UNCHANGED parked
  BY <1>5, CallersMove
<1>6. (\E id \in Counters : Elsewhere(id)) \/ TakeTurn \/ EndTurn \/ UNCHANGED vars
        => UNCHANGED parked
  BY DEF Elsewhere, TakeTurn, EndTurn, vars
<1>7. UNCHANGED parked => MaxesArePositive'
  BY DEF MaxesArePositive
<1> QED
  BY <1>2, <1>3, <1>4, <1>5, <1>6, <1>7, AskingRoomy, MovingRoomy DEF Next

\* What fires is written out, if there is room for any of it.
LEMMA WrittenIsSome ==
  ASSUME IInv, NEW s \in Sets, Firing(s) # {}, NEW max \in Nat \ {0},
         NEW delivered \in Written(s, max)
  PROVE  Cardinality(delivered) # 0
<1>1. sets[s] # None /\ sets[s] \in EpollSet
  BY DEF Firing, IInv, TypeOK
<1>2. Firing(s) \in SUBSET Numbers
  BY <1>1 DEF Firing, InUse, EpollSet
<1>3. IsFiniteSet(Firing(s))
  BY <1>2, EpollAssumption, FS_Subset
<1>4. Cardinality(Firing(s)) \in Nat /\ Cardinality(Firing(s)) # 0
  BY <1>3, FS_CardinalityType, FS_EmptySet
<1>5. Cardinality(delivered) \in {Cardinality(Firing(s)), max}
  BY DEF Written
<1> QED
  BY <1>4, <1>5

\* What fires has a bit a select counts: no entry is on a closed description.
LEMMA SelectIsSome ==
  ASSUME IInv, NEW s \in Sets, Firing(s) # {}
  PROVE  SelectAnswer(Entries(s)) # 0
<1> DEFINE D == {x \in InUse(Entries(s)) \X Bits : x[2] \in ReadyNow(Entries(s)[x[1]])}
<1>1. sets[s] # None /\ sets[s] \in EpollSet
  BY DEF Firing, IInv, TypeOK
<1>2. InUse(Entries(s)) \in SUBSET Numbers
  BY <1>1 DEF InUse, Entries, EpollSet
<1>3. PICK fd \in InUse(Entries(s)) : Fires(Entries(s)[fd]) # {}
  BY <1>1 DEF Firing, Entries
<1>4. PICK b : b \in ReadyNow(Entries(s)[fd])
  BY <1>3 DEF Fires, Reportable
<1>5. descriptions[Entries(s)[fd].description] # None
  BY <1>1, <1>3 DEF IInv, TypeOK, WatchedAreOpen, InUse
<1>6. b \in Bits
  <2>1. BitsOf(Entries(s)[fd].description) \subseteq Bits /\ "IN" \in Bits
    BY <1>5 DEF BitsOf, EventBits, Bits
  <2> QED
    BY <1>4, <2>1 DEF ReadyNow, Readiness
<1>7. <<fd, b>> \in D
  BY <1>3, <1>4, <1>6
<1>8. D \in SUBSET (Numbers \X Bits)
  BY <1>2
<1>9. SelectAnswer(Entries(s)) = Cardinality(D)
  BY DEF SelectAnswer
<1> HIDE DEF D
<1>10. IsFiniteSet(D)
  <2>1. IsFiniteSet(Bits)
    <3>1. Bits = {"IN"} \cup {"OUT"}
      BY DEF Bits
    <3> QED
      BY <3>1, FS_Singleton, FS_Union
  <2>2. IsFiniteSet(Numbers \X Bits)
    BY <2>1, EpollAssumption, FS_Product
  <2> QED
    BY <1>8, <2>2, FS_Subset
<1> QED
  BY <1>7, <1>9, <1>10, FS_EmptySet

\* A resumed epoll_wait or select is answered with something.
LEMMA ResumedWithSome ==
  ASSUME IInv, MaxesArePositive, NEW t \in Threads, ResumeWatch(t),
         parked[t].call \in {"epoll", "select"}
  PROVE  rax' # 0
<1> DEFINE x == parked[t]
<1>1. x # None /\ Firing(x.set) # {}
  BY DEF ResumeWatch, Ready, IsWatch
<1>2. x \in Watching
  BY <1>1 DEF IInv, TypeOK, Eventing
<1>3. x.set \in Sets
  BY <1>2 DEF Watching
<1>4. ASSUME x.call = "epoll", NEW delivered \in Written(x.set, x.max)
      PROVE  Cardinality(delivered) # 0
  <2>1. x.max \in Nat \ {0}
    BY <1>1, <1>4 DEF MaxesArePositive
  <2> QED
    BY <1>1, <1>3, <1>4, <2>1, WrittenIsSome
<1>5. SelectAnswer(Entries(x.set)) # 0
  BY <1>1, <1>3, SelectIsSome
<1>6. EFAULT # 0
  BY DEF EFAULT
<1>7. \/ /\ x.call = "epoll"
         /\ \E delivered \in Written(x.set, x.max) : rax' = Cardinality(delivered)
      \/ x.call = "poll"
      \/ rax' = SelectAnswer(Entries(x.set))
      \/ rax' = EFAULT
  BY DEF ResumeWatch, Answers
<1> QED
  BY <1>4, <1>5, <1>6, <1>7

LEMMA NoneUnparked ==
  ASSUME IInv, MaxesArePositive, [Next]_vars, NEW t \in Threads,
         parked[t] # None, parked'[t] = None, IsWatch(t),
         parked[t].call \in {"epoll", "select"}, ~parked[t].deadline
  PROVE  rax' # 0
<1>1. \A u \in Threads : CanCall(u) => u # t
  BY DEF CanCall
<1>2. ASSUME NEW u \in Threads, NEW x,
             parked' = [parked EXCEPT ![u] = x]
      PROVE  u = t
  BY <1>2 DEF IInv, TypeOK
<1>3. ASSUME NEW u \in Threads,
             Describing(u) \/ Registering(u) \/ Asking(u) \/ Moving(u)
      PROVE  FALSE
  BY <1>1, <1>2, <1>3, CallersMove
<1>4. ASSUME NEW u \in Threads, ResumeEvent(u)
      PROVE  FALSE
  <2>1. ~IsWatch(u) /\ \E value : Answers(u, value)
    BY <1>4 DEF ResumeEvent
  <2>2. u = t
    BY <1>2, <2>1 DEF Answers
  <2> QED
    BY <2>1, <2>2
<1>5. ASSUME NEW u \in Threads, ResumeWatch(u)
      PROVE  rax' # 0
  <2>1. \E value : Answers(u, value)
    BY <1>5 DEF ResumeWatch
  <2>2. u = t
    BY <1>2, <2>1 DEF Answers
  <2> QED
    BY <1>5, <2>2, ResumedWithSome
<1>6. ASSUME NEW u \in Threads, TimesOut(u)
      PROVE  FALSE
  <2>1. parked[u].deadline /\ Answers(u, 0)
    BY <1>6 DEF TimesOut
  <2>2. u = t
    BY <1>2, <2>1 DEF Answers
  <2> QED
    BY <2>1, <2>2
<1>7. ASSUME NEW S \in SUBSET InUse(parked), Expire(S)
      PROVE  FALSE
  BY <1>7 DEF Expire
<1>8. ~UNCHANGED parked
  OBVIOUS
<1>9. (\E id \in Counters : Elsewhere(id)) \/ TakeTurn \/ EndTurn \/ UNCHANGED vars
         => UNCHANGED parked
  BY DEF Elsewhere, TakeTurn, EndTurn, vars
<1> QED
  BY <1>3, <1>4, <1>5, <1>6, <1>7, <1>8, <1>9 DEF Next, Resuming

(***************************************************************************)
(* An epoll_wait or a select that parked for ever never comes back with    *)
(* zero, for any number of threads taking what woke it in the same step    *)
(* (resume_watches, report_ready).  It rests on two facts of the set: it   *)
(* still exists, and nothing in it is on a closed description, which would *)
(* wake a select and be counted by no bit of its answer.                   *)
(***************************************************************************)
THEOREM ZeroIsATimeout == Spec => NoFalseTimeout
<1>1. Init => MaxesArePositive
  BY DEF Init, MaxesArePositive
<1>2. IInv /\ MaxesArePositive /\ [Next]_vars => MaxesArePositive'
  BY NextRoomy
<1>3. IInv /\ MaxesArePositive /\ [Next]_vars =>
        [\A t \in Threads :
           parked[t] # None /\ parked'[t] = None /\ IsWatch(t)
           /\ parked[t].call \in {"epoll", "select"} /\ ~parked[t].deadline
           => rax' # 0]_vars
  BY NoneUnparked
<1> QED
  BY <1>1, <1>2, <1>3, Invariance, PTL DEF Spec, NoFalseTimeout

=============================================================================
