---------------------------- MODULE PipesProofs ----------------------------
(***************************************************************************)
(* What is proved of the pipes for any number of processes, threads,       *)
(* descriptors and ring slots, any capacity and any write sizes.           *)
(*                                                                         *)
(* The invariant is one statement about the whole process tree: every      *)
(* count in the arena is the number of descriptors on that end, in every   *)
(* table, and a slot is in use exactly while some descriptor names it.     *)
(* Neither half is inductive alone.  reconcile_shared does nothing to a    *)
(* freed slot, so the counts stay right only because no descriptor ever    *)
(* names one; and no descriptor ever names one only because the counts     *)
(* that free it are right.                                                 *)
(***************************************************************************)
EXTENDS Pipes, FunctionTheorems, FiniteSetTheorems, SequenceTheorems,
        TLAPS

\* The descriptors on an end, in any assignment of tables to processes.
HoldersIn(f, s, e) ==
  {h \in Procs \X Fds : h[2] \in Naming(f[h[1]], s, e)}

\* The tables once process p's is replaced.
Retabled(f, p, table) == [f EXCEPT ![p] = table]

\* A table that names nothing the process tree does not already name.
Drawn(table) ==
  \A fd \in Open(table) :
    \E h \in Procs \X Fds :
      /\ h[2] \in Open(files[h[1]])
      /\ files[h[1]][h[2]].ring = table[fd].ring
      /\ files[h[1]][h[2]].end = table[fd].end
      /\ files[h[1]][h[2]].pipe = table[fd].pipe

IInv == TypeOK /\ EndsAreCounted /\ SlotsAreOwned

---------------------------------------------------------------------------
(* Counting descriptors.                                                   *)

\* A table's descriptors on an end can be counted.
LEMMA CensusType ==
  ASSUME NEW table, NEW s, NEW e
  PROVE  /\ IsFiniteSet(Naming(table, s, e))
         /\ Cardinality(Naming(table, s, e)) \in Nat
<1>1. Naming(table, s, e) \in SUBSET Fds
  BY DEF Naming, Open
<1>2. IsFiniteSet(Fds)
  BY PipesAssumption
<1> QED
  BY <1>1, <1>2, FS_Subset, FS_CardinalityType

\* So can the whole process tree's.
LEMMA HoldersType ==
  ASSUME NEW f, NEW s, NEW e
  PROVE  /\ IsFiniteSet(HoldersIn(f, s, e))
         /\ Cardinality(HoldersIn(f, s, e)) \in Nat
<1>1. IsFiniteSet(Procs \X Fds)
  BY PipesAssumption, FS_Product
<1>2. HoldersIn(f, s, e) \in SUBSET (Procs \X Fds)
  BY DEF HoldersIn
<1> QED
  BY <1>1, <1>2, FS_Subset, FS_CardinalityType

\* A table's share of the tree's holders is as large as its own census.
LEMMA ShareOf ==
  ASSUME NEW p, NEW S, IsFiniteSet(S)
  PROVE  /\ IsFiniteSet({p} \X S)
         /\ Cardinality({p} \X S) = Cardinality(S)
<1>1. /\ IsFiniteSet({p})
      /\ Cardinality({p}) = 1
      /\ Cardinality(S) \in Nat
  BY FS_Singleton, FS_CardinalityType
<1>2. /\ IsFiniteSet({p} \X S)
      /\ Cardinality({p} \X S) = Cardinality({p}) * Cardinality(S)
  BY <1>1, FS_Product
<1> QED
  BY <1>1, <1>2

(***************************************************************************)
(* Replacing one process's table moves the tree's count by the difference  *)
(* of the two censuses, which is what reconcile_shared relies on.          *)
(***************************************************************************)
LEMMA CountMoves ==
  ASSUME NEW f \in [Procs -> Table], NEW p \in Procs, NEW table \in Table,
         NEW s, NEW e
  PROVE  Cardinality(HoldersIn(Retabled(f, p, table), s, e))
           = Cardinality(HoldersIn(f, s, e))
               - Cardinality(Naming(f[p], s, e))
               + Cardinality(Naming(table, s, e))
<1> DEFINE Rest == {h \in HoldersIn(f, s, e) : h[1] # p}
           Old  == {p} \X Naming(f[p], s, e)
           New  == {p} \X Naming(table, s, e)
<1>1. /\ HoldersIn(f, s, e) = Rest \cup Old
      /\ HoldersIn(Retabled(f, p, table), s, e) = Rest \cup New
  BY DEF HoldersIn, Naming, Open, Retabled
<1>2. Rest \cap Old = {} /\ Rest \cap New = {}
  OBVIOUS
<1>3. IsFiniteSet(Rest) /\ Cardinality(Rest) \in Nat
  BY HoldersType, FS_Subset, FS_CardinalityType
<1>4. /\ IsFiniteSet(Old) /\ Cardinality(Old) = Cardinality(Naming(f[p], s, e))
      /\ IsFiniteSet(New) /\ Cardinality(New) = Cardinality(Naming(table, s, e))
      /\ Cardinality(Naming(f[p], s, e)) \in Nat
      /\ Cardinality(Naming(table, s, e)) \in Nat
  BY CensusType, ShareOf
<1>5. Cardinality(Rest \cap Old) = 0 /\ Cardinality(Rest \cap New) = 0
  BY <1>2, FS_EmptySet, Zenon
<1> HIDE DEF Rest, Old, New
<1>6. /\ Cardinality(Rest \cup Old) = Cardinality(Rest) + Cardinality(Old)
      /\ Cardinality(Rest \cup New) = Cardinality(Rest) + Cardinality(New)
  <2>1. /\ Cardinality(Rest \cup Old)
             = Cardinality(Rest) + Cardinality(Old) - Cardinality(Rest \cap Old)
        /\ Cardinality(Rest \cup New)
             = Cardinality(Rest) + Cardinality(New) - Cardinality(Rest \cap New)
    BY <1>3, <1>4, FS_Union
  <2> QED
    BY <1>3, <1>4, <1>5, <2>1
<1>7. /\ Cardinality(HoldersIn(f, s, e)) = Cardinality(Rest \cup Old)
      /\ Cardinality(HoldersIn(Retabled(f, p, table), s, e))
           = Cardinality(Rest \cup New)
  BY <1>1, Zenon
<1> QED
  BY <1>3, <1>4, <1>6, <1>7

\* A table's own descriptors are among the tree's.
LEMMA CensusBound ==
  ASSUME NEW f \in [Procs -> Table], NEW p \in Procs, NEW s, NEW e
  PROVE  Cardinality(Naming(f[p], s, e)) <= Cardinality(HoldersIn(f, s, e))
<1>1. {p} \X Naming(f[p], s, e) \in SUBSET HoldersIn(f, s, e)
  BY DEF HoldersIn, Naming, Open
<1>2. Cardinality({p} \X Naming(f[p], s, e)) <= Cardinality(HoldersIn(f, s, e))
  BY <1>1, HoldersType, FS_Subset
<1> QED
  BY <1>2, ShareOf, CensusType

---------------------------------------------------------------------------
\* The two records a slot is ever set to outright.
LEMMA FreeIsARing ==
  FreeRing \in RingRecord /\ NewRing \in RingRecord
<1>1. << >> \in Seq(Byte) /\ Len(<< >>) = 0
  BY EmptySeq
<1> QED
  BY <1>1, RingAssumption DEF FreeRing, NewRing, RingRecord, Queued

\* A descriptor is on end e of the ring in slot s.
Names(d, s, e) == d # NoFile /\ d.ring = s /\ d.end = e

\* An end's holders are the descriptors that name it.
LEMMA HoldersNamed ==
  \A f, s, e :
    HoldersIn(f, s, e) = {h \in Procs \X Fds : Names(f[h[1]][h[2]], s, e)}
BY DEF HoldersIn, Naming, Open, Names

\* Where the tables and the counts are as they were, so are the ends.
LEMMA EndsStay ==
  ASSUME EndsAreCounted, SlotsAreOwned, UNCHANGED <<files, pipe>>,
         \A i \in Slots : /\ rings'[i].readers = rings[i].readers
                          /\ rings'[i].writers = rings[i].writers
                          /\ rings'[i] = FreeRing <=> rings[i] = FreeRing
  PROVE  EndsAreCounted' /\ SlotsAreOwned'
<1>1. \A i, e : HoldersIn(files', i, e) = HoldersIn(files, i, e)
  OBVIOUS
<1>2. EndsAreCounted'
  <2> SUFFICES ASSUME NEW i \in Slots
               PROVE  /\ rings'[i].readers = Cardinality(HoldersIn(files', i, "Read"))
                      /\ rings'[i].writers = Cardinality(HoldersIn(files', i, "Write"))
    BY Zenon DEF EndsAreCounted, Holders, HoldersIn
  <2>1. /\ rings[i].readers = Cardinality(HoldersIn(files, i, "Read"))
        /\ rings[i].writers = Cardinality(HoldersIn(files, i, "Write"))
    BY Zenon DEF EndsAreCounted, Holders, HoldersIn
  <2> QED
    BY <1>1, <2>1
<1>3. SlotsAreOwned'
  <2> SUFFICES ASSUME NEW i \in Slots
               PROVE  /\ \A e \in End : \A h \in HoldersIn(files', i, e) :
                           /\ rings'[i] # FreeRing
                           /\ files'[h[1]][h[2]].pipe = pipe'[i]
                      /\ HoldersIn(files', i, "Read") = {}
                           /\ HoldersIn(files', i, "Write") = {}
                           => rings'[i] = FreeRing
    BY Zenon DEF SlotsAreOwned, Holders, HoldersIn
  <2>1. /\ \A e \in End : \A h \in HoldersIn(files, i, e) :
             /\ rings[i] # FreeRing
             /\ files[h[1]][h[2]].pipe = pipe[i]
        /\ HoldersIn(files, i, "Read") = {} /\ HoldersIn(files, i, "Write") = {}
             => rings[i] = FreeRing
    BY Zenon DEF SlotsAreOwned, Holders, HoldersIn
  <2>2. rings'[i] = FreeRing <=> rings[i] = FreeRing
    OBVIOUS
  <2> QED
    BY <1>1, <2>1, <2>2, Zenon
<1> QED
  BY <1>2, <1>3

\* A free slot has no holders, and a slot in use has one.
LEMMA FreeIsUnheld ==
  ASSUME IInv, NEW s \in Slots
  PROVE  /\ rings[s] = FreeRing =>
              \A e \in End : HoldersIn(files, s, e) = {}
         /\ rings[s] # FreeRing => rings[s].readers > 0 \/ rings[s].writers > 0
<1>1. \A e \in End : HoldersIn(files, s, e) # {} => rings[s] # FreeRing
  BY DEF IInv, SlotsAreOwned, Holders, HoldersIn
<1>2. CASE rings[s] # FreeRing
  <2>1. PICK e \in End : HoldersIn(files, s, e) # {}
    BY <1>2 DEF IInv, SlotsAreOwned, Holders, HoldersIn, End
  <2>2. Cardinality(HoldersIn(files, s, e)) > 0
    BY <2>1, HoldersType, FS_EmptySet
  <2>3. e = "Read" \/ e = "Write"
    BY DEF End
  <2> QED
    BY <1>2, <2>2, <2>3 DEF IInv, EndsAreCounted, Holders, HoldersIn
<1> QED
  BY <1>1, <1>2

\* A table drawn from the tree's own descriptors names no free slot.
LEMMA DrawnIsHeld ==
  ASSUME NEW table, Drawn(table), NEW s, NEW e,
         HoldersIn(files, s, e) = {}
  PROVE  Naming(table, s, e) = {}
BY DEF Drawn, Naming, HoldersIn

(***************************************************************************)
(* After reconcile_shared, a slot's counts are again the tree's, and it is *)
(* free exactly when nobody is left on it.                                 *)
(***************************************************************************)
LEMMA SlotReconciled ==
  ASSUME IInv, NEW p \in Procs, NEW table \in Table, Drawn(table),
         NEW s \in Slots, NEW r, NEW f,
         r = Reconciled(rings[s], Census(files[p], s), Census(table, s)),
         f = Retabled(files, p, table)
  PROVE  /\ r \in RingRecord
         /\ r.readers = Cardinality(HoldersIn(f, s, "Read"))
         /\ r.writers = Cardinality(HoldersIn(f, s, "Write"))
         /\ r = FreeRing <=> r.readers = 0 /\ r.writers = 0
<1> DEFINE was(e) == Cardinality(Naming(files[p], s, e))
           now(e) == Cardinality(Naming(table, s, e))
           C(e)   == Cardinality(HoldersIn(files, s, e))
           D(e)   == Cardinality(HoldersIn(f, s, e))
<1>1. files \in [Procs -> Table] /\ rings[s] \in RingRecord
  BY DEF IInv, TypeOK
<1>2. \A e : was(e) \in Nat /\ now(e) \in Nat /\ C(e) \in Nat /\ D(e) \in Nat
  BY CensusType, HoldersType
<1>3. \A e : D(e) = C(e) - was(e) + now(e) /\ was(e) <= C(e)
  <2> SUFFICES ASSUME NEW e
               PROVE  D(e) = C(e) - was(e) + now(e) /\ was(e) <= C(e)
    OBVIOUS
  <2>1. D(e) = C(e) - was(e) + now(e)
    BY <1>1, CountMoves
  <2>2. was(e) <= C(e)
    BY <1>1, CensusBound
  <2> QED
    BY <2>1, <2>2
<1>4. rings[s].readers = C("Read") /\ rings[s].writers = C("Write")
  BY DEF IInv, EndsAreCounted, Holders, HoldersIn
<1>5. /\ Census(files[p], s)["Read"] = was("Read")
      /\ Census(files[p], s)["Write"] = was("Write")
      /\ Census(table, s)["Read"] = now("Read")
      /\ Census(table, s)["Write"] = now("Write")
  BY DEF Census, End
<1>6. CASE rings[s] = FreeRing
  <2>1. \A e \in End : HoldersIn(files, s, e) = {}
    BY <1>6, FreeIsUnheld
  <2>2. \A e \in End : Naming(table, s, e) = {}
    BY <2>1, DrawnIsHeld
  <2>3. \A e \in End : now(e) = 0
    BY <2>2, FS_EmptySet, Zenon
  <2>4. r = FreeRing
    BY <1>6 DEF Reconciled
  <2>5. C("Read") = 0 /\ C("Write") = 0
    BY <1>4, <1>6 DEF FreeRing
  <2>6. D("Read") = 0 /\ D("Write") = 0
    <3> HIDE DEF was, now, C, D
    <3> QED
      BY <1>2, <1>3, <2>3, <2>5 DEF End
  <2> QED
    BY <1>1, <1>6, <2>4, <2>6 DEF FreeRing
<1>7. CASE rings[s] # FreeRing
  <2> DEFINE q == [rings[s] EXCEPT
                    !.readers = Adjusted(@, was("Read"), now("Read")),
                    !.writers = Adjusted(@, was("Write"), now("Write"))]
  <2>1. r = FreeIfUnused(q)
    BY <1>5, <1>7 DEF Reconciled
  <2>2. /\ Adjusted(C("Read"), was("Read"), now("Read")) = D("Read")
        /\ Adjusted(C("Write"), was("Write"), now("Write")) = D("Write")
    <3> HIDE DEF was, now, C, D
    <3> QED
      BY <1>2, <1>3 DEF Adjusted, SaturatingSub
  <2>3. /\ q \in RingRecord
        /\ q.readers = D("Read") /\ q.writers = D("Write")
        /\ q.attached = 0
    <3>1. q = [rings[s] EXCEPT !.readers = D("Read"), !.writers = D("Write")]
      BY <1>1, <1>4, <2>2 DEF RingRecord
    <3> HIDE DEF q, D
    <3> QED
      BY <1>1, <1>2, <3>1 DEF RingRecord, Queued
  <2>4. FreeRing \in RingRecord
    BY FreeIsARing
  <2> HIDE DEF q
  <2> QED
    BY <1>2, <2>1, <2>3, <2>4 DEF FreeIfUnused, FreeRing
<1> QED
  BY <1>6, <1>7

---------------------------------------------------------------------------
(* The three ways a step touches the arena.                                *)

(***************************************************************************)
(* Every call that only replaces a table: dup, dup3, close, close_range,   *)
(* fork, execve, exit and kill.                                            *)
(***************************************************************************)
LEMMA TableReplaced ==
  ASSUME IInv, NEW p \in Procs, NEW table \in Table, Drawn(table),
         SetTable(p, table), pipe' = pipe
  PROVE  /\ rings' \in [Slots -> RingRecord]
         /\ files' \in [Procs -> Table]
         /\ EndsAreCounted'
         /\ SlotsAreOwned'
<1> DEFINE f == Retabled(files, p, table)
           r(s) == Reconciled(rings[s], Census(files[p], s), Census(table, s))
<1>1. files' = f /\ rings' = [s \in Slots |-> r(s)]
  BY DEF SetTable, Retabled
<1>2. ASSUME NEW s \in Slots
      PROVE  /\ rings'[s] \in RingRecord
             /\ rings'[s].readers = Cardinality(HoldersIn(f, s, "Read"))
             /\ rings'[s].writers = Cardinality(HoldersIn(f, s, "Write"))
             /\ rings'[s] = FreeRing <=>
                  rings'[s].readers = 0 /\ rings'[s].writers = 0
  <2>1. rings'[s] = r(s)
    BY <1>1
  <2> HIDE DEF f, r
  <2>2. f = Retabled(files, p, table) /\ r(s) =
          Reconciled(rings[s], Census(files[p], s), Census(table, s))
    BY DEF f, r
  <2> QED
    BY <2>1, <2>2, SlotReconciled
<1>3. files \in [Procs -> Table]
  BY DEF IInv, TypeOK
<1>4. files' \in [Procs -> Table]
  BY <1>1, <1>3 DEF Retabled
<1>5. EndsAreCounted'
  BY <1>1, <1>2 DEF EndsAreCounted, Holders, HoldersIn
<1>6. SlotsAreOwned'
  <2> SUFFICES ASSUME NEW s \in Slots
               PROVE  /\ \A e \in End : \A h \in HoldersIn(f, s, e) :
                           /\ rings'[s] # FreeRing
                           /\ f[h[1]][h[2]].pipe = pipe[s]
                      /\ HoldersIn(f, s, "Read") = {} /\ HoldersIn(f, s, "Write") = {}
                           => rings'[s] = FreeRing
    BY <1>1 DEF SlotsAreOwned, Holders, HoldersIn
  <2>1. ASSUME NEW e \in End, NEW h \in HoldersIn(f, s, e)
        PROVE  rings'[s] # FreeRing
    <3>1. Cardinality(HoldersIn(f, s, e)) # 0
      BY HoldersType, FS_EmptySet
    <3> QED
      BY <1>2, <3>1 DEF End
  <2>2. ASSUME NEW e \in End, NEW h \in HoldersIn(f, s, e)
        PROVE  f[h[1]][h[2]].pipe = pipe[s]
    <3>1. /\ h \in Procs \X Fds
          /\ h[2] \in Open(f[h[1]])
          /\ f[h[1]][h[2]].ring = s /\ f[h[1]][h[2]].end = e
      BY DEF HoldersIn, Naming
    <3>2. \A g \in HoldersIn(files, s, e) : files[g[1]][g[2]].pipe = pipe[s]
      BY DEF IInv, SlotsAreOwned, Holders, HoldersIn
    <3>3. CASE h[1] # p
      <4>1. f[h[1]] = files[h[1]]
        BY <1>3, <3>1, <3>3 DEF Retabled
      <4>2. h \in HoldersIn(files, s, e)
        BY <3>1, <4>1 DEF HoldersIn, Naming
      <4> QED
        BY <3>2, <4>1, <4>2
    <3>4. CASE h[1] = p
      <4>1. f[h[1]] = table
        BY <1>3, <3>4 DEF Retabled
      <4>2. PICK g \in Procs \X Fds :
              /\ g[2] \in Open(files[g[1]])
              /\ files[g[1]][g[2]].ring = s
              /\ files[g[1]][g[2]].end = e
              /\ files[g[1]][g[2]].pipe = table[h[2]].pipe
        BY <3>1, <4>1 DEF Drawn
      <4>3. g \in HoldersIn(files, s, e)
        BY <4>2 DEF HoldersIn, Naming
      <4> QED
        BY <3>2, <4>1, <4>2, <4>3
    <3> QED
      BY <3>3, <3>4
  <2>3. ASSUME HoldersIn(f, s, "Read") = {}, HoldersIn(f, s, "Write") = {}
        PROVE  rings'[s] = FreeRing
    <3>1. /\ Cardinality(HoldersIn(f, s, "Read")) = 0
          /\ Cardinality(HoldersIn(f, s, "Write")) = 0
      BY <2>3, FS_EmptySet, Zenon
    <3> QED
      BY <1>2, <3>1
  <2> QED
    BY <2>1, <2>2, <2>3
<1> QED
  BY <1>1, <1>2, <1>4, <1>5, <1>6

(***************************************************************************)
(* Every step that only moves bytes: a read, a write, a resumed transfer.  *)
(* It leaves a free slot free, and never makes one.                        *)
(***************************************************************************)
LEMMA BytesMoved ==
  ASSUME IInv, NEW s \in Slots, NEW bytes \in Seq(Byte),
         Len(bytes) <= Capacity,
         rings[s] = FreeRing => bytes = << >>,
         rings' = [rings EXCEPT ![s] = [rings[s] EXCEPT !.bytes = bytes]],
         files' = files, pipe' = pipe
  PROVE  /\ rings' \in [Slots -> RingRecord]
         /\ EndsAreCounted'
         /\ SlotsAreOwned'
<1>1. rings \in [Slots -> RingRecord]
  BY DEF IInv, TypeOK
<1>2. rings' \in [Slots -> RingRecord]
  BY <1>1 DEF RingRecord, Queued
<1>3. \A i \in Slots : /\ rings'[i].readers = rings[i].readers
                       /\ rings'[i].writers = rings[i].writers
  BY <1>1
<1>4. \A i \in Slots : rings[i] = FreeRing <=> rings'[i] = FreeRing
  <2> SUFFICES ASSUME NEW i \in Slots
               PROVE  rings[i] = FreeRing <=> rings'[i] = FreeRing
    OBVIOUS
  <2>1. CASE rings[i] = FreeRing
    BY <1>1, <2>1 DEF FreeRing
  <2>2. CASE rings[i] # FreeRing
    <3>1. rings[i].readers > 0 \/ rings[i].writers > 0
      BY <2>2, FreeIsUnheld
    <3> QED
      BY <1>3, <2>2, <3>1 DEF FreeRing
  <2> QED
    BY <2>1, <2>2
<1> QED
  BY <1>2, <1>3, <1>4, EndsStay DEF IInv

(***************************************************************************)
(* pipe2: a slot that nobody was on gets one descriptor on each end.       *)
(***************************************************************************)
LEMMA PipeMade ==
  ASSUME IInv, NEW s \in Slots, NEW p \in Procs, NEW a \in Fds, NEW b \in Fds,
         NEW c \in BOOLEAN, NEW g \in Serials,
         rings[s] = FreeRing,
         a \notin Open(files[p]), b \notin Open(files[p]), a # b,
         LET d(e) == [ring |-> s, end |-> e, cloexec |-> c, pipe |-> g]
         IN files' = [files EXCEPT ![p] =
              [files[p] EXCEPT ![a] = d("Read"), ![b] = d("Write")]],
         rings' = [rings EXCEPT ![s] = NewRing],
         pipe' = [pipe EXCEPT ![s] = g]
  PROVE  /\ rings' \in [Slots -> RingRecord]
         /\ files' \in [Procs -> Table]
         /\ EndsAreCounted'
         /\ SlotsAreOwned'
<1> DEFINE d(e) == [ring |-> s, end |-> e, cloexec |-> c, pipe |-> g]
<1>1. /\ rings \in [Slots -> RingRecord]
      /\ files \in [Procs -> Table]
      /\ pipe \in [Slots -> 0..MaxPipes]
  BY DEF IInv, TypeOK
<1>2. /\ NewRing \in RingRecord
      /\ NewRing # FreeRing
      /\ NewRing.readers = 1 /\ NewRing.writers = 1
  BY FreeIsARing DEF NewRing, FreeRing
<1>3. \A e \in End : d(e) \in Descriptor /\ d(e) # NoFile
  BY NothingAssumption DEF Descriptor
<1>4. files' \in [Procs -> Table]
  BY <1>1, <1>3 DEF Table, End
<1>5. rings' \in [Slots -> RingRecord]
  BY <1>1, <1>2
<1>6. \A e \in End : HoldersIn(files, s, e) = {}
  BY FreeIsUnheld
<1>7. /\ HoldersIn(files', s, "Read") = {<<p, a>>}
      /\ HoldersIn(files', s, "Write") = {<<p, b>>}
  <2>1. \A q \in Procs, fd \in Fds :
          files'[q][fd] = IF q = p /\ fd = a THEN d("Read")
                          ELSE IF q = p /\ fd = b THEN d("Write") ELSE files[q][fd]
    BY <1>1 DEF Table
  <2>2. \A q \in Procs, fd \in Fds, e \in End :
          ~Names(files[q][fd], s, e)
    <3> SUFFICES ASSUME NEW q \in Procs, NEW fd \in Fds, NEW e \in End,
                        Names(files[q][fd], s, e)
                 PROVE  FALSE
      OBVIOUS
    <3>1. <<q, fd>> \in HoldersIn(files, s, e)
      BY DEF HoldersIn, Naming, Open, Names
    <3> QED
      BY <1>6, <3>1
  <2>3. /\ d("Read") # NoFile /\ d("Read").ring = s /\ d("Read").end = "Read"
        /\ d("Write") # NoFile /\ d("Write").ring = s /\ d("Write").end = "Write"
    BY <1>3 DEF End
  <2>4. "Read" \in End /\ "Write" \in End /\ "Read" # "Write"
    BY DEF End
  <2> HIDE DEF d
  <2>5. \A q \in Procs, fd \in Fds :
          Names(files'[q][fd], s, "Read") <=> q = p /\ fd = a
    BY <2>1, <2>2, <2>3, <2>4 DEF Names
  <2>6. \A q \in Procs, fd \in Fds :
          Names(files'[q][fd], s, "Write") <=> q = p /\ fd = b
    BY <2>1, <2>2, <2>3, <2>4 DEF Names
  <2>7. HoldersIn(files', s, "Read") = {<<p, a>>}
    <3>1. HoldersIn(files', s, "Read")
            = {h \in Procs \X Fds : Names(files'[h[1]][h[2]], s, "Read")}
      BY HoldersNamed, Zenon
    <3>2. \A h \in Procs \X Fds :
            Names(files'[h[1]][h[2]], s, "Read") <=> h = <<p, a>>
      BY <2>5
    <3> QED
      BY <3>1, <3>2
  <2>8. HoldersIn(files', s, "Write") = {<<p, b>>}
    <3>1. HoldersIn(files', s, "Write")
            = {h \in Procs \X Fds : Names(files'[h[1]][h[2]], s, "Write")}
      BY HoldersNamed, Zenon
    <3>2. \A h \in Procs \X Fds :
            Names(files'[h[1]][h[2]], s, "Write") <=> h = <<p, b>>
      BY <2>6
    <3> QED
      BY <3>1, <3>2
  <2> QED
    BY <2>7, <2>8
<1>8. \A i \in Slots \ {s}, e \in End :
        HoldersIn(files', i, e) = HoldersIn(files, i, e)
  BY <1>1, <1>3 DEF HoldersIn, Naming, Open, Table, End
<1>9. EndsAreCounted'
  <2> SUFFICES ASSUME NEW i \in Slots
               PROVE  /\ rings'[i].readers = Cardinality(HoldersIn(files', i, "Read"))
                      /\ rings'[i].writers = Cardinality(HoldersIn(files', i, "Write"))
    BY DEF EndsAreCounted, Holders, HoldersIn
  <2>1. CASE i = s
    BY <1>1, <1>2, <1>7, <2>1, FS_Singleton
  <2>2. CASE i # s
    BY <1>1, <1>8, <2>2 DEF IInv, EndsAreCounted, Holders, HoldersIn, End
  <2> QED
    BY <2>1, <2>2
<1>10. SlotsAreOwned'
  <2> SUFFICES ASSUME NEW i \in Slots
               PROVE  /\ \A e \in End : \A h \in HoldersIn(files', i, e) :
                           /\ rings'[i] # FreeRing
                           /\ files'[h[1]][h[2]].pipe = pipe'[i]
                      /\ HoldersIn(files', i, "Read") = {}
                           /\ HoldersIn(files', i, "Write") = {}
                           => rings'[i] = FreeRing
    BY DEF SlotsAreOwned, Holders, HoldersIn
  <2>1. CASE i = s
    <3>1. /\ rings'[i] # FreeRing
          /\ pipe'[i] = g
      BY <1>1, <1>2, <2>1
    <3>2. /\ files'[p][a].pipe = g
          /\ files'[p][b].pipe = g
      BY <1>1 DEF Table
    <3>3. \A e \in End : \A h \in HoldersIn(files', s, e) :
            files'[h[1]][h[2]].pipe = g
      <4> SUFFICES ASSUME NEW e \in End, NEW h \in HoldersIn(files', s, e)
                   PROVE  files'[h[1]][h[2]].pipe = g
        OBVIOUS
      <4>1. h = <<p, a>> \/ h = <<p, b>>
        BY <1>7 DEF End
      <4>2. h[1] = p /\ (h[2] = a \/ h[2] = b)
        BY <4>1
      <4> QED
        BY <3>2, <4>2
    <3>4. <<p, a>> \in HoldersIn(files', s, "Read")
      BY <1>7
    <3> QED
      BY <2>1, <3>1, <3>3, <3>4
  <2>2. CASE i # s
    <3>1. rings'[i] = rings[i] /\ pipe'[i] = pipe[i]
      BY <1>1, <2>2
    <3>2. \A e \in End : \A h \in HoldersIn(files, i, e) :
            files'[h[1]][h[2]] = files[h[1]][h[2]]
      BY <1>1, <1>3 DEF HoldersIn, Naming, Table
    <3> QED
      BY <1>8, <2>2, <3>1, <3>2 DEF IInv, SlotsAreOwned, Holders, HoldersIn, End
  <2> QED
    BY <2>1, <2>2
<1> QED
  BY <1>4, <1>5, <1>9, <1>10

---------------------------------------------------------------------------
(* Transfers.                                                              *)

\* What a read takes out of a ring and leaves in it are sequences of bytes.
LEMMA TakeType ==
  ASSUME NEW r \in RingRecord, NEW n \in Nat
  PROVE  /\ Taken(r, n) \in Seq(Byte)
         /\ SubSeq(r.bytes, Lesser(n, Queued(r)) + 1, Len(r.bytes)) \in Seq(Byte)
         /\ r = FreeRing =>
              SubSeq(r.bytes, Lesser(n, Queued(r)) + 1, Len(r.bytes)) = << >>
         /\ Len(Taken(r, n)) \in Nat
<1>1. r.bytes \in Seq(Byte) /\ Len(r.bytes) \in Nat
  BY DEF RingRecord
<1>2. Lesser(n, Queued(r)) \in 0..Len(r.bytes)
  BY <1>1 DEF Lesser, Queued
<1>3. Taken(r, n) \in Seq(Byte)
  BY <1>1, <1>2, SubSeqProperties DEF Taken
<1>4. SubSeq(r.bytes, Lesser(n, Queued(r)) + 1, Len(r.bytes)) \in Seq(Byte)
  BY <1>1, <1>2, SubSeqProperties
<1>5. ASSUME r = FreeRing
      PROVE  SubSeq(r.bytes, Lesser(n, Queued(r)) + 1, Len(r.bytes)) = << >>
  <2>1. r.bytes = << >> /\ Len(r.bytes) = 0 /\ Lesser(n, Queued(r)) = 0
    BY <1>2, <1>5 DEF FreeRing
  <2> QED
    BY <1>4, <2>1, SubSeqProperties, EmptySeq
<1> QED
  BY <1>3, <1>4, <1>5

\* How far a write gets, and what it puts in the ring.
LEMMA GiveType ==
  ASSUME NEW r \in RingRecord, NEW x \in Transfer,
         NEW n, n = 0 \/ n = Accepted(r, x.length - x.done)
  PROVE  /\ n \in Nat
         /\ n <= x.length - x.done
         /\ n <= Room(r)
         /\ Chunk(x, n) \in Seq(Byte)
         /\ Len(Chunk(x, n)) = n
<1>1. /\ Queued(r) \in Nat /\ x.length \in Nat /\ x.done \in Nat
      /\ x.call \in 0..MaxWrites /\ Capacity \in Nat
      /\ Queued(r) <= Capacity /\ x.done < x.length
  <2>1. Queued(r) \in Nat /\ Queued(r) <= Capacity /\ Capacity \in Nat
    BY RingAssumption, LenProperties DEF RingRecord, Queued
  <2>2. /\ x.length \in Nat /\ x.done \in Nat /\ x.done < x.length
        /\ x.call \in 0..MaxWrites
    BY PipesAssumption DEF Transfer
  <2> QED
    BY <2>1, <2>2
<1>2. n \in Nat /\ n <= x.length - x.done /\ n <= Room(r)
  BY <1>1, RingAssumption DEF Accepted, Room, Lesser
<1>3. \A i \in 1..n : <<x.call, x.done + i>> \in Byte
  BY <1>1, <1>2 DEF Byte
<1>4. Chunk(x, n) \in [1..n -> Byte]
  BY <1>3 DEF Chunk
<1>5. Chunk(x, n) \in Seq(Byte)
  BY <1>2, <1>4, SeqDef
<1>6. Len(Chunk(x, n)) = n
  <2>1. 1..Len(Chunk(x, n)) = 1..n /\ Len(Chunk(x, n)) \in Nat
    BY <1>4, <1>5, LenProperties
  <2> QED
    BY <1>2, <2>1
<1> QED
  BY <1>2, <1>5, <1>6

\* What a step has to leave in its domain, besides the table it may change.
ArenaKept ==
  /\ rings' \in [Slots -> RingRecord]
  /\ EndsAreCounted'
  /\ SlotsAreOwned'

AnswersKept ==
  /\ parked' \in [Threads -> Transfer \cup {NoTransfer}]
  /\ rax' \in [thread : Threads, value : Int]
  /\ sent' \in [Serials -> Seq(Byte)]
  /\ drained' \in [Serials -> Seq(Byte)]

\* A thread that is answered, and one that waits.
LEMMA AnswerType ==
  ASSUME IInv, NEW t \in Threads, NEW value \in Int, Answer(t, value)
  PROVE  /\ parked' \in [Threads -> Transfer \cup {NoTransfer}]
         /\ rax' \in [thread : Threads, value : Int]
BY DEF IInv, TypeOK, Answer

LEMMA WaitType ==
  ASSUME IInv, NEW t \in Threads, NEW x \in Transfer, NEW nonblock,
         Wait(t, x, nonblock)
  PROVE  /\ parked' \in [Threads -> Transfer \cup {NoTransfer}]
         /\ rax' \in [thread : Threads, value : Int]
<1>1. CASE nonblock
  <2>1. (IF x.done = 0 THEN EAGAIN ELSE x.done) \in Int
    BY DEF Transfer, EAGAIN
  <2> QED
    BY <1>1, <2>1, AnswerType DEF Wait
<1>2. CASE ~nonblock
  BY <1>2 DEF IInv, TypeOK, Wait
<1> QED
  BY <1>1, <1>2

\* A read, begun or resumed, leaves the counts and the slots alone.
LEMMA ReadKeeps ==
  ASSUME IInv, NEW t \in Threads, NEW x \in Transfer, NEW nonblock, NEW fault,
         AdvanceRead(t, x, nonblock, fault), files' = files, pipe' = pipe
  PROVE  ArenaKept /\ AnswersKept
<1> DEFINE r    == rings[x.ring]
           left == SubSeq(r.bytes, Lesser(x.length, Queued(r)) + 1, Len(r.bytes))
<1>1. /\ x.ring \in Slots /\ r \in RingRecord /\ r.bytes \in Seq(Byte)
      /\ x.length \in Nat /\ x.pipe \in Serials
  BY PipesAssumption DEF IInv, TypeOK, Transfer, RingRecord
<1>2. /\ left \in Seq(Byte)
      /\ r = FreeRing => left = << >>
      /\ Taken(r, x.length) \in Seq(Byte)
      /\ Len(Taken(r, x.length)) \in Nat
  BY <1>1, TakeType
<1>3. Len(left) <= Capacity
  <2>1. /\ Len(r.bytes) \in Nat /\ Len(r.bytes) <= Capacity
        /\ Lesser(x.length, Queued(r)) \in 0..Len(r.bytes)
    BY <1>1, LenProperties DEF RingRecord, Queued, Lesser
  <2>2. Len(left) = IF Lesser(x.length, Queued(r)) + 1 <= Len(r.bytes)
                    THEN Len(r.bytes) - (Lesser(x.length, Queued(r)) + 1) + 1
                    ELSE 0
    <3>1. \A i \in Lesser(x.length, Queued(r)) + 1..Len(r.bytes) : r.bytes[i] \in Byte
      BY <1>1, <2>1, ElementOfSeq
    <3> QED
      BY <2>1, <3>1, SubSeqProperties
  <2> HIDE DEF left, r
  <2> QED
    BY <2>1, <2>2, RingAssumption
<1>4. rings' = [rings EXCEPT ![x.ring] = [rings[x.ring] EXCEPT !.bytes = left]]
  BY DEF AdvanceRead, AfterTake
<1>5. ArenaKept
  BY <1>1, <1>2, <1>3, <1>4, BytesMoved DEF ArenaKept
<1>6. /\ sent' \in [Serials -> Seq(Byte)]
      /\ drained' \in [Serials -> Seq(Byte)]
  <2>1. /\ sent' = sent
        /\ drained' = [drained EXCEPT ![x.pipe] = @ \o Taken(r, x.length)]
    BY DEF AdvanceRead
  <2>2. /\ drained \in [Serials -> Seq(Byte)] /\ sent \in [Serials -> Seq(Byte)]
        /\ drained[x.pipe] \o Taken(r, x.length) \in Seq(Byte)
    BY <1>1, <1>2, ConcatProperties DEF IInv, TypeOK
  <2> QED
    BY <2>1, <2>2
<1>7. /\ parked' \in [Threads -> Transfer \cup {NoTransfer}]
      /\ rax' \in [thread : Threads, value : Int]
  <2>1. CASE Readable(r)
    <3>1. (IF fault /\ Taken(r, x.length) # << >> THEN EFAULT
           ELSE Len(Taken(r, x.length))) \in Int
      BY <1>2 DEF EFAULT
    <3> QED
      BY <2>1, <3>1, AnswerType DEF AdvanceRead
  <2>2. CASE ~Readable(r)
    BY <2>2, WaitType DEF AdvanceRead
  <2> QED
    BY <2>1, <2>2
<1> QED
  BY <1>5, <1>6, <1>7 DEF AnswersKept

\* So does a write.
LEMMA WriteKeeps ==
  ASSUME IInv, NEW t \in Threads, NEW x \in Transfer, NEW nonblock,
         NEW fault \in BOOLEAN, NEW killed \in BOOLEAN,
         AdvanceWrite(t, x, nonblock, fault, killed), files' = files, pipe' = pipe
  PROVE  ArenaKept /\ AnswersKept
<1> DEFINE r    == rings[x.ring]
           n    == IF r.readers = 0 \/ fault THEN 0
                   ELSE Accepted(r, x.length - x.done)
           full == r.bytes \o Chunk(x, n)
<1>1. /\ x.ring \in Slots /\ r \in RingRecord /\ r.bytes \in Seq(Byte)
      /\ Len(r.bytes) \in Nat /\ x.length \in Nat /\ x.done \in Nat
      /\ x.done < x.length /\ x.pipe \in Serials /\ r.readers \in Nat
  BY PipesAssumption, LenProperties DEF IInv, TypeOK, Transfer, RingRecord
<1>2. /\ n \in Nat /\ n <= x.length - x.done /\ n <= Room(r)
      /\ Chunk(x, n) \in Seq(Byte) /\ Len(Chunk(x, n)) = n
  <2>1. n = 0 \/ n = Accepted(r, x.length - x.done)
    OBVIOUS
  <2> HIDE DEF n, r
  <2> QED
    BY <1>1, <2>1, GiveType
<1>3. full \in Seq(Byte) /\ Len(full) <= Capacity
  <2>1. full \in Seq(Byte) /\ Len(full) = Len(r.bytes) + Len(Chunk(x, n))
    BY <1>1, <1>2, ConcatProperties
  <2> HIDE DEF n, full
  <2> QED
    BY <1>1, <1>2, <2>1, RingAssumption DEF Room, Queued
<1>4. r = FreeRing => full = << >>
  <2>1. r = FreeRing => n = 0 /\ r.bytes = << >>
    BY DEF FreeRing
  <2> HIDE DEF n
  <2>2. n = 0 => Chunk(x, n) = << >>
    BY <1>2, EmptySeq
  <2> QED
    BY <2>1, <2>2, <1>1, ConcatEmptySeq, EmptySeq
<1>5. rings' = [rings EXCEPT ![x.ring] = [rings[x.ring] EXCEPT !.bytes = full]]
  BY DEF AdvanceWrite, AfterGive
<1>6. ArenaKept
  BY <1>1, <1>3, <1>4, <1>5, BytesMoved DEF ArenaKept
<1>7. /\ sent' \in [Serials -> Seq(Byte)]
      /\ drained' \in [Serials -> Seq(Byte)]
  <2>1. /\ drained' = drained
        /\ sent' = [sent EXCEPT ![x.pipe] = @ \o Chunk(x, n)]
    BY DEF AdvanceWrite
  <2> HIDE DEF n
  <2>2. /\ drained \in [Serials -> Seq(Byte)] /\ sent \in [Serials -> Seq(Byte)]
        /\ sent[x.pipe] \o Chunk(x, n) \in Seq(Byte)
    BY <1>1, <1>2, ConcatProperties DEF IInv, TypeOK
  <2> QED
    BY <2>1, <2>2
<1>8. /\ parked' \in [Threads -> Transfer \cup {NoTransfer}]
      /\ rax' \in [thread : Threads, value : Int]
  <2>1. CASE r.readers = 0
    <3>1. (IF killed \/ x.done = 0 THEN EPIPE ELSE x.done) \in Int
      BY <1>1 DEF EPIPE
    <3> QED
      BY <2>1, <3>1, AnswerType DEF AdvanceWrite
  <2>2. CASE r.readers > 0 /\ fault
    BY <2>2, AnswerType DEF AdvanceWrite, EFAULT
  <2>3. CASE r.readers > 0 /\ ~fault /\ n = x.length - x.done
    BY <1>1, <2>3, AnswerType DEF AdvanceWrite
  <2>4. CASE r.readers > 0 /\ ~fault /\ n # x.length - x.done
    <3> DEFINE y == [x EXCEPT !.done = @ + n]
    <3>1. Wait(t, y, nonblock)
      BY <2>4 DEF AdvanceWrite
    <3>2. y \in Transfer
      <4> HIDE DEF n
      <4> QED
        BY <1>1, <1>2, <2>4 DEF Transfer
    <3> HIDE DEF y
    <3> QED
      BY <3>1, <3>2, WaitType
  <2> QED
    BY <1>1, <2>1, <2>2, <2>3, <2>4
<1> QED
  BY <1>6, <1>7, <1>8 DEF AnswersKept

---------------------------------------------------------------------------
(* Tables.                                                                 *)

\* Taking descriptors out of a process's table, copying one inside it or
\* copying the whole table names nothing new.
LEMMA OwnTableDrawn ==
  ASSUME IInv, NEW p \in Procs, NEW S
  PROVE  /\ files[p] \in Table /\ Drawn(files[p])
         /\ Without(files[p], S) \in Table /\ Drawn(Without(files[p], S))
         /\ EmptyTable \in Table /\ Drawn(EmptyTable)
<1>1. files[p] \in Table
  BY DEF IInv, TypeOK
<1>2. Drawn(files[p])
  <2> SUFFICES ASSUME NEW fd \in Open(files[p])
               PROVE  \E h \in Procs \X Fds :
                        /\ h[2] \in Open(files[h[1]])
                        /\ files[h[1]][h[2]].ring = files[p][fd].ring
                        /\ files[h[1]][h[2]].end = files[p][fd].end
                        /\ files[h[1]][h[2]].pipe = files[p][fd].pipe
    BY DEF Drawn
  <2>1. <<p, fd>> \in Procs \X Fds
    BY DEF Open
  <2> WITNESS <<p, fd>> \in Procs \X Fds
  <2> QED
    BY <2>1
<1>3. Without(files[p], S) \in Table /\ EmptyTable \in Table
  BY <1>1 DEF Without, EmptyTable, Table
<1>4. \A fd \in Open(Without(files[p], S)) :
        fd \in Open(files[p]) /\ Without(files[p], S)[fd] = files[p][fd]
  BY DEF Open, Without
<1>5. Drawn(Without(files[p], S))
  BY <1>2, <1>4 DEF Drawn
<1>6. Drawn(EmptyTable)
  BY DEF Drawn, Open, EmptyTable
<1> QED
  BY <1>1, <1>2, <1>3, <1>5, <1>6

LEMMA CopyDrawn ==
  ASSUME IInv, NEW p \in Procs, NEW old \in Open(files[p]), NEW new \in Fds,
         NEW c \in BOOLEAN, NEW table,
         table = [files[p] EXCEPT ![new] = [files[p][old] EXCEPT !.cloexec = c]]
  PROVE  table \in Table /\ Drawn(table)
<1>1. files[p] \in Table /\ old \in Fds /\ files[p][old] \in Descriptor
  BY DEF IInv, TypeOK, Table, Open
<1>2. [files[p][old] EXCEPT !.cloexec = c] \in Descriptor
  BY <1>1 DEF Descriptor
<1>3. table \in Table
  BY <1>1, <1>2 DEF Table
<1>4. ASSUME NEW fd \in Open(table)
      PROVE  \E f \in Open(files[p]) : /\ files[p][f].ring = table[fd].ring
                                      /\ files[p][f].end = table[fd].end
                                      /\ files[p][f].pipe = table[fd].pipe
  <2>1. CASE fd = new
    <3>1. table[fd] = [files[p][old] EXCEPT !.cloexec = c]
      BY <1>1, <2>1 DEF Table
    <3> QED
      BY <1>1, <3>1 DEF Descriptor
  <2>2. CASE fd # new
    <3>1. table[fd] = files[p][fd] /\ fd \in Open(files[p])
      BY <1>1, <2>2 DEF Table, Open
    <3> QED
      BY <3>1
  <2> QED
    BY <2>1, <2>2
<1>5. Drawn(table)
  <2> SUFFICES ASSUME NEW fd \in Open(table)
               PROVE  \E h \in Procs \X Fds :
                        /\ h[2] \in Open(files[h[1]])
                        /\ files[h[1]][h[2]].ring = table[fd].ring
                        /\ files[h[1]][h[2]].end = table[fd].end
                        /\ files[h[1]][h[2]].pipe = table[fd].pipe
    BY DEF Drawn
  <2>1. PICK f \in Open(files[p]) : /\ files[p][f].ring = table[fd].ring
                                    /\ files[p][f].end = table[fd].end
                                    /\ files[p][f].pipe = table[fd].pipe
    BY <1>4
  <2>2. <<p, f>> \in Procs \X Fds
    BY DEF Open
  <2> WITNESS <<p, f>> \in Procs \X Fds
  <2> QED
    BY <2>1
<1> QED
  BY <1>3, <1>5

\* Nor does marking descriptors.
LEMMA MarkedDrawn ==
  ASSUME IInv, NEW p \in Procs, NEW S, NEW c \in BOOLEAN
  PROVE  Marked(files[p], S, c) \in Table /\ Drawn(Marked(files[p], S, c))
<1> DEFINE table == Marked(files[p], S, c)
<1>1. files[p] \in Table
  BY DEF IInv, TypeOK
<1>2. \A fd \in Open(files[p]) : [files[p][fd] EXCEPT !.cloexec = c] \in Descriptor
  BY <1>1 DEF Table, Open, Descriptor
<1>3. table \in Table
  BY <1>1, <1>2 DEF Marked, Table
<1>4. \A fd \in Open(table) : /\ fd \in Open(files[p])
                              /\ table[fd].ring = files[p][fd].ring
                              /\ table[fd].end = files[p][fd].end
                              /\ table[fd].pipe = files[p][fd].pipe
  BY <1>1 DEF Marked, Open, Table, Descriptor
<1> HIDE DEF table
<1>5. Drawn(table)
  BY <1>4, OwnTableDrawn DEF Drawn
<1> QED
  BY <1>3, <1>5 DEF table

\* A call that only changes the caller's table keeps the invariant.
LEMMA RetableKeeps ==
  ASSUME IInv, NEW t \in Threads, NEW table \in Table, Drawn(table),
         Retable(t, table)
  PROVE  IInv'
<1>1. /\ rings' \in [Slots -> RingRecord] /\ files' \in [Procs -> Table]
      /\ EndsAreCounted' /\ SlotsAreOwned'
  BY TableReplaced DEF Retable, history, IInv, TypeOK
<1>2. TypeOK'
  BY <1>1 DEF IInv, TypeOK, Retable, history, LookAgain
<1> QED
  BY <1>1, <1>2 DEF IInv

---------------------------------------------------------------------------
(* The invariant.                                                          *)

LEMMA InitKeeps == Init => IInv
<1> SUFFICES ASSUME Init PROVE IInv
  OBVIOUS
<1>1. \A s \in Slots, e \in End : HoldersIn(files, s, e) = {}
  BY DEF Init, HoldersIn, Naming, Open, EmptyTable
<1>2. TypeOK
  <2>1. << >> \in Seq(Byte) /\ FreeRing \in RingRecord
    BY EmptySeq, FreeIsARing
  <2>2. EmptyTable \in Table
    BY DEF EmptyTable, Table
  <2> QED
    BY <2>1, <2>2, PipesAssumption DEF Init, TypeOK, ThreadsOf
<1>3. EndsAreCounted
  <2>1. \A s \in Slots : /\ rings[s].readers = 0
                         /\ rings[s].writers = 0
    BY DEF Init, FreeRing
  <2>2. \A s \in Slots : /\ Cardinality(HoldersIn(files, s, "Read")) = 0
                         /\ Cardinality(HoldersIn(files, s, "Write")) = 0
    BY <1>1, FS_EmptySet, Zenon DEF End
  <2> QED
    BY <2>1, <2>2 DEF EndsAreCounted, Holders, HoldersIn
<1>4. SlotsAreOwned
  BY <1>1 DEF SlotsAreOwned, Holders, HoldersIn, Init
<1> QED
  BY <1>2, <1>3, <1>4 DEF IInv

\* Reads, writes and resumed transfers.
LEMMA TransferringKeeps ==
  ASSUME IInv, NEW t \in Threads, Transferring(t)
  PROVE  IInv'
<1> USE DEF history
<1>1. PICK fd \in Fds, length \in Lengths, nonblock \in BOOLEAN :
        \/ Read(t, fd, length, nonblock)
        \/ \E killed \in BOOLEAN : Write(t, fd, length, nonblock, killed)
  BY DEF Transferring
<1>2. files \in [Procs -> Table] /\ cur \in Procs /\ calls \in 0..MaxWrites
  BY DEF IInv, TypeOK
<1>3. ASSUME NEW call \in 0..MaxWrites, files[cur][fd] # NoFile
      PROVE  NewTransfer(files[cur][fd], length, call) \in Transfer
  <2>1. files[cur][fd] \in Descriptor
    BY <1>2, <1>3 DEF Table
  <2> QED
    BY <2>1, PipesAssumption DEF NewTransfer, Transfer, Descriptor
<1>4. CASE Read(t, fd, length, nonblock)
  <2>1. ArenaKept /\ AnswersKept
    <3>1. NewTransfer(files[cur][fd], length, 0) \in Transfer
      BY <1>3, <1>4, PipesAssumption DEF Read
    <3> QED
      BY <1>4, <3>1, ReadKeeps DEF Read
  <2>2. TypeOK'
    BY <1>4, <2>1 DEF IInv, TypeOK, Read, LookAgain, ArenaKept, AnswersKept
  <2> QED
    BY <2>1, <2>2 DEF IInv, ArenaKept
<1>5. CASE \E killed \in BOOLEAN : Write(t, fd, length, nonblock, killed)
  <2>1. PICK killed \in BOOLEAN : Write(t, fd, length, nonblock, killed)
    BY <1>5
  <2>2. calls + 1 \in 0..MaxWrites
    BY <1>2, <2>1, PipesAssumption DEF Write
  <2>3. ArenaKept /\ AnswersKept
    <3>1. NewTransfer(files[cur][fd], length, calls + 1) \in Transfer
      BY <1>3, <2>1, <2>2 DEF Write
    <3> QED
      BY <2>1, <3>1, WriteKeeps DEF Write
  <2>4. TypeOK'
    BY <2>1, <2>2, <2>3 DEF IInv, TypeOK, Write, LookAgain, ArenaKept, AnswersKept
  <2> QED
    BY <2>3, <2>4 DEF IInv, ArenaKept
<1> QED
  BY <1>1, <1>4, <1>5

LEMMA ResumingKeeps ==
  ASSUME IInv, Resuming
  PROVE  IInv'
<1> USE DEF history
<1>1. PICK t \in Threads, fault \in BOOLEAN, killed \in BOOLEAN :
        Resume(t, fault, killed)
  BY DEF Resuming
<1>2. parked[t] \in Transfer
  BY <1>1 DEF IInv, TypeOK, Resume, Ready
<1>3. ArenaKept /\ AnswersKept
  <2>1. CASE parked[t].end = "Read"
    BY <1>1, <1>2, <2>1, ReadKeeps DEF Resume
  <2>2. CASE parked[t].end # "Read"
    BY <1>1, <1>2, <2>2, WriteKeeps DEF Resume
  <2> QED
    BY <2>1, <2>2
<1>4. TypeOK'
  BY <1>1, <1>3 DEF IInv, TypeOK, Resume, ArenaKept, AnswersKept
<1> QED
  BY <1>3, <1>4 DEF IInv, ArenaKept

\* Calls that make, copy and close descriptors.
LEMMA DescribingKeeps ==
  ASSUME IInv, NEW t \in Threads, Describing(t)
  PROVE  IInv'
<1> USE DEF history
<1>1. cur \in Procs
  BY DEF IInv, TypeOK
<1>2. ASSUME NEW cloexec \in Cloexec, MakePipe(t, cloexec)
      PROVE  IInv'
  <2>1. PICK s \in Slots, r \in Fds, w \in Fds :
          LET d(e)   == [ring |-> s, end |-> e, cloexec |-> cloexec, pipe |-> made + 1]
              opened == [files[cur] EXCEPT ![r] = d("Read")]
          IN /\ LowestFreeSlot(s)
             /\ made' = made + 1
             /\ LowestFree(files[cur], r)
             /\ LowestFree(opened, w)
             /\ files' = [files EXCEPT ![cur] = [opened EXCEPT ![w] = d("Write")]]
             /\ rings' = [rings EXCEPT ![s] = NewRing]
             /\ pipe' = [pipe EXCEPT ![s] = made + 1]
    BY <1>2 DEF MakePipe
  <2>2. made + 1 \in Serials /\ made' \in 0..MaxPipes /\ cloexec \in BOOLEAN
    BY <1>2, <2>1, PipesAssumption DEF IInv, TypeOK, MakePipe, Serials
  <2>3. files[cur] \in Table
    BY <1>1 DEF IInv, TypeOK
  <2>4. /\ r \notin Open(files[cur]) /\ w \notin Open(files[cur]) /\ r # w
    <3> DEFINE d == [ring |-> s, end |-> "Read", cloexec |-> cloexec, pipe |-> made + 1]
               opened == [files[cur] EXCEPT ![r] = d]
    <3>1. d # NoFile
      <4>1. d \in Descriptor
        BY <2>2 DEF Descriptor, End
      <4> QED
        BY <4>1, NothingAssumption
    <3>2. r \in Open(opened) /\ Open(files[cur]) \subseteq Open(opened)
      BY <2>3, <3>1 DEF Open, Table
    <3>3. r \notin Open(files[cur]) /\ w \notin Open(opened)
      BY <2>1 DEF LowestFree
    <3> QED
      BY <3>2, <3>3
  <2>5. /\ rings' \in [Slots -> RingRecord] /\ files' \in [Procs -> Table]
        /\ EndsAreCounted' /\ SlotsAreOwned'
    BY <1>1, <2>1, <2>2, <2>4, PipeMade DEF LowestFreeSlot
  <2>6. TypeOK'
    BY <1>2, <2>1, <2>2, <2>5 DEF IInv, TypeOK, MakePipe, LookAgain, Serials
  <2> QED
    BY <2>5, <2>6 DEF IInv
<1>3. ASSUME MakePipeRefused(t)
      PROVE  IInv'
  <2>1. rings' = rings
    BY <1>3 DEF MakePipeRefused, LowestFreeSlot, FreeIfUnused, NewRing, FreeRing,
                SaturatingSub, IInv, TypeOK
  <2>2. TypeOK'
    BY <1>3, <2>1 DEF IInv, TypeOK, MakePipeRefused, LookAgain, EMFILE
  <2>3. EndsAreCounted' /\ SlotsAreOwned'
    BY <1>3, <2>1, EndsStay DEF IInv, MakePipeRefused
  <2> QED
    BY <2>2, <2>3 DEF IInv
<1>4. ASSUME NEW old \in Fds, Dup(t, old)
      PROVE  IInv'
  BY <1>1, <1>4, CopyDrawn, RetableKeeps DEF Dup
<1>5. ASSUME NEW fd \in Fds, Close(t, fd)
      PROVE  IInv'
  BY <1>1, <1>5, OwnTableDrawn, RetableKeeps DEF Close
<1>6. ASSUME NEW old \in Fds, NEW new \in Fds, NEW cloexec \in Cloexec,
             Dup3(t, old, new, cloexec)
      PROVE  IInv'
  <2>1. cloexec \in BOOLEAN
    BY PipesAssumption
  <2> QED
    BY <1>1, <1>6, <2>1, CopyDrawn, RetableKeeps DEF Dup3
<1>7. ASSUME NEW first \in Fds, NEW last \in Fds, CloseRange(t, first, last)
      PROVE  IInv'
  BY <1>1, <1>7, OwnTableDrawn, MarkedDrawn, RetableKeeps DEF CloseRange
<1>8. ASSUME NEW fd \in Fds, NEW cloexec \in Cloexec, SetCloexec(t, fd, cloexec)
      PROVE  IInv'
  <2>1. cloexec \in BOOLEAN
    BY PipesAssumption
  <2> QED
    BY <1>1, <1>8, <2>1, MarkedDrawn, RetableKeeps DEF SetCloexec
<1> QED
  BY <1>2, <1>3, <1>4, <1>5, <1>6, <1>7, <1>8 DEF Describing

\* fork, execve, exit and kill.
LEMMA BecomingKeeps ==
  ASSUME IInv, NEW t \in Threads, Becoming(t)
  PROVE  IInv'
<1> USE DEF history
<1>1. cur \in Procs /\ pipe \in [Slots -> 0..MaxPipes]
  BY DEF IInv, TypeOK
<1>2. ASSUME NEW p \in Procs, NEW table \in Table, Drawn(table),
             SetTable(p, table), pipe' = pipe, live' \subseteq Threads,
             next' \in Nat, UNCHANGED <<cur, rax, made, calls, sent, drained>>,
             parked' \in [Threads -> Transfer \cup {NoTransfer}],
             todo' \subseteq Threads
      PROVE  IInv'
  <2>1. /\ rings' \in [Slots -> RingRecord] /\ files' \in [Procs -> Table]
        /\ EndsAreCounted' /\ SlotsAreOwned'
    BY <1>2, TableReplaced
  <2>2. TypeOK'
    BY <1>2, <2>1 DEF IInv, TypeOK
  <2> QED
    BY <2>1, <2>2 DEF IInv
<1>3. ASSUME NEW S, Ended(S)
      PROVE  /\ live' \subseteq Threads
             /\ parked' \in [Threads -> Transfer \cup {NoTransfer}]
  BY <1>3 DEF Ended, IInv, TypeOK
<1>4. LookAgain /\ live' \subseteq Threads => todo' \subseteq Threads
  BY DEF LookAgain
<1>5. CASE Fork(t)
  <2>1. /\ next \in Procs /\ files[cur] \in Table /\ Drawn(files[cur])
        /\ live' \subseteq Threads /\ next' \in Nat
    <3>1. files[cur] \in Table /\ Drawn(files[cur])
      BY <1>1, OwnTableDrawn
    <3>2. /\ next \in Procs /\ next' = next + 1
          /\ live' = live \cup ThreadsOf(next)
      BY <1>5 DEF Fork
    <3> QED
      BY <3>1, <3>2 DEF IInv, TypeOK, ThreadsOf
  <2>2. /\ SetTable(next, files[cur])
        /\ UNCHANGED <<cur, parked, rax, history>>
        /\ LookAgain
    BY <1>5 DEF Fork
  <2>3. parked \in [Threads -> Transfer \cup {NoTransfer}]
    BY DEF IInv, TypeOK
  <2> QED
    BY <1>2, <1>4, <2>1, <2>2, <2>3
<1>6. CASE Execve(t)
  <2> DEFINE marked == {fd \in Open(files[cur]) : files[cur][fd].cloexec}
  <2>1. /\ Without(files[cur], marked) \in Table
        /\ Drawn(Without(files[cur], marked))
    BY <1>1, OwnTableDrawn
  <2>2. /\ SetTable(cur, Without(files[cur], marked))
        /\ Ended(ThreadsOf(cur) \ {t})
        /\ UNCHANGED <<next, cur, rax, history>>
        /\ LookAgain
    BY <1>6 DEF Execve
  <2> HIDE DEF marked
  <2> QED
    BY <1>1, <1>2, <1>3, <1>4, <2>1, <2>2 DEF IInv, TypeOK
<1>7. ASSUME NEW p \in Procs, Ends(p), LookAgain
      PROVE  IInv'
  <2>1. EmptyTable \in Table /\ Drawn(EmptyTable)
    BY <1>7, OwnTableDrawn
  <2> QED
    BY <1>2, <1>3, <1>4, <1>7, <2>1 DEF Ends, IInv, TypeOK
<1>8. CASE Exit(t)
  BY <1>1, <1>7, <1>8 DEF Exit
<1>9. ASSUME NEW p \in Procs, Kill(t, p)
      PROVE  IInv'
  BY <1>7, <1>9 DEF Kill
<1> QED
  BY <1>5, <1>6, <1>8, <1>9 DEF Becoming

LEMMA SwitchingKeeps ==
  ASSUME IInv, Switching
  PROVE  IInv'
<1> USE DEF history
<1>1. PICK p \in Procs : Turn(p)
  BY DEF Switching
<1>2. TypeOK'
  BY <1>1 DEF IInv, TypeOK, Turn, ParkedIn
<1> QED
  BY <1>1, <1>2, EndsStay DEF IInv, Turn

LEMMA StutterKeeps ==
  ASSUME IInv, UNCHANGED vars
  PROVE  IInv'
<1>1. TypeOK'
  BY DEF IInv, TypeOK, vars
<1> QED
  BY <1>1, EndsStay DEF IInv, vars

(***************************************************************************)
(* The invariant holds in every state of every execution.                  *)
(***************************************************************************)
THEOREM Invariance == Spec => []IInv
<1>1. IInv /\ [Next]_vars => IInv'
  BY TransferringKeeps, DescribingKeeps, BecomingKeeps, ResumingKeeps,
     SwitchingKeeps, StutterKeeps DEF Next
<1> QED
  BY <1>1, InitKeeps, PTL DEF Spec

\* Every variable stays in its domain: no ring over its capacity, and no
\* parked transfer with nothing left to move.
THEOREM TypeCorrect == Spec => []TypeOK
<1>1. IInv => TypeOK
  BY DEF IInv
<1> QED
  BY <1>1, Invariance, PTL

\* The counts the arena keeps, and that every end of file and every broken
\* pipe is decided by, are the descriptors of the process tree.
THEOREM CountsAreRight == Spec => []EndsAreCounted
<1>1. IInv => EndsAreCounted
  BY DEF IInv
<1> QED
  BY <1>1, Invariance, PTL

\* No ring is freed or reused under a descriptor, and none is leaked.
THEOREM SlotsAreRight == Spec => []SlotsAreOwned
<1>1. IInv => SlotsAreOwned
  BY DEF IInv
<1> QED
  BY <1>1, Invariance, PTL

---------------------------------------------------------------------------
(***************************************************************************)
(* The bytes of a pipe, for any number of processes, descriptors and ring  *)
(* slots, any capacity and any lengths.                                    *)
(*                                                                         *)
(* A transfer moves bytes by the index of a slot, and a parked one uses    *)
(* the index again later.  That the slot is still its pipe's is true only  *)
(* because its process holds the descriptor it was parked from, and that   *)
(* is true only where no other thread of the process can close it: hence   *)
(* the assumption below.                                                   *)
(***************************************************************************)

\* No two threads share a descriptor table.
Single == \A t, u \in Threads : Home[t] = Home[u] => t = u

\* No two slots in use are one pipe's, and a pipe yet to be made has no bytes.
PipesAreDistinct ==
  /\ \A s \in Slots : rings[s] # FreeRing => pipe[s] \in 1..made
  /\ \A s, r \in Slots :
       rings[s] # FreeRing /\ rings[r] # FreeRing /\ s # r => pipe[s] # pipe[r]
  /\ \A g \in Serials : g > made => sent[g] = << >> /\ drained[g] = << >>

\* A process has descriptor d's ring, end and pipe open under some number.
HoldsIn(table, d) ==
  \E fd \in Open(table) :
    /\ table[fd].ring = d.ring
    /\ table[fd].end = d.end
    /\ table[fd].pipe = d.pipe

\* Whoever is parked could still make the call it is parked in.
ParkedHolds ==
  /\ \A t \in live : Home[t] < next
  /\ \A t \in Threads :
       parked[t] # NoTransfer =>
         t \in live /\ HoldsIn(files[Home[t]], parked[t])

BInv == IInv /\ BytesAreKept /\ PipesAreDistinct /\ ParkedHolds

---------------------------------------------------------------------------
(* Whose slot it is.                                                       *)

\* A descriptor's slot is in use, and by the pipe it was made for.
LEMMA HeldSlot ==
  ASSUME IInv, NEW p \in Procs, NEW d, d.ring \in Slots, d.end \in End,
         HoldsIn(files[p], d)
  PROVE  rings[d.ring] # FreeRing /\ pipe[d.ring] = d.pipe
<1>1. PICK fd \in Open(files[p]) :
        /\ files[p][fd].ring = d.ring
        /\ files[p][fd].end = d.end
        /\ files[p][fd].pipe = d.pipe
  BY DEF HoldsIn
<1>2. <<p, fd>> \in Holders(d.ring, d.end)
  BY <1>1 DEF Holders, Naming, Open
<1> QED
  BY <1>1, <1>2 DEF IInv, SlotsAreOwned

---------------------------------------------------------------------------
(* Moving bytes.                                                           *)

\* What a read takes and what it leaves are the ring, in order.
LEMMA TakeSplits ==
  ASSUME NEW bytes \in Seq(Byte), NEW n \in Nat
  PROVE  LET k == Lesser(n, Len(bytes)) IN
           SubSeq(bytes, 1, k) \o SubSeq(bytes, k + 1, Len(bytes)) = bytes
<1> DEFINE k == Lesser(n, Len(bytes))
<1>1. Len(bytes) \in Nat
  BY LenProperties
<1>2. k \in 0..Len(bytes)
  BY <1>1 DEF Lesser
<1> HIDE DEF k
<1>3. SubSeq(bytes, 1, k) \o SubSeq(bytes, k + 1, Len(bytes))
        = SubSeq(bytes, 1, Len(bytes))
  <2>1. /\ 1 \in 1..Len(bytes) + 1 /\ k \in 1 - 1..Len(bytes)
        /\ Len(bytes) \in k..Len(bytes)
    BY <1>1, <1>2
  <2> QED
    BY <2>1, ConcatAdjacentSubSeq
<1>4. SubSeq(bytes, 1, Len(bytes)) = bytes
  BY SubSeqFull
<1> QED
  BY <1>3, <1>4 DEF k

\* Bytes that change hands do not change places.
LEMMA Regroup ==
  \A a, b, c \in Seq(Byte) : (a \o b) \o c = a \o (b \o c)
<1> SUFFICES ASSUME NEW a \in Seq(Byte), NEW b \in Seq(Byte),
                    NEW c \in Seq(Byte)
             PROVE  (a \o b) \o c = a \o (b \o c)
  OBVIOUS
<1> QED
  BY ConcatAssociative

(***************************************************************************)
(* One slot's bytes change, and one pipe's two histories with them: enough *)
(* that the slot is that pipe's.                                           *)
(***************************************************************************)
LEMMA PipeMoves ==
  ASSUME BInv, NEW s \in Slots, rings[s] # FreeRing,
         NEW bytes \in Seq(Byte), NEW in \in Seq(Byte), NEW out \in Seq(Byte),
         rings' = [rings EXCEPT ![s] = [rings[s] EXCEPT !.bytes = bytes]],
         sent' = [sent EXCEPT ![pipe[s]] = in],
         drained' = [drained EXCEPT ![pipe[s]] = out],
         in = out \o bytes,
         pipe' = pipe, made' = made
  PROVE  BytesAreKept' /\ PipesAreDistinct'
<1>1. /\ rings \in [Slots -> RingRecord] /\ pipe[s] \in 1..made
      /\ made \in 0..MaxPipes /\ MaxPipes \in Nat
      /\ sent \in [Serials -> Seq(Byte)] /\ drained \in [Serials -> Seq(Byte)]
  BY PipesAssumption DEF BInv, IInv, TypeOK, PipesAreDistinct
<1>2. pipe[s] \in Serials
  BY <1>1 DEF Serials
<1>3. \A r \in Slots : r # s => rings'[r] = rings[r]
  BY <1>1
<1>4. \A g \in Serials :
        g # pipe[s] => sent'[g] = sent[g] /\ drained'[g] = drained[g]
  BY <1>1
<1>5. rings'[s].bytes = bytes /\ sent'[pipe[s]] = in /\ drained'[pipe[s]] = out
  BY <1>1, <1>2 DEF RingRecord
<1>6. \A r \in Slots : rings'[r] # FreeRing => rings[r] # FreeRing
  BY <1>3
<1>7. BytesAreKept'
  <2> SUFFICES ASSUME NEW r \in Slots, rings'[r] # FreeRing
               PROVE  sent'[pipe[r]] = drained'[pipe[r]] \o rings'[r].bytes
    BY DEF BytesAreKept
  <2>1. CASE r = s
    BY <1>5, <2>1
  <2>2. CASE r # s
    <3>1. pipe[r] # pipe[s] /\ pipe[r] \in Serials
      BY <1>1, <1>6, <2>2 DEF BInv, PipesAreDistinct, Serials
    <3> QED
      BY <1>3, <1>4, <1>6, <2>2, <3>1 DEF BInv, BytesAreKept
  <2> QED
    BY <2>1, <2>2
<1>8. PipesAreDistinct'
  <2>1. \A r \in Slots : rings'[r] # FreeRing => pipe'[r] \in 1..made'
    BY <1>6 DEF BInv, PipesAreDistinct
  <2>2. \A r, q \in Slots :
          rings'[r] # FreeRing /\ rings'[q] # FreeRing /\ r # q =>
            pipe'[r] # pipe'[q]
    BY <1>6 DEF BInv, PipesAreDistinct
  <2>3. \A g \in Serials : g > made' => sent'[g] = << >> /\ drained'[g] = << >>
    BY <1>1, <1>4 DEF BInv, PipesAreDistinct, Serials
  <2> QED
    BY <2>1, <2>2, <2>3 DEF PipesAreDistinct
<1> QED
  BY <1>7, <1>8

\* A read moves the front of the ring to what was drained.
LEMMA ReadMoves ==
  ASSUME BInv, NEW t \in Threads, NEW x \in Transfer, NEW nonblock, NEW fault,
         rings[x.ring] # FreeRing, pipe[x.ring] = x.pipe,
         AdvanceRead(t, x, nonblock, fault), pipe' = pipe, made' = made
  PROVE  BytesAreKept' /\ PipesAreDistinct'
<1> DEFINE r    == rings[x.ring]
           got  == Taken(r, x.length)
           left == SubSeq(r.bytes, Lesser(x.length, Queued(r)) + 1,
                          Len(r.bytes))
<1>1. /\ x.ring \in Slots /\ r \in RingRecord /\ r.bytes \in Seq(Byte)
      /\ x.length \in Nat /\ x.pipe \in Serials
      /\ sent \in [Serials -> Seq(Byte)] /\ drained \in [Serials -> Seq(Byte)]
  BY PipesAssumption DEF BInv, IInv, TypeOK, Transfer, RingRecord
<1>2. got \in Seq(Byte) /\ left \in Seq(Byte)
  BY <1>1, TakeType
<1>3. got \o left = r.bytes
  BY <1>1, TakeSplits DEF Taken, Queued
<1>4. /\ rings' = [rings EXCEPT ![x.ring] =
           [rings[x.ring] EXCEPT !.bytes = left]]
      /\ drained' = [drained EXCEPT ![x.pipe] = drained[x.pipe] \o got]
      /\ sent' = sent
  BY DEF AdvanceRead, AfterTake
<1>5. sent[x.pipe] = drained[x.pipe] \o r.bytes
  BY <1>1 DEF BInv, BytesAreKept
<1> HIDE DEF got, left
<1>6. /\ drained[x.pipe] \in Seq(Byte) /\ sent[x.pipe] \in Seq(Byte)
      /\ drained[x.pipe] \o got \in Seq(Byte)
  BY <1>1, <1>2, ConcatProperties
<1>7. sent[x.pipe] = (drained[x.pipe] \o got) \o left
  <2>1. (drained[x.pipe] \o got) \o left = drained[x.pipe] \o (got \o left)
    <3>1. PICK x1, x2, x3 : x1 = drained[x.pipe] /\ x2 = got /\ x3 = left
      OBVIOUS
    <3>2. (x1 \o x2) \o x3 = x1 \o (x2 \o x3)
      BY <1>2, <1>6, <3>1, Regroup
    <3> QED
      BY <3>1, <3>2
  <2> QED
    BY <1>3, <1>5, <2>1
<1>8. sent' = [sent EXCEPT ![x.pipe] = sent[x.pipe]]
  BY <1>1, <1>4
<1> QED
  BY <1>1, <1>2, <1>4, <1>6, <1>7, <1>8, PipeMoves

\* A write puts what it sends at the back of the ring.
LEMMA WriteMoves ==
  ASSUME BInv, NEW t \in Threads, NEW x \in Transfer, NEW nonblock,
         NEW fault \in BOOLEAN, NEW killed \in BOOLEAN,
         rings[x.ring] # FreeRing, pipe[x.ring] = x.pipe,
         AdvanceWrite(t, x, nonblock, fault, killed), pipe' = pipe, made' = made
  PROVE  BytesAreKept' /\ PipesAreDistinct'
<1> DEFINE r    == rings[x.ring]
           n    == IF r.readers = 0 \/ fault THEN 0
                   ELSE Accepted(r, x.length - x.done)
           put  == Chunk(x, n)
           full == r.bytes \o put
<1>1. /\ x.ring \in Slots /\ r \in RingRecord /\ r.bytes \in Seq(Byte)
      /\ x.pipe \in Serials
      /\ sent \in [Serials -> Seq(Byte)] /\ drained \in [Serials -> Seq(Byte)]
  BY DEF BInv, IInv, TypeOK, Transfer, RingRecord
<1>2. put \in Seq(Byte)
  <2>1. n = 0 \/ n = Accepted(r, x.length - x.done)
    OBVIOUS
  <2> HIDE DEF n, r
  <2> QED
    BY <1>1, <2>1, GiveType
<1>3. /\ rings' = [rings EXCEPT ![x.ring] =
           [rings[x.ring] EXCEPT !.bytes = full]]
      /\ sent' = [sent EXCEPT ![x.pipe] = sent[x.pipe] \o put]
      /\ drained' = drained
  BY DEF AdvanceWrite, AfterGive
<1>4. sent[x.pipe] = drained[x.pipe] \o r.bytes
  BY <1>1 DEF BInv, BytesAreKept
<1> HIDE DEF put
<1>5. /\ drained[x.pipe] \in Seq(Byte) /\ sent[x.pipe] \o put \in Seq(Byte)
      /\ full \in Seq(Byte)
  BY <1>1, <1>2, ConcatProperties
<1>6. sent[x.pipe] \o put = drained[x.pipe] \o full
  <2>1. (drained[x.pipe] \o r.bytes) \o put
          = drained[x.pipe] \o (r.bytes \o put)
    <3>1. PICK x1, x2, x3 : x1 = drained[x.pipe] /\ x2 = r.bytes /\ x3 = put
      OBVIOUS
    <3>2. (x1 \o x2) \o x3 = x1 \o (x2 \o x3)
      BY <1>1, <1>2, <1>5, <3>1, Regroup
    <3> QED
      BY <3>1, <3>2
  <2> QED
    BY <1>4, <2>1
<1>7. drained' = [drained EXCEPT ![x.pipe] = drained[x.pipe]]
  BY <1>1, <1>3
<1> HIDE DEF full
<1> QED
  BY <1>1, <1>3, <1>5, <1>6, <1>7, PipeMoves

---------------------------------------------------------------------------
(* Tables.                                                                 *)

\* reconcile_shared frees a slot or leaves its bytes.
LEMMA BytesReconciled ==
  ASSUME NEW r \in RingRecord, NEW was, NEW now, NEW q,
         q = Reconciled(r, was, now), q # FreeRing
  PROVE  r # FreeRing /\ q.bytes = r.bytes
BY DEF Reconciled, FreeIfUnused, RingRecord

(***************************************************************************)
(* A call that replaces a table no parked thread is using.                 *)
(***************************************************************************)
LEMMA TableMoves ==
  ASSUME BInv, NEW p \in Procs, NEW table, SetTable(p, table),
         UNCHANGED <<pipe, made, sent, drained>>,
         \A t \in live' : Home[t] < next',
         \A t \in Threads : parked'[t] # NoTransfer =>
           parked'[t] = parked[t] /\ Home[t] # p /\ t \in live'
  PROVE  BytesAreKept' /\ PipesAreDistinct' /\ ParkedHolds'
<1>1. /\ rings \in [Slots -> RingRecord] /\ files \in [Procs -> Table]
      /\ Home \in [Threads -> Procs]
  BY PipesAssumption DEF BInv, IInv, TypeOK
<1>2. \A s \in Slots : rings'[s] # FreeRing =>
        rings[s] # FreeRing /\ rings'[s].bytes = rings[s].bytes
  <2> SUFFICES ASSUME NEW s \in Slots, rings'[s] # FreeRing
               PROVE  rings[s] # FreeRing /\ rings'[s].bytes = rings[s].bytes
    OBVIOUS
  <2>1. rings'[s] = Reconciled(rings[s], Census(files[p], s), Census(table, s))
    BY DEF SetTable
  <2> QED
    BY <1>1, <2>1, BytesReconciled
<1>3. BytesAreKept'
  BY <1>2 DEF BInv, BytesAreKept
<1>4. PipesAreDistinct'
  BY <1>2 DEF BInv, PipesAreDistinct
<1>5. ASSUME NEW t \in Threads, parked'[t] # NoTransfer
      PROVE  t \in live' /\ HoldsIn(files'[Home[t]], parked'[t])
  <2>1. /\ parked'[t] = parked[t] /\ Home[t] # p /\ t \in live'
        /\ Home[t] \in Procs
    BY <1>1, <1>5
  <2>2. files'[Home[t]] = files[Home[t]]
    BY <1>1, <2>1 DEF SetTable
  <2>3. HoldsIn(files[Home[t]], parked[t])
    BY <1>5, <2>1 DEF BInv, ParkedHolds
  <2> QED
    BY <2>1, <2>2, <2>3
<1>6. ParkedHolds'
  BY <1>5 DEF ParkedHolds
<1> QED
  BY <1>3, <1>4, <1>6

\* A thread that makes a call is not parked, and is alone in its process.
LEMMA CallerIsAlone ==
  ASSUME BInv, Single, NEW t \in Threads, CanCall(t), NEW u \in Threads,
         parked[u] # NoTransfer
  PROVE  Home[u] # cur
BY DEF Single, CanCall

---------------------------------------------------------------------------
(* Parking.                                                                *)

\* A thread that has moved what it could is parked on what it was asked for,
\* or not at all.
LEMMA Parks ==
  ASSUME BInv, NEW t \in Threads, NEW x \in Transfer, NEW nonblock,
         NEW fault \in BOOLEAN, NEW killed \in BOOLEAN,
         \/ AdvanceRead(t, x, nonblock, fault)
         \/ AdvanceWrite(t, x, nonblock, fault, killed)
  PROVE  /\ \A u \in Threads : u # t => parked'[u] = parked[u]
         /\ parked'[t] # NoTransfer =>
              /\ parked'[t].ring = x.ring
              /\ parked'[t].end = x.end
              /\ parked'[t].pipe = x.pipe
<1> DEFINE Parked(y) ==
      /\ \A u \in Threads : u # t => parked'[u] = parked[u]
      /\ parked'[t] # NoTransfer => parked'[t] = y
<1>1. parked \in [Threads -> Transfer \cup {NoTransfer}]
  BY DEF BInv, IInv, TypeOK
<1>2. ASSUME NEW value, Answer(t, value), NEW y
      PROVE  Parked(y)
  BY <1>1, <1>2 DEF Answer
<1>3. ASSUME NEW y, Wait(t, y, nonblock)
      PROVE  Parked(y)
  BY <1>1, <1>2, <1>3 DEF Wait
<1> HIDE DEF Parked
<1>4. CASE AdvanceRead(t, x, nonblock, fault)
  <2>1. Parked(x)
    BY <1>2, <1>3, <1>4 DEF AdvanceRead
  <2> QED
    BY <2>1 DEF Parked
<1>5. CASE AdvanceWrite(t, x, nonblock, fault, killed)
  <2> DEFINE r == rings[x.ring]
             n == IF r.readers = 0 \/ fault THEN 0
                  ELSE Accepted(r, x.length - x.done)
             y == [x EXCEPT !.done = @ + n]
  <2>1. Parked(y)
    <3>1. r.readers \in Nat
      BY DEF BInv, IInv, TypeOK, Transfer, RingRecord
    <3>2. CASE r.readers = 0
      BY <1>2, <1>5, <3>2 DEF AdvanceWrite
    <3>3. CASE r.readers > 0 /\ fault
      BY <1>2, <1>5, <3>3 DEF AdvanceWrite
    <3>4. CASE r.readers > 0 /\ ~fault /\ n = x.length - x.done
      BY <1>2, <1>5, <3>4 DEF AdvanceWrite
    <3>5. CASE r.readers > 0 /\ ~fault /\ n # x.length - x.done
      BY <1>3, <1>5, <3>5 DEF AdvanceWrite
    <3> QED
      BY <3>1, <3>2, <3>3, <3>4, <3>5
  <2>2. y.ring = x.ring /\ y.end = x.end /\ y.pipe = x.pipe
    BY DEF Transfer
  <2> HIDE DEF y
  <2> QED
    BY <2>1, <2>2 DEF Parked
<1> QED
  BY <1>4, <1>5


---------------------------------------------------------------------------
(* The actions.                                                            *)

\* A transfer moves its own pipe's bytes, and parks where it can go on.
LEMMA TransferMoves ==
  ASSUME BInv, NEW t \in live, NEW x \in Transfer, NEW nonblock,
         NEW fault \in BOOLEAN, NEW killed \in BOOLEAN,
         HoldsIn(files[Home[t]], x),
         \/ AdvanceRead(t, x, nonblock, fault)
         \/ AdvanceWrite(t, x, nonblock, fault, killed),
         UNCHANGED <<files, live, next, pipe, made>>
  PROVE  BytesAreKept' /\ PipesAreDistinct' /\ ParkedHolds'
<1>1. t \in Threads /\ Home[t] \in Procs /\ x.ring \in Slots /\ x.end \in End
  BY PipesAssumption DEF BInv, IInv, TypeOK, Transfer
<1>2. rings[x.ring] # FreeRing /\ pipe[x.ring] = x.pipe
  BY <1>1, HeldSlot DEF BInv
<1>3. BytesAreKept' /\ PipesAreDistinct'
  <2>1. CASE AdvanceRead(t, x, nonblock, fault)
    BY <1>1, <1>2, <2>1, ReadMoves
  <2>2. CASE AdvanceWrite(t, x, nonblock, fault, killed)
    BY <1>1, <1>2, <2>2, WriteMoves
  <2> QED
    BY <2>1, <2>2
<1>4. /\ \A u \in Threads : u # t => parked'[u] = parked[u]
      /\ parked'[t] # NoTransfer =>
           /\ parked'[t].ring = x.ring
           /\ parked'[t].end = x.end
           /\ parked'[t].pipe = x.pipe
  BY <1>1, Parks
<1>5. ASSUME NEW u \in Threads, parked'[u] # NoTransfer
      PROVE  u \in live' /\ HoldsIn(files'[Home[u]], parked'[u])
  <2>1. CASE u = t
    <3>1. PICK fd \in Open(files[Home[t]]) :
            /\ files[Home[t]][fd].ring = x.ring
            /\ files[Home[t]][fd].end = x.end
            /\ files[Home[t]][fd].pipe = x.pipe
      BY DEF HoldsIn
    <3> QED
      BY <1>4, <1>5, <2>1, <3>1 DEF HoldsIn
  <2>2. CASE u # t
    <3>1. parked'[u] = parked[u]
      BY <1>4, <2>2
    <3> QED
      BY <1>5, <3>1 DEF BInv, ParkedHolds
  <2> QED
    BY <2>1, <2>2
<1>6. ParkedHolds'
  BY <1>5 DEF BInv, ParkedHolds
<1> QED
  BY <1>3, <1>6

LEMMA TransferringMoves ==
  ASSUME BInv, NEW t \in Threads, Transferring(t)
  PROVE  BytesAreKept' /\ PipesAreDistinct' /\ ParkedHolds'
<1>1. PICK fd \in Fds, length \in Lengths, nonblock \in BOOLEAN :
        \/ Read(t, fd, length, nonblock)
        \/ \E killed \in BOOLEAN : Write(t, fd, length, nonblock, killed)
  BY DEF Transferring
<1>2. /\ files \in [Procs -> Table] /\ cur \in Procs /\ calls \in 0..MaxWrites
      /\ MaxWrites \in Nat /\ FALSE \in BOOLEAN
  BY PipesAssumption DEF BInv, IInv, TypeOK
<1>3. ASSUME NEW call \in 0..MaxWrites, files[cur][fd] # NoFile, NEW x,
             x = NewTransfer(files[cur][fd], length, call)
      PROVE  x \in Transfer /\ HoldsIn(files[cur], x)
  <2>1. files[cur][fd] \in Descriptor /\ fd \in Open(files[cur])
    BY <1>2, <1>3 DEF Table, Open
  <2>2. x \in Transfer
    BY <1>3, <2>1, PipesAssumption DEF NewTransfer, Transfer, Descriptor
  <2>3. /\ files[cur][fd].ring = x.ring
        /\ files[cur][fd].end = x.end
        /\ files[cur][fd].pipe = x.pipe
    BY <1>3 DEF NewTransfer
  <2> QED
    BY <2>1, <2>2, <2>3 DEF HoldsIn
<1>4. CASE Read(t, fd, length, nonblock)
  <2> DEFINE x == NewTransfer(files[cur][fd], length, 0)
  <2>1. /\ t \in live /\ Home[t] = cur /\ files[cur][fd] # NoFile
        /\ AdvanceRead(t, x, nonblock, FALSE)
        /\ UNCHANGED <<files, live, next, pipe, made>>
    BY <1>4 DEF Read, CanCall
  <2>2. x \in Transfer /\ HoldsIn(files[Home[t]], x)
    BY <1>2, <1>3, <2>1
  <2> HIDE DEF x
  <2> QED
    BY <1>2, <2>1, <2>2, TransferMoves
<1>5. CASE \E killed \in BOOLEAN : Write(t, fd, length, nonblock, killed)
  <2> DEFINE x == NewTransfer(files[cur][fd], length, calls + 1)
  <2>1. PICK killed \in BOOLEAN : Write(t, fd, length, nonblock, killed)
    BY <1>5
  <2>2. /\ t \in live /\ Home[t] = cur /\ files[cur][fd] # NoFile
        /\ calls < MaxWrites
        /\ AdvanceWrite(t, x, nonblock, FALSE, killed)
        /\ UNCHANGED <<files, live, next, pipe, made>>
    BY <2>1 DEF Write, CanCall
  <2>3. calls + 1 \in 0..MaxWrites
    BY <1>2, <2>2
  <2>4. x \in Transfer /\ HoldsIn(files[Home[t]], x)
    BY <1>3, <2>2, <2>3
  <2> HIDE DEF x
  <2> QED
    BY <1>2, <2>2, <2>4, TransferMoves
<1> QED
  BY <1>1, <1>4, <1>5

\* A resumed transfer finds its own pipe in the slot it was parked on.
LEMMA ResumingMoves ==
  ASSUME BInv, Resuming
  PROVE  BytesAreKept' /\ PipesAreDistinct' /\ ParkedHolds'
<1>1. PICK t \in Threads, fault \in BOOLEAN, killed \in BOOLEAN :
        Resume(t, fault, killed)
  BY DEF Resuming
<1>2. parked[t] \in Transfer /\ parked[t] # NoTransfer
  BY <1>1 DEF BInv, IInv, TypeOK, Resume, Ready
<1>3. t \in live /\ HoldsIn(files[Home[t]], parked[t])
  BY <1>2 DEF BInv, ParkedHolds
<1>4. /\ \/ AdvanceRead(t, parked[t], FALSE, fault)
         \/ AdvanceWrite(t, parked[t], FALSE, fault, killed)
      /\ UNCHANGED <<files, live, next, pipe, made>>
  BY <1>1 DEF Resume
<1> QED
  BY <1>2, <1>3, <1>4, TransferMoves

\* pipe2: the slot it takes was nobody's, and the pipe is a new one.
LEMMA MakePipeMoves ==
  ASSUME BInv, Single, NEW t \in Threads, NEW cloexec \in Cloexec,
         MakePipe(t, cloexec)
  PROVE  BytesAreKept' /\ PipesAreDistinct' /\ ParkedHolds'
<1>1. PICK s \in Slots :
        /\ LowestFreeSlot(s)
        /\ made' = made + 1
        /\ \E table : files' = [files EXCEPT ![cur] = table]
        /\ rings' = [rings EXCEPT ![s] = NewRing]
        /\ pipe' = [pipe EXCEPT ![s] = made + 1]
  BY DEF MakePipe
<1>2. /\ CanCall(t) /\ made < MaxPipes
      /\ UNCHANGED <<live, next, parked, sent, drained>>
  BY DEF MakePipe
<1>3. /\ rings \in [Slots -> RingRecord] /\ pipe \in [Slots -> 0..MaxPipes]
      /\ files \in [Procs -> Table] /\ Home \in [Threads -> Procs]
      /\ made \in 0..MaxPipes /\ MaxPipes \in Nat
  BY PipesAssumption DEF BInv, IInv, TypeOK
<1>4. rings[s] = FreeRing /\ made + 1 \in Serials
  BY <1>1, <1>2, <1>3 DEF LowestFreeSlot, Serials
<1>5. \A r \in Slots : r # s => rings'[r] = rings[r] /\ pipe'[r] = pipe[r]
  BY <1>1, <1>3
<1>6. rings'[s].bytes = << >> /\ pipe'[s] = made + 1
  BY <1>1, <1>3 DEF NewRing
<1>7. sent[made + 1] = << >> /\ drained[made + 1] = << >>
  BY <1>3, <1>4 DEF BInv, PipesAreDistinct
<1>8. BytesAreKept'
  <2> SUFFICES ASSUME NEW r \in Slots, rings'[r] # FreeRing
               PROVE  sent'[pipe'[r]] = drained'[pipe'[r]] \o rings'[r].bytes
    BY DEF BytesAreKept
  <2>1. CASE r = s
    <3>1. << >> \o << >> = << >>
      BY EmptySeq, ConcatEmptySeq
    <3> QED
      BY <1>2, <1>6, <1>7, <2>1, <3>1
  <2>2. CASE r # s
    BY <1>2, <1>5, <2>2 DEF BInv, BytesAreKept
  <2> QED
    BY <2>1, <2>2
<1>9. PipesAreDistinct'
  <2>1. \A r \in Slots : r # s /\ rings'[r] # FreeRing =>
          rings[r] # FreeRing /\ pipe'[r] = pipe[r] /\ pipe[r] \in 1..made
    BY <1>5 DEF BInv, PipesAreDistinct
  <2>2. \A r \in Slots : rings'[r] # FreeRing => pipe'[r] \in 1..made'
    BY <1>1, <1>3, <1>6, <2>1
  <2>3. ASSUME NEW r \in Slots, NEW q \in Slots, rings'[r] # FreeRing,
               rings'[q] # FreeRing, r # q
        PROVE  pipe'[r] # pipe'[q]
    <3>1. CASE r # s /\ q # s
      BY <2>1, <2>3, <3>1 DEF BInv, PipesAreDistinct
    <3>2. CASE r = s
      BY <1>3, <1>6, <2>1, <2>3, <3>2
    <3>3. CASE q = s
      BY <1>3, <1>6, <2>1, <2>3, <3>3
    <3> QED
      BY <3>1, <3>2, <3>3
  <2>4. \A g \in Serials : g > made' => sent'[g] = << >> /\ drained'[g] = << >>
    BY <1>1, <1>2, <1>3 DEF BInv, PipesAreDistinct, Serials
  <2> QED
    BY <2>2, <2>3, <2>4 DEF PipesAreDistinct
<1>10. ASSUME NEW u \in Threads, parked'[u] # NoTransfer
       PROVE  u \in live' /\ HoldsIn(files'[Home[u]], parked'[u])
  <2>1. parked[u] # NoTransfer /\ parked'[u] = parked[u] /\ Home[u] \in Procs
    BY <1>2, <1>3, <1>10
  <2>2. Home[u] # cur
    BY <1>2, <2>1, CallerIsAlone
  <2>3. files'[Home[u]] = files[Home[u]]
    BY <1>1, <1>3, <2>1, <2>2
  <2> QED
    BY <1>2, <2>1, <2>3 DEF BInv, ParkedHolds
<1>11. ParkedHolds'
  BY <1>2, <1>10 DEF BInv, ParkedHolds
<1> QED
  BY <1>8, <1>9, <1>11


\* The calls that make, copy, mark and close descriptors.
LEMMA DescribingMoves ==
  ASSUME BInv, Single, NEW t \in Threads, Describing(t)
  PROVE  BytesAreKept' /\ PipesAreDistinct' /\ ParkedHolds'
<1>1. ASSUME NEW table, Retable(t, table)
      PROVE  BytesAreKept' /\ PipesAreDistinct' /\ ParkedHolds'
  <2>1. /\ CanCall(t) /\ SetTable(cur, table) /\ cur \in Procs
        /\ UNCHANGED <<live, next, parked, pipe, made, sent, drained>>
    BY <1>1 DEF Retable, history, BInv, IInv, TypeOK
  <2>2. \A u \in live' : Home[u] < next'
    BY <2>1 DEF BInv, ParkedHolds
  <2>3. \A u \in Threads : parked'[u] # NoTransfer =>
          parked'[u] = parked[u] /\ Home[u] # cur /\ u \in live'
    BY <2>1, CallerIsAlone DEF BInv, ParkedHolds
  <2> QED
    BY <2>1, <2>2, <2>3, TableMoves
<1>2. ASSUME MakePipeRefused(t)
      PROVE  BytesAreKept' /\ PipesAreDistinct' /\ ParkedHolds'
  <2>1. rings' = rings
    BY <1>2 DEF MakePipeRefused, LowestFreeSlot, FreeIfUnused, NewRing,
                FreeRing, SaturatingSub, BInv, IInv, TypeOK
  <2>2. UNCHANGED <<files, live, next, parked, pipe, made, sent, drained>>
    BY <1>2 DEF MakePipeRefused, history
  <2> QED
    BY <2>1, <2>2 DEF BInv, BytesAreKept, PipesAreDistinct, ParkedHolds
<1>3. CASE \E cloexec \in Cloexec : MakePipe(t, cloexec)
  BY <1>3, MakePipeMoves
<1>4. CASE \E fd \in Fds : Dup(t, fd) \/ Close(t, fd)
  BY <1>1, <1>4 DEF Dup, Close
<1>5. CASE \E old, new \in Fds, cloexec \in Cloexec : Dup3(t, old, new, cloexec)
  BY <1>1, <1>5 DEF Dup3
<1>6. CASE \E first, last \in Fds : CloseRange(t, first, last)
  BY <1>1, <1>6 DEF CloseRange
<1>7. CASE \E fd \in Fds, cloexec \in Cloexec : SetCloexec(t, fd, cloexec)
  BY <1>1, <1>7 DEF SetCloexec
<1> QED
  BY <1>2, <1>3, <1>4, <1>5, <1>6, <1>7 DEF Describing

\* fork, execve, exit and kill: nobody is parked in the child yet, and
\* nobody stays parked in a process whose table goes.
LEMMA BecomingMoves ==
  ASSUME BInv, Single, NEW t \in Threads, Becoming(t)
  PROVE  BytesAreKept' /\ PipesAreDistinct' /\ ParkedHolds'
<1>1. /\ cur \in Procs /\ live \subseteq Threads /\ Home \in [Threads -> Procs]
      /\ next \in Nat /\ Procs \subseteq Nat
      /\ parked \in [Threads -> Transfer \cup {NoTransfer}]
  BY PipesAssumption DEF BInv, IInv, TypeOK
<1>2. /\ \A u \in live : Home[u] < next
      /\ \A u \in Threads : parked[u] # NoTransfer => u \in live
  BY DEF BInv, ParkedHolds
<1>3. CASE Fork(t)
  <2>1. /\ next \in Procs /\ SetTable(next, files[cur])
        /\ live' = live \cup ThreadsOf(next) /\ next' = next + 1
        /\ UNCHANGED <<parked, pipe, made, sent, drained>>
    BY <1>3 DEF Fork, history
  <2>2. \A u \in live' : Home[u] < next'
    <3>1. \A u \in Threads : Home[u] \in Nat
      BY <1>1
    <3> QED
      BY <1>1, <1>2, <2>1, <3>1 DEF ThreadsOf
  <2>3. \A u \in Threads : parked'[u] # NoTransfer =>
          parked'[u] = parked[u] /\ Home[u] # next /\ u \in live'
    BY <1>1, <1>2, <2>1
  <2> QED
    BY <2>1, <2>2, <2>3, TableMoves
<1>4. ASSUME NEW S, Ended(S), NEW u \in Threads, parked'[u] # NoTransfer
      PROVE  u \notin S /\ parked'[u] = parked[u] /\ u \in live'
  BY <1>2, <1>4 DEF Ended
<1>5. ASSUME NEW S, Ended(S), next' = next
      PROVE  \A u \in live' : Home[u] < next'
  BY <1>2, <1>5 DEF Ended
<1>6. CASE Execve(t)
  <2>1. PICK table : SetTable(cur, table)
    BY <1>6 DEF Execve
  <2>2. /\ CanCall(t) /\ Ended(ThreadsOf(cur) \ {t})
        /\ UNCHANGED <<next, pipe, made, sent, drained>>
    BY <1>6 DEF Execve, history
  <2>3. \A u \in Threads : parked'[u] # NoTransfer =>
          parked'[u] = parked[u] /\ Home[u] # cur /\ u \in live'
    BY <1>4, <2>2, CallerIsAlone
  <2> QED
    BY <1>1, <1>5, <2>1, <2>2, <2>3, TableMoves
<1>7. ASSUME NEW p \in Procs, Ends(p)
      PROVE  BytesAreKept' /\ PipesAreDistinct' /\ ParkedHolds'
  <2>1. /\ SetTable(p, EmptyTable) /\ Ended(ThreadsOf(p))
        /\ UNCHANGED <<next, pipe, made, sent, drained>>
    BY <1>7 DEF Ends, history
  <2>2. \A u \in Threads : parked'[u] # NoTransfer =>
          parked'[u] = parked[u] /\ Home[u] # p /\ u \in live'
    BY <1>4, <2>1 DEF ThreadsOf
  <2> QED
    BY <1>5, <2>1, <2>2, TableMoves
<1>8. CASE Exit(t)
  BY <1>1, <1>7, <1>8 DEF Exit
<1>9. CASE \E p \in Procs : Kill(t, p)
  BY <1>7, <1>9 DEF Kill
<1> QED
  BY <1>3, <1>6, <1>8, <1>9 DEF Becoming

\* A switch, and a step that changes nothing.
LEMMA SwitchingMoves ==
  ASSUME BInv, Switching \/ UNCHANGED vars
  PROVE  BytesAreKept' /\ PipesAreDistinct' /\ ParkedHolds'
<1>1. UNCHANGED <<rings, files, live, next, parked, pipe, made, sent, drained>>
  BY DEF Switching, Turn, history, vars
<1> QED
  BY <1>1 DEF BInv, BytesAreKept, PipesAreDistinct, ParkedHolds

LEMMA InitMoves ==
  ASSUME Init
  PROVE  BInv
<1>1. IInv
  BY InitKeeps
<1>2. BytesAreKept /\ PipesAreDistinct
  BY DEF Init, BytesAreKept, PipesAreDistinct
<1>3. ParkedHolds
  BY DEF Init, ParkedHolds, ThreadsOf
<1> QED
  BY <1>1, <1>2, <1>3 DEF BInv

---------------------------------------------------------------------------
(***************************************************************************)
(* Where no two threads share a table, the invariant always holds.         *)
(***************************************************************************)
THEOREM BytesInvariance ==
  ASSUME Single
  PROVE  Spec => []BInv
<1>1. BInv /\ [Next]_vars => IInv'
  BY TransferringKeeps, DescribingKeeps, BecomingKeeps, ResumingKeeps,
     SwitchingKeeps, StutterKeeps DEF Next, BInv
<1>2. BInv /\ [Next]_vars =>
        (BytesAreKept' /\ PipesAreDistinct' /\ ParkedHolds')
  BY TransferringMoves, DescribingMoves, BecomingMoves, ResumingMoves,
     SwitchingMoves DEF Next
<1>3. BInv /\ [Next]_vars => BInv'
  BY <1>1, <1>2 DEF BInv
<1> QED
  BY <1>3, InitMoves, PTL DEF Spec

\* Bytes are neither lost, nor repeated, nor reordered, where no two threads
\* share a table: ring.rs gives out what it was given, in the order it was.
THEOREM BytesAreRight ==
  ASSUME Single
  PROVE  Spec => []BytesAreKept
<1>1. BInv => BytesAreKept
  BY DEF BInv
<1> QED
  BY <1>1, BytesInvariance, PTL

\* The slot a parked transfer names is still the ring it was parked on,
\* where no two threads share a table (ring.rs:84).
THEOREM ParkedIsRight ==
  ASSUME Single
  PROVE  Spec => []ParkedKeepsItsRing
<1>1. BInv => ParkedKeepsItsRing
  <2> SUFFICES ASSUME BInv, NEW t \in Threads, parked[t] # NoTransfer
               PROVE  pipe[parked[t].ring] = parked[t].pipe
    BY DEF ParkedKeepsItsRing
  <2>1. /\ parked[t] \in Transfer /\ Home[t] \in Procs
        /\ HoldsIn(files[Home[t]], parked[t])
    BY PipesAssumption DEF BInv, IInv, TypeOK, ParkedHolds
  <2>2. parked[t].ring \in Slots /\ parked[t].end \in End
    BY <2>1 DEF Transfer
  <2> QED
    BY <2>1, <2>2, HeldSlot DEF BInv
<1> QED
  BY <1>1, BytesInvariance, PTL

---------------------------------------------------------------------------
(***************************************************************************)
(* The pipes keep their contract.  The mapping forgets the ring a transfer *)
(* is parked on and reads the open ends off the descriptor tables, so what *)
(* the kernel decides by a slot's counts and bytes, the contract decides   *)
(* by who has what open.  That the two decide alike is the invariant above *)
(* once more; what has to be added is about the write that is resumed: up  *)
(* to PIPE_BUF bytes it is parked only before its first one, so what goes  *)
(* in last is all of it.                                                   *)
(***************************************************************************)

\* What the mapping makes of a transfer, of the parked threads and of the
\* descriptor tables.
AsRequest(x) == [end |-> x.end, length |-> x.length, done |-> x.done,
                 pipe |-> x.pipe, call |-> x.call]
Asked  == [t \in Threads |-> RequestOf(t)]
Opened == [g \in Serials |-> OpenEnds(g)]

\* A read, or a write that is to go in whole, has moved nothing yet.
Whole(x) == x.end = "Read" \/ x.length <= Atomic => x.done = 0
ParkedWhole ==
  \A t \in Threads : parked[t] # NoTransfer => Whole(parked[t])

CInv == BInv /\ ParkedWhole

\* x is the transfer t is parked in, or a new one.
Begun(t, x) ==
  \/ parked[t] = x
  \/ /\ parked[t] = NoTransfer /\ x.done = 0 /\ x.length \in Lengths
     /\ x.call = IF x.end = "Read" THEN 0 ELSE calls + 1

\* An end is open, in any process, exactly while the slot has holders on it.
LEMMA OpenIs ==
  ASSUME BInv, NEW s \in Slots, rings[s] # FreeRing, NEW e \in End
  PROVE  e \in OpenEnds(pipe[s]) <=> Holders(s, e) # {}
<1>0. files \in [Procs -> Table]
  BY DEF BInv, IInv, TypeOK
<1>1. ASSUME e \in OpenEnds(pipe[s])
      PROVE  Holders(s, e) # {}
  <2>1. PICK p \in Procs : \E fd \in Open(files[p]) :
          files[p][fd].pipe = pipe[s] /\ files[p][fd].end = e
    BY <1>1 DEF OpenEnds
  <2>6. PICK fd \in Open(files[p]) :
          files[p][fd].pipe = pipe[s] /\ files[p][fd].end = e
    BY <2>1
  <2> DEFINE q == files[p][fd].ring
  <2>2. q \in Slots /\ fd \in Fds
    BY <1>0, <2>6 DEF Open, Table, Descriptor
  <2>3. <<p, fd>> \in Holders(q, e)
    BY <2>6, <2>2 DEF Holders, Naming
  <2>4. rings[q] # FreeRing /\ files[p][fd].pipe = pipe[q]
    BY <2>2, <2>3 DEF BInv, IInv, SlotsAreOwned
  <2> HIDE DEF q
  <2>5. q = s
    BY <2>6, <2>2, <2>4 DEF BInv, PipesAreDistinct
  <2> QED
    BY <2>3, <2>5
<1>2. ASSUME Holders(s, e) # {}
      PROVE  e \in OpenEnds(pipe[s])
  <2>1. PICK h \in Holders(s, e) : TRUE
    BY <1>2
  <2>2. /\ h[1] \in Procs /\ h[2] \in Open(files[h[1]]) /\ files[h[1]][h[2]].end = e
        /\ files[h[1]][h[2]].pipe = pipe[s]
    BY <2>1 DEF Holders, Naming, BInv, IInv, SlotsAreOwned
  <2> QED
    BY <2>2 DEF OpenEnds
<1> QED
  BY <1>1, <1>2

\* So a slot's count is zero exactly once nobody has that end open.
LEMMA EndsAre ==
  ASSUME BInv, NEW s \in Slots, rings[s] # FreeRing
  PROVE  /\ rings[s].readers = 0 <=> "Read" \notin OpenEnds(pipe[s])
         /\ rings[s].writers = 0 <=> "Write" \notin OpenEnds(pipe[s])
<1>1. ASSUME NEW e \in End
      PROVE  Cardinality(Holders(s, e)) = 0 <=> e \notin OpenEnds(pipe[s])
  <2>1. Holders(s, e) = HoldersIn(files, s, e)
    BY DEF Holders, HoldersIn
  <2>2. IsFiniteSet(Holders(s, e))
    BY <2>1, HoldersType
  <2> QED
    BY <2>2, OpenIs, FS_EmptySet
<1> QED
  BY <1>1 DEF End, BInv, IInv, EndsAreCounted

\* What follows a in a \o b is the front of b.
LEMMA FrontIs ==
  ASSUME NEW a \in Seq(Byte), NEW b \in Seq(Byte), NEW n \in 0..Len(b)
  PROVE  /\ SubSeq(a \o b, Len(a) + 1, Len(a) + n) = SubSeq(b, 1, n)
         /\ Len(SubSeq(b, 1, n)) = n
         /\ Len(a \o b) - Len(a) = Len(b)
<1>1. /\ a \o b \in Seq(Byte) /\ Len(a \o b) = Len(a) + Len(b)
      /\ Len(a) \in Nat /\ Len(b) \in Nat
      /\ \A i \in 1..Len(a) + Len(b) :
           (a \o b)[i] = IF i <= Len(a) THEN a[i] ELSE b[i - Len(a)]
  BY ConcatProperties, LenProperties
<1> DEFINE l == SubSeq(a \o b, Len(a) + 1, Len(a) + n)
           r == SubSeq(b, 1, n)
<1> DEFINE c == a \o b
           m == Len(a) + 1
           k == Len(a) + n
<1>2. l \in Seq(Byte) /\ Len(l) = n /\ \A i \in 1..n : l[i] = c[Len(a) + i]
  <2>1. c \in Seq(Byte) /\ m \in Int /\ k \in Int /\ \A i \in m..k : i \in 1..Len(c)
    BY <1>1
  <2>2. /\ k - m + 1 = n /\ (m <= k <=> n > 0)
        /\ \A i \in 1..n : m + i - 1 = Len(a) + i
    BY <1>1
  <2>3. l = SubSeq(c, m, k)
    OBVIOUS
  <2> HIDE DEF l, c, m, k
  <2>4. \A i \in m..k : c[i] \in Byte
    BY <2>1, ElementOfSeq
  <2>5. /\ SubSeq(c, m, k) \in Seq(Byte)
        /\ Len(SubSeq(c, m, k)) = IF m <= k THEN k - m + 1 ELSE 0
        /\ \A i \in 1..k - m + 1 : SubSeq(c, m, k)[i] = c[m + i - 1]
    BY <2>1, <2>4, SubSeqProperties
  <2> HIDE DEF r
  <2>6. Len(l) = n
    BY <2>2, <2>3, <2>5
  <2>7. \A i \in 1..n : l[i] = c[Len(a) + i]
    BY <2>2, <2>3, <2>5
  <2> QED
    BY <2>3, <2>5, <2>6, <2>7
<1>3. r \in Seq(Byte) /\ Len(r) = n /\ \A i \in 1..n : r[i] = b[i]
  <2>1. \A i \in 1..n : b[i] \in Byte
    BY <1>1, ElementOfSeq
  <2>2. /\ r \in Seq(Byte) /\ Len(r) = IF 1 <= n THEN n - 1 + 1 ELSE 0
        /\ \A i \in 1..n - 1 + 1 : r[i] = b[1 + i - 1]
    BY <2>1, SubSeqProperties
  <2> HIDE DEF r
  <2> QED
    BY <2>2
<1> HIDE DEF l, r
<1>4. \A i \in 1..n : l[i] = r[i]
  BY <1>1, <1>2, <1>3
<1>5. l = r
  BY <1>2, <1>3, <1>4, SeqEqual
<1> QED
  BY <1>1, <1>3, <1>5 DEF l, r

\* A transfer that is resumed or begun is one the contract allows.
LEMMA RequestIs ==
  ASSUME BInv, NEW t \in Threads, NEW x \in Transfer, Begun(t, x),
         x.end \in OpenEnds(x.pipe)
  PROVE  /\ AsRequest(x) \in Contract!Requests(t)
         /\ Asked[t] = NoTransfer <=> parked[t] = NoTransfer
         /\ parked[t] # NoTransfer => Asked[t] = AsRequest(x)
<1>1. x.pipe \in Serials /\ x.length \in Lengths /\ x.done \in Nat /\ x.end \in End
      /\ x.call \in 0..MaxWrites
  BY DEF Transfer
<1>2. AsRequest(x) # NoTransfer
  BY <1>1, RequestAssumption DEF Request, AsRequest
<1>3. CASE parked[t] = x
  <2>1. parked[t] # NoTransfer
    BY <1>3, NothingAssumption
  <2>2. Asked[t] = AsRequest(x)
    BY <1>3, <2>1 DEF Asked, RequestOf, AsRequest
  <2>3. AsRequest(x) \in Contract!Requests(t)
    BY <1>2, <2>2 DEF Contract!Requests, Asked
  <2> QED
    BY <1>2, <2>1, <2>2, <2>3
<1>4. CASE parked[t] = NoTransfer /\ x.done = 0 /\ x.length \in Lengths
           /\ x.call = IF x.end = "Read" THEN 0 ELSE calls + 1
  <2>1. Asked[t] = NoTransfer
    BY <1>4 DEF Asked, RequestOf
  <2>2. AsRequest(x) = [end |-> x.end, length |-> x.length, done |-> 0,
                        pipe |-> x.pipe,
                        call |-> IF x.end = "Read" THEN 0 ELSE calls + 1]
    BY <1>4 DEF AsRequest
  <2>3. x.end \in Opened[x.pipe]
    BY <1>1 DEF Opened
  <2> DEFINE New(n, g) == {[end |-> e, length |-> n, done |-> 0, pipe |-> g,
                            call |-> IF e = "Read" THEN 0 ELSE calls + 1]
                            : e \in Opened[g]}
  <2>4. AsRequest(x) \in UNION {New(n, g) : n \in Lengths, g \in Serials}
    <3>1. AsRequest(x) \in New(x.length, x.pipe)
      BY <2>2, <2>3
    <3> HIDE DEF New
    <3> QED
      BY <1>1, <3>1
  <2>5. Contract!Requests(t) = UNION {New(n, g) : n \in Lengths, g \in Serials}
    BY <2>1 DEF Contract!Requests, Asked, Opened
  <2> HIDE DEF New
  <2> QED
    BY <1>4, <2>1, <2>4, <2>5
<1> QED
  BY <1>3, <1>4 DEF Begun

\* One thread parks, or stops being parked.
LEMMA AskedMoves ==
  ASSUME BInv, NEW t \in Threads, NEW v \in Transfer \cup {NoTransfer},
         parked' = [parked EXCEPT ![t] = v]
  PROVE  Asked' = [Asked EXCEPT ![t] =
                     IF v = NoTransfer THEN NoTransfer ELSE AsRequest(v)]
<1>1. parked \in [Threads -> Transfer \cup {NoTransfer}]
  BY DEF BInv, IInv, TypeOK
<1>2. \A u \in Threads : parked'[u] = IF u = t THEN v ELSE parked[u]
  BY <1>1
<1>3. Asked' = [u \in Threads |->
         IF parked'[u] = NoTransfer THEN NoTransfer ELSE AsRequest(parked'[u])]
  BY DEF Asked, RequestOf, AsRequest
<1>4. Asked = [u \in Threads |->
         IF parked[u] = NoTransfer THEN NoTransfer ELSE AsRequest(parked[u])]
  BY DEF Asked, RequestOf, AsRequest
<1> QED
  BY <1>2, <1>3, <1>4

\* An answer is a return of the contract.
LEMMA ReturnsIs ==
  ASSUME BInv, NEW t \in Threads, NEW value, NEW values, value \in values,
         Answer(t, value)
  PROVE  Contract!Returns(t, values)
<1>1. Asked' = [Asked EXCEPT ![t] = NoTransfer]
  BY AskedMoves DEF Answer
<1>2. rax' = [thread |-> t, value |-> value]
  BY DEF Answer
<1> QED
  BY <1>1, <1>2 DEF Contract!Returns, Asked

\* A transfer that parks is a call the contract keeps waiting.
LEMMA WaitsIs ==
  ASSUME BInv, NEW t \in Threads, NEW x \in Transfer,
         parked' = [parked EXCEPT ![t] = x], rax' = rax
  PROVE  Contract!Waits(t, AsRequest(x))
<1>1. Asked' = [Asked EXCEPT ![t] = AsRequest(x)]
  BY AskedMoves, NothingAssumption
<1> QED
  BY <1>1 DEF Contract!Waits, Asked

\* A call begins as in the contract: a new write counts, nothing else does.
LEMMA BeginsIs ==
  ASSUME BInv, NEW t \in Threads, NEW x \in Transfer, Begun(t, x),
         x.end \in OpenEnds(x.pipe),
         UNCHANGED <<made, files>>,
         calls' = IF parked[t] = NoTransfer /\ x.end = "Write"
                  THEN calls + 1 ELSE calls
  PROVE  Contract!Begins(t, AsRequest(x))
<1>1. Opened' = Opened
  BY DEF Opened, OpenEnds
<1>2. calls' = IF Asked[t] = NoTransfer /\ AsRequest(x).end = "Write"
               THEN AsRequest(x).call ELSE calls
  <2>1. AsRequest(x).end = x.end /\ AsRequest(x).call = x.call
    BY DEF AsRequest
  <2>2. parked[t] = NoTransfer /\ x.end = "Write" => x.call = calls + 1
    BY NothingAssumption DEF Begun
  <2> QED
    BY <2>1, <2>2, RequestIs
<1> QED
  BY <1>1, <1>2, RequestIs DEF Contract!Begins, Asked, Opened

\* What the kernel reads in the slot a transfer names is what the contract
\* reads of its pipe.
LEMMA CallIs ==
  ASSUME BInv, NEW t \in Threads, NEW x \in Transfer, Begun(t, x),
         HoldsIn(files[Home[t]], x),
         UNCHANGED <<made, files>>,
         calls' = IF parked[t] = NoTransfer /\ x.end = "Write"
                  THEN calls + 1 ELSE calls
  PROVE  /\ AsRequest(x) \in Contract!Requests(t)
         /\ Contract!Begins(t, AsRequest(x))
         /\ rings[x.ring] # FreeRing /\ pipe[x.ring] = x.pipe
         /\ x.ring \in Slots /\ x.pipe \in Serials
         /\ sent \in [Serials -> Seq(Byte)] /\ drained \in [Serials -> Seq(Byte)]
         /\ rings[x.ring] \in RingRecord
         /\ sent[x.pipe] = drained[x.pipe] \o rings[x.ring].bytes
         /\ rings[x.ring].readers = 0 <=> "Read" \notin Opened[x.pipe]
         /\ rings[x.ring].writers = 0 <=> "Write" \notin Opened[x.pipe]
<1>1. /\ x.ring \in Slots /\ x.end \in End /\ x.pipe \in Serials
      /\ Home[t] \in Procs
      /\ sent \in [Serials -> Seq(Byte)] /\ drained \in [Serials -> Seq(Byte)]
      /\ rings[x.ring] \in RingRecord
  BY PipesAssumption DEF BInv, IInv, TypeOK, Transfer
<1>2. rings[x.ring] # FreeRing /\ pipe[x.ring] = x.pipe
  BY <1>1, HeldSlot DEF BInv
<1>3. x.end \in OpenEnds(x.pipe)
  BY <1>1 DEF HoldsIn, OpenEnds
<1>4. AsRequest(x) \in Contract!Requests(t) /\ Contract!Begins(t, AsRequest(x))
  BY <1>3, RequestIs, BeginsIs
<1>5. sent[x.pipe] = drained[x.pipe] \o rings[x.ring].bytes
  BY <1>1, <1>2 DEF BInv, BytesAreKept
<1>6. /\ rings[x.ring].readers = 0 <=> "Read" \notin OpenEnds(x.pipe)
      /\ rings[x.ring].writers = 0 <=> "Write" \notin OpenEnds(x.pipe)
  BY <1>1, <1>2, EndsAre
<1>7. Opened[x.pipe] = OpenEnds(x.pipe)
  BY <1>1 DEF Opened
<1> QED
  BY <1>1, <1>2, <1>4, <1>5, <1>6, <1>7

\* A read, begun or resumed, delivers the front of what is unread, or tells the
\* end of file, or waits; each only when the contract lets it (advance_transfer).
LEMMA ReadRefines ==
  ASSUME BInv, NEW t \in Threads, NEW x \in Transfer, Begun(t, x),
         HoldsIn(files[Home[t]], x),
         x.end = "Read", x.done = 0, UNCHANGED <<made, files, calls>>,
         NEW nonblock \in BOOLEAN, NEW fault \in BOOLEAN,
         AdvanceRead(t, x, nonblock, fault)
  PROVE  Contract!Reading(t)
<1> DEFINE r == rings[x.ring]
           g == x.pipe
           y == AsRequest(x)
           n == Lesser(x.length, Queued(r))
           got == Taken(r, x.length)
<1>1. calls' = IF parked[t] = NoTransfer /\ x.end = "Write"
               THEN calls + 1 ELSE calls
  OBVIOUS
<1>2. /\ y \in Contract!Requests(t) /\ Contract!Begins(t, y)
      /\ g \in Serials /\ sent \in [Serials -> Seq(Byte)]
      /\ drained \in [Serials -> Seq(Byte)]
      /\ r \in RingRecord /\ sent[g] = drained[g] \o r.bytes
      /\ r.writers = 0 <=> "Write" \notin Opened[g]
  BY <1>1, CallIs
<1>3. y.end = "Read" /\ y.length = x.length /\ y.pipe = g
  BY DEF AsRequest
<1>4. /\ x.length \in Nat \ {0} /\ r.bytes \in Seq(Byte) /\ drained[g] \in Seq(Byte)
      /\ Queued(r) = Len(r.bytes) /\ Len(r.bytes) \in Nat /\ r.writers \in Nat
  BY <1>2, PipesAssumption, LenProperties DEF Transfer, RingRecord, Queued
<1>5. n \in 0..Len(r.bytes) /\ (n = x.length \/ n = Len(r.bytes)) /\ n <= x.length
  BY <1>4 DEF Lesser
<1> DEFINE a == drained[g]
           b == r.bytes
<1>6. /\ got = SubSeq(sent[g], Len(drained[g]) + 1, Len(drained[g]) + n)
      /\ Len(got) = n
      /\ Len(sent[g]) - Len(drained[g]) = Len(r.bytes)
  <2>1. got = SubSeq(b, 1, n)
    BY DEF Taken
  <2>2. sent[g] = a \o b /\ a \in Seq(Byte) /\ b \in Seq(Byte) /\ n \in 0..Len(b)
    BY <1>2, <1>4, <1>5
  <2> HIDE DEF a, b, n, got
  <2>3. /\ SubSeq(a \o b, Len(a) + 1, Len(a) + n) = SubSeq(b, 1, n)
        /\ Len(SubSeq(b, 1, n)) = n
        /\ Len(a \o b) - Len(a) = Len(b)
    BY <2>2, FrontIs
  <2>4. /\ got = SubSeq(sent[g], Len(a) + 1, Len(a) + n)
        /\ Len(got) = n
        /\ Len(sent[g]) - Len(a) = Len(b)
    BY <2>1, <2>2, <2>3
  <2> QED
    BY <2>4 DEF a, b
<1>7. /\ drained' = [drained EXCEPT ![g] = drained[g] \o got] /\ sent' = sent
      /\ IF Readable(r)
         THEN Answer(t, IF fault /\ got # << >> THEN EFAULT ELSE Len(got))
         ELSE Wait(t, x, nonblock)
  BY DEF AdvanceRead
<1> HIDE DEF n, got, y, r, g
<1>8. CASE n > 0
  <2>1. Readable(r)
    BY <1>4, <1>5, <1>8 DEF Readable
  <2>2. Contract!Returns(t, {n, EFAULT})
    BY <1>6, <1>7, <2>1, ReturnsIs
  <2>3. Contract!Unread(g) = Len(r.bytes)
    BY <1>6 DEF Contract!Unread
  <2>4. drained' = [drained EXCEPT ![g] =
           @ \o SubSeq(sent[g], Len(@) + 1, Len(@) + n)]
    BY <1>6, <1>7
  <2>5. n \in 1..y.length /\ n <= Contract!Unread(g)
        /\ (n = y.length \/ n = Contract!Unread(g))
    BY <1>3, <1>4, <1>5, <1>8, <2>3
  <2>6. Contract!EFAULT = EFAULT
    BY DEF Contract!EFAULT, EFAULT
  <2>7. Contract!Deliver(t, y)
    BY <1>3, <1>7, <2>2, <2>4, <2>5, <2>6 DEF Contract!Deliver
  <2> QED
    BY <1>2, <1>3, <2>7 DEF Contract!Reading
<1>9. CASE n = 0
  <2>1. Queued(r) = 0 /\ Len(r.bytes) = 0
    BY <1>4, <1>5, <1>9
  <2>2. Contract!Unread(g) = 0
    BY <1>6, <2>1 DEF Contract!Unread
  <2>3. got \in Seq(Byte) /\ got = << >>
    <3>1. got \in Seq(Byte)
      BY <1>2, <1>4, TakeType DEF got
    <3> QED
      BY <1>6, <1>9, <3>1, EmptySeq
  <2>4. drained' = drained
    <3>1. drained[g] \o << >> = drained[g]
      BY <1>4, ConcatEmptySeq
    <3> QED
      BY <1>2, <1>7, <2>3, <3>1
  <2>5. CASE Readable(r)
    <3>1. r.writers = 0
      BY <2>1, <2>5 DEF Readable
    <3>2. Contract!Returns(t, {0})
      BY <1>6, <1>7, <1>9, <2>3, <2>5, ReturnsIs
    <3>3. Contract!EndOfFile(t, y)
      BY <1>2, <1>3, <1>7, <2>2, <2>4, <3>1, <3>2 DEF Contract!EndOfFile, Opened
    <3> QED
      BY <1>2, <1>3, <3>3 DEF Contract!Reading
  <2>6. CASE ~Readable(r)
    <3>1. r.writers # 0
      BY <2>6 DEF Readable
    <3>2. Contract!Returns(t, {Contract!EAGAIN}) \/ Contract!Waits(t, y)
      <4>1. CASE nonblock
        <5>1. Answer(t, EAGAIN)
          BY <1>7, <2>6, <4>1 DEF Wait
        <5> QED
          BY <5>1, ReturnsIs DEF EAGAIN, Contract!EAGAIN
      <4>2. CASE ~nonblock
        BY <1>7, <2>6, <4>2, WaitsIs DEF Wait, y
      <4> QED
        BY <4>1, <4>2
    <3>3. Contract!AwaitBytes(t, y)
      BY <1>2, <1>3, <1>7, <2>2, <2>4, <3>1, <3>2 DEF Contract!AwaitBytes, Opened
    <3> QED
      BY <1>2, <1>3, <3>3 DEF Contract!Reading
  <2> QED
    BY <2>5, <2>6
<1> QED
  BY <1>4, <1>5, <1>8, <1>9

\* A write of up to PIPE_BUF bytes gets in whole or not at all.
LEMMA AcceptedIs ==
  ASSUME NEW r \in RingRecord, NEW x \in Transfer, Whole(x), x.end = "Write"
  PROVE  x.length <= Atomic => Accepted(r, x.length - x.done) \in {0, x.length}
<1>1. /\ x.length \in Nat /\ x.done \in Nat /\ x.done < x.length
      /\ Queued(r) \in Nat /\ Capacity \in Nat
  BY PipesAssumption, RingAssumption, LenProperties DEF Transfer, RingRecord, Queued
<1>2. x.length <= Atomic => x.done = 0
  BY DEF Whole
<1> QED
  BY <1>1, <1>2, RingAssumption DEF Accepted, Room, Lesser

\* A write, begun or resumed, moves what the contract lets it, finds its pipe
\* broken or its buffer gone; and if it parks it is still in one piece.
LEMMA WriteRefines ==
  ASSUME BInv, NEW t \in Threads, NEW x \in Transfer, Begun(t, x),
         HoldsIn(files[Home[t]], x),
         x.end = "Write", Whole(x), UNCHANGED <<made, files>>,
         calls' = IF parked[t] = NoTransfer THEN calls + 1 ELSE calls,
         NEW nonblock \in BOOLEAN, NEW fault \in BOOLEAN, NEW killed \in BOOLEAN,
         fault => parked[t] = x,
         AdvanceWrite(t, x, nonblock, fault, killed)
  PROVE  /\ Contract!Writing(t)
         /\ parked'[t] # NoTransfer => Whole(parked'[t])
<1> DEFINE r == rings[x.ring]
           g == x.pipe
           y == AsRequest(x)
           left == x.length - x.done
           n == IF r.readers = 0 \/ fault THEN 0 ELSE Accepted(r, left)
           z == [x EXCEPT !.done = x.done + n]
<1>1. calls' = IF parked[t] = NoTransfer /\ x.end = "Write"
               THEN calls + 1 ELSE calls
  OBVIOUS
<1>2. /\ y \in Contract!Requests(t) /\ Contract!Begins(t, y)
      /\ g \in Serials /\ sent \in [Serials -> Seq(Byte)]
      /\ r \in RingRecord
      /\ r.readers = 0 <=> "Read" \notin Opened[g]
  BY <1>1, CallIs
<1>3. /\ y.end = "Write" /\ y.length = x.length /\ y.pipe = g /\ y.done = x.done
      /\ y.call = x.call
  BY DEF AsRequest
<1>4. /\ x.length \in Nat \ {0} /\ x.done \in Nat /\ x.done < x.length
      /\ r.readers \in Nat /\ left \in Nat \ {0}
  <2>1. x.length \in Nat \ {0} /\ x.done \in Nat /\ x.done < x.length
    BY PipesAssumption DEF Transfer
  <2>2. r.readers \in Nat
    <3> HIDE DEF r
    <3> QED
      BY <1>2 DEF RingRecord
  <2>3. left \in Nat \ {0}
    BY <2>1
  <2> QED
    BY <2>1, <2>2, <2>3
<1>5. n \in Nat /\ n <= left /\ Chunk(x, n) \in Seq(Byte)
  <2>1. n = 0 \/ n = Accepted(r, x.length - x.done)
    OBVIOUS
  <2> HIDE DEF n, r
  <2> QED
    BY <1>2, <2>1, GiveType
<1>6. x.length <= Atomic => n \in {0, x.length}
  <2> HIDE DEF r
  <2> QED
    BY <1>2, AcceptedIs
<1>7. /\ sent' = [sent EXCEPT ![g] = @ \o Chunk(x, n)] /\ drained' = drained
      /\ r.readers = 0 => Answer(t, IF killed \/ x.done = 0 THEN EPIPE ELSE x.done)
      /\ r.readers > 0 /\ fault => Answer(t, EFAULT)
      /\ r.readers > 0 /\ ~fault /\ n = left => Answer(t, x.length)
      /\ r.readers > 0 /\ ~fault /\ n # left => Wait(t, z, nonblock)
  BY <1>4 DEF AdvanceWrite
<1>8. r.readers = 0 \/ fault => n = 0
  OBVIOUS
<1>9. n # left => z \in Transfer /\ AsRequest(z) = [y EXCEPT !.done = x.done + n]
                   /\ z.done = x.done + n /\ z.length = x.length /\ z.end = x.end
  <2> HIDE DEF n
  <2> QED
    BY <1>4, <1>5 DEF Transfer, AsRequest
<1>10. n = 0 => sent' = sent
  <2>1. Chunk(x, 0) = << >>
    <3>1. Chunk(x, 0) \in [1..0 -> Byte]
      BY DEF Chunk
    <3> QED
      BY DEF Chunk
  <2>2. sent[g] \o << >> = sent[g]
    BY <1>2, ConcatEmptySeq
  <2> HIDE DEF n
  <2> QED
    BY <1>2, <1>7, <2>1, <2>2
<1>11. Chunk(x, n) = [i \in 1..n |-> <<y.call, y.done + i>>]
  BY <1>3 DEF Chunk
<1> HIDE DEF n, y, r, g, left, z
<1>12. CASE r.readers = 0
  <2> DEFINE value == IF killed \/ x.done = 0 THEN EPIPE ELSE x.done
  <2>1. value \in {Contract!EPIPE} \cup ({y.done} \ {0})
    BY <1>3 DEF EPIPE, Contract!EPIPE
  <2>2. Answer(t, value)
    BY <1>7, <1>12
  <2> HIDE DEF value
  <2>3. Contract!Returns(t, {Contract!EPIPE} \cup ({y.done} \ {0}))
    BY <2>1, <2>2, ReturnsIs
  <2>4. Contract!Broken(t, y)
    BY <1>2, <1>3, <1>7, <1>8, <1>10, <1>12, <2>3 DEF Contract!Broken, Opened
  <2>5. parked'[t] = NoTransfer
    BY <2>2 DEF Answer, BInv, IInv, TypeOK
  <2> QED
    BY <1>2, <1>3, <2>4, <2>5 DEF Contract!Writing
<1>13. CASE r.readers > 0 /\ fault
  <2>1. Answer(t, EFAULT)
    BY <1>7, <1>13
  <2>2. Contract!Returns(t, {Contract!EFAULT})
    BY <2>1, ReturnsIs DEF EFAULT, Contract!EFAULT
  <2>3. Asked[t] = y
    BY <1>13, NothingAssumption DEF Asked, RequestOf, AsRequest, y
  <2>4. Contract!Faulted(t, y)
    BY <1>7, <1>8, <1>10, <1>13, <2>2, <2>3 DEF Contract!Faulted, Asked
  <2>5. parked'[t] = NoTransfer
    BY <2>1 DEF Answer, BInv, IInv, TypeOK
  <2> QED
    BY <1>2, <1>3, <2>4, <2>5 DEF Contract!Writing
<1>14. CASE r.readers > 0 /\ ~fault
  <2> DEFINE moved == y.done + n
  <2>1. moved = x.done + n /\ moved \in Nat /\ moved <= x.length
        /\ (n = left <=> moved = x.length) /\ n \in 0..(y.length - y.done)
    BY <1>3, <1>4, <1>5 DEF left
  <2>2. "Read" \in Opened[g]
    BY <1>2, <1>4, <1>14
  <2>3. sent' = [sent EXCEPT ![y.pipe] =
           @ \o [i \in 1..n |-> <<y.call, y.done + i>>]]
    BY <1>3, <1>7, <1>11
  <2> DEFINE Over ==
        \/ moved = y.length /\ Contract!Returns(t, {moved})
        \/ 0 < moved /\ moved < y.length /\ Contract!Returns(t, {moved})
        \/ moved = 0 /\ Contract!Returns(t, {Contract!EAGAIN})
        \/ moved < y.length /\ Contract!Waits(t, [y EXCEPT !.done = moved])
  <2>4. Over => Contract!Accept(t, y)
    <3> HIDE DEF moved
    <3> SUFFICES ASSUME Over PROVE Contract!Accept(t, y)
      OBVIOUS
    <3>1. "Read" \in Opened[y.pipe] /\ (y.length <= Atomic => n \in {0, y.length})
          /\ drained' = drained
      BY <1>3, <1>6, <1>7, <2>2
    <3> HIDE DEF Opened
    <3> QED
      BY <2>1, <2>3, <3>1 DEF Contract!Accept, moved, Opened
  <2>5. CASE n = left
    <3>1. Answer(t, moved)
      BY <1>7, <1>14, <2>1, <2>5
    <3>2. Contract!Returns(t, {moved})
      BY <3>1, ReturnsIs
    <3>3. parked'[t] = NoTransfer
      BY <3>1 DEF Answer, BInv, IInv, TypeOK
    <3>4. Over
      BY <1>3, <2>1, <2>5, <3>2
    <3> HIDE DEF Over
    <3> QED
      BY <1>2, <1>3, <2>4, <3>3, <3>4 DEF Contract!Writing
  <2>6. CASE n # left
    <3>1. /\ Wait(t, z, nonblock) /\ z \in Transfer /\ z.done = moved
          /\ z.length = x.length /\ z.end = x.end
          /\ AsRequest(z) = [y EXCEPT !.done = moved] /\ moved < x.length
      <4>1. moved < x.length
        BY <1>4, <2>1, <2>6
      <4>2. moved = x.done + n /\ Wait(t, z, nonblock)
        BY <1>7, <1>14, <2>1, <2>6
      <4> HIDE DEF moved
      <4> QED
        BY <1>9, <2>6, <4>1, <4>2
    <3> HIDE DEF moved
    <3>2. CASE nonblock
      <4>1. Answer(t, IF moved = 0 THEN EAGAIN ELSE moved)
        BY <3>1, <3>2 DEF Wait
      <4>2. parked'[t] = NoTransfer
        BY <4>1 DEF Answer, BInv, IInv, TypeOK
      <4>3. moved = 0 => Contract!Returns(t, {Contract!EAGAIN})
        BY <4>1, ReturnsIs DEF EAGAIN, Contract!EAGAIN
      <4>4. moved # 0 => Contract!Returns(t, {moved})
        BY <4>1, ReturnsIs
      <4>5. Over
        BY <1>3, <2>1, <3>1, <4>3, <4>4
      <4> HIDE DEF Over
      <4> QED
        BY <1>2, <1>3, <2>4, <4>2, <4>5 DEF Contract!Writing
    <3>3. CASE ~nonblock
      <4>1. parked' = [parked EXCEPT ![t] = z] /\ rax' = rax
        BY <3>1, <3>3 DEF Wait
      <4>2. parked'[t] = z
        BY <4>1 DEF BInv, IInv, TypeOK
      <4>3. Contract!Waits(t, AsRequest(z))
        BY <3>1, <4>1, WaitsIs
      <4>4. Over
        BY <1>3, <3>1, <4>3
      <4>5. Whole(z)
        <5>1. x.length <= Atomic => moved = 0
          BY <1>4, <1>6, <2>1, <2>6, <3>1 DEF Whole, left
        <5>2. z.end # "Read" /\ z.length = x.length /\ z.done = moved
          BY <3>1
        <5> QED
          BY <5>1, <5>2 DEF Whole
      <4> HIDE DEF Over
      <4> QED
        BY <1>2, <1>3, <2>4, <4>2, <4>4, <4>5 DEF Contract!Writing
    <3> QED
      BY <3>2, <3>3
  <2> QED
    BY <2>5, <2>6
<1> QED
  BY <1>4, <1>12, <1>13, <1>14

\* Only the thread whose transfer it is parks or returns.
LEMMA OthersStayWhole ==
  ASSUME CInv, NEW t \in Threads, parked'[t] # NoTransfer => Whole(parked'[t]),
         \A u \in Threads : u # t => parked'[u] = parked[u]
  PROVE  ParkedWhole'
<1> SUFFICES ASSUME NEW u \in Threads, parked'[u] # NoTransfer
             PROVE  Whole(parked'[u])
  BY DEF ParkedWhole, Whole
<1>1. CASE u = t
  BY <1>1
<1>2. CASE u # t
  <2>1. parked'[u] = parked[u]
    BY <1>2
  <2> QED
    BY <2>1 DEF CInv, ParkedWhole
<1> QED
  BY <1>1, <1>2

\* advance_transfer, on either end.
LEMMA TransferRefines ==
  ASSUME CInv, NEW t \in Threads, NEW x \in Transfer, Begun(t, x),
         HoldsIn(files[Home[t]], x),
         Whole(x), UNCHANGED <<made, files>>,
         calls' = IF parked[t] = NoTransfer /\ x.end = "Write"
                  THEN calls + 1 ELSE calls,
         NEW nonblock \in BOOLEAN, NEW fault \in BOOLEAN, NEW killed \in BOOLEAN,
         fault => parked[t] = x,
         \/ x.end = "Read" /\ AdvanceRead(t, x, nonblock, fault)
         \/ x.end = "Write" /\ AdvanceWrite(t, x, nonblock, fault, killed)
  PROVE  (Contract!Reading(t) \/ Contract!Writing(t)) /\ ParkedWhole'
<1>1. \A u \in Threads : u # t => parked'[u] = parked[u]
  BY Parks DEF CInv
<1>2. CASE x.end = "Read" /\ AdvanceRead(t, x, nonblock, fault)
  <2>1. x.done = 0 /\ calls' = calls
    BY <1>2 DEF Whole
  <2>2. Contract!Reading(t)
    BY <1>2, <2>1, ReadRefines DEF CInv
  <2>3. parked'[t] \in {NoTransfer, x}
    BY <1>2 DEF AdvanceRead, Answer, Wait, CInv, BInv, IInv, TypeOK
  <2>4. parked'[t] # NoTransfer => Whole(parked'[t])
    BY <2>3
  <2> QED
    BY <1>1, <2>2, <2>4, OthersStayWhole
<1>3. CASE x.end = "Write" /\ AdvanceWrite(t, x, nonblock, fault, killed)
  <2>1. calls' = IF parked[t] = NoTransfer THEN calls + 1 ELSE calls
    BY <1>3
  <2>2. Contract!Writing(t) /\ (parked'[t] # NoTransfer => Whole(parked'[t]))
    BY <1>3, <2>1, WriteRefines DEF CInv
  <2> QED
    BY <1>1, <2>2, OthersStayWhole
<1> QED
  BY <1>2, <1>3

\* read and write.
LEMMA TransferringRefines ==
  ASSUME CInv, NEW t \in Threads, Transferring(t)
  PROVE  (Contract!Reading(t) \/ Contract!Writing(t)) /\ ParkedWhole'
<1>1. PICK fd \in Fds, length \in Lengths, nonblock \in BOOLEAN :
        \/ Read(t, fd, length, nonblock)
        \/ \E killed \in BOOLEAN : Write(t, fd, length, nonblock, killed)
  BY DEF Transferring
<1>2. /\ files \in [Procs -> Table] /\ cur \in Procs /\ calls \in 0..MaxWrites
      /\ MaxWrites \in Nat /\ FALSE \in BOOLEAN
  BY PipesAssumption DEF CInv, BInv, IInv, TypeOK
<1>3. ASSUME NEW call \in 0..MaxWrites, files[cur][fd] # NoFile,
             parked[t] = NoTransfer, NEW x,
             x = NewTransfer(files[cur][fd], length, call),
             call = IF files[cur][fd].end = "Read" THEN 0 ELSE calls + 1
      PROVE  /\ x \in Transfer /\ HoldsIn(files[cur], x) /\ Begun(t, x) /\ Whole(x)
             /\ x.end = files[cur][fd].end
  <2>1. files[cur][fd] \in Descriptor /\ fd \in Open(files[cur])
    BY <1>2, <1>3 DEF Table, Open
  <2>2. x \in Transfer
    BY <1>3, <2>1, PipesAssumption DEF NewTransfer, Transfer, Descriptor
  <2>3. /\ files[cur][fd].ring = x.ring
        /\ files[cur][fd].end = x.end
        /\ files[cur][fd].pipe = x.pipe
        /\ x.done = 0 /\ x.length = length /\ x.call = call
    BY <1>3 DEF NewTransfer
  <2> QED
    BY <1>3, <2>1, <2>2, <2>3 DEF HoldsIn, Begun, Whole
<1>4. CASE Read(t, fd, length, nonblock)
  <2> DEFINE x == NewTransfer(files[cur][fd], length, 0)
  <2>1. /\ Home[t] = cur /\ files[cur][fd] # NoFile /\ parked[t] = NoTransfer
        /\ files[cur][fd].end = "Read"
        /\ AdvanceRead(t, x, nonblock, FALSE)
        /\ UNCHANGED <<files, made, calls>>
    BY <1>4 DEF Read, CanCall
  <2>2. /\ x \in Transfer /\ HoldsIn(files[Home[t]], x) /\ Begun(t, x) /\ Whole(x)
        /\ x.end = "Read"
    BY <1>2, <1>3, <2>1
  <2> HIDE DEF x
  <2> QED
    BY <1>2, <2>1, <2>2, TransferRefines
<1>5. CASE \E killed \in BOOLEAN : Write(t, fd, length, nonblock, killed)
  <2> DEFINE x == NewTransfer(files[cur][fd], length, calls + 1)
  <2>1. PICK killed \in BOOLEAN : Write(t, fd, length, nonblock, killed)
    BY <1>5
  <2>2. /\ Home[t] = cur /\ files[cur][fd] # NoFile /\ parked[t] = NoTransfer
        /\ calls < MaxWrites /\ files[cur][fd].end = "Write" /\ calls' = calls + 1
        /\ AdvanceWrite(t, x, nonblock, FALSE, killed)
        /\ UNCHANGED <<files, made>>
    BY <2>1 DEF Write, CanCall
  <2>3. calls + 1 \in 0..MaxWrites
    BY <1>2, <2>2
  <2>4. /\ x \in Transfer /\ HoldsIn(files[Home[t]], x) /\ Begun(t, x) /\ Whole(x)
        /\ x.end = "Write"
    BY <1>3, <2>2, <2>3
  <2> HIDE DEF x
  <2> QED
    BY <1>2, <2>2, <2>4, TransferRefines
<1> QED
  BY <1>1, <1>4, <1>5

\* A resumed transfer is a call of the contract going on.
LEMMA ResumingRefines ==
  ASSUME CInv, Resuming
  PROVE  /\ \E t \in Threads : Contract!Reading(t) \/ Contract!Writing(t)
         /\ ParkedWhole'
<1>1. PICK t \in Threads, fault \in BOOLEAN, killed \in BOOLEAN :
        Resume(t, fault, killed)
  BY DEF Resuming
<1>2. parked[t] \in Transfer /\ parked[t] # NoTransfer
  BY <1>1 DEF CInv, BInv, IInv, TypeOK, Resume, Ready
<1>3. HoldsIn(files[Home[t]], parked[t]) /\ Whole(parked[t]) /\ Begun(t, parked[t])
  BY <1>2 DEF CInv, BInv, ParkedHolds, ParkedWhole, Begun
<1>4. parked[t].end \in {"Read", "Write"}
  BY <1>2 DEF Transfer, End
<1>5. /\ \/ parked[t].end = "Read" /\ AdvanceRead(t, parked[t], FALSE, fault)
         \/ parked[t].end = "Write"
            /\ AdvanceWrite(t, parked[t], FALSE, fault, killed)
      /\ UNCHANGED <<files, made, calls>>
  BY <1>1, <1>4 DEF Resume
<1> QED
  BY <1>2, <1>3, <1>5, TransferRefines

\* A table replaced by one that names nothing new only closes ends.
LEMMA CloseIs ==
  ASSUME CInv, NEW p \in Procs, NEW table, Drawn(table), SetTable(p, table),
         \A t \in Threads : parked'[t] \in {parked[t], NoTransfer},
         UNCHANGED <<made, calls, sent, drained, rax>>
  PROVE  Contract!Close /\ ParkedWhole'
<1>1. files' = [files EXCEPT ![p] = table] /\ files \in [Procs -> Table]
  BY DEF SetTable, CInv, BInv, IInv, TypeOK
<1>2. ASSUME NEW g \in Serials
      PROVE  Opened'[g] \subseteq Opened[g]
  <2>1. SUFFICES ASSUME NEW e \in OpenEnds(g)' PROVE e \in OpenEnds(g)
    BY DEF Opened
  <2>2. e \in End
    BY DEF OpenEnds
  <2>3. PICK q \in Procs : \E fd \in Open(files'[q]) :
          files'[q][fd].pipe = g /\ files'[q][fd].end = e
    BY DEF OpenEnds
  <2>4. PICK fd \in Open(files'[q]) :
          files'[q][fd].pipe = g /\ files'[q][fd].end = e
    BY <2>3
  <2>5. CASE q = p
    <3>1. files'[q] = table
      BY <1>1, <2>5
    <3>2. PICK h \in Procs \X Fds :
            /\ h[2] \in Open(files[h[1]])
            /\ files[h[1]][h[2]].end = table[fd].end
            /\ files[h[1]][h[2]].pipe = table[fd].pipe
      BY <2>4, <3>1 DEF Drawn
    <3> QED
      BY <2>2, <2>4, <3>1, <3>2 DEF OpenEnds
  <2>6. CASE q # p
    <3>1. files'[q] = files[q]
      BY <1>1, <2>6
    <3> QED
      BY <2>2, <2>4, <3>1 DEF OpenEnds
  <2> QED
    BY <2>5, <2>6
<1>3. \A t \in Threads : Asked'[t] \in {Asked[t], NoTransfer}
  BY DEF Asked, RequestOf
<1>4. DOMAIN Opened' = Serials /\ DOMAIN Asked' = Threads
  BY DEF Opened, Asked
<1>5. ParkedWhole'
  BY DEF CInv, ParkedWhole, Whole
<1> QED
  BY <1>2, <1>3, <1>4, <1>5 DEF Contract!Close, Opened, Asked

\* pipe2: a new pipe with both its ends open, and no other end moves.
LEMMA MakeIs ==
  ASSUME CInv, NEW t \in Threads, NEW cloexec \in Cloexec, MakePipe(t, cloexec)
  PROVE  Contract!Make /\ ParkedWhole'
<1>1. /\ made' = made + 1 /\ made < MaxPipes
      /\ UNCHANGED <<parked, rax, calls, sent, drained>>
  BY DEF MakePipe
<1>2. /\ files \in [Procs -> Table] /\ cur \in Procs
      /\ made \in Nat /\ MaxPipes \in Nat
  BY PipesAssumption DEF CInv, BInv, IInv, TypeOK
<1> DEFINE d(s, e) ==
             [ring |-> s, end |-> e, cloexec |-> cloexec, pipe |-> made + 1]
<1>3. PICK s \in Slots, r \in Fds, w \in Fds :
        /\ LowestFree(files[cur], r)
        /\ LowestFree([files[cur] EXCEPT ![r] = d(s, "Read")], w)
        /\ files' = [files EXCEPT ![cur] =
             [[files[cur] EXCEPT ![r] = d(s, "Read")] EXCEPT ![w] = d(s, "Write")]]
  BY DEF MakePipe
<1>4. made + 1 \in Serials /\ made' \in Serials
  BY <1>1, <1>2 DEF Serials
<1>5. d(s, "Read") \in Descriptor /\ d(s, "Write") \in Descriptor
  BY <1>4, PipesAssumption DEF Descriptor, End
<1>6. r \notin Open(files[cur]) /\ w \notin Open(files[cur]) /\ w # r
  <2> DEFINE opened == [files[cur] EXCEPT ![r] = d(s, "Read")]
  <2>1. d(s, "Read") # NoFile /\ files[cur] \in Table
    BY <1>2, <1>5, NothingAssumption
  <2>2. r \notin Open(files[cur]) /\ w \notin Open(opened)
    BY <1>3 DEF LowestFree
  <2> HIDE DEF d
  <2>3. r \in Open(opened) /\ Open(files[cur]) \subseteq Open(opened)
    BY <2>1 DEF Open, Table
  <2> QED
    BY <2>2, <2>3
<1> PICK new \in Serials : new = made + 1
  BY <1>4
<1>7. /\ d(s, "Read").pipe = new /\ d(s, "Read").end = "Read"
      /\ d(s, "Write").pipe = new /\ d(s, "Write").end = "Write"
      /\ d(s, "Read") # NoFile /\ d(s, "Write") # NoFile
  BY <1>5, NothingAssumption
<1> HIDE DEF d
<1>8. /\ \A p \in Procs : p # cur => files'[p] = files[p]
      /\ files'[cur][r] = d(s, "Read") /\ files'[cur][w] = d(s, "Write")
      /\ \A fd \in Fds : fd # r /\ fd # w => files'[cur][fd] = files[cur][fd]
  BY <1>2, <1>3, <1>6 DEF Table
<1>9. OpenEnds(new)' = End
  <2>1. r \in Open(files'[cur]) /\ w \in Open(files'[cur])
    BY <1>7, <1>8 DEF Open
  <2>2. "Read" \in OpenEnds(new)' /\ "Write" \in OpenEnds(new)'
    BY <1>2, <1>7, <1>8, <2>1 DEF OpenEnds, End
  <2> QED
    BY <2>2 DEF OpenEnds, End
<1>10. ASSUME NEW g \in Serials, g # new
       PROVE  OpenEnds(g)' = OpenEnds(g)
  <2>1. ASSUME NEW p \in Procs, NEW fd
        PROVE  /\ fd \in Open(files'[p]) /\ files'[p][fd].pipe = g =>
                    fd \in Open(files[p]) /\ files'[p][fd] = files[p][fd]
               /\ fd \in Open(files[p]) =>
                    fd \in Open(files'[p]) /\ files'[p][fd] = files[p][fd]
    <3>1. CASE p # cur
      BY <1>8, <3>1
    <3>2. CASE p = cur /\ fd \in Fds /\ fd # r /\ fd # w
      BY <1>8, <3>2 DEF Open
    <3>3. CASE p = cur /\ (fd = r \/ fd = w)
      BY <1>6, <1>7, <1>8, <1>10, <3>3
    <3> QED
      BY <3>1, <3>2, <3>3 DEF Open
  <2> QED
    BY <2>1 DEF OpenEnds
<1>11. Opened' = [Opened EXCEPT ![made'] = End]
  <2>1. made' = new
    BY <1>1
  <2>2. \A g \in Serials : OpenEnds(g)' = IF g = new THEN End ELSE OpenEnds(g)
    BY <1>9, <1>10
  <2> QED
    BY <2>1, <2>2 DEF Opened
<1>12. Asked' = Asked /\ ParkedWhole'
  BY <1>1 DEF Asked, RequestOf, CInv, ParkedWhole, Whole
<1>13. Contract!End = End
  BY DEF Contract!End, End
<1> QED
  BY <1>1, <1>4, <1>11, <1>12, <1>13 DEF Contract!Make, Opened, Asked

\* pipe2 that finds no two descriptors changes nothing the contract sees.
LEMMA RefuseIs ==
  ASSUME CInv, NEW t \in Threads, MakePipeRefused(t)
  PROVE  Contract!Refuse(t) /\ ParkedWhole'
<1>1. /\ rax' = [thread |-> t, value |-> EMFILE]
      /\ UNCHANGED <<files, parked, made, calls, sent, drained>>
  BY DEF MakePipeRefused, history
<1>2. Opened' = Opened /\ Asked' = Asked
  BY <1>1 DEF Opened, OpenEnds, Asked, RequestOf
<1>3. ParkedWhole'
  BY <1>1 DEF CInv, ParkedWhole, Whole
<1>4. Contract!EMFILE = EMFILE
  BY DEF EMFILE, Contract!EMFILE
<1> QED
  BY <1>1, <1>2, <1>3, <1>4 DEF Contract!Refuse, Opened, Asked

\* The calls that make, copy, mark and close descriptors.
LEMMA DescribingRefines ==
  ASSUME CInv, NEW t \in Threads, Describing(t)
  PROVE  (Contract!Refuse(t) \/ Contract!Make \/ Contract!Close) /\ ParkedWhole'
<1>1. IInv /\ cur \in Procs
  BY DEF CInv, BInv, IInv, TypeOK
<1>2. ASSUME NEW table, Drawn(table), Retable(t, table)
      PROVE  Contract!Close /\ ParkedWhole'
  <2>1. /\ SetTable(cur, table)
        /\ UNCHANGED <<parked, made, calls, sent, drained, rax>>
    BY <1>2 DEF Retable, history
  <2> QED
    BY <1>1, <1>2, <2>1, CloseIs
<1>3. CASE \E cloexec \in Cloexec : MakePipe(t, cloexec)
  BY <1>3, MakeIs
<1>4. CASE MakePipeRefused(t)
  BY <1>4, RefuseIs
<1>5. CASE \E fd \in Fds : Dup(t, fd) \/ Close(t, fd)
  BY <1>1, <1>2, <1>5, CopyDrawn, OwnTableDrawn DEF Dup, Close
<1>6. CASE \E old, new \in Fds, cloexec \in Cloexec : Dup3(t, old, new, cloexec)
  BY <1>1, <1>2, <1>6, CopyDrawn, PipesAssumption DEF Dup3
<1>7. CASE \E first, last \in Fds : CloseRange(t, first, last)
  BY <1>1, <1>2, <1>7, OwnTableDrawn, MarkedDrawn DEF CloseRange
<1>8. CASE \E fd \in Fds, cloexec \in Cloexec : SetCloexec(t, fd, cloexec)
  BY <1>1, <1>2, <1>8, MarkedDrawn, PipesAssumption DEF SetCloexec
<1> QED
  BY <1>3, <1>4, <1>5, <1>6, <1>7, <1>8 DEF Describing

\* fork, execve, exit and kill open no end, and only end calls.
LEMMA BecomingRefines ==
  ASSUME CInv, NEW t \in Threads, Becoming(t)
  PROVE  Contract!Close /\ ParkedWhole'
<1>1. IInv /\ cur \in Procs
  BY DEF CInv, BInv, IInv, TypeOK
<1>2. ASSUME NEW S, Ended(S)
      PROVE  \A u \in Threads : parked'[u] \in {parked[u], NoTransfer}
  BY <1>2 DEF Ended
<1>3. CASE Fork(t)
  <2>1. /\ next \in Procs /\ SetTable(next, files[cur])
        /\ UNCHANGED <<parked, made, calls, sent, drained, rax>>
    BY <1>3 DEF Fork, history
  <2>2. Drawn(files[cur])
    BY <1>1, OwnTableDrawn
  <2> QED
    BY <2>1, <2>2, CloseIs
<1>4. CASE Execve(t)
  <2> DEFINE marked == {fd \in Open(files[cur]) : files[cur][fd].cloexec}
  <2>1. /\ SetTable(cur, Without(files[cur], marked))
        /\ Ended(ThreadsOf(cur) \ {t})
        /\ UNCHANGED <<made, calls, sent, drained, rax>>
    BY <1>4 DEF Execve, history
  <2> HIDE DEF marked
  <2>2. Drawn(Without(files[cur], marked))
    BY <1>1, OwnTableDrawn
  <2> QED
    BY <1>1, <1>2, <2>1, <2>2, CloseIs
<1>5. ASSUME NEW p \in Procs, Ends(p)
      PROVE  Contract!Close /\ ParkedWhole'
  <2>1. /\ SetTable(p, EmptyTable) /\ Ended(ThreadsOf(p))
        /\ UNCHANGED <<made, calls, sent, drained, rax>>
    BY <1>5 DEF Ends, history
  <2>2. Drawn(EmptyTable)
    BY <1>1, OwnTableDrawn
  <2> QED
    BY <1>2, <2>1, <2>2, CloseIs
<1>6. CASE Exit(t)
  BY <1>1, <1>5, <1>6 DEF Exit
<1>7. CASE \E p \in Procs : Kill(t, p)
  BY <1>5, <1>7 DEF Kill
<1> QED
  BY <1>3, <1>4, <1>6, <1>7 DEF Becoming

\* A switch, and a step that changes nothing.
LEMMA OthersRefine ==
  ASSUME CInv, Switching \/ UNCHANGED vars
  PROVE  UNCHANGED Contract!vars /\ ParkedWhole'
<1>1. UNCHANGED <<files, parked, made, calls, sent, drained, rax>>
  BY DEF Switching, Turn, history, vars
<1>2. Opened' = Opened /\ Asked' = Asked
  BY <1>1 DEF Opened, OpenEnds, Asked, RequestOf
<1>3. ParkedWhole'
  BY <1>1 DEF CInv, ParkedWhole, Whole
<1> QED
  BY <1>1, <1>2, <1>3 DEF Contract!vars, Opened, Asked

\* Nothing is open and nobody asks for anything.
LEMMA InitRefines ==
  ASSUME Init
  PROVE  CInv /\ Contract!Init
<1>1. BInv
  BY InitMoves
<1>2. ParkedWhole
  BY DEF Init, ParkedWhole
<1>3. Opened = [g \in Serials |-> {}]
  BY DEF Init, Opened, OpenEnds, Open, EmptyTable
<1>4. Asked = [t \in Threads |-> NoTransfer]
  BY DEF Init, Asked, RequestOf
<1>5. rax \in [thread : Threads, value : {0}]
  BY DEF Init, ThreadsOf
<1> QED
  BY <1>1, <1>2, <1>3, <1>4, <1>5 DEF CInv, Contract!Init, Opened, Asked, Init

(***************************************************************************)
(* Pipes implements PipesContract, where no two threads share a table: the *)
(* slots, counts, parking and turns of ring.rs, pipe.rs and run.rs never   *)
(* give a caller an answer, or keep it waiting, against what is open in    *)
(* the process tree and what was written.                                  *)
(***************************************************************************)
THEOREM ContractIsKept ==
  ASSUME Single
  PROVE  Spec => KeepsContract
<1> USE DEF Single
<1>1. Init => CInv /\ Contract!Init
  BY InitRefines
<1>2. ASSUME CInv, BInv', [Next]_vars
      PROVE  CInv' /\ [Contract!Next]_(Contract!vars)
  <2>1. CASE Switching \/ UNCHANGED vars
    BY <1>2, <2>1, OthersRefine DEF CInv
  <2>2. CASE Resuming
    BY <1>2, <2>2, ResumingRefines DEF CInv, Contract!Next
  <2>3. ASSUME NEW t \in Threads, Transferring(t)
        PROVE  CInv' /\ [Contract!Next]_(Contract!vars)
    BY <1>2, <2>3, TransferringRefines DEF CInv, Contract!Next
  <2>4. ASSUME NEW t \in Threads, Describing(t)
        PROVE  CInv' /\ [Contract!Next]_(Contract!vars)
    BY <1>2, <2>4, DescribingRefines DEF CInv, Contract!Next
  <2>5. ASSUME NEW t \in Threads, Becoming(t)
        PROVE  CInv' /\ [Contract!Next]_(Contract!vars)
    BY <1>2, <2>5, BecomingRefines DEF CInv, Contract!Next
  <2> QED
    BY <1>2, <2>1, <2>2, <2>3, <2>4, <2>5 DEF Next
<1>3. Spec => []BInv
  BY BytesInvariance
<1> QED
  BY <1>1, <1>2, <1>3, PTL DEF Spec, KeepsContract, Contract!Spec

---------------------------------------------------------------------------
(* Whoever is taken for ready moves.                                       *)

\* advance_transfer and `ready` agree on when a transfer goes on: one that
\* is ready is answered, or has moved something before it waits again.
LEMMA ReadyReadAdvances ==
  ASSUME IInv, NEW t \in Threads, NEW x \in Transfer, parked[t] = x, Ready(t),
         x.end = "Read", NEW fault \in BOOLEAN, AdvanceRead(t, x, FALSE, fault)
  PROVE  parked'[t] # parked[t]
<1>1. parked'[t] = NoTransfer
  BY DEF AdvanceRead, Answer, Ready, IInv, TypeOK
<1> QED
  BY <1>1, NothingAssumption

LEMMA ReadyWriteAdvances ==
  ASSUME IInv, NEW t \in Threads, NEW x \in Transfer, parked[t] = x, Ready(t),
         x.end # "Read", NEW fault \in BOOLEAN, NEW killed \in BOOLEAN,
         NEW nonblock \in BOOLEAN, ~nonblock,
         AdvanceWrite(t, x, nonblock, fault, killed)
  PROVE  parked'[t] # parked[t]
<1> DEFINE r == rings[x.ring]
           left == x.length - x.done
           n == IF r.readers = 0 \/ fault THEN 0 ELSE Accepted(r, left)
           z == [x EXCEPT !.done = x.done + n]
<1>1. /\ parked \in [Threads -> Transfer \cup {NoTransfer}] /\ x # NoTransfer
      /\ rings[x.ring] \in RingRecord
  BY NothingAssumption DEF IInv, TypeOK, Transfer
<1>2. ASSUME NEW value, Answer(t, value)
      PROVE  parked'[t] # parked[t]
  BY <1>1, <1>2 DEF Answer
<1>3. Writable(r, left)
  BY <1>1 DEF Ready
<1>4. /\ x.length \in Nat /\ x.done \in Nat /\ x.done < x.length
      /\ left \in Nat \ {0}
  <2>1. x.length \in Nat /\ x.done \in Nat /\ x.done < x.length
    BY PipesAssumption DEF Transfer
  <2> QED
    BY <2>1
<1>5. r.readers \in Nat /\ Room(r) \in Nat
  <2>1. Queued(r) \in Nat /\ Queued(r) <= Capacity /\ r.readers \in Nat
    BY <1>1, LenProperties DEF RingRecord, Queued
  <2> HIDE DEF r
  <2> QED
    BY <2>1, RingAssumption DEF Room
<1>6. /\ r.readers = 0 => Answer(t, IF killed \/ x.done = 0 THEN EPIPE ELSE x.done)
      /\ r.readers > 0 /\ fault => Answer(t, EFAULT)
      /\ r.readers > 0 /\ ~fault /\ n = left => Answer(t, x.length)
      /\ r.readers > 0 /\ ~fault /\ n # left => Wait(t, z, nonblock)
  BY <1>4, <1>5 DEF AdvanceWrite
<1>7. r.readers > 0 /\ ~fault => n > 0
  <2> SUFFICES ASSUME r.readers > 0, ~fault PROVE Accepted(r, left) > 0
    BY <1>5
  <2> HIDE DEF r, left
  <2> QED
    BY <1>3, <1>4, <1>5, RingAssumption DEF Writable, Accepted, Lesser
<1>8. n \in Int
  <2> HIDE DEF r, left
  <2> QED
    BY <1>4, <1>5 DEF Accepted, Lesser
<1> HIDE DEF n, r, left
<1>9. CASE r.readers > 0 /\ ~fault /\ n # left
  <2>1. parked'[t] = z
    BY <1>1, <1>6, <1>9 DEF Wait
  <2>2. z.done = x.done + n
    BY DEF Transfer
  <2> HIDE DEF z
  <2> QED
    BY <1>4, <1>7, <1>8, <1>9, <2>1, <2>2
<1> QED
  BY <1>2, <1>5, <1>6, <1>9

(***************************************************************************)
(* A transfer the scheduler takes for ready moves (ring.rs:203): no thread *)
(* makes a call and no process gives up the turn while one is left to      *)
(* resume, so whoever leaves the list of those to look at while it is      *)
(* ready was resumed; and what is resumed ready does not wait unmoved.     *)
(***************************************************************************)
THEOREM ReadyOnesMove == Spec => ReadyMoves
<1>1. ASSUME IInv, [Next]_vars, NEW t \in Threads, t \in todo, t \notin todo',
             Ready(t)
      PROVE  parked'[t] # parked[t]
  <2>1. ~NothingToResume
    BY <1>1 DEF NothingToResume
  <2>2. \A u \in Threads : ~CanCall(u)
    BY <2>1 DEF CanCall
  <2>3. ~Switching
    BY <2>1 DEF Switching, Turn
  <2>4. \A u \in Threads : ~Transferring(u)
    BY <2>2 DEF Transferring, Read, Write
  <2>5. \A u \in Threads : ~Describing(u)
    BY <2>2 DEF Describing, MakePipe, MakePipeRefused, Dup, Dup3, Close, CloseRange,
                SetCloexec, Retable
  <2>6. \A u \in Threads : ~Becoming(u)
    BY <2>2 DEF Becoming, Fork, Execve, Exit, Kill
  <2>7. Resuming
    <3>1. ~UNCHANGED vars
      BY <1>1 DEF vars
    <3> QED
      BY <1>1, <2>3, <2>4, <2>5, <2>6, <3>1 DEF Next
  <2>8. PICK u \in Threads, fault \in BOOLEAN, killed \in BOOLEAN :
          Resume(u, fault, killed)
    BY <2>7 DEF Resuming
  <2>9. u = t
    <3>1. /\ todo' = {v \in todo : v > u}
          /\ \A v \in todo : v < u => ~Ready(v)
      BY <2>8 DEF Resume
    <3>2. t \in Nat /\ u \in Nat
      BY PipesAssumption
    <3> QED
      BY <1>1, <3>1, <3>2
  <2>10. parked[t] \in Transfer
    BY <1>1 DEF IInv, TypeOK, Ready
  <2>11. IF parked[t].end = "Read"
         THEN AdvanceRead(t, parked[t], FALSE, fault)
         ELSE AdvanceWrite(t, parked[t], FALSE, fault, killed)
    BY <2>8, <2>9 DEF Resume
  <2> QED
    BY <1>1, <2>10, <2>11, ReadyReadAdvances, ReadyWriteAdvances
<1>2. IInv /\ [Next]_vars =>
        [\A t \in Threads :
           (t \in todo /\ t \notin todo' /\ Ready(t) /\ cur' = cur) =>
             parked'[t] # parked[t]]_vars
  BY <1>1
<1> QED
  BY <1>2, Invariance, PTL DEF Spec, ReadyMoves
===========================================================================
