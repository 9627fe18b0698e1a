---------------------------- MODULE MemoryProofs ----------------------------
(***************************************************************************)
(* Memory's safety for every set of processes, programs and requests and   *)
(* every size of memory: where every byte is, that a space is partitioned, *)
(* that no step moves another's bytes, and that the owner table implements *)
(* PrivateMemory.                                                          *)
(*                                                                         *)
(* The argument goes from the inside out.  Each operation of AddressSpace  *)
(* takes a space in order (Tidy) to one, and shows at which pages it       *)
(* changes anything (Changes, Maps, Resizes, Moves).  Each operation on    *)
(* the owner table keeps Keeps and moves no byte of a process but the one  *)
(* it is for (OthersSame).  sync_pages joins the two (SyncHolds), so each  *)
(* row steps the running process and nobody else (Stepped).  A load is the *)
(* same for a process being made (Builds).                                 *)
(***************************************************************************)
EXTENDS Memory, FiniteSetTheorems, WellFoundedInduction, TLAPS

(* A program that names only what it mapped, and grows a mapping only      *)
(* where the pool holds all of what is above it or none (see Memory!Wild). *)
Tame == Wild = {}

---------------------------------------------------------------------------
(* Intervals. *)

\* No page of one range is a page of the other.
Apart(lo, hi, a, b) == hi <= a \/ b <= lo

\* What a mapping shows at a page.
Shows(sp, p, prot) == \E v \in sp.vmas : v.start <= p /\ p < End(v) /\ v.prot = prot

\* One mapping is a piece of another.
Piece(v, u) == u.start <= v.start /\ End(v) <= End(u) /\ v.prot = u.prot

OffTheHeap(sp, lo, hi) == Apart(lo, hi, sp.start, BrkCeiling(sp))

TidyHeap(sp) ==
  /\ Base <= sp.start /\ sp.start <= sp.brk /\ sp.brk <= BrkCeiling(sp)
  /\ sp.brk = sp.start \/ sp.brk <= Limit

TidyMaps(sp) ==
  /\ \A v \in sp.vmas : 1 <= v.start /\ End(v) <= Ceiling /\ OffTheHeap(sp, v.start, End(v))
  /\ \A v, u \in sp.vmas : v # u => Apart(v.start, End(v), u.start, End(u))

TidyPool(sp) ==
  /\ \A f \in sp.free :
       1 <= f[1] /\ f[1] + f[2] <= Ceiling /\ OffTheHeap(sp, f[1], f[1] + f[2])
  /\ \A f, g \in sp.free : f # g => f[1] + f[2] < g[1] \/ g[1] + g[2] < f[1]

PoolIsUnmapped(sp) ==
  \A f \in sp.free, v \in sp.vmas :
    f[2] = 0 \/ Apart(f[1], f[1] + f[2], v.start, End(v))

Tidy(sp) ==
  /\ sp \in Spaces
  /\ TidyHeap(sp) /\ TidyMaps(sp) /\ TidyPool(sp) /\ PoolIsUnmapped(sp)

\* A range that nothing has a use for.
Room(sp, lo, hi) ==
  /\ OffTheHeap(sp, lo, hi)
  /\ \A v \in sp.vmas : Apart(lo, hi, v.start, End(v))
  /\ \A f \in sp.free : f[2] = 0 \/ Apart(lo, hi, f[1], f[1] + f[2])

\* What an operation on [lo, hi) leaves alone.
Changes(sp, new, lo, hi) ==
  /\ new.start = sp.start /\ new.brk = sp.brk
  /\ \A p \in Nat, prot \in Accesses :
       p < lo \/ hi <= p => (Shows(new, p, prot) <=> Shows(sp, p, prot))

---------------------------------------------------------------------------
(* Numbers. *)

\* A set of natural numbers has a least one, and a greatest one if bounded.
LEMMA LeastExists ==
  ASSUME NEW S, S \subseteq Nat, S # {}
  PROVE  \E x \in S : \A y \in S : x <= y
<1> DEFINE R == OpToRel(<, Nat)
<1>1. \A x, y \in Nat : x < y => <<x, y>> \in R
  <2> SUFFICES ASSUME NEW x \in Nat, NEW y \in Nat, x < y
               PROVE  <<x, y>> \in R
    OBVIOUS
  <2>1. <<x, y>> \in Nat \X Nat /\ <<x, y>>[1] = x /\ <<x, y>>[2] = y
    OBVIOUS
  <2> QED BY <2>1 DEF OpToRel
<1>2. \E x \in S : \A y \in S : <<y, x>> \notin R
  BY NatLessThanWellFounded, WFMin
<1> HIDE DEF R
<1>3. PICK x \in S : \A y \in S : <<y, x>> \notin R
  BY <1>2
<1>4. \A y \in S : ~(y < x)
  BY <1>1, <1>3
<1>5. \A y \in S : x <= y
  BY <1>4
<1> QED BY <1>5

\* The greatest member of a bounded set is one of its members (top's fold).
LEMMA MostIs ==
  ASSUME NEW S, S \subseteq Nat, S # {}, NEW b \in Nat, \A x \in S : x <= b
  PROVE  Most(S) \in S /\ \A y \in S : y <= Most(S)
<1> DEFINE T == {b - x : x \in S}
<1>1. T \subseteq Nat /\ T # {}
  <2>1. \A x \in S : x \in Nat /\ x <= b /\ b - x \in Nat
    OBVIOUS
  <2> QED BY <2>1
<1>2. PICK t \in T : \A y \in T : t <= y
  BY <1>1, LeastExists
<1>3. PICK x \in S : t = b - x
  BY <1>2
<1>4. \A y \in S : y <= x
  <2> SUFFICES ASSUME NEW y \in S PROVE y <= x
    OBVIOUS
  <2>1. b - x <= b - y
    BY <1>2, <1>3
  <2> QED BY <2>1
<1> QED BY <1>4 DEF Most

---------------------------------------------------------------------------
(* The surgery. *)

\* A slice of a mapping is a piece of it.
LEMMA SliceIs ==
  ASSUME NEW v \in Vma, NEW lo \in Nat, NEW hi \in Nat, lo < hi
  PROVE  /\ Slice(v, lo, hi) \in Vma /\ Slice(v, lo, hi).start = lo
         /\ Slice(v, lo, hi).length = hi - lo /\ End(Slice(v, lo, hi)) = hi
         /\ Slice(v, lo, hi).prot = v.prot
<1> DEFINE o == IF v.kind = "file" THEN v.offset + (lo - v.start) ELSE v.offset
<1>0. PICK s : s = Slice(v, lo, hi)
  OBVIOUS
<1>1. o \in Int /\ s = [v EXCEPT !.start = lo, !.length = hi - lo, !.offset = o]
  BY <1>0 DEF Vma, Slice
<1> HIDE DEF o
<1>2. s = [start |-> lo, length |-> hi - lo, prot |-> v.prot, kind |-> v.kind, offset |-> o]
  BY <1>1 DEF Vma
<1>3. hi - lo \in Nat \ {0} /\ lo + (hi - lo) = hi /\ v.prot \in Accesses /\ v.kind \in Backings
  BY DEF Vma
<1>4. s \in Vma /\ s.start = lo /\ s.length = hi - lo /\ End(s) = hi /\ s.prot = v.prot
  BY <1>1, <1>2, <1>3 DEF Vma, End
<1> QED BY <1>0, <1>4, Zenon

\* punch leaves nothing in the hole and everything outside it as it was.
LEMMA PunchedIs ==
  ASSUME NEW sp \in Spaces, TidyMaps(sp), NEW lo \in Nat, NEW hi \in Nat, lo < hi,
         NEW new, new = Punched(sp, lo, hi)
  PROVE  /\ new \in Spaces /\ TidyMaps(new)
         /\ new.start = sp.start /\ new.brk = sp.brk
         /\ new.high = sp.high /\ new.free = sp.free
         /\ \A v \in new.vmas : Apart(v.start, End(v), lo, hi)
         /\ \A v \in new.vmas : \E u \in sp.vmas : Piece(v, u)
         /\ Changes(sp, new, lo, hi)
<1> DEFINE Below(v, u) == u \in sp.vmas /\ Touches(u, lo, hi) /\ u.start < lo
                          /\ v = Slice(u, u.start, lo)
           Above(v, u) == u \in sp.vmas /\ Touches(u, lo, hi) /\ End(u) > hi
                          /\ v = Slice(u, hi, End(u))
           Kept(v) == v \in sp.vmas /\ ~Touches(v, lo, hi)
<1>1. /\ new = [sp EXCEPT !.vmas = new.vmas]
      /\ \A v : v \in new.vmas <=> Kept(v) \/ (\E u : Below(v, u)) \/ (\E u : Above(v, u))
  BY DEF Punched, Spaces
<1>2. \A u \in sp.vmas : u \in Vma /\ u.start \in Nat /\ End(u) \in Nat /\ u.start < End(u)
  BY DEF Spaces, Vma, End
<1>3. \A v, u : Below(v, u) => /\ u \in sp.vmas /\ v \in Vma /\ v.start = u.start /\ End(v) = lo
                               /\ v.prot = u.prot /\ lo < End(u)
  <2> SUFFICES ASSUME NEW v, NEW u, Below(v, u)
               PROVE  /\ u \in sp.vmas /\ v \in Vma /\ v.start = u.start /\ End(v) = lo
                      /\ v.prot = u.prot /\ lo < End(u)
    OBVIOUS
  <2>1. u \in Vma /\ u.start \in Nat /\ u.start < lo /\ v = Slice(u, u.start, lo) /\ lo < End(u)
    BY <1>2 DEF Touches
  <2>2. u \in sp.vmas
    OBVIOUS
  <2> HIDE DEF Above, Below
  <2> QED BY <2>1, <2>2, SliceIs
<1>4. \A v, u : Above(v, u) => /\ u \in sp.vmas /\ v \in Vma /\ v.start = hi /\ End(v) = End(u)
                               /\ v.prot = u.prot /\ u.start < hi
  <2> SUFFICES ASSUME NEW v, NEW u, Above(v, u)
               PROVE  /\ u \in sp.vmas /\ v \in Vma /\ v.start = hi /\ End(v) = End(u)
                      /\ v.prot = u.prot /\ u.start < hi
    OBVIOUS
  <2>1. u \in Vma /\ End(u) \in Nat /\ hi < End(u) /\ v = Slice(u, hi, End(u)) /\ u.start < hi
    BY <1>2 DEF Touches
  <2>2. u \in sp.vmas
    OBVIOUS
  <2> HIDE DEF Above, Below
  <2>3. PICK e : e = End(u)
    OBVIOUS
  <2>4. v \in Vma /\ v.start = hi /\ End(v) = e /\ v.prot = u.prot
    <3>1. u \in Vma /\ e \in Nat /\ hi \in Nat /\ hi < e /\ v = Slice(u, hi, e)
      BY <2>1, <2>3
    <3> HIDE <2>1
    <3>2. v \in Vma /\ v.start = hi /\ v.prot = u.prot
      BY <3>1, SliceIs
    <3>3. End(v) = e
      BY <3>1, SliceIs
    <3> QED BY <3>2, <3>3
  <2> QED BY <2>1, <2>2, <2>3, <2>4
<1>5. new \in Spaces /\ new.start = sp.start /\ new.brk = sp.brk /\ new.high = sp.high /\ new.free = sp.free
  <2>1. new.vmas \subseteq Vma
    BY <1>1, <1>2, <1>3, <1>4
  <2> QED BY <1>1, <2>1 DEF Spaces
<1>6. \A v \in new.vmas : Apart(v.start, End(v), lo, hi)
  BY <1>1, <1>2, <1>3, <1>4 DEF Apart, Touches
<1>7. \A v \in new.vmas : \E u \in sp.vmas : Piece(v, u)
  BY <1>1, <1>2, <1>3, <1>4 DEF Piece, Touches
<1>8. TidyMaps(new)
  <2>1. ASSUME NEW v \in new.vmas
        PROVE  1 <= v.start /\ End(v) <= Ceiling /\ OffTheHeap(new, v.start, End(v))
    <3>1. PICK u \in sp.vmas : Piece(v, u)
      BY <1>7
    <3>2. v.start \in Nat /\ End(v) \in Nat /\ u.start \in Nat /\ End(u) \in Nat
      BY <1>2, <1>5 DEF Spaces, Vma, End
    <3>3. 1 <= u.start /\ End(u) <= Ceiling /\ OffTheHeap(sp, u.start, End(u))
      BY DEF TidyMaps
    <3>4. BrkCeiling(sp) = BrkCeiling(new) /\ BrkCeiling(sp) \in Nat /\ Ceiling \in Nat /\ sp.start \in Nat
      BY <1>5, SpaceAssumption DEF BrkCeiling, Spaces
    <3> QED BY <3>1, <3>2, <3>3, <3>4, <1>5 DEF Piece, OffTheHeap, Apart
  <2>2. ASSUME NEW v \in new.vmas, NEW w \in new.vmas, v # w
        PROVE  Apart(v.start, End(v), w.start, End(w))
    <3>0. v.start \in Nat /\ End(v) \in Nat /\ w.start \in Nat /\ End(w) \in Nat
      BY <1>5 DEF Spaces, Vma, End
    <3>1. ASSUME NEW u \in sp.vmas, NEW x \in sp.vmas, u # x, Piece(v, u), Piece(w, x)
          PROVE  Apart(v.start, End(v), w.start, End(w))
      <4>1. Apart(u.start, End(u), x.start, End(x))
        BY <3>1 DEF TidyMaps
      <4> QED BY <4>1, <3>0, <3>1, <1>2 DEF Apart, Piece
    <3>2. PICK u \in sp.vmas : Piece(v, u) /\ (v = u \/ Below(v, u) \/ Above(v, u))
                               /\ (v = u => Kept(u))
      BY <1>1, <1>2, <1>3, <1>4 DEF Piece, Touches
    <3>3. PICK x \in sp.vmas : Piece(w, x) /\ (w = x \/ Below(w, x) \/ Above(w, x))
                               /\ (w = x => Kept(x))
      BY <1>1, <1>2, <1>3, <1>4 DEF Piece, Touches
    <3>4. CASE u = x
      <4>1. (Below(v, u) /\ Above(w, u)) \/ (Above(v, u) /\ Below(w, u))
        <5>1. Below(v, u) \/ Above(v, u) => Touches(u, lo, hi)
          OBVIOUS
        <5>2. Below(w, u) \/ Above(w, u) => Touches(u, lo, hi)
          OBVIOUS
        <5>3. Below(v, u) /\ Below(w, u) => v = w
          OBVIOUS
        <5>4. Above(v, u) /\ Above(w, u) => v = w
          OBVIOUS
        <5>5. v = u => ~Touches(u, lo, hi)
          BY <3>2
        <5>6. w = u => ~Touches(u, lo, hi)
          BY <3>3, <3>4
        <5>7. (v = u \/ Below(v, u) \/ Above(v, u)) /\ (w = u \/ Below(w, u) \/ Above(w, u))
          BY <3>2, <3>3, <3>4
        <5> HIDE DEF Below, Above
        <5> QED BY <5>1, <5>2, <5>3, <5>4, <5>5, <5>6, <5>7, <2>2
      <4> HIDE DEF Below, Above
      <4> QED BY <4>1, <1>3, <1>4 DEF Apart
    <3> QED BY <3>1, <3>2, <3>3, <3>4
  <2> QED BY <2>1, <2>2 DEF TidyMaps
<1>9. ASSUME NEW p \in Nat, NEW prot \in Accesses, p < lo \/ hi <= p
      PROVE  Shows(new, p, prot) <=> Shows(sp, p, prot)
  <2>1. ASSUME Shows(new, p, prot) PROVE Shows(sp, p, prot)
    <3>1. PICK v \in new.vmas : v.start <= p /\ p < End(v) /\ v.prot = prot
      BY <2>1 DEF Shows
    <3>2. PICK u \in sp.vmas : Piece(v, u)
      BY <1>7
    <3>3. v.start \in Nat /\ End(v) \in Nat /\ u.start \in Nat /\ End(u) \in Nat
      BY <1>2, <1>5 DEF Spaces, Vma, End
    <3> QED BY <3>1, <3>2, <3>3 DEF Shows, Piece
  <2>2. ASSUME Shows(sp, p, prot) PROVE Shows(new, p, prot)
    <3>1. PICK u \in sp.vmas : u.start <= p /\ p < End(u) /\ u.prot = prot
      BY <2>2 DEF Shows
    <3>2. u.start \in Nat /\ End(u) \in Nat
      BY <1>2
    <3>3. CASE ~Touches(u, lo, hi)
      BY <1>1, <3>1, <3>3 DEF Shows
    <3>4. CASE Touches(u, lo, hi) /\ p < lo
      <4>1. Below(Slice(u, u.start, lo), u)
        BY <3>1, <3>2, <3>4
      <4>2. Slice(u, u.start, lo) \in new.vmas
        BY <4>1, <1>1
      <4> HIDE DEF Below
      <4> QED BY <4>1, <4>2, <1>3, <3>1, <3>2, <3>4 DEF Shows
    <3>5. CASE Touches(u, lo, hi) /\ hi <= p
      <4>1. Above(Slice(u, hi, End(u)), u)
        BY <3>1, <3>2, <3>5
      <4>2. Slice(u, hi, End(u)) \in new.vmas
        BY <4>1, <1>1
      <4> HIDE DEF Above
      <4> QED BY <4>1, <4>2, <1>4, <3>1, <3>2, <3>5 DEF Shows
    <3> QED BY <3>3, <3>4, <3>5, <1>9
  <2> QED BY <2>1, <2>2
<1> QED BY <1>5, <1>6, <1>7, <1>8, <1>9 DEF Changes

\* The ranges of a pool are numbers.
LEMMA PoolIs ==
  ASSUME NEW sp \in Spaces, NEW f \in sp.free
  PROVE  f \in Nat \X Nat /\ f[1] \in Nat /\ f[2] \in Nat /\ f[1] + f[2] \in Nat
BY DEF Spaces

\* What a mapping of a space is.
LEMMA MapsAre ==
  ASSUME NEW sp \in Spaces, NEW v \in sp.vmas
  PROVE  v \in Vma /\ v.start \in Nat /\ v.length \in Nat /\ End(v) \in Nat /\ v.start < End(v)
         /\ End(v) = v.start + v.length /\ v.prot \in Accesses
BY DEF Spaces, Vma, End

\* What the numbers of a space are.
LEMMA SpaceIs ==
  ASSUME NEW sp \in Spaces
  PROVE  /\ sp.start \in Nat /\ sp.brk \in Nat /\ sp.high \in Nat
         /\ BrkCeiling(sp) \in Nat /\ sp.start < BrkCeiling(sp)
BY SpaceAssumption DEF Spaces, BrkCeiling

\* take leaves the pool holding no page of the range it takes, and of the
\* others only what it held.
LEMMA TakenIs ==
  ASSUME NEW sp \in Spaces, TidyPool(sp), NEW lo \in Nat, NEW hi \in Nat, lo < hi,
         NEW new, new = Taken(sp, lo, hi)
  PROVE  /\ new \in Spaces /\ TidyPool(new)
         /\ new.start = sp.start /\ new.brk = sp.brk
         /\ new.high = sp.high /\ new.vmas = sp.vmas
         /\ \A f \in new.free : Apart(f[1], f[1] + f[2], lo, hi)
         /\ \A f \in new.free : \E g \in sp.free : g[1] <= f[1] /\ f[1] + f[2] <= g[1] + g[2]
                                                   /\ (g[2] = 0 => f[2] = 0)
<1> DEFINE Hit(f) == ~(f[1] + f[2] <= lo \/ f[1] >= hi)
           Below(f, g) == g \in sp.free /\ Hit(g) /\ g[1] < lo /\ f = <<g[1], lo - g[1]>>
           Above(f, g) == g \in sp.free /\ Hit(g) /\ g[1] + g[2] > hi
                          /\ f = <<hi, g[1] + g[2] - hi>>
           Kept(f) == f \in sp.free /\ ~Hit(f)
           Within(f, g) == g[1] <= f[1] /\ f[1] + f[2] <= g[1] + g[2] /\ (g[2] = 0 => f[2] = 0)
<1>1. /\ new = [sp EXCEPT !.free = new.free]
      /\ \A f : f \in new.free <=> Kept(f) \/ (\E g : Below(f, g)) \/ (\E g : Above(f, g))
  BY DEF Taken, Spaces
<1>2. \A f, g : Below(f, g) => /\ g \in sp.free /\ f \in Nat \X Nat
                               /\ f[1] = g[1] /\ f[1] + f[2] = lo /\ lo < g[1] + g[2]
  <2> SUFFICES ASSUME NEW f, NEW g, Below(f, g)
               PROVE  /\ g \in sp.free /\ f \in Nat \X Nat
                      /\ f[1] = g[1] /\ f[1] + f[2] = lo /\ lo < g[1] + g[2]
    OBVIOUS
  <2>1. g[1] \in Nat /\ g[2] \in Nat /\ g[1] + g[2] \in Nat
    BY PoolIs
  <2>2. lo - g[1] \in Nat /\ f[1] = g[1] /\ f[2] = lo - g[1] /\ f = <<g[1], lo - g[1]>>
    BY <2>1
  <2> QED BY <2>1, <2>2
<1>3. \A f, g : Above(f, g) => /\ g \in sp.free /\ f \in Nat \X Nat
                               /\ f[1] = hi /\ f[1] + f[2] = g[1] + g[2] /\ g[1] < hi
                               /\ hi < g[1] + g[2]
  <2> SUFFICES ASSUME NEW f, NEW g, Above(f, g)
               PROVE  /\ g \in sp.free /\ f \in Nat \X Nat
                      /\ f[1] = hi /\ f[1] + f[2] = g[1] + g[2] /\ g[1] < hi
                      /\ hi < g[1] + g[2]
    OBVIOUS
  <2>1. g[1] \in Nat /\ g[2] \in Nat /\ g[1] + g[2] \in Nat
    BY PoolIs
  <2>2. g[1] + g[2] - hi \in Nat /\ f[1] = hi /\ f[2] = g[1] + g[2] - hi
        /\ f = <<hi, g[1] + g[2] - hi>>
    BY <2>1
  <2> QED BY <2>1, <2>2
<1>4. \A f \in sp.free : f \in Nat \X Nat /\ f[1] \in Nat /\ f[2] \in Nat /\ f[1] + f[2] \in Nat
  BY PoolIs
<1>5. new \in Spaces /\ new.start = sp.start /\ new.brk = sp.brk /\ new.high = sp.high
      /\ new.vmas = sp.vmas
  <2>1. new.free \subseteq Nat \X Nat
    BY <1>1, <1>2, <1>3, <1>4
  <2> QED BY <1>1, <2>1 DEF Spaces
<1>6. \A f \in new.free : f[1] \in Nat /\ f[2] \in Nat /\ f[1] + f[2] \in Nat
  BY <1>5, PoolIs
<1>7. \A f \in new.free : Apart(f[1], f[1] + f[2], lo, hi)
  BY <1>1, <1>2, <1>3, <1>4 DEF Apart
<1>8. \A f \in new.free : \E g \in sp.free :
         Within(f, g) /\ ((f = g /\ ~Hit(g)) \/ Below(f, g) \/ Above(f, g))
  <2> SUFFICES ASSUME NEW f \in new.free
               PROVE  \E g \in sp.free :
                        Within(f, g) /\ ((f = g /\ ~Hit(g)) \/ Below(f, g) \/ Above(f, g))
    OBVIOUS
  <2>1. CASE Kept(f)
    <3>1. Within(f, f)
      BY <1>4, <2>1
    <3> QED BY <2>1, <3>1
  <2>2. ASSUME NEW g, Below(f, g)
        PROVE  g \in sp.free /\ Within(f, g)
    BY <2>2, <1>2, <1>4, <1>6
  <2>3. ASSUME NEW g, Above(f, g)
        PROVE  g \in sp.free /\ Within(f, g)
    BY <2>3, <1>3, <1>4, <1>6
  <2> HIDE DEF Below, Above, Within
  <2> QED BY <2>1, <2>2, <2>3, <1>1
<1>9. TidyPool(new)
  <2>1. ASSUME NEW f \in new.free
        PROVE  1 <= f[1] /\ f[1] + f[2] <= Ceiling /\ OffTheHeap(new, f[1], f[1] + f[2])
    <3>1. PICK g \in sp.free : Within(f, g)
      BY <1>8
    <3>2. 1 <= g[1] /\ g[1] + g[2] <= Ceiling /\ OffTheHeap(sp, g[1], g[1] + g[2])
      BY DEF TidyPool
    <3>3. BrkCeiling(sp) = BrkCeiling(new) /\ BrkCeiling(sp) \in Nat /\ Ceiling \in Nat /\ sp.start \in Nat
      BY <1>5, SpaceAssumption, SpaceIs DEF BrkCeiling
    <3> QED BY <3>1, <3>2, <3>3, <1>4, <1>5, <1>6 DEF OffTheHeap, Apart
  <2>2. ASSUME NEW f \in new.free, NEW h \in new.free, f # h
        PROVE  f[1] + f[2] < h[1] \/ h[1] + h[2] < f[1]
    <3>1. PICK g \in sp.free : Within(f, g) /\ ((f = g /\ ~Hit(g)) \/ Below(f, g) \/ Above(f, g))
      BY <1>8
    <3>2. PICK x \in sp.free : Within(h, x) /\ ((h = x /\ ~Hit(x)) \/ Below(h, x) \/ Above(h, x))
      BY <1>8
    <3>3. CASE g # x
      <4>1. g[1] + g[2] < x[1] \/ x[1] + x[2] < g[1]
        BY <3>3 DEF TidyPool
      <4> QED BY <4>1, <3>1, <3>2, <1>4, <1>6
    <3>4. CASE g = x
      <4>1. (Below(f, g) /\ Above(h, g)) \/ (Above(f, g) /\ Below(h, g))
        <5>1. Below(f, g) \/ Above(f, g) => Hit(g)
          OBVIOUS
        <5>2. Below(h, g) \/ Above(h, g) => Hit(g)
          OBVIOUS
        <5>3. Below(f, g) /\ Below(h, g) => f = h
          OBVIOUS
        <5>4. Above(f, g) /\ Above(h, g) => f = h
          OBVIOUS
        <5> HIDE DEF Below, Above, Hit
        <5> QED BY <5>1, <5>2, <5>3, <5>4, <3>1, <3>2, <3>4, <2>2
      <4> HIDE DEF Below, Above
      <4> QED BY <4>1, <1>2, <1>3, <1>6
    <3> QED BY <3>3, <3>4
  <2> QED BY <2>1, <2>2 DEF TidyPool
<1> QED BY <1>5, <1>7, <1>8, <1>9

\* What two neighbours of a released range have in common with it.
LEMMA ReleasedIs ==
  ASSUME NEW sp \in Spaces, TidyPool(sp), PoolIsUnmapped(sp),
         NEW lo \in Nat, NEW hi \in Nat, 1 <= lo, lo <= hi, hi <= Ceiling,
         OffTheHeap(sp, lo, hi),
         \A v \in sp.vmas : Apart(lo, hi, v.start, End(v)),
         NEW new, new = Released(sp, lo, hi)
  PROVE  /\ new \in Spaces /\ TidyPool(new) /\ PoolIsUnmapped(new)
         /\ new.start = sp.start /\ new.brk = sp.brk
         /\ new.high = sp.high /\ new.vmas = sp.vmas
         /\ \A c, d \in Nat :
              /\ c < d /\ Apart(lo, hi, c, d)
              /\ \A f \in sp.free : f[2] = 0 \/ Apart(f[1], f[1] + f[2], c, d)
              => \A f \in new.free : f[2] = 0 \/ Apart(f[1], f[1] + f[2], c, d)
<1> DEFINE hit == {f \in sp.free : ~(f[1] + f[2] < lo \/ f[1] > hi)}
           starts == {f[1] : f \in hit}
           ends == {hi} \cup {f[1] + f[2] : f \in hit}
           from == Least2(lo, IF hit = {} THEN lo
                              ELSE CHOOSE x \in starts : \A f \in hit : x <= f[1])
           to == Most(ends)
<1>0. Ceiling \in Nat /\ BrkCeiling(sp) \in Nat /\ sp.start \in Nat /\ sp.start < BrkCeiling(sp)
  BY SpaceAssumption, SpaceIs
<1>1. new = [sp EXCEPT !.free = (@ \ hit) \cup {<<from, to - from>>}]
  BY DEF Released
<1>2. \A f \in sp.free : f \in Nat \X Nat /\ f[1] \in Nat /\ f[2] \in Nat /\ f[1] + f[2] \in Nat
  BY PoolIs
<1>3. /\ to \in Nat /\ hi <= to /\ \A f \in hit : f[1] + f[2] <= to
      /\ to = hi \/ \E f \in hit : f[1] + f[2] = to
  <2>1. ends \subseteq Nat /\ ends # {} /\ \A x \in ends : x <= Ceiling
    <3>1. \A f \in sp.free : f[1] + f[2] <= Ceiling
      BY DEF TidyPool
    <3> QED BY <3>1, <1>2
  <2>2. Most(ends) \in ends /\ \A y \in ends : y <= Most(ends)
    BY <2>1, <1>0, MostIs
  <2>3. hi \in ends /\ \A f \in hit : f[1] + f[2] \in ends
    OBVIOUS
  <2>4. to \in ends /\ \A y \in ends : y <= to
    BY <2>2
  <2>5. to = hi \/ \E f \in hit : f[1] + f[2] = to
    BY <2>4
  <2> HIDE DEF to, ends, hit
  <2> QED BY <2>1, <2>3, <2>4, <2>5
<1>4. /\ from \in Nat /\ from <= lo /\ \A f \in hit : from <= f[1]
      /\ from = lo \/ \E f \in hit : f[1] = from
  <2>1. CASE hit = {}
    BY <2>1 DEF Least2
  <2>2. CASE hit # {}
    <3> DEFINE x == CHOOSE x \in starts : \A f \in hit : x <= f[1]
    <3>1. starts \subseteq Nat /\ starts # {}
      BY <1>2, <2>2
    <3>2. \E y \in starts : \A f \in hit : y <= f[1]
      <4>1. PICK y \in starts : \A z \in starts : y <= z
        BY <3>1, LeastExists
      <4>2. \A f \in hit : f[1] \in starts
        OBVIOUS
      <4> HIDE DEF starts, hit
      <4> QED BY <4>1, <4>2
    <3>3. x \in starts /\ \A f \in hit : x <= f[1]
      BY <3>2
    <3>4. x \in Nat /\ \E f \in hit : f[1] = x
      BY <3>1, <3>3
    <3>5. from = Least2(lo, x)
      BY <2>2
    <3>6. \A f \in hit : f[1] \in Nat
      BY <1>2
    <3> HIDE DEF x, from, hit, starts
    <3> QED BY <3>3, <3>4, <3>5, <3>6 DEF Least2
  <2> QED BY <2>1, <2>2
<1>5. \A f : f \in hit <=> f \in sp.free /\ ~(f[1] + f[2] < lo \/ f[1] > hi)
  OBVIOUS
<1>6. PICK w : w = <<from, to - from>>
  <2> HIDE DEF from, to
  <2> QED OBVIOUS
<1>7. w \in Nat \X Nat /\ w[1] = from /\ w[1] + w[2] = to /\ w[2] = to - from
  <2> HIDE DEF from, to
  <2>1. to - from \in Nat
    BY <1>3, <1>4
  <2> QED BY <1>3, <1>4, <1>6, <2>1
<1> HIDE DEF from, to, hit
<1>8. /\ new \in Spaces /\ new.start = sp.start /\ new.brk = sp.brk
      /\ new.high = sp.high /\ new.vmas = sp.vmas
      /\ new.free = (sp.free \ hit) \cup {w}
  <2>1. (sp.free \ hit) \cup {w} \subseteq Nat \X Nat
    BY <1>2, <1>7
  <2> QED BY <1>1, <1>6, <2>1 DEF Spaces
\* The range grows only over ranges of the pool that touch it.
<1>9. PICK a \in Nat, b \in Nat : /\ from <= lo /\ hi <= to
                                  /\ from = lo \/ \E f \in hit : f[1] = from /\ f[1] + f[2] = a
                                  /\ to = hi \/ \E f \in hit : f[1] = b /\ f[1] + f[2] = to
  <2>1. PICK a \in Nat : from = lo \/ \E f \in hit : f[1] = from /\ f[1] + f[2] = a
    <3>1. CASE from = lo
      BY <3>1, <1>4
    <3>2. ASSUME NEW f \in hit, f[1] = from
          PROVE  \E a \in Nat : from = lo \/ \E g \in hit : g[1] = from /\ g[1] + g[2] = a
      BY <3>2, <1>2, <1>5
    <3> QED BY <3>1, <3>2, <1>4
  <2>2. PICK b \in Nat : to = hi \/ \E f \in hit : f[1] = b /\ f[1] + f[2] = to
    <3>1. CASE to = hi
      BY <3>1, <1>3
    <3>2. ASSUME NEW f \in hit, f[1] + f[2] = to
          PROVE  \E b \in Nat : to = hi \/ \E g \in hit : g[1] = b /\ g[1] + g[2] = to
      BY <3>2, <1>2, <1>5
    <3> QED BY <3>1, <3>2, <1>3
  <2> QED BY <2>1, <2>2, <1>3, <1>4
<1>10. ASSUME NEW c \in Nat, NEW d \in Nat, c < d, Apart(lo, hi, c, d),
              \A f \in hit : f[2] = 0 \/ Apart(f[1], f[1] + f[2], c, d)
       PROVE  Apart(from, to, c, d)
  <2>1. CASE hi <= c
    <3>1. to <= c
      <4>1. CASE to = hi
        BY <4>1, <2>1
      <4>2. ASSUME NEW f \in hit, f[1] + f[2] = to
            PROVE  to <= c
        <5>1. f[1] \in Nat /\ f[2] \in Nat /\ f[1] <= hi
          BY <1>2, <1>5
        <5>2. f[2] = 0 \/ f[1] + f[2] <= c \/ d <= f[1]
          BY <1>10 DEF Apart
        <5> QED BY <5>1, <5>2, <4>2, <2>1, <1>10
      <4> QED BY <4>1, <4>2, <1>9
    <3> QED BY <3>1 DEF Apart
  <2>2. CASE d <= lo
    <3>1. d <= from
      <4>1. CASE from = lo
        BY <4>1, <2>2
      <4>2. ASSUME NEW f \in hit, f[1] = from
            PROVE  d <= from
        <5>1. f[1] \in Nat /\ f[2] \in Nat /\ lo <= f[1] + f[2]
          BY <1>2, <1>5
        <5>2. f[2] = 0 \/ f[1] + f[2] <= c \/ d <= f[1]
          BY <1>10 DEF Apart
        <5> QED BY <5>1, <5>2, <4>2, <2>2, <1>10
      <4> QED BY <4>1, <4>2, <1>9
    <3> QED BY <3>1 DEF Apart
  <2> QED BY <2>1, <2>2, <1>10 DEF Apart
<1>11. TidyPool(new)
  <2>1. \A f \in sp.free : 1 <= f[1] /\ f[1] + f[2] <= Ceiling /\ OffTheHeap(sp, f[1], f[1] + f[2])
    BY DEF TidyPool
  <2>2. 1 <= from /\ to <= Ceiling
    BY <2>1, <1>0, <1>2, <1>3, <1>4, <1>5
  <2>3. OffTheHeap(sp, from, to)
    <3>1. \A f \in hit : Apart(f[1], f[1] + f[2], sp.start, BrkCeiling(sp))
      BY <2>1, <1>5 DEF OffTheHeap
    <3> QED BY <3>1, <1>0, <1>10 DEF OffTheHeap
  <2>4. BrkCeiling(new) = BrkCeiling(sp) /\ new.start = sp.start
    BY <1>8 DEF BrkCeiling
  <2>5. ASSUME NEW f \in new.free
        PROVE  1 <= f[1] /\ f[1] + f[2] <= Ceiling /\ OffTheHeap(new, f[1], f[1] + f[2])
    BY <2>1, <2>2, <2>3, <2>4, <1>7, <1>8 DEF OffTheHeap
  <2>6. ASSUME NEW g \in sp.free \ hit
        PROVE  g[1] + g[2] < from \/ to < g[1]
    <3>1. g[1] \in Nat /\ g[2] \in Nat /\ (g[1] + g[2] < lo \/ g[1] > hi)
      BY <2>6, <1>2, <1>5
    <3>2. \A f \in hit : g[1] + g[2] < f[1] \/ f[1] + f[2] < g[1]
      BY <1>5 DEF TidyPool
    <3>3. CASE g[1] + g[2] < lo
      <4>1. CASE from = lo
        BY <4>1, <3>3
      <4>2. ASSUME NEW f \in hit, f[1] = from
            PROVE  g[1] + g[2] < from
        <5>1. f[1] \in Nat /\ f[2] \in Nat /\ lo <= f[1] + f[2]
          BY <1>2, <1>5
        <5> QED BY <5>1, <3>1, <3>2, <3>3, <4>2
      <4> QED BY <4>1, <4>2, <1>9
    <3>4. CASE g[1] > hi
      <4>1. CASE to = hi
        BY <4>1, <3>4
      <4>2. ASSUME NEW f \in hit, f[1] + f[2] = to
            PROVE  to < g[1]
        <5>1. f[1] \in Nat /\ f[2] \in Nat /\ f[1] <= hi
          BY <1>2, <1>5
        <5> QED BY <5>1, <3>1, <3>2, <3>4, <4>2
      <4> QED BY <4>1, <4>2, <1>9
    <3> QED BY <3>1, <3>3, <3>4
  <2>7. ASSUME NEW f \in new.free, NEW g \in new.free, f # g
        PROVE  f[1] + f[2] < g[1] \/ g[1] + g[2] < f[1]
    <3>1. CASE f = w
      BY <3>1, <2>6, <2>7, <1>7, <1>8
    <3>2. CASE g = w
      BY <3>2, <2>6, <2>7, <1>7, <1>8
    <3>3. CASE f # w /\ g # w
      BY <3>3, <2>7, <1>8 DEF TidyPool
    <3> QED BY <3>1, <3>2, <3>3
  <2> QED BY <2>5, <2>7 DEF TidyPool
<1>12. PoolIsUnmapped(new)
  <2>1. ASSUME NEW v \in sp.vmas
        PROVE  Apart(from, to, v.start, End(v))
    <3>1. \A f \in hit : f[2] = 0 \/ Apart(f[1], f[1] + f[2], v.start, End(v))
      BY <1>5 DEF PoolIsUnmapped
    <3>2. v.start \in Nat /\ End(v) \in Nat /\ v.start < End(v)
      BY MapsAre
    <3> QED BY <3>1, <3>2, <1>10
  <2> QED BY <2>1, <1>7, <1>8 DEF PoolIsUnmapped
<1>13. ASSUME NEW c \in Nat, NEW d \in Nat, c < d, Apart(lo, hi, c, d),
              \A f \in sp.free : f[2] = 0 \/ Apart(f[1], f[1] + f[2], c, d),
              NEW f \in new.free
       PROVE  f[2] = 0 \/ Apart(f[1], f[1] + f[2], c, d)
  <2>1. Apart(from, to, c, d)
    BY <1>5, <1>10, <1>13
  <2> QED BY <2>1, <1>7, <1>8, <1>13
<1> QED BY <1>8, <1>11, <1>12, <1>13

\* top lies above the arena, every mapping and everything the pool holds.
LEMMA TopIs ==
  ASSUME NEW sp \in Spaces, TidyMaps(sp), TidyPool(sp)
  PROVE  /\ Top(sp) \in Nat /\ BrkCeiling(sp) <= Top(sp)
         /\ \A v \in sp.vmas : End(v) <= Top(sp)
         /\ \A f \in sp.free : f[1] + f[2] <= Top(sp)
<1> DEFINE S == {BrkCeiling(sp), sp.high} \cup {End(v) : v \in sp.vmas}
                \cup {f[1] + f[2] : f \in sp.free}
           b == BrkCeiling(sp) + sp.high + Ceiling
<1>1. BrkCeiling(sp) \in Nat /\ sp.high \in Nat /\ Ceiling \in Nat
  BY SpaceIs, SpaceAssumption
<1>2. \A v \in sp.vmas : End(v) \in Nat /\ End(v) <= Ceiling
  BY MapsAre DEF TidyMaps
<1>3. \A f \in sp.free : f[1] + f[2] \in Nat /\ f[1] + f[2] <= Ceiling
  BY PoolIs DEF TidyPool
<1>4. S \subseteq Nat /\ S # {} /\ b \in Nat /\ \A x \in S : x <= b
  BY <1>1, <1>2, <1>3
<1>5. Most(S) \in S /\ \A y \in S : y <= Most(S)
  <2> HIDE DEF S, b
  <2> QED BY <1>4, MostIs
<1>6. Top(sp) = Most(S)
  BY DEF Top
<1>7. BrkCeiling(sp) \in S /\ (\A v \in sp.vmas : End(v) \in S)
      /\ (\A f \in sp.free : f[1] + f[2] \in S)
  OBVIOUS
<1> HIDE DEF S
<1> QED BY <1>4, <1>5, <1>6, <1>7

\* A range the allocator answers is one nothing has a use for, and leaves the
\* rest as it was.
LEMMA AllocationsAre ==
  ASSUME NEW sp, Tidy(sp), NEW length \in Nat \ {0}, NEW a \in Allocations(sp, length)
  PROVE  /\ Tidy(a.sp) /\ a.at \in Nat /\ 1 <= a.at /\ a.at + length <= Ceiling
         /\ a.sp.start = sp.start /\ a.sp.brk = sp.brk
         /\ a.sp.high = sp.high /\ a.sp.vmas = sp.vmas
         /\ Room(a.sp, a.at, a.at + length)
<1> DEFINE fitting == {f \in sp.free : f[2] >= length}
<1>0. sp \in Spaces /\ Ceiling \in Nat /\ BrkCeiling(sp) \in Nat /\ sp.start \in Nat
      /\ sp.start < BrkCeiling(sp) /\ Base \in Nat \ {0} /\ Base <= sp.start
  BY SpaceAssumption, SpaceIs DEF Tidy, TidyHeap
<1>1. \A f \in sp.free : f \in Nat \X Nat /\ f[1] \in Nat /\ f[2] \in Nat
                         /\ 1 <= f[1] /\ f[1] + f[2] <= Ceiling
                         /\ OffTheHeap(sp, f[1], f[1] + f[2])
  BY <1>0, PoolIs DEF Tidy, TidyPool
<1>2. \A v \in sp.vmas : v.start \in Nat /\ End(v) \in Nat /\ v.start < End(v)
  BY <1>0, MapsAre
<1>3. CASE fitting # {}
  <2>1. PICK f \in fitting :
          /\ a.at = f[1]
          /\ a.sp = [sp EXCEPT !.free = (@ \ {f}) \cup
                       (IF f[2] = length THEN {} ELSE {<<f[1] + length, f[2] - length>>})]
    <3> DEFINE left(f) == [sp EXCEPT !.free = (@ \ {f}) \cup
                       (IF f[2] = length THEN {} ELSE {<<f[1] + length, f[2] - length>>})]
    <3>1. Allocations(sp, length) = {[sp |-> left(f), at |-> f[1]] : f \in fitting}
      BY <1>3 DEF Allocations
    <3>2. PICK f \in fitting : a = [sp |-> left(f), at |-> f[1]]
      <4> HIDE DEF left, fitting
      <4> QED BY <3>1
    <3>3. a.at = f[1] /\ a.sp = left(f)
      BY <3>2
    <3> QED BY <3>3
  <2> DEFINE rest == IF f[2] = length THEN {} ELSE {<<f[1] + length, f[2] - length>>}
  <2>2. f \in sp.free /\ length <= f[2] /\ f[1] \in Nat /\ f[2] \in Nat
        /\ f[1] + f[2] <= Ceiling /\ 1 <= f[1]
    BY <1>1
  <2>3. \A g \in rest : /\ g \in Nat \X Nat /\ g[1] = f[1] + length /\ g[1] + g[2] = f[1] + f[2]
                        /\ g[2] = f[2] - length /\ g[1] \in Nat /\ g[2] \in Nat
    BY <2>2
  <2>4. \A g, h \in rest : g = h
    OBVIOUS
  <2>5. a.sp = [sp EXCEPT !.free = (sp.free \ {f}) \cup rest]
    BY <2>1, <1>0 DEF Spaces
  <2> HIDE DEF rest
  <2>6. /\ a.sp \in Spaces /\ a.sp.start = sp.start /\ a.sp.brk = sp.brk
        /\ a.sp.high = sp.high /\ a.sp.vmas = sp.vmas
        /\ a.sp.free = (sp.free \ {f}) \cup rest
    <3>1. (sp.free \ {f}) \cup rest \subseteq Nat \X Nat
      BY <1>1, <2>3
    <3> QED BY <1>0, <2>5, <3>1 DEF Spaces
  <2>7. BrkCeiling(a.sp) = BrkCeiling(sp)
    BY <2>6 DEF BrkCeiling
  <2>8. \A g \in sp.free \ {f} : g[1] + g[2] < f[1] \/ f[1] + f[2] < g[1]
    BY <2>2 DEF Tidy, TidyPool
  <2>9. Apart(f[1], f[1] + f[2], sp.start, BrkCeiling(sp))
    BY <1>1, <2>2 DEF OffTheHeap
  <2>10. TidyPool(a.sp)
    <3>1. ASSUME NEW g \in a.sp.free
          PROVE  1 <= g[1] /\ g[1] + g[2] <= Ceiling /\ OffTheHeap(a.sp, g[1], g[1] + g[2])
      <4>1. CASE g \in sp.free
        BY <4>1, <1>1, <2>6, <2>7 DEF OffTheHeap
      <4>2. CASE g \in rest
        BY <4>2, <1>0, <2>2, <2>3, <2>6, <2>7, <2>9 DEF OffTheHeap, Apart
      <4> QED BY <4>1, <4>2, <2>6
    <3>2. ASSUME NEW g \in a.sp.free, NEW h \in a.sp.free, g # h
          PROVE  g[1] + g[2] < h[1] \/ h[1] + h[2] < g[1]
      <4>1. CASE g \in sp.free \ {f} /\ h \in sp.free \ {f}
        BY <4>1, <3>2 DEF Tidy, TidyPool
      <4>2. CASE g \in rest /\ h \in sp.free \ {f}
        BY <4>2, <1>1, <2>2, <2>3, <2>8
      <4>3. CASE h \in rest /\ g \in sp.free \ {f}
        BY <4>3, <1>1, <2>2, <2>3, <2>8
      <4> QED BY <4>1, <4>2, <4>3, <2>4, <2>6, <3>2
    <3> QED BY <3>1, <3>2 DEF TidyPool
  <2>11. \A v \in sp.vmas : Apart(f[1], f[1] + f[2], v.start, End(v))
    <3>1. f[2] # 0
      BY <2>2
    <3> QED BY <3>1, <2>2 DEF Tidy, PoolIsUnmapped
  <2>12. PoolIsUnmapped(a.sp)
    <3>1. ASSUME NEW g \in a.sp.free, NEW v \in a.sp.vmas
          PROVE  g[2] = 0 \/ Apart(g[1], g[1] + g[2], v.start, End(v))
      <4>1. CASE g \in sp.free
        BY <4>1, <2>6 DEF Tidy, PoolIsUnmapped
      <4>2. CASE g \in rest
        BY <4>2, <1>2, <2>2, <2>3, <2>6, <2>11 DEF Apart
      <4> QED BY <4>1, <4>2, <2>6
    <3> QED BY <3>1 DEF PoolIsUnmapped
  <2>13. Tidy(a.sp)
    BY <2>6, <2>7, <2>10, <2>12 DEF Tidy, TidyHeap, TidyMaps, OffTheHeap
  <2>14. Room(a.sp, a.at, a.at + length)
    <3>1. OffTheHeap(a.sp, a.at, a.at + length)
      BY <1>0, <2>1, <2>2, <2>6, <2>7, <2>9 DEF OffTheHeap, Apart
    <3>2. \A v \in a.sp.vmas : Apart(a.at, a.at + length, v.start, End(v))
      BY <1>2, <2>1, <2>2, <2>6, <2>11 DEF Apart
    <3>3. ASSUME NEW g \in a.sp.free
          PROVE  Apart(a.at, a.at + length, g[1], g[1] + g[2])
      <4>1. CASE g \in sp.free \ {f}
        BY <4>1, <1>1, <2>1, <2>2, <2>8 DEF Apart
      <4>2. CASE g \in rest
        BY <4>2, <2>1, <2>2, <2>3 DEF Apart
      <4> QED BY <4>1, <4>2, <2>6
    <3> QED BY <3>1, <3>2, <3>3 DEF Room
  <2>15. a.at = f[1] /\ a.at + length <= Ceiling
    BY <2>1, <2>2, <1>0
  <2> HIDE DEF fitting
  <2> QED BY <2>15, <2>2, <2>6, <2>13, <2>14
<1>4. CASE fitting = {}
  <2>1. a = [sp |-> sp, at |-> Top(sp)] /\ Top(sp) + length <= Ceiling
    <3>1. a \in IF Top(sp) + length > Ceiling \/ ~Grows(Top(sp) + length) THEN {}
                ELSE {[sp |-> sp, at |-> Top(sp)]}
      BY <1>4 DEF Allocations
    <3>2. Top(sp) \in Nat
      BY <1>0, TopIs DEF Tidy
    <3> QED BY <3>1, <3>2, <1>0
  <2>2. a.sp = sp /\ a.at = Top(sp)
    BY <2>1
  <2>3. /\ Top(sp) \in Nat /\ BrkCeiling(sp) <= Top(sp)
        /\ \A v \in sp.vmas : End(v) <= Top(sp)
        /\ \A f \in sp.free : f[1] + f[2] <= Top(sp)
    BY <1>0, TopIs DEF Tidy
  <2>4. Room(sp, Top(sp), Top(sp) + length)
    BY <2>3 DEF Room, OffTheHeap, Apart
  <2> QED BY <2>1, <2>2, <2>3, <2>4, <1>0
<1> QED BY <1>3, <1>4

\* A mapping put where there is room for it.
LEMMA Fits ==
  ASSUME NEW sp, Tidy(sp), NEW lo \in Nat, NEW hi \in Nat, 1 <= lo, lo < hi, hi <= Ceiling,
         Room(sp, lo, hi), NEW v \in Vma, v.start = lo, End(v) = hi,
         NEW new \in Spaces, new.start = sp.start, new.brk = sp.brk, new.free = sp.free,
         new.vmas = sp.vmas \cup {v}
  PROVE  /\ Tidy(new) /\ Changes(sp, new, lo, hi)
         /\ \A p \in Nat : lo <= p /\ p < hi => Shows(new, p, v.prot)
<1>0. sp \in Spaces /\ BrkCeiling(new) = BrkCeiling(sp)
  BY DEF Tidy, BrkCeiling
<1>1. \A u \in sp.vmas : u.start \in Nat /\ End(u) \in Nat /\ u.start < End(u)
  BY <1>0, MapsAre
<1>2. \A f \in sp.free : f[1] \in Nat /\ f[2] \in Nat
  BY <1>0, PoolIs
<1>3. \A u \in sp.vmas : Apart(lo, hi, u.start, End(u))
  BY DEF Room
<1>4. TidyMaps(new)
  <2>1. ASSUME NEW u \in new.vmas
        PROVE  1 <= u.start /\ End(u) <= Ceiling /\ OffTheHeap(new, u.start, End(u))
    BY <1>0 DEF Tidy, TidyMaps, Room, OffTheHeap
  <2>2. ASSUME NEW u \in new.vmas, NEW x \in new.vmas, u # x
        PROVE  Apart(u.start, End(u), x.start, End(x))
    <3>1. CASE u \in sp.vmas /\ x \in sp.vmas
      BY <3>1, <2>2 DEF Tidy, TidyMaps
    <3>2. CASE u = v /\ x \in sp.vmas
      BY <3>2, <1>3
    <3>3. CASE x = v /\ u \in sp.vmas
      BY <3>3, <1>3, <1>1 DEF Apart
    <3> QED BY <3>1, <3>2, <3>3, <2>2
  <2> QED BY <2>1, <2>2 DEF TidyMaps
<1>5. PoolIsUnmapped(new)
  <2>1. \A f \in sp.free : f[2] = 0 \/ Apart(f[1], f[1] + f[2], lo, hi)
    BY <1>2 DEF Room, Apart
  <2> QED BY <2>1 DEF PoolIsUnmapped, Tidy
<1>6. Tidy(new)
  BY <1>0, <1>4, <1>5 DEF Tidy, TidyHeap, TidyPool, OffTheHeap
<1>7. \A p \in Nat, prot \in Accesses :
        p < lo \/ hi <= p => (Shows(new, p, prot) <=> Shows(sp, p, prot))
  BY <1>1 DEF Shows
<1>8. \A p \in Nat : lo <= p /\ p < hi => Shows(new, p, v.prot)
  BY DEF Shows
<1> QED BY <1>6, <1>7, <1>8 DEF Changes

\* Two ranges that have no page in common, one of them not empty.
LEMMA DisjointIsApart ==
  ASSUME NEW lo \in Nat, NEW hi \in Nat, NEW a \in Nat, NEW b \in Nat, lo < hi, a < b,
         Range2(lo, hi) \cap Range2(a, b) = {}
  PROVE  Apart(lo, hi, a, b)
<1> SUFFICES ASSUME lo < b, a < hi PROVE FALSE
  BY DEF Apart
<1>1. CASE lo <= a
  <2>1. a \in Range2(lo, hi) \cap Range2(a, b)
    BY <1>1 DEF Range2
  <2> QED BY <2>1
<1>2. CASE a < lo
  <2>1. lo \in Range2(lo, hi) \cap Range2(a, b)
    BY <1>2 DEF Range2
  <2> QED BY <2>1
<1> QED BY <1>1, <1>2

\* The pages of the mappings are the pages at which they show something.
LEMMA MappedShows ==
  ASSUME NEW sp \in Spaces, NEW p \in Nat
  PROVE  p \in MappedPages(sp) <=> \E prot \in Accesses : Shows(sp, p, prot)
<1>1. p \in MappedPages(sp) <=> \E v \in sp.vmas : p \in PagesOf(v)
  BY DEF MappedPages
<1>2. \A v \in sp.vmas : p \in PagesOf(v) <=> v.start <= p /\ p < End(v)
  BY MapsAre DEF PagesOf, Range2
<1>3. \A v \in sp.vmas : v.prot \in Accesses
  BY MapsAre
<1> QED BY <1>1, <1>2, <1>3 DEF Shows

\* A mapped range lies in the block and off the heap.
LEMMA MappedIsOffTheHeap ==
  ASSUME NEW sp, Tidy(sp), NEW lo \in Nat, NEW hi \in Nat, lo < hi,
         Range2(lo, hi) \subseteq MappedPages(sp)
  PROVE  1 <= lo /\ hi <= Ceiling /\ OffTheHeap(sp, lo, hi)
<1>0. sp \in Spaces /\ sp.start \in Nat /\ BrkCeiling(sp) \in Nat /\ sp.start < BrkCeiling(sp)
      /\ Ceiling \in Nat
  BY SpaceIs, SpaceAssumption DEF Tidy
<1>1. ASSUME NEW p \in Nat, lo <= p, p < hi
      PROVE  \E v \in sp.vmas : /\ v.start \in Nat /\ End(v) \in Nat /\ v.start <= p /\ p < End(v)
                                /\ 1 <= v.start /\ End(v) <= Ceiling
                                /\ (End(v) <= sp.start \/ BrkCeiling(sp) <= v.start)
  <2>1. p \in MappedPages(sp)
    BY <1>1 DEF Range2
  <2>2. PICK v \in sp.vmas : p \in PagesOf(v)
    BY <2>1 DEF MappedPages
  <2>3. v.start \in Nat /\ End(v) \in Nat /\ v.start <= p /\ p < End(v)
    BY <1>0, <2>2, MapsAre DEF PagesOf, Range2
  <2> QED BY <2>3 DEF Tidy, TidyMaps, OffTheHeap, Apart
<1>2. 1 <= lo
  BY <1>1
<1>3. hi <= Ceiling
  <2>1. hi - 1 \in Nat /\ lo <= hi - 1 /\ hi - 1 < hi
    OBVIOUS
  <2> QED BY <2>1, <1>0, <1>1
<1>4. ASSUME lo < BrkCeiling(sp), sp.start < hi PROVE FALSE
  <2>1. CASE lo <= sp.start
    BY <2>1, <1>0, <1>1, <1>4
  <2>2. CASE sp.start < lo
    BY <2>2, <1>0, <1>1, <1>4
  <2> QED BY <2>1, <2>2, <1>0
<1> QED BY <1>0, <1>2, <1>3, <1>4 DEF OffTheHeap, Apart

---------------------------------------------------------------------------
(* The rows' operations on the tree. *)

Asked(q) ==
  /\ q.length \in Nat \ {0} /\ q.offset \in Int
  /\ q.prot \in Accesses /\ q.kind \in Backings

\* What a mapping of [lo, hi) leaves behind.
Maps(sp, out, lo, hi, prot) ==
  /\ Tidy(out.sp) /\ Changes(sp, out.sp, lo, hi)
  /\ out.at = lo /\ out.fill \subseteq Range2(lo, hi)
  /\ 1 <= lo /\ hi <= Ceiling /\ OffTheHeap(sp, lo, hi)
  /\ \A p \in Nat : lo <= p /\ p < hi => Shows(out.sp, p, prot)

\* claim moves the high-water mark and nothing else.
LEMMA ClaimedIs ==
  ASSUME NEW sp \in Spaces, NEW hi \in Nat
  PROVE  \E high \in Nat : Claimed(sp, hi) = [sp EXCEPT !.high = high]
<1>1. CASE hi > sp.high
  BY <1>1 DEF Claimed, Spaces
<1>2. CASE ~(hi > sp.high)
  BY <1>2 DEF Claimed, Spaces
<1> QED BY <1>1, <1>2

\* What a claim owes zeros lies in what it claims.
LEMMA FillIs ==
  ASSUME NEW sp \in Spaces, NEW lo \in Nat, NEW hi \in Nat
  PROVE  Fill(sp, lo, hi) \subseteq Range2(lo, hi)
BY SpaceIs DEF Fill, Range2, Least2

\* map, where there is room, leaves the space in order.
LEMMA InstalledIs ==
  ASSUME NEW sp, Tidy(sp), NEW q, Asked(q), NEW lo \in Nat, 1 <= lo, lo + q.length <= Ceiling,
         Room(sp, lo, lo + q.length), NEW out, out = Installed(sp, lo, q)
  PROVE  Maps(sp, out, lo, lo + q.length, q.prot)
<1> DEFINE v == [start |-> lo, length |-> q.length, prot |-> q.prot,
                 kind |-> q.kind, offset |-> q.offset]
           hi == lo + q.length
<1>0. sp \in Spaces
  BY DEF Tidy
<1>1. v \in Vma /\ v.start = lo /\ End(v) = hi /\ v.prot = q.prot
  BY DEF Asked, Vma, End
<1>2. hi \in Nat /\ lo < hi
  BY DEF Asked
<1>3. out.at = lo /\ out.fill = Fill(sp, lo, hi) /\ out.sp = [Claimed(sp, hi) EXCEPT !.vmas = @ \cup {v}]
  BY DEF Installed
<1> HIDE DEF v, hi
<1>4. PICK high \in Nat : Claimed(sp, hi) = [sp EXCEPT !.high = high]
  BY <1>0, <1>2, ClaimedIs
<1>5. out.sp = [sp EXCEPT !.high = high, !.vmas = sp.vmas \cup {v}]
  BY <1>0, <1>3, <1>4 DEF Spaces
<1>6. /\ out.sp \in Spaces /\ out.sp.start = sp.start /\ out.sp.brk = sp.brk
      /\ out.sp.free = sp.free /\ out.sp.vmas = sp.vmas \cup {v}
  <2>1. sp.vmas \cup {v} \subseteq Vma
    BY <1>0, <1>1 DEF Spaces
  <2> QED BY <1>0, <1>5, <2>1 DEF Spaces
<1>7. Room(sp, lo, hi) /\ hi <= Ceiling
  BY DEF hi
<1>8. /\ Tidy(out.sp) /\ Changes(sp, out.sp, lo, hi)
      /\ \A p \in Nat : lo <= p /\ p < hi => Shows(out.sp, p, v.prot)
  BY <1>1, <1>2, <1>6, <1>7, Fits
<1>9. Fill(sp, lo, hi) \subseteq Range2(lo, hi)
  BY <1>0, <1>2, FillIs
<1> QED BY <1>1, <1>3, <1>7, <1>8, <1>9 DEF Maps, hi, Room

\* A space with a hole made in it and the hole taken from its pool.
LEMMA HoleIs ==
  ASSUME NEW sp, Tidy(sp), NEW lo \in Nat, NEW hi \in Nat, lo < hi, OffTheHeap(sp, lo, hi),
         NEW new, new = Taken(Punched(sp, lo, hi), lo, hi)
  PROVE  Tidy(new) /\ Room(new, lo, hi) /\ Changes(sp, new, lo, hi)
<1> DEFINE mid == Punched(sp, lo, hi)
<1>0. sp \in Spaces /\ TidyMaps(sp) /\ TidyPool(sp) /\ PoolIsUnmapped(sp) /\ TidyHeap(sp)
  BY DEF Tidy
<1>1. /\ mid \in Spaces /\ TidyMaps(mid)
      /\ mid.start = sp.start /\ mid.brk = sp.brk
      /\ mid.high = sp.high /\ mid.free = sp.free
      /\ \A v \in mid.vmas : Apart(v.start, End(v), lo, hi)
      /\ \A v \in mid.vmas : \E u \in sp.vmas : Piece(v, u)
      /\ Changes(sp, mid, lo, hi)
  <2> HIDE DEF mid
  <2>1. mid = Punched(sp, lo, hi)
    BY DEF mid
  <2> QED BY <1>0, <2>1, PunchedIs
<1>2. new = Taken(mid, lo, hi)
  OBVIOUS
<1> HIDE DEF mid
<1>3. BrkCeiling(mid) = BrkCeiling(sp)
  BY <1>1 DEF BrkCeiling
<1>4. TidyPool(mid)
  BY <1>0, <1>1, <1>3 DEF TidyPool, OffTheHeap
<1>5. /\ new \in Spaces /\ TidyPool(new)
      /\ new.start = mid.start /\ new.brk = mid.brk
      /\ new.high = mid.high /\ new.vmas = mid.vmas
      /\ \A f \in new.free : Apart(f[1], f[1] + f[2], lo, hi)
      /\ \A f \in new.free : \E g \in mid.free : g[1] <= f[1] /\ f[1] + f[2] <= g[1] + g[2]
                                                 /\ (g[2] = 0 => f[2] = 0)
  BY <1>1, <1>2, <1>4, TakenIs
<1>6. BrkCeiling(new) = BrkCeiling(sp)
  BY <1>1, <1>5 DEF BrkCeiling
<1>7. PoolIsUnmapped(new)
  <2> SUFFICES ASSUME NEW f \in new.free, NEW v \in new.vmas
               PROVE  f[2] = 0 \/ Apart(f[1], f[1] + f[2], v.start, End(v))
    BY DEF PoolIsUnmapped
  <2>1. PICK g \in sp.free : g[1] <= f[1] /\ f[1] + f[2] <= g[1] + g[2] /\ (g[2] = 0 => f[2] = 0)
    BY <1>1, <1>5
  <2>2. PICK u \in sp.vmas : Piece(v, u)
    BY <1>1, <1>5
  <2>3. g[2] = 0 \/ Apart(g[1], g[1] + g[2], u.start, End(u))
    BY <1>0 DEF PoolIsUnmapped
  <2>4. f[1] \in Nat /\ f[2] \in Nat /\ g[1] \in Nat /\ g[2] \in Nat
    BY <1>0, <1>5, PoolIs
  <2>5. v.start \in Nat /\ End(v) \in Nat /\ u.start \in Nat /\ End(u) \in Nat
    BY <1>0, <1>5, MapsAre
  <2> QED BY <2>1, <2>2, <2>3, <2>4, <2>5 DEF Piece, Apart
<1>8. TidyMaps(new)
  BY <1>1, <1>3, <1>5, <1>6 DEF TidyMaps, OffTheHeap
<1>9. Tidy(new)
  BY <1>0, <1>1, <1>5, <1>6, <1>7, <1>8 DEF Tidy, TidyHeap
<1>10. Room(new, lo, hi)
  <2>1. OffTheHeap(new, lo, hi)
    BY <1>1, <1>5, <1>6 DEF OffTheHeap
  <2>2. ASSUME NEW v \in new.vmas PROVE Apart(lo, hi, v.start, End(v))
    <3>1. Apart(v.start, End(v), lo, hi) /\ v.start \in Nat /\ End(v) \in Nat
      BY <1>1, <1>5, MapsAre
    <3> QED BY <3>1 DEF Apart
  <2>3. ASSUME NEW f \in new.free PROVE Apart(lo, hi, f[1], f[1] + f[2])
    <3>1. Apart(f[1], f[1] + f[2], lo, hi)
      BY <1>5
    <3> QED BY <3>1 DEF Apart
  <2> QED BY <2>1, <2>2, <2>3 DEF Room
<1>11. Changes(sp, new, lo, hi)
  BY <1>1, <1>5 DEF Changes, Shows
<1> QED BY <1>9, <1>10, <1>11

\* A fixed mapping off the heap leaves the space in order, whatever was there.
LEMMA AtFixedIs ==
  ASSUME NEW sp, Tidy(sp), NEW q, Asked(q), q.hint \in Nat,
         OffTheHeap(sp, q.hint, q.hint + q.length), NEW out \in AtFixed(sp, q)
  PROVE  Maps(sp, out, q.hint, q.hint + q.length, q.prot)
<1> DEFINE lo == q.hint
           hi == q.hint + q.length
           hole == Taken(Punched(sp, lo, hi), lo, hi)
<1>1. lo \in Nat /\ hi \in Nat /\ lo < hi /\ Ceiling \in Nat
  BY SpaceAssumption DEF Asked
<1>2. lo # 0 /\ ~(hi > Ceiling) /\ out = Installed(hole, lo, q)
  BY DEF AtFixed
<1>3. OffTheHeap(sp, lo, hi)
  OBVIOUS
<1>4. Tidy(hole) /\ Room(hole, lo, hi) /\ Changes(sp, hole, lo, hi)
  <2>1. hole = Taken(Punched(sp, lo, hi), lo, hi)
    OBVIOUS
  <2> HIDE DEF lo, hi, hole
  <2> QED BY <1>1, <1>3, <2>1, HoleIs
<1> HIDE DEF hole
<1>5. Maps(hole, out, lo, hi, q.prot)
  BY <1>1, <1>2, <1>4, InstalledIs
<1>6. Changes(sp, out.sp, lo, hi)
  BY <1>4, <1>5 DEF Maps, Changes
<1> QED BY <1>3, <1>5, <1>6 DEF Maps

\* A mapping placed by the kernel leaves the space in order.
LEMMA AnywhereIs ==
  ASSUME NEW sp, Tidy(sp), NEW q, Asked(q), q.hint = 0, NEW out \in Anywhere(sp, q)
  PROVE  \E lo \in Nat : Maps(sp, out, lo, lo + q.length, q.prot)
<1>1. PICK a \in Allocations(sp, q.length) : out = Installed(a.sp, a.at, q)
  BY DEF Anywhere, HintTaken
<1>2. q.length \in Nat \ {0}
  BY DEF Asked
<1>3. /\ Tidy(a.sp) /\ a.at \in Nat /\ 1 <= a.at /\ a.at + q.length <= Ceiling
      /\ a.sp.start = sp.start /\ a.sp.brk = sp.brk
      /\ a.sp.high = sp.high /\ a.sp.vmas = sp.vmas
      /\ Room(a.sp, a.at, a.at + q.length)
  BY <1>2, AllocationsAre
<1>4. Maps(a.sp, out, a.at, a.at + q.length, q.prot)
  BY <1>1, <1>3, InstalledIs
<1>5. Changes(sp, out.sp, a.at, a.at + q.length)
  BY <1>3, <1>4 DEF Maps, Changes, Shows
<1>6. OffTheHeap(sp, a.at, a.at + q.length)
  BY <1>3, <1>4 DEF Maps, OffTheHeap, BrkCeiling
<1> QED BY <1>3, <1>4, <1>5, <1>6 DEF Maps

\* Unmapping what is mapped.
LEMMA UnmappedIs ==
  ASSUME NEW sp, Tidy(sp), NEW lo \in Nat, NEW hi \in Nat, lo < hi,
         Range2(lo, hi) \subseteq MappedPages(sp), NEW new, new = Unmapped(sp, lo, hi)
  PROVE  /\ Tidy(new) /\ Changes(sp, new, lo, hi)
         /\ \A v \in new.vmas : Apart(v.start, End(v), lo, hi)
         /\ \A c, d \in Nat :
              c < d /\ Apart(lo, hi, c, d) /\ Room(sp, c, d) => Room(new, c, d)
<1> DEFINE mid == Punched(sp, lo, hi)
<1>0. sp \in Spaces /\ TidyMaps(sp) /\ TidyPool(sp) /\ PoolIsUnmapped(sp) /\ TidyHeap(sp)
  BY DEF Tidy
<1>1. 1 <= lo /\ hi <= Ceiling /\ OffTheHeap(sp, lo, hi)
  BY MappedIsOffTheHeap
<1>2. /\ mid \in Spaces /\ TidyMaps(mid)
      /\ mid.start = sp.start /\ mid.brk = sp.brk
      /\ mid.high = sp.high /\ mid.free = sp.free
      /\ \A v \in mid.vmas : Apart(v.start, End(v), lo, hi)
      /\ \A v \in mid.vmas : \E u \in sp.vmas : Piece(v, u)
      /\ Changes(sp, mid, lo, hi)
  <2> HIDE DEF mid
  <2>1. mid = Punched(sp, lo, hi)
    BY DEF mid
  <2> QED BY <1>0, <2>1, PunchedIs
<1>3. new = Released(mid, lo, hi)
  BY DEF Unmapped
<1> HIDE DEF mid
<1>4. BrkCeiling(mid) = BrkCeiling(sp)
  BY <1>2 DEF BrkCeiling
<1>5. TidyPool(mid) /\ OffTheHeap(mid, lo, hi)
  BY <1>0, <1>1, <1>2, <1>4 DEF TidyPool, OffTheHeap
<1>6. PoolIsUnmapped(mid)
  <2> SUFFICES ASSUME NEW f \in mid.free, NEW v \in mid.vmas
               PROVE  f[2] = 0 \/ Apart(f[1], f[1] + f[2], v.start, End(v))
    BY DEF PoolIsUnmapped
  <2>1. PICK u \in sp.vmas : Piece(v, u)
    BY <1>2
  <2>2. f[2] = 0 \/ Apart(f[1], f[1] + f[2], u.start, End(u))
    BY <1>0, <1>2 DEF PoolIsUnmapped
  <2>3. f[1] \in Nat /\ f[2] \in Nat
    BY <1>2, PoolIs
  <2>4. v.start \in Nat /\ End(v) \in Nat /\ u.start \in Nat /\ End(u) \in Nat
    BY <1>0, <1>2, MapsAre
  <2> QED BY <2>1, <2>2, <2>3, <2>4 DEF Piece, Apart
<1>7. \A v \in mid.vmas : Apart(lo, hi, v.start, End(v))
  BY <1>2, MapsAre DEF Apart
<1>8. /\ new \in Spaces /\ TidyPool(new) /\ PoolIsUnmapped(new)
      /\ new.start = mid.start /\ new.brk = mid.brk
      /\ new.high = mid.high /\ new.vmas = mid.vmas
      /\ \A c, d \in Nat :
           /\ c < d /\ Apart(lo, hi, c, d)
           /\ \A f \in mid.free : f[2] = 0 \/ Apart(f[1], f[1] + f[2], c, d)
           => \A f \in new.free : f[2] = 0 \/ Apart(f[1], f[1] + f[2], c, d)
  BY <1>1, <1>2, <1>3, <1>5, <1>6, <1>7, ReleasedIs
<1>9. BrkCeiling(new) = BrkCeiling(mid)
  BY <1>8 DEF BrkCeiling
<1>10. Tidy(new)
  BY <1>0, <1>2, <1>4, <1>8, <1>9 DEF Tidy, TidyHeap, TidyMaps, OffTheHeap
<1>11. Changes(sp, new, lo, hi)
  <2>1. new.start = mid.start /\ new.brk = mid.brk /\ new.vmas = mid.vmas /\ Changes(sp, mid, lo, hi)
    BY <1>2, <1>8
  <2> QED BY <2>1 DEF Changes, Shows
<1>12. ASSUME NEW c \in Nat, NEW d \in Nat, c < d, Apart(lo, hi, c, d), Room(sp, c, d)
       PROVE  Room(new, c, d)
  <2>1. OffTheHeap(new, c, d)
    BY <1>2, <1>4, <1>8, <1>9, <1>12 DEF Room, OffTheHeap
  <2>2. ASSUME NEW v \in new.vmas PROVE Apart(c, d, v.start, End(v))
    <3>1. PICK u \in sp.vmas : Piece(v, u)
      BY <1>2, <1>8
    <3>2. v.start \in Nat /\ End(v) \in Nat /\ u.start \in Nat /\ End(u) \in Nat
      BY <1>0, <1>8, MapsAre
    <3>3. Apart(c, d, u.start, End(u))
      BY <1>12 DEF Room
    <3> QED BY <3>1, <3>2, <3>3 DEF Piece, Apart
  <2>3. \A f \in mid.free : f[2] = 0 \/ Apart(f[1], f[1] + f[2], c, d)
    BY <1>2, <1>12 DEF Room, Apart
  <2>4. \A f \in new.free : f[2] = 0 \/ Apart(f[1], f[1] + f[2], c, d)
    BY <2>3, <1>8, <1>12
  <2> QED BY <2>1, <2>2, <2>4 DEF Room, Apart
<1> QED BY <1>2, <1>8, <1>10, <1>11, <1>12

\* protect leaves the space in order and changes no page outside its range.
LEMMA ProtectedIs ==
  ASSUME NEW sp, Tidy(sp), NEW lo \in Nat, NEW hi \in Nat, lo < hi, NEW prot \in Accesses,
         NEW new, new = Protected(sp, lo, hi, prot)
  PROVE  Tidy(new) /\ Changes(sp, new, lo, hi)
<1> DEFINE mid == Punched(sp, lo, hi)
           from(u) == IF u.start > lo THEN u.start ELSE lo
           Part(v, u) == /\ u \in sp.vmas /\ Touches(u, lo, hi)
                         /\ v = [Slice(u, from(u), Least2(End(u), hi)) EXCEPT !.prot = prot]
<1>0. sp \in Spaces /\ TidyMaps(sp) /\ TidyPool(sp) /\ PoolIsUnmapped(sp) /\ TidyHeap(sp)
  BY DEF Tidy
<1>1. /\ mid \in Spaces /\ TidyMaps(mid)
      /\ mid.start = sp.start /\ mid.brk = sp.brk
      /\ mid.high = sp.high /\ mid.free = sp.free
      /\ \A v \in mid.vmas : Apart(v.start, End(v), lo, hi)
      /\ \A v \in mid.vmas : \E u \in sp.vmas : Piece(v, u)
      /\ Changes(sp, mid, lo, hi)
  <2> HIDE DEF mid
  <2>1. mid = Punched(sp, lo, hi)
    BY DEF mid
  <2> QED BY <1>0, <2>1, PunchedIs
<1>2. /\ new = [mid EXCEPT !.vmas = new.vmas]
      /\ \A v : v \in new.vmas <=> v \in mid.vmas \/ \E u : Part(v, u)
  <2> DEFINE pieces == {[Slice(v, IF v.start > lo THEN v.start ELSE lo,
                               Least2(End(v), hi)) EXCEPT !.prot = prot]
                       : v \in {u \in sp.vmas : Touches(u, lo, hi)}}
  <2>1. new = [mid EXCEPT !.vmas = mid.vmas \cup pieces]
    BY DEF Protected
  <2>2. \A v : v \in pieces <=> \E u : Part(v, u)
    OBVIOUS
  <2> HIDE DEF pieces, Part, mid
  <2> QED BY <1>1, <2>1, <2>2 DEF Spaces
<1> HIDE DEF mid
<1>3. \A u \in sp.vmas : u \in Vma /\ u.start \in Nat /\ End(u) \in Nat /\ u.start < End(u)
  BY <1>0, MapsAre
<1>4. ASSUME NEW v, NEW u, Part(v, u)
      PROVE  /\ u \in sp.vmas /\ v \in Vma /\ v.prot = prot
             /\ v.start \in Nat /\ End(v) \in Nat
             /\ u.start <= v.start /\ lo <= v.start /\ v.start < End(v)
             /\ End(v) <= End(u) /\ End(v) <= hi
             /\ \A p \in Nat : lo <= p /\ p < hi /\ u.start <= p /\ p < End(u)
                  => v.start <= p /\ p < End(v)
  <2> DEFINE a == from(u)
             b == Least2(End(u), hi)
             s == Slice(u, a, b)
  <2>1. u \in Vma /\ u.start \in Nat /\ End(u) \in Nat /\ u.start < hi /\ lo < End(u)
        /\ u.start < End(u) /\ v = [s EXCEPT !.prot = prot]
    BY <1>3, <1>4 DEF Touches
  <2>2. /\ a \in Nat /\ b \in Nat /\ a < b /\ u.start <= a /\ lo <= a /\ b <= End(u) /\ b <= hi
        /\ (a = u.start \/ a = lo) /\ (b = End(u) \/ b = hi)
    BY <2>1 DEF Least2
  <2>3. s = Slice(u, a, b)
    OBVIOUS
  <2> HIDE DEF s, a, b
  <2>4. s \in Vma /\ s.start = a /\ s.length = b - a /\ End(s) = b
    BY <2>1, <2>2, <2>3, SliceIs
  <2>5. v \in Vma /\ v.start = a /\ v.prot = prot /\ v.length = b - a
    BY <2>1, <2>4 DEF Vma
  <2>6. End(v) = b
    BY <2>2, <2>5 DEF End
  <2>7. u \in sp.vmas
    BY <1>4
  <2> QED BY <2>1, <2>2, <2>5, <2>6, <2>7
<1>5. /\ new \in Spaces /\ new.start = sp.start /\ new.brk = sp.brk /\ new.high = sp.high
      /\ new.free = sp.free
  <2>1. new.vmas \subseteq Vma
    <3> HIDE DEF Part
    <3> QED BY <1>1, <1>2, <1>4 DEF Spaces
  <2> QED BY <1>1, <1>2, <2>1 DEF Spaces
<1>6. BrkCeiling(new) = BrkCeiling(sp) /\ BrkCeiling(mid) = BrkCeiling(sp)
  BY <1>1, <1>5 DEF BrkCeiling
<1>7. ASSUME NEW v \in new.vmas
      PROVE  \E u \in sp.vmas : /\ u.start <= v.start /\ End(v) <= End(u)
                                /\ v \in mid.vmas \/ Part(v, u)
  <2>1. CASE v \in mid.vmas
    BY <2>1, <1>1 DEF Piece
  <2>2. ASSUME NEW u, Part(v, u) PROVE u \in sp.vmas /\ u.start <= v.start /\ End(v) <= End(u)
    <3> HIDE DEF Part
    <3> QED BY <2>2, <1>4
  <2> HIDE DEF Part
  <2> QED BY <2>1, <2>2, <1>2
<1>8. TidyMaps(new)
  <2>1. ASSUME NEW v \in new.vmas
        PROVE  1 <= v.start /\ End(v) <= Ceiling /\ OffTheHeap(new, v.start, End(v))
    <3>1. PICK u \in sp.vmas : u.start <= v.start /\ End(v) <= End(u)
      BY <1>7
    <3>2. v.start \in Nat /\ End(v) \in Nat /\ u.start \in Nat /\ End(u) \in Nat
      BY <1>0, <1>5, MapsAre
    <3>3. 1 <= u.start /\ End(u) <= Ceiling /\ OffTheHeap(sp, u.start, End(u))
      BY <1>0 DEF TidyMaps
    <3>4. BrkCeiling(sp) \in Nat /\ Ceiling \in Nat /\ sp.start \in Nat
      BY <1>0, SpaceIs, SpaceAssumption
    <3> QED BY <3>1, <3>2, <3>3, <3>4, <1>5, <1>6 DEF OffTheHeap, Apart
  <2>2. ASSUME NEW v \in new.vmas, NEW w \in new.vmas, v # w
        PROVE  Apart(v.start, End(v), w.start, End(w))
    <3>1. v.start \in Nat /\ End(v) \in Nat /\ w.start \in Nat /\ End(w) \in Nat
      BY <1>5, MapsAre
    <3>2. PICK u \in sp.vmas : /\ u.start <= v.start /\ End(v) <= End(u)
                               /\ v \in mid.vmas \/ Part(v, u)
      BY <1>7
    <3>3. PICK x \in sp.vmas : /\ x.start <= w.start /\ End(w) <= End(x)
                               /\ w \in mid.vmas \/ Part(w, x)
      BY <1>7
    <3>4. CASE v \in mid.vmas /\ w \in mid.vmas
      BY <3>4, <1>1, <2>2 DEF TidyMaps
    <3>5. CASE v \in mid.vmas /\ Part(w, x)
      <4>1. Apart(v.start, End(v), lo, hi)
        BY <3>5, <1>1
      <4>2. lo <= w.start /\ End(w) <= hi
        <5> HIDE DEF Part
        <5> QED BY <3>5, <1>4
      <4> HIDE DEF Part
      <4> QED BY <4>1, <4>2, <3>1 DEF Apart
    <3>6. CASE w \in mid.vmas /\ Part(v, u)
      <4>1. Apart(w.start, End(w), lo, hi)
        BY <3>6, <1>1
      <4>2. lo <= v.start /\ End(v) <= hi
        <5> HIDE DEF Part
        <5> QED BY <3>6, <1>4
      <4> HIDE DEF Part
      <4> QED BY <4>1, <4>2, <3>1 DEF Apart
    <3>7. CASE Part(v, u) /\ Part(w, x)
      <4>1. u # x
        BY <3>7, <2>2
      <4>2. Apart(u.start, End(u), x.start, End(x))
        BY <4>1, <1>0 DEF TidyMaps
      <4> HIDE DEF Part
      <4> QED BY <4>2, <3>1, <3>2, <3>3, <1>3 DEF Apart
    <3> HIDE DEF Part
    <3> QED BY <3>2, <3>3, <3>4, <3>5, <3>6, <3>7
  <2> QED BY <2>1, <2>2 DEF TidyMaps
<1>9. PoolIsUnmapped(new)
  <2> SUFFICES ASSUME NEW f \in new.free, NEW v \in new.vmas
               PROVE  f[2] = 0 \/ Apart(f[1], f[1] + f[2], v.start, End(v))
    BY DEF PoolIsUnmapped
  <2>1. PICK u \in sp.vmas : u.start <= v.start /\ End(v) <= End(u)
    BY <1>7
  <2>2. f[2] = 0 \/ Apart(f[1], f[1] + f[2], u.start, End(u))
    BY <1>0, <1>5 DEF PoolIsUnmapped
  <2>3. f[1] \in Nat /\ f[2] \in Nat
    BY <1>5, PoolIs
  <2>4. v.start \in Nat /\ End(v) \in Nat /\ u.start \in Nat /\ End(u) \in Nat
    BY <1>0, <1>5, MapsAre
  <2> QED BY <2>1, <2>2, <2>3, <2>4 DEF Apart
<1>10. Tidy(new)
  BY <1>0, <1>5, <1>6, <1>8, <1>9 DEF Tidy, TidyHeap, TidyPool, OffTheHeap
<1>11. ASSUME NEW p \in Nat, NEW kind \in Accesses, p < lo \/ hi <= p
       PROVE  Shows(new, p, kind) <=> Shows(mid, p, kind)
  <2>1. ASSUME NEW v, NEW u, Part(v, u) PROVE ~(v.start <= p /\ p < End(v))
    <3> HIDE DEF Part
    <3>1. v.start \in Nat /\ End(v) \in Nat /\ lo <= v.start /\ End(v) <= hi
      BY <2>1, <1>4
    <3> QED BY <3>1, <1>11
  <2> HIDE DEF Part
  <2> QED BY <2>1, <1>2 DEF Shows
<1>12. Changes(sp, new, lo, hi)
  BY <1>1, <1>5, <1>11 DEF Changes
<1> QED BY <1>10, <1>12

\* The break moves in its arena.
LEMMA BrokenIs ==
  ASSUME NEW sp, Tidy(sp), NEW to \in Nat, BrkGranted(sp, to), to <= Limit,
         NEW new, new = Broken(sp, to)
  PROVE  Tidy(new) /\ new.start = sp.start /\ new.brk = to /\ new.vmas = sp.vmas
<1>0. sp \in Spaces
  BY DEF Tidy
<1>1. PICK high \in Nat : new = [sp EXCEPT !.high = high, !.brk = to]
  <2>1. CASE to > sp.brk
    <3>1. PICK high \in Nat : Claimed(sp, to) = [sp EXCEPT !.high = high]
      BY <1>0, ClaimedIs
    <3> QED BY <2>1, <3>1 DEF Broken
  <2>2. CASE ~(to > sp.brk)
    <3>1. new = [sp EXCEPT !.high = sp.high, !.brk = to] /\ sp.high \in Nat
      BY <2>2, <1>0 DEF Broken, Spaces
    <3> QED BY <3>1
  <2> QED BY <2>1, <2>2
<1>2. /\ new \in Spaces /\ new.start = sp.start /\ new.brk = to
      /\ new.vmas = sp.vmas /\ new.free = sp.free
  BY <1>0, <1>1 DEF Spaces
<1>3. BrkCeiling(new) = BrkCeiling(sp)
  BY <1>2 DEF BrkCeiling
<1> QED BY <1>2, <1>3 DEF Tidy, TidyHeap, TidyMaps, TidyPool, PoolIsUnmapped, OffTheHeap, BrkGranted

\* What a change of a mapping's length leaves behind where it stays.
Resizes(sp, out, v, longer) ==
  /\ Tidy(out.sp) /\ Changes(sp, out.sp, v.start, v.start + longer)
  /\ out.to = v.start
  /\ \A p \in out.fill : /\ p \in Nat /\ End(v) <= p /\ p < v.start + longer
                         /\ p \in MappedPages(out.sp)

\* truncate leaves the space in order.
LEMMA ShrunkIs ==
  ASSUME NEW sp, Tidy(sp), NEW v \in sp.vmas, NEW length \in Nat \ {0}, length <= v.length,
         NEW out, out = Shrunk(sp, v, length)
  PROVE  Resizes(sp, out, v, v.length)
<1> DEFINE w == [v EXCEPT !.length = length]
           mid == [sp EXCEPT !.vmas = (@ \ {v}) \cup {w}]
           lo == v.start + length
<1>0. sp \in Spaces /\ TidyMaps(sp) /\ TidyPool(sp) /\ PoolIsUnmapped(sp) /\ TidyHeap(sp)
  BY DEF Tidy
<1>1. v \in Vma /\ v.start \in Nat /\ v.length \in Nat /\ End(v) \in Nat /\ v.start < End(v)
      /\ End(v) = v.start + v.length /\ v.prot \in Accesses
  BY <1>0, MapsAre
<1>2. out.sp = Released(mid, lo, End(v)) /\ out.to = v.start /\ out.fill = {}
  BY DEF Shrunk
<1>3. w \in Vma /\ w.start = v.start /\ w.prot = v.prot /\ w.length = length
  BY DEF Vma, Spaces, Tidy
<1>4. End(w) = lo /\ lo \in Nat /\ lo <= End(v) /\ v.start < lo
  BY <1>1, <1>3 DEF End
<1>5. mid = [sp EXCEPT !.vmas = (sp.vmas \ {v}) \cup {w}]
  BY <1>0 DEF Spaces
<1> HIDE DEF mid, w, lo
<1>6. /\ mid \in Spaces /\ mid.start = sp.start /\ mid.brk = sp.brk /\ mid.high = sp.high
      /\ mid.free = sp.free /\ mid.vmas = (sp.vmas \ {v}) \cup {w}
  <2>1. (sp.vmas \ {v}) \cup {w} \subseteq Vma
    BY <1>0, <1>3 DEF Spaces
  <2> QED BY <1>0, <1>5, <2>1 DEF Spaces
<1>7. BrkCeiling(mid) = BrkCeiling(sp)
  BY <1>6 DEF BrkCeiling
<1>8. \A u \in sp.vmas : u.start \in Nat /\ End(u) \in Nat /\ u.start < End(u)
                         /\ (u # v => Apart(v.start, End(v), u.start, End(u)))
  BY <1>0, MapsAre DEF TidyMaps
<1>9. 1 <= v.start /\ End(v) <= Ceiling /\ OffTheHeap(sp, v.start, End(v))
  BY <1>0 DEF TidyMaps
<1>10. Ceiling \in Nat /\ BrkCeiling(sp) \in Nat /\ sp.start \in Nat
  BY <1>0, SpaceIs, SpaceAssumption
<1>11. OffTheHeap(sp, v.start, lo) /\ OffTheHeap(sp, lo, End(v))
  BY <1>1, <1>4, <1>9, <1>10 DEF OffTheHeap, Apart
<1>12. TidyMaps(mid)
  <2>1. ASSUME NEW u \in mid.vmas
        PROVE  1 <= u.start /\ End(u) <= Ceiling /\ OffTheHeap(mid, u.start, End(u))
    <3>1. CASE u = w
      BY <3>1, <1>1, <1>3, <1>4, <1>6, <1>7, <1>9, <1>10, <1>11 DEF OffTheHeap
    <3>2. CASE u \in sp.vmas
      BY <3>2, <1>0, <1>6, <1>7 DEF TidyMaps, OffTheHeap
    <3> QED BY <3>1, <3>2, <1>6
  <2>2. ASSUME NEW u \in mid.vmas, NEW x \in mid.vmas, u # x
        PROVE  Apart(u.start, End(u), x.start, End(x))
    <3>1. CASE u = w
      BY <3>1, <2>2, <1>1, <1>3, <1>4, <1>6, <1>8 DEF Apart
    <3>2. CASE x = w
      BY <3>2, <2>2, <1>1, <1>3, <1>4, <1>6, <1>8 DEF Apart
    <3>3. CASE u # w /\ x # w
      BY <3>3, <2>2, <1>0, <1>6 DEF TidyMaps
    <3> QED BY <3>1, <3>2, <3>3
  <2> QED BY <2>1, <2>2 DEF TidyMaps
<1>13. TidyPool(mid) /\ OffTheHeap(mid, lo, End(v))
  BY <1>0, <1>6, <1>7, <1>11 DEF TidyPool, OffTheHeap
<1>14. PoolIsUnmapped(mid)
  <2>1. \A f \in sp.free : f[1] \in Nat /\ f[2] \in Nat
                           /\ (f[2] = 0 \/ Apart(f[1], f[1] + f[2], v.start, End(v)))
    BY <1>0, PoolIs DEF PoolIsUnmapped
  <2>2. \A f \in sp.free : f[2] = 0 \/ Apart(f[1], f[1] + f[2], w.start, End(w))
    BY <2>1, <1>1, <1>3, <1>4 DEF Apart
  <2> QED BY <2>2, <1>0, <1>6 DEF PoolIsUnmapped
<1>15. \A u \in mid.vmas : Apart(lo, End(v), u.start, End(u))
  BY <1>1, <1>3, <1>4, <1>6, <1>8 DEF Apart
<1>16. /\ out.sp \in Spaces /\ TidyPool(out.sp) /\ PoolIsUnmapped(out.sp)
       /\ out.sp.start = mid.start /\ out.sp.brk = mid.brk
       /\ out.sp.high = mid.high /\ out.sp.vmas = mid.vmas
  <2>1. 1 <= lo /\ lo <= End(v) /\ End(v) <= Ceiling
    BY <1>4, <1>9, <1>1
  <2> QED BY <2>1, <1>1, <1>2, <1>4, <1>6, <1>13, <1>14, <1>15, ReleasedIs
<1>17. BrkCeiling(out.sp) = BrkCeiling(sp)
  BY <1>6, <1>16 DEF BrkCeiling
<1>18. Tidy(out.sp)
  BY <1>0, <1>6, <1>7, <1>12, <1>16, <1>17 DEF Tidy, TidyHeap, TidyMaps, OffTheHeap
<1>19. Changes(sp, out.sp, v.start, End(v))
  <2> SUFFICES ASSUME NEW p \in Nat, NEW prot \in Accesses, p < v.start \/ End(v) <= p
               PROVE  Shows(out.sp, p, prot) <=> Shows(sp, p, prot)
    BY <1>6, <1>16 DEF Changes
  <2>1. ~(v.start <= p /\ p < End(v)) /\ ~(w.start <= p /\ p < End(w))
    BY <1>1, <1>3, <1>4
  <2> QED BY <2>1, <1>6, <1>16 DEF Shows
<1> QED BY <1>1, <1>2, <1>18, <1>19 DEF Resizes

\* The space above a mapping, where the pool holds all of it or none.
LEMMA ReservedIs ==
  ASSUME NEW sp, Tidy(sp), NEW lo \in Nat, NEW hi \in Nat, lo < hi,
         \A f \in sp.free : \/ Range2(lo, hi) \subseteq Range2(f[1], f[1] + f[2])
                            \/ Range2(lo, hi) \cap Range2(f[1], f[1] + f[2]) = {},
         \A u \in sp.vmas : Apart(lo, hi, u.start, End(u)),
         NEW new \in ReservedAbove(sp, lo, hi)
  PROVE  /\ Tidy(new) /\ Room(new, lo, hi)
         /\ new.start = sp.start /\ new.brk = sp.brk
         /\ new.high = sp.high /\ new.vmas = sp.vmas
<1> DEFINE holding == {f \in sp.free : f[1] <= lo /\ f[1] + f[2] >= hi}
<1>0. sp \in Spaces /\ TidyMaps(sp) /\ TidyPool(sp) /\ PoolIsUnmapped(sp) /\ TidyHeap(sp)
  BY DEF Tidy
<1>1. BrkCeiling(sp) \in Nat /\ sp.start \in Nat /\ sp.start < BrkCeiling(sp) /\ Ceiling \in Nat
  BY <1>0, SpaceIs, SpaceAssumption
<1>2. BrkCeiling(sp) <= lo
  BY <1>1 DEF ReservedAbove
<1>3. OffTheHeap(sp, lo, hi)
  BY <1>2 DEF OffTheHeap, Apart
<1>4. \A f \in sp.free : f \in Nat \X Nat /\ f[1] \in Nat /\ f[2] \in Nat
                         /\ 1 <= f[1] /\ f[1] + f[2] <= Ceiling
                         /\ OffTheHeap(sp, f[1], f[1] + f[2])
  BY <1>0, PoolIs DEF TidyPool
<1>5. CASE holding # {}
  <2>1. PICK f \in holding :
          new = [sp EXCEPT !.free = (@ \ {f})
                   \cup (IF f[1] < lo THEN {<<f[1], lo - f[1]>>} ELSE {})
                   \cup (IF f[1] + f[2] > hi THEN {<<hi, f[1] + f[2] - hi>>} ELSE {})]
    <3> DEFINE left(f) == [sp EXCEPT !.free = (@ \ {f})
                   \cup (IF f[1] < lo THEN {<<f[1], lo - f[1]>>} ELSE {})
                   \cup (IF f[1] + f[2] > hi THEN {<<hi, f[1] + f[2] - hi>>} ELSE {})]
    <3>1. ReservedAbove(sp, lo, hi) = {left(f) : f \in holding}
      BY <1>1, <1>2, <1>5 DEF ReservedAbove
    <3>2. PICK f \in holding : new = left(f)
      <4> HIDE DEF left, holding
      <4> QED BY <3>1
    <3> QED BY <3>2
  <2> DEFINE rest == (IF f[1] < lo THEN {<<f[1], lo - f[1]>>} ELSE {})
                   \cup (IF f[1] + f[2] > hi THEN {<<hi, f[1] + f[2] - hi>>} ELSE {})
  <2>2. f \in sp.free /\ f[1] <= lo /\ hi <= f[1] + f[2] /\ f[1] \in Nat /\ f[2] \in Nat
        /\ 1 <= f[1] /\ f[1] + f[2] <= Ceiling
    BY <1>4
  <2>3. \A g \in rest : /\ g \in Nat \X Nat /\ g[1] \in Nat /\ g[2] \in Nat
                        /\ f[1] <= g[1] /\ g[1] + g[2] <= f[1] + f[2]
                        /\ g[1] + g[2] = lo \/ g[1] = hi
    <3> SUFFICES ASSUME NEW g \in rest
                 PROVE  /\ g \in Nat \X Nat /\ g[1] \in Nat /\ g[2] \in Nat
                        /\ f[1] <= g[1] /\ g[1] + g[2] <= f[1] + f[2]
                        /\ g[1] + g[2] = lo \/ g[1] = hi
      OBVIOUS
    <3>1. CASE f[1] < lo /\ g = <<f[1], lo - f[1]>>
      <4>1. lo - f[1] \in Nat /\ g[1] = f[1] /\ g[2] = lo - f[1]
        BY <3>1, <2>2
      <4> QED BY <4>1, <3>1, <2>2
    <3>2. CASE f[1] + f[2] > hi /\ g = <<hi, f[1] + f[2] - hi>>
      <4>1. f[1] + f[2] - hi \in Nat /\ g[1] = hi /\ g[2] = f[1] + f[2] - hi
        BY <3>2, <2>2
      <4> QED BY <4>1, <3>2, <2>2
    <3> QED BY <3>1, <3>2
  <2>4. \A g, h \in rest : g # h => g[1] + g[2] < h[1] \/ h[1] + h[2] < g[1]
    <3> SUFFICES ASSUME NEW g \in rest, NEW h \in rest, g # h
                 PROVE  g[1] + g[2] < h[1] \/ h[1] + h[2] < g[1]
      OBVIOUS
    <3>1. (g = <<f[1], lo - f[1]>> /\ h = <<hi, f[1] + f[2] - hi>>)
          \/ (h = <<f[1], lo - f[1]>> /\ g = <<hi, f[1] + f[2] - hi>>)
      OBVIOUS
    <3>2. CASE g = <<f[1], lo - f[1]>> /\ h = <<hi, f[1] + f[2] - hi>>
      <4>1. g[1] = f[1] /\ g[2] = lo - f[1] /\ h[1] = hi
        BY <3>2
      <4> QED BY <4>1, <2>2
    <3>3. CASE h = <<f[1], lo - f[1]>> /\ g = <<hi, f[1] + f[2] - hi>>
      <4>1. h[1] = f[1] /\ h[2] = lo - f[1] /\ g[1] = hi
        BY <3>3
      <4> QED BY <4>1, <2>2
    <3> QED BY <3>1, <3>2, <3>3
  <2>5. new = [sp EXCEPT !.free = (sp.free \ {f}) \cup rest]
    <3>1. (sp.free \ {f}) \cup rest = (sp.free \ {f})
                   \cup (IF f[1] < lo THEN {<<f[1], lo - f[1]>>} ELSE {})
                   \cup (IF f[1] + f[2] > hi THEN {<<hi, f[1] + f[2] - hi>>} ELSE {})
      OBVIOUS
    <3> HIDE DEF rest
    <3> QED BY <2>1, <3>1, <1>0 DEF Spaces
  <2> HIDE DEF rest
  <2>6. /\ new \in Spaces /\ new.start = sp.start /\ new.brk = sp.brk
        /\ new.high = sp.high /\ new.vmas = sp.vmas
        /\ new.free = (sp.free \ {f}) \cup rest
    <3>1. (sp.free \ {f}) \cup rest \subseteq Nat \X Nat
      BY <1>4, <2>3
    <3> QED BY <1>0, <2>5, <3>1 DEF Spaces
  <2>7. BrkCeiling(new) = BrkCeiling(sp)
    BY <2>6 DEF BrkCeiling
  <2>8. \A g \in sp.free \ {f} : g[1] + g[2] < f[1] \/ f[1] + f[2] < g[1]
    BY <1>0, <2>2 DEF TidyPool
  <2>9. Apart(f[1], f[1] + f[2], sp.start, BrkCeiling(sp))
    BY <1>4, <2>2 DEF OffTheHeap
  <2>10. TidyPool(new)
    <3>1. ASSUME NEW g \in new.free
          PROVE  1 <= g[1] /\ g[1] + g[2] <= Ceiling /\ OffTheHeap(new, g[1], g[1] + g[2])
      <4>1. CASE g \in sp.free
        BY <4>1, <1>4, <2>6, <2>7 DEF OffTheHeap
      <4>2. CASE g \in rest
        BY <4>2, <1>1, <2>2, <2>3, <2>6, <2>7, <2>9 DEF OffTheHeap, Apart
      <4> QED BY <4>1, <4>2, <2>6
    <3>2. ASSUME NEW g \in new.free, NEW h \in new.free, g # h
          PROVE  g[1] + g[2] < h[1] \/ h[1] + h[2] < g[1]
      <4>1. CASE g \in sp.free \ {f} /\ h \in sp.free \ {f}
        BY <4>1, <1>0, <3>2 DEF TidyPool
      <4>2. CASE g \in rest /\ h \in sp.free \ {f}
        BY <4>2, <1>4, <2>2, <2>3, <2>8
      <4>3. CASE h \in rest /\ g \in sp.free \ {f}
        BY <4>3, <1>4, <2>2, <2>3, <2>8
      <4>4. CASE g \in rest /\ h \in rest
        BY <4>4, <2>4, <3>2
      <4> QED BY <4>1, <4>2, <4>3, <4>4, <2>6
    <3> QED BY <3>1, <3>2 DEF TidyPool
  <2>11. PoolIsUnmapped(new)
    <3>1. ASSUME NEW g \in new.free, NEW u \in new.vmas
          PROVE  g[2] = 0 \/ Apart(g[1], g[1] + g[2], u.start, End(u))
      <4>1. CASE g \in sp.free
        BY <4>1, <1>0, <2>6 DEF PoolIsUnmapped
      <4>2. CASE g \in rest
        <5>1. f[2] # 0
          BY <2>2
        <5>2. Apart(f[1], f[1] + f[2], u.start, End(u))
          BY <5>1, <1>0, <2>2, <2>6 DEF PoolIsUnmapped
        <5>3. u.start \in Nat /\ End(u) \in Nat
          BY <2>6, MapsAre
        <5> QED BY <5>2, <5>3, <4>2, <2>2, <2>3 DEF Apart
      <4> QED BY <4>1, <4>2, <2>6
    <3> QED BY <3>1 DEF PoolIsUnmapped
  <2>12. Tidy(new)
    BY <1>0, <2>6, <2>7, <2>10, <2>11 DEF Tidy, TidyHeap, TidyMaps, OffTheHeap
  <2>13. Room(new, lo, hi)
    <3>1. ASSUME NEW g \in new.free
          PROVE  Apart(lo, hi, g[1], g[1] + g[2])
      <4>1. CASE g \in sp.free \ {f}
        BY <4>1, <1>4, <2>2, <2>8 DEF Apart
      <4>2. CASE g \in rest
        BY <4>2, <2>2, <2>3 DEF Apart
      <4> QED BY <4>1, <4>2, <2>6
    <3> QED BY <3>1, <1>3, <2>6, <2>7 DEF Room, OffTheHeap
  <2> QED BY <2>6, <2>12, <2>13
<1>6. CASE holding = {}
  <2>1. new = sp
    BY <1>1, <1>2, <1>6 DEF ReservedAbove
  <2>2. ASSUME NEW f \in sp.free, f[2] # 0 PROVE Apart(lo, hi, f[1], f[1] + f[2])
    <3>1. f[1] \in Nat /\ f[2] \in Nat /\ f[1] < f[1] + f[2] /\ f[1] + f[2] \in Nat
      BY <1>4, <2>2
    <3>2. ~(Range2(lo, hi) \subseteq Range2(f[1], f[1] + f[2]))
      <4> SUFFICES ASSUME Range2(lo, hi) \subseteq Range2(f[1], f[1] + f[2]) PROVE FALSE
        OBVIOUS
      <4>1. lo \in Range2(lo, hi) /\ hi - 1 \in Range2(lo, hi)
        BY DEF Range2
      <4>2. lo \in Range2(f[1], f[1] + f[2]) /\ hi - 1 \in Range2(f[1], f[1] + f[2])
        BY <4>1
      <4>3. f[1] <= lo /\ hi <= f[1] + f[2]
        BY <4>2, <3>1 DEF Range2
      <4>4. f \in holding
        BY <4>3
      <4> QED BY <4>4, <1>6
    <3>3. Range2(lo, hi) \cap Range2(f[1], f[1] + f[2]) = {}
      BY <3>2
    <3> HIDE DEF holding
    <3> QED BY <3>1, <3>3, DisjointIsApart
  <2>3. Room(sp, lo, hi)
    BY <1>3, <2>2 DEF Room
  <2> QED BY <2>1, <2>3
<1> QED BY <1>5, <1>6

\* Growing in place leaves the space in order, if the pool holds all of what is
\* above the mapping or none of it.
LEMMA GrownIs ==
  ASSUME NEW sp, Tidy(sp), NEW v \in sp.vmas, NEW length \in Nat, v.length < length,
         v.start + length <= Ceiling,
         \A f \in sp.free :
           \/ Range2(End(v), v.start + length) \subseteq Range2(f[1], f[1] + f[2])
           \/ Range2(End(v), v.start + length) \cap Range2(f[1], f[1] + f[2]) = {},
         NEW out \in GrownInPlace(sp, v, length)
  PROVE  Resizes(sp, out, v, length)
<1> DEFINE w == [v EXCEPT !.length = length]
           lo == End(v)
           hi == v.start + length
<1>0. sp \in Spaces /\ TidyMaps(sp) /\ TidyPool(sp) /\ PoolIsUnmapped(sp) /\ TidyHeap(sp)
  BY DEF Tidy
<1>1. v \in Vma /\ v.start \in Nat /\ v.length \in Nat /\ lo \in Nat /\ v.start < lo
      /\ lo = v.start + v.length /\ v.prot \in Accesses /\ length \in Nat \ {0}
  BY <1>0, MapsAre
<1>2. hi \in Nat /\ lo < hi /\ v.start < hi
  BY <1>1
<1>3. ~Overlaps(sp, lo, hi)
  BY DEF GrownInPlace
<1>4. PICK s \in ReservedAbove(sp, lo, hi) :
        out = [sp |-> [Claimed(s, hi) EXCEPT !.vmas = (@ \ {v}) \cup {w}],
               to |-> v.start, fill |-> Fill(s, lo, hi)]
  BY <1>3 DEF GrownInPlace
<1>5. w \in Vma /\ w.start = v.start /\ w.prot = v.prot /\ w.length = length
  BY <1>1 DEF Vma
<1>6. End(w) = hi
  BY <1>5 DEF End
<1>7. \A u \in sp.vmas : u.start \in Nat /\ End(u) \in Nat /\ u.start < End(u)
                         /\ (u # v => Apart(v.start, End(v), u.start, End(u)))
                         /\ Apart(lo, hi, u.start, End(u))
  <2>1. \A u \in sp.vmas : ~Touches(u, lo, hi)
    BY <1>3 DEF Overlaps
  <2> HIDE DEF lo, hi
  <2>2. \A u \in sp.vmas : u.start \in Nat /\ End(u) \in Nat /\ u.start < End(u)
    BY <1>0, MapsAre
  <2>3. \A u \in sp.vmas : u # v => Apart(v.start, End(v), u.start, End(u))
    BY <1>0 DEF TidyMaps
  <2>4. \A u \in sp.vmas : Apart(lo, hi, u.start, End(u))
    BY <2>1, <2>2, <1>1, <1>2 DEF Touches, Apart
  <2> QED BY <2>2, <2>3, <2>4
<1>8. out.sp = [Claimed(s, hi) EXCEPT !.vmas = (@ \ {v}) \cup {w}]
      /\ out.to = v.start /\ out.fill = Fill(s, lo, hi)
  BY <1>4
<1>9. /\ \A f \in sp.free : \/ Range2(lo, hi) \subseteq Range2(f[1], f[1] + f[2])
                            \/ Range2(lo, hi) \cap Range2(f[1], f[1] + f[2]) = {}
      /\ hi <= Ceiling
  OBVIOUS
<1> HIDE DEF w, lo, hi
<1>10. /\ Tidy(s) /\ Room(s, lo, hi)
       /\ s.start = sp.start /\ s.brk = sp.brk
       /\ s.high = sp.high /\ s.vmas = sp.vmas
  <2>1. \A u \in sp.vmas : Apart(lo, hi, u.start, End(u))
    BY <1>7
  <2>2. s \in ReservedAbove(sp, lo, hi) /\ lo \in Nat /\ hi \in Nat /\ lo < hi
    BY <1>1, <1>2
  <2> QED BY <2>1, <2>2, <1>9, ReservedIs
<1>11. s \in Spaces /\ BrkCeiling(s) = BrkCeiling(sp)
  BY <1>10 DEF Tidy, BrkCeiling
<1>12. PICK high \in Nat : Claimed(s, hi) = [s EXCEPT !.high = high]
  BY <1>2, <1>11, ClaimedIs
<1>13. out.sp = [s EXCEPT !.high = high, !.vmas = (sp.vmas \ {v}) \cup {w}]
  BY <1>8, <1>10, <1>11, <1>12 DEF Spaces
<1>14. /\ out.sp \in Spaces /\ out.sp.start = sp.start /\ out.sp.brk = sp.brk
       /\ out.sp.free = s.free /\ out.sp.vmas = (sp.vmas \ {v}) \cup {w}
  <2>1. (sp.vmas \ {v}) \cup {w} \subseteq Vma
    BY <1>0, <1>5 DEF Spaces
  <2> QED BY <1>10, <1>11, <1>13, <2>1 DEF Spaces
<1>15. BrkCeiling(out.sp) = BrkCeiling(sp)
  BY <1>14 DEF BrkCeiling
<1>16. BrkCeiling(sp) \in Nat /\ sp.start \in Nat /\ sp.start < BrkCeiling(sp)
  BY <1>0, SpaceIs
<1>17. OffTheHeap(sp, v.start, hi)
  <2>1. OffTheHeap(sp, v.start, lo)
    BY <1>0 DEF TidyMaps, lo
  <2>2. OffTheHeap(sp, lo, hi)
    BY <1>10, <1>11 DEF Room, OffTheHeap
  <2> QED BY <2>1, <2>2, <1>1, <1>2, <1>16 DEF OffTheHeap, Apart
<1>18. TidyMaps(out.sp)
  <2>1. ASSUME NEW u \in out.sp.vmas
        PROVE  1 <= u.start /\ End(u) <= Ceiling /\ OffTheHeap(out.sp, u.start, End(u))
    <3>1. CASE u = w
      BY <3>1, <1>0, <1>5, <1>6, <1>9, <1>14, <1>15, <1>17 DEF TidyMaps, OffTheHeap
    <3>2. CASE u \in sp.vmas
      BY <3>2, <1>0, <1>14, <1>15 DEF TidyMaps, OffTheHeap
    <3> QED BY <3>1, <3>2, <1>14
  <2>2. ASSUME NEW u \in sp.vmas, u # v PROVE Apart(v.start, hi, u.start, End(u))
    BY <2>2, <1>1, <1>2, <1>7 DEF Apart, lo
  <2>3. ASSUME NEW u \in out.sp.vmas, NEW x \in out.sp.vmas, u # x
        PROVE  Apart(u.start, End(u), x.start, End(x))
    <3>1. CASE u = w
      BY <3>1, <2>2, <2>3, <1>5, <1>6, <1>14
    <3>2. CASE x = w
      BY <3>2, <2>2, <2>3, <1>5, <1>6, <1>14 DEF Apart
    <3>3. CASE u # w /\ x # w
      BY <3>3, <2>3, <1>0, <1>14 DEF TidyMaps
    <3> QED BY <3>1, <3>2, <3>3
  <2> QED BY <2>1, <2>3 DEF TidyMaps
<1>19. PoolIsUnmapped(out.sp)
  <2>1. ASSUME NEW f \in s.free
        PROVE  f[2] = 0 \/ Apart(f[1], f[1] + f[2], w.start, End(w))
    <3>1. f[1] \in Nat /\ f[2] \in Nat
      BY <1>11, PoolIs
    <3>2. f[2] = 0 \/ Apart(f[1], f[1] + f[2], v.start, lo)
      BY <1>10 DEF Tidy, PoolIsUnmapped, lo
    <3>3. f[2] = 0 \/ Apart(lo, hi, f[1], f[1] + f[2])
      BY <1>10 DEF Room
    <3> QED BY <3>1, <3>2, <3>3, <1>1, <1>2, <1>5, <1>6 DEF Apart
  <2> QED BY <2>1, <1>10, <1>14 DEF Tidy, PoolIsUnmapped
<1>20. TidyPool(out.sp)
  BY <1>10, <1>11, <1>14, <1>15 DEF Tidy, TidyPool, OffTheHeap
<1>21. Tidy(out.sp)
  BY <1>0, <1>14, <1>15, <1>18, <1>19, <1>20 DEF Tidy, TidyHeap
<1>22. Changes(sp, out.sp, v.start, hi)
  <2> SUFFICES ASSUME NEW p \in Nat, NEW prot \in Accesses, p < v.start \/ hi <= p
               PROVE  Shows(out.sp, p, prot) <=> Shows(sp, p, prot)
    BY <1>14 DEF Changes
  <2>1. ~(v.start <= p /\ p < End(v)) /\ ~(w.start <= p /\ p < End(w))
    BY <1>1, <1>2, <1>5, <1>6 DEF lo
  <2> QED BY <2>1, <1>14 DEF Shows
<1>23. ASSUME NEW p \in out.fill
       PROVE  p \in Nat /\ lo <= p /\ p < hi /\ p \in MappedPages(out.sp)
  <2>1. p \in Range2(lo, hi)
    BY <1>1, <1>2, <1>8, <1>11, FillIs
  <2>2. p \in Nat /\ lo <= p /\ p < hi
    BY <2>1, <1>1, <1>2 DEF Range2
  <2>3. p \in PagesOf(w)
    BY <2>2, <1>1, <1>2, <1>5, <1>6 DEF PagesOf, Range2
  <2> QED BY <2>2, <2>3, <1>14 DEF MappedPages
<1> QED BY <1>8, <1>21, <1>22, <1>23 DEF Resizes, hi, lo

\* What a move leaves behind.
Moves(sp, out, v, length) ==
  /\ Tidy(out.sp) /\ out.sp.start = sp.start /\ out.sp.brk = sp.brk
  /\ out.to \in Nat /\ 1 <= out.to /\ out.to + length <= Ceiling
  /\ OffTheHeap(sp, out.to, out.to + length)
  /\ Apart(v.start, End(v), out.to, out.to + length)
  /\ \A p \in Nat, prot \in Accesses :
       (p < v.start \/ End(v) <= p) /\ (p < out.to \/ out.to + length <= p)
         => (Shows(out.sp, p, prot) <=> Shows(sp, p, prot))
  /\ \A p \in Nat : out.to <= p /\ p < out.to + length
       => p \notin MappedPages(sp) /\ p \in MappedPages(out.sp)
  /\ \A p \in PagesOf(v) : p \notin MappedPages(out.sp)
  /\ \A p \in out.fill : p \in Nat /\ out.to + v.length <= p /\ p < out.to + length

\* Moving a mapping leaves the space in order, its old pages unmapped and its
\* new ones where nothing was.
LEMMA MovedIs ==
  ASSUME NEW sp, Tidy(sp), NEW v \in sp.vmas, NEW length \in Nat, v.length < length,
         NEW out \in MovedAway(sp, v, length)
  PROVE  Moves(sp, out, v, length)
<1> DEFINE Out(a) ==
             LET whole == Fill(a.sp, a.at, a.at + length)
                 gone  == Unmapped(Claimed(a.sp, a.at + length), v.start, End(v))
             IN  [sp |-> [gone EXCEPT !.vmas = @ \cup
                            {[v EXCEPT !.start = a.at, !.length = length]}],
                  to |-> a.at, fill |-> whole \ Range2(a.at, a.at + v.length)]
<1>0. sp \in Spaces /\ TidyMaps(sp)
  BY DEF Tidy
<1>1. v \in Vma /\ v.start \in Nat /\ v.length \in Nat /\ End(v) \in Nat /\ v.start < End(v)
      /\ End(v) = v.start + v.length /\ v.prot \in Accesses /\ length \in Nat \ {0}
  BY <1>0, MapsAre
<1>2. PICK a \in Allocations(sp, length) : out = Out(a)
  <2>1. MovedAway(sp, v, length) = {Out(a) : a \in Allocations(sp, length)}
    BY DEF MovedAway
  <2> HIDE DEF Out
  <2> QED BY <2>1
<1>3. /\ Tidy(a.sp) /\ a.at \in Nat /\ 1 <= a.at /\ a.at + length <= Ceiling
      /\ a.sp.start = sp.start /\ a.sp.brk = sp.brk
      /\ a.sp.high = sp.high /\ a.sp.vmas = sp.vmas
      /\ Room(a.sp, a.at, a.at + length)
  BY <1>1, AllocationsAre
<1> DEFINE lo == a.at
           hi == a.at + length
           low == Claimed(a.sp, hi)
           gone == Unmapped(low, v.start, End(v))
           w == [v EXCEPT !.start = lo, !.length = length]
<1>4. /\ out.sp = [gone EXCEPT !.vmas = @ \cup {w}] /\ out.to = lo
      /\ out.fill = Fill(a.sp, lo, hi) \ Range2(lo, lo + v.length)
  BY <1>2
<1>5. gone = Unmapped(low, v.start, End(v))
  OBVIOUS
<1>6. w \in Vma /\ w.start = lo /\ w.prot = v.prot /\ w.length = length
  BY <1>1, <1>3 DEF Vma
<1>7. End(w) = hi /\ hi \in Nat /\ lo \in Nat /\ lo < hi
  BY <1>1, <1>3, <1>6 DEF End
<1>8. a.sp \in Spaces
  BY <1>3 DEF Tidy
<1>9. \E high \in Nat : low = [a.sp EXCEPT !.high = high]
  BY <1>7, <1>8, ClaimedIs
<1>10. hi = lo + length /\ Room(a.sp, lo, hi) /\ hi <= Ceiling /\ 1 <= lo
  BY <1>3
<1> HIDE DEF low, gone, w, lo, hi, Out
<1>11. /\ low \in Spaces /\ low.start = sp.start /\ low.brk = sp.brk /\ low.vmas = sp.vmas
       /\ low.free = a.sp.free
  BY <1>3, <1>8, <1>9 DEF Spaces
<1>12. BrkCeiling(low) = BrkCeiling(sp) /\ BrkCeiling(a.sp) = BrkCeiling(sp)
  BY <1>3, <1>11 DEF BrkCeiling
<1>13. Tidy(low) /\ Room(low, lo, hi)
  BY <1>3, <1>10, <1>11, <1>12 DEF Tidy, TidyHeap, TidyMaps, TidyPool, PoolIsUnmapped, OffTheHeap, Room
<1>14. Range2(v.start, End(v)) \subseteq MappedPages(low)
  BY <1>11 DEF MappedPages, PagesOf
<1>15. /\ Tidy(gone) /\ Changes(low, gone, v.start, End(v))
       /\ \A u \in gone.vmas : Apart(u.start, End(u), v.start, End(v))
       /\ \A c, d \in Nat :
            c < d /\ Apart(v.start, End(v), c, d) /\ Room(low, c, d) => Room(gone, c, d)
  BY <1>1, <1>5, <1>13, <1>14, UnmappedIs
<1>16. Apart(v.start, End(v), lo, hi)
  <2>1. Apart(lo, hi, v.start, End(v))
    BY <1>11, <1>13 DEF Room
  <2> QED BY <2>1 DEF Apart
<1>17. Room(gone, lo, hi)
  BY <1>7, <1>13, <1>15, <1>16
<1>18. gone \in Spaces
  BY <1>15 DEF Tidy
<1>19. /\ out.sp \in Spaces /\ out.sp.start = gone.start /\ out.sp.brk = gone.brk
       /\ out.sp.free = gone.free /\ out.sp.vmas = gone.vmas \cup {w}
  <2>1. gone.vmas \cup {w} \subseteq Vma
    BY <1>6, <1>18 DEF Spaces
  <2> QED BY <1>4, <1>18, <2>1 DEF Spaces
<1>20. /\ Tidy(out.sp) /\ Changes(gone, out.sp, lo, hi)
       /\ \A p \in Nat : lo <= p /\ p < hi => Shows(out.sp, p, w.prot)
  BY <1>6, <1>7, <1>10, <1>15, <1>17, <1>19, Fits
<1>21. out.sp.start = sp.start /\ out.sp.brk = sp.brk
  BY <1>11, <1>15, <1>19 DEF Changes
<1>22. OffTheHeap(sp, lo, hi)
  BY <1>11, <1>12, <1>13 DEF Room, OffTheHeap
<1>23. ASSUME NEW p \in Nat, NEW prot \in Accesses,
              p < v.start \/ End(v) <= p, p < lo \/ hi <= p
       PROVE  Shows(out.sp, p, prot) <=> Shows(sp, p, prot)
  <2>1. Shows(low, p, prot) <=> Shows(sp, p, prot)
    BY <1>11 DEF Shows
  <2> QED BY <2>1, <1>15, <1>20, <1>23 DEF Changes
<1>24. ASSUME NEW p \in Nat, lo <= p, p < hi
       PROVE  p \notin MappedPages(sp) /\ p \in MappedPages(out.sp)
  <2>1. p \in MappedPages(out.sp)
    <3>1. Shows(out.sp, p, w.prot) /\ w.prot \in Accesses
      BY <1>1, <1>6, <1>20, <1>24
    <3> QED BY <3>1, <1>19, MappedShows
  <2>2. p \notin MappedPages(sp)
    <3>1. \A u \in sp.vmas : Apart(lo, hi, u.start, End(u))
      BY <1>11, <1>13 DEF Room
    <3>2. \A u \in sp.vmas : p \notin PagesOf(u)
      BY <3>1, <1>0, <1>7, <1>24, MapsAre DEF Apart, PagesOf, Range2
    <3> QED BY <3>2 DEF MappedPages
  <2> QED BY <2>1, <2>2
<1>25. ASSUME NEW p \in PagesOf(v)
       PROVE  p \notin MappedPages(out.sp)
  <2>1. p \in Nat /\ v.start <= p /\ p < End(v)
    BY <1>1 DEF PagesOf, Range2
  <2>2. \A u \in gone.vmas : u.start \in Nat /\ End(u) \in Nat
    BY <1>18, MapsAre
  <2>3. \A u \in gone.vmas : p \notin PagesOf(u)
    BY <2>1, <2>2, <1>1, <1>15 DEF Apart, PagesOf, Range2
  <2>4. p \notin PagesOf(w)
    BY <2>1, <1>1, <1>6, <1>7, <1>16 DEF Apart, PagesOf, Range2
  <2> QED BY <2>3, <2>4, <1>19 DEF MappedPages
<1>26. ASSUME NEW p \in out.fill
       PROVE  p \in Nat /\ lo + v.length <= p /\ p < hi
  <2>1. p \in Range2(lo, hi) /\ p \notin Range2(lo, lo + v.length)
    BY <1>4, <1>7, <1>8, FillIs
  <2> QED BY <2>1, <1>1, <1>7 DEF Range2
<1>27. /\ Tidy(out.sp) /\ out.sp.start = sp.start /\ out.sp.brk = sp.brk
       /\ out.to = lo /\ lo \in Nat /\ 1 <= lo /\ lo + length = hi /\ hi <= Ceiling
  BY <1>4, <1>7, <1>10, <1>20, <1>21
<1>28. Apart(v.start, End(v), out.to, out.to + length)
  BY <1>16, <1>27
<1>29. OffTheHeap(sp, out.to, out.to + length)
  BY <1>22, <1>27
<1> QED BY <1>23, <1>24, <1>25, <1>26, <1>27, <1>28, <1>29 DEF Moves

\* A slot of the block is always chosen.
LEMMA ChosenStartIs ==
  ASSUME NEW S
  PROVE  ChosenStart(S) \in Nat /\ Base <= ChosenStart(S)
<1>0. Base \in Nat /\ Ceiling \in Nat /\ Base <= Ceiling /\ Slots \in Nat \ {0} /\ Span \in Int
  BY SpaceAssumption DEF Span
<1>1. CASE Span < 1
  BY <1>0, <1>1 DEF ChosenStart
<1>2. CASE ~(Span < 1)
  <2> DEFINE begin(s) == Base + s * Span
             crowd(s) == Cardinality(Range2(begin(s), begin(s) + Span) \cap S)
             Best(s) == s \in 0 .. Slots - 1 /\ \A z \in 0 .. Slots - 1 :
                          crowd(s) < crowd(z) \/ (crowd(s) = crowd(z) /\ s <= z)
             best == CHOOSE s \in 0 .. Slots - 1 : \A z \in 0 .. Slots - 1 :
                       crowd(s) < crowd(z) \/ (crowd(s) = crowd(z) /\ s <= z)
  <2>1. \A s \in Nat : begin(s) \in Nat
    BY <1>0, <1>2
  <2>2. \A s \in Nat : crowd(s) \in Nat
    <3> SUFFICES ASSUME NEW s \in Nat PROVE crowd(s) \in Nat
      OBVIOUS
    <3>1. begin(s) \in Int /\ (begin(s) + Span) - 1 \in Int
      BY <1>0, <2>1
    <3>2. IsFiniteSet(Range2(begin(s), begin(s) + Span))
      <4>1. \A a, b \in Int : IsFiniteSet(a .. b)
        BY FS_Interval
      <4> HIDE DEF begin
      <4>2. IsFiniteSet(begin(s) .. ((begin(s) + Span) - 1))
        BY <3>1, <4>1
      <4> QED BY <4>2, Zenon DEF Range2
    <3>3. IsFiniteSet(Range2(begin(s), begin(s) + Span) \cap S)
      <4> HIDE DEF begin
      <4> QED BY <3>2, FS_Intersection
    <3> QED BY <3>3, FS_CardinalityType
  <2>3. ChosenStart(S) = begin(best)
    BY <1>2 DEF ChosenStart
  <2> HIDE DEF begin, crowd
  <2>4. \E s : Best(s)
    <3> DEFINE counts == {crowd(s) : s \in 0 .. Slots - 1}
    <3>1. counts \subseteq Nat /\ counts # {}
      BY <1>0, <2>2
    <3>2. PICK n \in counts : \A m \in counts : n <= m
      BY <3>1, LeastExists
    <3> DEFINE least == {s \in 0 .. Slots - 1 : crowd(s) = n}
    <3>3. least \subseteq Nat /\ least # {}
      BY <1>0, <3>2
    <3>4. PICK s \in least : \A z \in least : s <= z
      BY <3>3, LeastExists
    <3>5. \A z \in 0 .. Slots - 1 : crowd(z) \in counts /\ crowd(z) \in Nat
      BY <1>0, <2>2
    <3>6. s \in 0 .. Slots - 1 /\ crowd(s) = n /\ n \in Nat
      BY <3>1, <3>2
    <3>7. ASSUME NEW z \in 0 .. Slots - 1
          PROVE  crowd(s) < crowd(z) \/ (crowd(s) = crowd(z) /\ s <= z)
      <4>1. n <= crowd(z)
        BY <3>2, <3>5
      <4>2. CASE crowd(z) = n
        BY <3>4, <3>6, <4>2
      <4>3. CASE crowd(z) # n
        BY <3>5, <3>6, <4>1, <4>3
      <4> QED BY <4>2, <4>3
    <3> QED BY <3>6, <3>7
  <2>5. best \in 0 .. Slots - 1
    BY <2>4
  <2>6. best \in Nat
    BY <1>0, <2>5
  <2> HIDE DEF best
  <2>7. best * Span \in Nat /\ begin(best) = Base + best * Span
    BY <1>0, <1>2, <2>6 DEF begin
  <2> QED BY <1>0, <2>3, <2>7
<1> QED BY <1>1, <1>2

\* A space with nothing in it.
LEMMA FreshIs ==
  ASSUME NEW start \in Nat, Base <= start
  PROVE  Tidy(Fresh(start)) /\ Fresh(start).vmas = {}
         /\ Fresh(start).start = start /\ Fresh(start).brk = start
<1>1. Fresh(start) \in Spaces
  BY DEF Fresh, Spaces
<1> QED BY <1>1, SpaceAssumption, SpaceIs DEF Tidy, TidyHeap, TidyMaps, TidyPool, PoolIsUnmapped, Fresh, BrkCeiling

---------------------------------------------------------------------------
(* The owner table, for processes that map the pages M[t]. *)

Residents(made) ==
  [owner : [Pages -> made \cup {NoOne}], live : SUBSET made,
   displaced : [Tokens -> [Pages -> Contents \cup {NoCopy}]], bytes : [Pages -> Contents]]

\* What a live process owns it maps, and it holds a copy of exactly the pages
\* it maps and does not own; nobody else holds a copy.
Keeps(r, M, made) ==
  /\ made \subseteq Tokens /\ M \in [Tokens -> SUBSET Pages] /\ r \in Residents(made)
  /\ \A p \in Pages : r.owner[p] \in r.live => p \in M[r.owner[p]]
  /\ \A t \in r.live, p \in Pages :
       (r.displaced[t][p] # NoCopy) <=> (p \in M[t] /\ r.owner[p] # t)
  /\ \A t \in Tokens \ r.live : r.displaced[t] = NoCopies

Owns(r, t, M) == \A p \in M[t] : r.owner[p] = t

\* What t would read at p.
ReadAt(r, M, t, p) ==
  IF t \notin r.live \/ p \notin M[t] THEN Gone
  ELSE IF r.owner[p] = t THEN r.bytes[p] ELSE r.displaced[t][p]

\* Nobody but t notices.
OthersSame(r, M, new, N, t) ==
  \A u \in Tokens, p \in Pages : u # t => ReadAt(new, N, u, p) = ReadAt(r, M, u, p)

\* What the parts of an owner table in order are.
LEMMA ResidentsAre ==
  ASSUME NEW r, NEW M, NEW made, Keeps(r, M, made)
  PROVE  /\ r = [owner |-> r.owner, live |-> r.live, displaced |-> r.displaced, bytes |-> r.bytes]
         /\ r.owner \in [Pages -> made \cup {NoOne}] /\ r.live \subseteq made
         /\ r.displaced \in [Tokens -> [Pages -> Contents \cup {NoCopy}]]
         /\ r.bytes \in [Pages -> Contents] /\ r.live \subseteq Tokens /\ NoOne \notin r.live
         /\ \A t \in Tokens, p \in Pages :
              r.displaced[t][p] \in Contents \cup {NoCopy} /\ r.bytes[p] \in Contents
              /\ r.owner[p] \in made \cup {NoOne}
<1>1. r \in Residents(made) /\ made \subseteq Tokens
  BY DEF Keeps
<1>2. /\ r = [owner |-> r.owner, live |-> r.live, displaced |-> r.displaced, bytes |-> r.bytes]
      /\ r.owner \in [Pages -> made \cup {NoOne}] /\ r.live \subseteq made
      /\ r.displaced \in [Tokens -> [Pages -> Contents \cup {NoCopy}]]
      /\ r.bytes \in [Pages -> Contents]
  BY <1>1 DEF Residents
<1>3. r.live \subseteq Tokens /\ NoOne \notin r.live
  BY <1>1, <1>2, MemoryAssumption
<1>4. \A t \in Tokens, p \in Pages :
              r.displaced[t][p] \in Contents \cup {NoCopy} /\ r.bytes[p] \in Contents
              /\ r.owner[p] \in made \cup {NoOne}
  BY <1>2
<1> QED BY <1>2, <1>3, <1>4

\* displace saves the bytes of every page that a live process loses.
LEMMA CopyOutIs ==
  ASSUME NEW r, NEW M, NEW made, Keeps(r, M, made), NEW t \in Tokens, NEW P
  PROVE  /\ CopyOut(r, t, P) \in [Tokens -> [Pages -> Contents \cup {NoCopy}]]
         /\ \A u \in Tokens, p \in Pages : CopyOut(r, t, P)[u][p] =
              IF p \in P /\ r.owner[p] = u /\ u # t /\ u \in r.live
              THEN r.bytes[p] ELSE r.displaced[u][p]
<1>1. \A u \in Tokens, p \in Pages :
        r.displaced[u][p] \in Contents \cup {NoCopy} /\ r.bytes[p] \in Contents
  BY ResidentsAre
<1> QED BY <1>1 DEF CopyOut

\* A claim by a process that owns what it maps: the pages it gains hold zeros.
LEMMA ClaimKeeps ==
  ASSUME NEW r, NEW M, NEW made, Keeps(r, M, made), NEW t \in r.live, Owns(r, t, M),
         NEW P \in SUBSET Pages, NEW new, new = Claim(r, t, P),
         NEW N \in [Tokens -> SUBSET Pages], N[t] = M[t] \cup P,
         \A u \in Tokens : u # t => N[u] = M[u]
  PROVE  /\ Keeps(new, N, made) /\ Owns(new, t, N) /\ OthersSame(r, M, new, N, t)
         /\ new.live = r.live
         /\ \A p \in Pages : p \in M[t] \/ p \notin P => new.bytes[p] = r.bytes[p]
         /\ \A p \in Pages : p \in P /\ p \notin M[t] => new.bytes[p] = Zero
<1> DEFINE taken == {p \in P : r.owner[p] # t}
           out == CopyOut(r, t, taken)
           mine == [p \in Pages |-> IF p \in taken THEN NoCopy ELSE out[t][p]]
<1>0. /\ r = [owner |-> r.owner, live |-> r.live, displaced |-> r.displaced, bytes |-> r.bytes]
      /\ r.owner \in [Pages -> made \cup {NoOne}] /\ r.live \subseteq made
      /\ r.bytes \in [Pages -> Contents] /\ t \in Tokens /\ t \in made /\ r.live \subseteq Tokens
      /\ r.displaced \in [Tokens -> [Pages -> Contents \cup {NoCopy}]]
  BY ResidentsAre
<1>1. /\ M \in [Tokens -> SUBSET Pages] /\ made \subseteq Tokens
      /\ \A p \in Pages : r.owner[p] \in r.live => p \in M[r.owner[p]]
      /\ \A u \in r.live, p \in Pages :
           (r.displaced[u][p] # NoCopy) <=> (p \in M[u] /\ r.owner[p] # u)
      /\ \A u \in Tokens \ r.live : r.displaced[u] = NoCopies
  BY DEF Keeps
<1>2. N \in [Tokens -> SUBSET Pages] /\ N[t] = M[t] \cup P /\ \A u \in Tokens : u # t => N[u] = M[u]
  BY <1>0, <1>1
<1>3. /\ out \in [Tokens -> [Pages -> Contents \cup {NoCopy}]]
      /\ \A u \in Tokens, p \in Pages : out[u][p] =
           IF p \in taken /\ r.owner[p] = u /\ u # t /\ u \in r.live
           THEN r.bytes[p] ELSE r.displaced[u][p]
  <2> HIDE DEF taken
  <2> QED BY <1>0, CopyOutIs
<1>4. /\ new.owner = [p \in Pages |-> IF p \in taken THEN t ELSE r.owner[p]]
      /\ new.live = r.live
      /\ new.displaced = [out EXCEPT ![t] = mine]
      /\ new.bytes = [p \in Pages |-> IF p \in taken THEN Zero ELSE r.bytes[p]]
      /\ new = [owner |-> new.owner, live |-> new.live,
                displaced |-> new.displaced, bytes |-> new.bytes]
  <2>1. new = [r EXCEPT !.owner = [p \in Pages |-> IF p \in taken THEN t ELSE r.owner[p]],
                        !.bytes = [p \in Pages |-> IF p \in taken THEN Zero ELSE r.bytes[p]],
                        !.displaced = [out EXCEPT ![t] =
                            [p \in Pages |-> IF p \in taken THEN NoCopy ELSE out[t][p]]]]
    BY <1>0 DEF Claim
  <2> HIDE DEF out, taken
  <2> QED BY <2>1, <1>0
<1>5. \A p : p \in taken <=> p \in P /\ r.owner[p] # t
  OBVIOUS
<1> HIDE DEF out, taken
\* Only the pages it did not map are taken.
<1>6. \A p \in Pages : p \in taken <=> p \in P /\ p \notin M[t]
  BY <1>0, <1>1, <1>5 DEF Owns
<1>7. /\ mine \in [Pages -> Contents \cup {NoCopy}]
      /\ \A p \in Pages : mine[p] = IF p \in taken THEN NoCopy ELSE r.displaced[t][p]
  BY <1>0, <1>3
<1>8. /\ new.displaced \in [Tokens -> [Pages -> Contents \cup {NoCopy}]]
      /\ new.displaced[t] = mine /\ \A u \in Tokens : u # t => new.displaced[u] = out[u]
  <2> HIDE DEF mine
  <2> QED BY <1>0, <1>3, <1>4, <1>7
<1>9. /\ \A p \in Pages : new.owner[p] = IF p \in taken THEN t ELSE r.owner[p]
      /\ \A p \in Pages : new.bytes[p] = IF p \in taken THEN Zero ELSE r.bytes[p]
      /\ new.owner \in [Pages -> made \cup {NoOne}]
      /\ new.bytes \in [Pages -> Contents]
  BY <1>0, <1>4 DEF Contents
<1>10. new \in Residents(made)
  BY <1>0, <1>4, <1>8, <1>9 DEF Residents
<1>11. ASSUME NEW u \in Tokens, NEW p \in Pages, u # t
       PROVE  /\ new.displaced[u][p] = IF p \in taken /\ r.owner[p] = u /\ u \in r.live
                                       THEN r.bytes[p] ELSE r.displaced[u][p]
              /\ new.owner[p] = u <=> (r.owner[p] = u /\ p \notin taken)
  BY <1>3, <1>8, <1>9, <1>11
<1>12. NoCopy \notin Contents /\ \A p \in Pages : r.bytes[p] \in Contents
  BY <1>0, MemoryAssumption
<1>13. Keeps(new, N, made)
  <2>1. ASSUME NEW p \in Pages, new.owner[p] \in new.live PROVE p \in N[new.owner[p]]
    BY <2>1, <1>0, <1>1, <1>2, <1>4, <1>5, <1>9
  <2>2. ASSUME NEW u \in new.live, NEW p \in Pages
        PROVE  (new.displaced[u][p] # NoCopy) <=> (p \in N[u] /\ new.owner[p] # u)
    <3>1. CASE u = t
      <4>1. new.displaced[t][p] = IF p \in taken THEN NoCopy ELSE r.displaced[t][p]
        BY <1>7, <1>8
      <4>2. r.displaced[t][p] = NoCopy
        BY <1>1 DEF Owns
      <4>3. p \in N[t] => new.owner[p] = t
        BY <1>2, <1>5, <1>9 DEF Owns
      <4> QED BY <3>1, <4>1, <4>2, <4>3
    <3>2. CASE u # t
      BY <3>2, <1>0, <1>1, <1>2, <1>4, <1>11, <1>12
    <3> QED BY <3>1, <3>2
  <2>3. ASSUME NEW u \in Tokens \ new.live PROVE new.displaced[u] = NoCopies
    <3>1. u # t /\ u \notin r.live /\ r.displaced[u] = NoCopies
      BY <1>1, <1>4
    <3>2. \A p \in Pages : new.displaced[u][p] = NoCopies[p]
      BY <3>1, <1>11
    <3>3. new.displaced[u] \in [Pages -> Contents \cup {NoCopy}]
      BY <1>8
    <3> QED BY <3>2, <3>3 DEF NoCopies
  <2> QED BY <2>1, <2>2, <2>3, <1>1, <1>2, <1>10 DEF Keeps
<1>14. Owns(new, t, N)
  BY <1>0, <1>1, <1>2, <1>5, <1>9 DEF Owns
<1>15. OthersSame(r, M, new, N, t)
  <2> SUFFICES ASSUME NEW u \in Tokens, NEW p \in Pages, u # t
               PROVE  ReadAt(new, N, u, p) = ReadAt(r, M, u, p)
    BY DEF OthersSame
  <2> QED BY <1>2, <1>4, <1>9, <1>11 DEF ReadAt
<1>16. /\ \A p \in Pages : p \in M[t] \/ p \notin P => new.bytes[p] = r.bytes[p]
       /\ \A p \in P \ M[t] : new.bytes[p] = Zero
  BY <1>0, <1>1, <1>6, <1>9
<1> QED BY <1>4, <1>13, <1>14, <1>15, <1>16

\* What the running process unmaps it may release.
LEMMA ReleaseKeeps ==
  ASSUME NEW r, NEW M, NEW made, Keeps(r, M, made), NEW t \in r.live, Owns(r, t, M),
         NEW P \in SUBSET Pages, NEW new, new = Release(r, t, P),
         NEW N \in [Tokens -> SUBSET Pages], N[t] = M[t] \ P,
         \A u \in Tokens : u # t => N[u] = M[u]
  PROVE  /\ Keeps(new, N, made) /\ Owns(new, t, N) /\ OthersSame(r, M, new, N, t)
         /\ new.live = r.live /\ new.bytes = r.bytes
<1> DEFINE mine == [p \in Pages |-> IF p \in P THEN NoCopy ELSE r.displaced[t][p]]
<1>0. /\ r = [owner |-> r.owner, live |-> r.live, displaced |-> r.displaced, bytes |-> r.bytes]
      /\ r.owner \in [Pages -> made \cup {NoOne}] /\ r.live \subseteq made
      /\ r.bytes \in [Pages -> Contents] /\ t \in Tokens /\ t \in made /\ r.live \subseteq Tokens
      /\ r.displaced \in [Tokens -> [Pages -> Contents \cup {NoCopy}]] /\ NoOne \notin r.live
  BY ResidentsAre
<1>1. /\ M \in [Tokens -> SUBSET Pages] /\ made \subseteq Tokens
      /\ \A p \in Pages : r.owner[p] \in r.live => p \in M[r.owner[p]]
      /\ \A u \in r.live, p \in Pages :
           (r.displaced[u][p] # NoCopy) <=> (p \in M[u] /\ r.owner[p] # u)
      /\ \A u \in Tokens \ r.live : r.displaced[u] = NoCopies
  BY DEF Keeps
<1>2. N \in [Tokens -> SUBSET Pages] /\ N[t] = M[t] \ P /\ \A u \in Tokens : u # t => N[u] = M[u]
  BY <1>0, <1>1
<1>3. /\ new.owner = [p \in Pages |-> IF p \in P /\ r.owner[p] = t THEN NoOne ELSE r.owner[p]]
      /\ new.live = r.live /\ new.bytes = r.bytes
      /\ new.displaced = [r.displaced EXCEPT ![t] = mine]
      /\ new = [owner |-> new.owner, live |-> new.live,
                displaced |-> new.displaced, bytes |-> new.bytes]
  <2>1. new = [r EXCEPT !.owner = [p \in Pages |-> IF p \in P /\ r.owner[p] = t THEN NoOne ELSE r.owner[p]],
                        !.displaced = [r.displaced EXCEPT ![t] = mine]]
    BY <1>0 DEF Release
  <2> HIDE DEF mine
  <2> QED BY <2>1, <1>0
<1>4. /\ mine \in [Pages -> Contents \cup {NoCopy}]
      /\ \A p \in Pages : mine[p] = IF p \in P THEN NoCopy ELSE r.displaced[t][p]
  BY <1>0
<1> HIDE DEF mine
<1>5. /\ new.displaced \in [Tokens -> [Pages -> Contents \cup {NoCopy}]]
      /\ new.displaced[t] = mine /\ \A u \in Tokens : u # t => new.displaced[u] = r.displaced[u]
  BY <1>0, <1>3, <1>4
<1>6. /\ \A p \in Pages : new.owner[p] = IF p \in P /\ r.owner[p] = t THEN NoOne ELSE r.owner[p]
      /\ new.owner \in [Pages -> made \cup {NoOne}]
  BY <1>0, <1>3
<1>7. new \in Residents(made)
  BY <1>0, <1>3, <1>5, <1>6 DEF Residents
<1>8. Keeps(new, N, made)
  <2>1. ASSUME NEW p \in Pages, new.owner[p] \in new.live PROVE p \in N[new.owner[p]]
    BY <2>1, <1>0, <1>1, <1>2, <1>3, <1>6
  <2>2. ASSUME NEW u \in new.live, NEW p \in Pages
        PROVE  (new.displaced[u][p] # NoCopy) <=> (p \in N[u] /\ new.owner[p] # u)
    <3>1. CASE u = t
      <4>1. new.displaced[t][p] = NoCopy
        BY <1>1, <1>4, <1>5 DEF Owns
      <4>2. p \in N[t] => new.owner[p] = t
        BY <1>2, <1>6 DEF Owns
      <4> QED BY <3>1, <4>1, <4>2
    <3>2. CASE u # t
      <4>1. new.owner[p] = u <=> r.owner[p] = u
        BY <3>2, <1>0, <1>3, <1>6
      <4> QED BY <3>2, <4>1, <1>0, <1>1, <1>2, <1>3, <1>5
    <3> QED BY <3>1, <3>2
  <2>3. ASSUME NEW u \in Tokens \ new.live PROVE new.displaced[u] = NoCopies
    BY <1>1, <1>3, <1>5
  <2> QED BY <2>1, <2>2, <2>3, <1>1, <1>2, <1>7 DEF Keeps
<1>9. Owns(new, t, N)
  BY <1>0, <1>1, <1>2, <1>6 DEF Owns
<1>10. OthersSame(r, M, new, N, t)
  <2> SUFFICES ASSUME NEW u \in Tokens, NEW p \in Pages, u # t
               PROVE  ReadAt(new, N, u, p) = ReadAt(r, M, u, p)
    BY DEF OthersSame
  <2>1. CASE u \in r.live
    <3>1. new.owner[p] = u <=> r.owner[p] = u
      BY <2>1, <1>0, <1>6
    <3> QED BY <3>1, <1>2, <1>3, <1>5 DEF ReadAt
  <2>2. CASE u \notin r.live
    BY <2>2, <1>3 DEF ReadAt
  <2> QED BY <2>1, <2>2
<1> QED BY <1>3, <1>8, <1>9, <1>10

\* The pages t maps become S, and nobody else's change.
Turns(M, N, t, S) ==
  /\ N \in [Tokens -> SUBSET Pages] /\ N[t] = S
  /\ \A u \in Tokens : u # t => N[u] = M[u]

\* A step by t, which owns what it maps before and after: nobody else notices,
\* what it keeps it reads as before, and what is new holds zeros.
Turned(r, M, new, N, made, t) ==
  /\ Keeps(new, N, made) /\ Owns(new, t, N) /\ OthersSame(r, M, new, N, t)
  /\ new.live = r.live
  /\ \A p \in M[t] : new.bytes[p] = r.bytes[p]
  /\ \A p \in Pages \ N[t] : new.bytes[p] = r.bytes[p]
  /\ \A p \in N[t] \ M[t] : new.bytes[p] = Zero

\* sync_pages over S, of which a mapping covers the pages of P.
LEMMA SyncKeeps ==
  ASSUME NEW r, NEW M, NEW made, Keeps(r, M, made), NEW t \in r.live, Owns(r, t, M),
         NEW S, NEW P, S \subseteq Pages, P \subseteq S,
         NEW new, new = Claim(Release(r, t, S \ P), t, P),
         NEW N, Turns(M, N, t, (M[t] \ S) \cup P)
  PROVE  Turned(r, M, new, N, made, t)
<1>t. N \in [Tokens -> SUBSET Pages] /\ N[t] = (M[t] \ S) \cup P
      /\ \A u \in Tokens : u # t => N[u] = M[u]
  BY DEF Turns
<1>0. M \in [Tokens -> SUBSET Pages] /\ t \in Tokens
  BY ResidentsAre DEF Keeps
<1>1. PICK Q : Q = S \ P
  OBVIOUS
<1>2. PICK mid : mid = Release(r, t, Q)
  OBVIOUS
<1>3. PICK L : L = [M EXCEPT ![t] = @ \ Q]
  OBVIOUS
<1>4. /\ Q \in SUBSET Pages /\ P \in SUBSET Pages
      /\ L \in [Tokens -> SUBSET Pages] /\ L[t] = M[t] \ Q /\ \A u \in Tokens : u # t => L[u] = M[u]
  BY <1>0, <1>1, <1>3
<1>5. /\ Keeps(mid, L, made) /\ Owns(mid, t, L) /\ OthersSame(r, M, mid, L, t)
      /\ mid.live = r.live /\ mid.bytes = r.bytes
  BY <1>2, <1>4, ReleaseKeeps
<1>6. new = Claim(mid, t, P)
  BY <1>1, <1>2
<1>7. N[t] = L[t] \cup P /\ \A u \in Tokens : u # t => N[u] = L[u]
  <2>1. (M[t] \ Q) \cup P = (M[t] \ S) \cup P
    BY <1>1
  <2> QED BY <1>4, <1>t, <2>1
<1>8. /\ Keeps(new, N, made) /\ Owns(new, t, N) /\ OthersSame(mid, L, new, N, t)
      /\ new.live = mid.live
      /\ \A p \in Pages : p \in L[t] \/ p \notin P => new.bytes[p] = mid.bytes[p]
      /\ \A p \in P \ L[t] : new.bytes[p] = Zero
  <2>1. t \in mid.live
    BY <1>5
  <2>2. Keeps(mid, L, made) /\ Owns(mid, t, L) /\ P \in SUBSET Pages
    BY <1>4, <1>5
  <2>3. Keeps(new, N, made) /\ Owns(new, t, N)
    BY <2>1, <2>2, <1>t, <1>6, <1>7, ClaimKeeps
  <2>4. OthersSame(mid, L, new, N, t) /\ new.live = mid.live
    BY <2>1, <2>2, <1>t, <1>6, <1>7, ClaimKeeps
  <2>5. \A p \in Pages : p \in L[t] \/ p \notin P => new.bytes[p] = mid.bytes[p]
    BY <2>1, <2>2, <1>t, <1>6, <1>7, ClaimKeeps
  <2>6. \A p \in P \ L[t] : new.bytes[p] = Zero
    BY <2>1, <2>2, <1>t, <1>6, <1>7, ClaimKeeps
  <2> QED BY <2>3, <2>4, <2>5, <2>6
<1>9. OthersSame(r, M, new, N, t)
  BY <1>5, <1>8 DEF OthersSame
<1>10. \A p \in M[t] : p \in Pages /\ (p \in L[t] \/ p \notin P)
  BY <1>0, <1>1, <1>4
<1>11. \A p \in N[t] \ M[t] : p \in P \ L[t]
  BY <1>1, <1>4, <1>t, <1>7
<1>12. \A p \in M[t] : new.bytes[p] = r.bytes[p]
  BY <1>5, <1>8, <1>10
<1>13. \A p \in N[t] \ M[t] : new.bytes[p] = Zero
  BY <1>8, <1>11
<1>14. \A p \in Pages \ N[t] : new.bytes[p] = r.bytes[p]
  <2>1. \A p \in Pages \ N[t] : p \notin P
    BY <1>t
  <2> QED BY <2>1, <1>5, <1>8
<1> QED BY <1>5, <1>8, <1>9, <1>12, <1>13, <1>14 DEF Turned

\* Bytes written where t owns the page.
LEMMA WriteKeeps ==
  ASSUME NEW r, NEW M, NEW made, Keeps(r, M, made), NEW t \in r.live, Owns(r, t, M),
         NEW b \in [Pages -> Contents], \A p \in Pages \ M[t] : b[p] = r.bytes[p],
         NEW new, new = [r EXCEPT !.bytes = b]
  PROVE  /\ Keeps(new, M, made) /\ Owns(new, t, M) /\ OthersSame(r, M, new, M, t)
         /\ new.live = r.live /\ new.bytes = b
<1>0. /\ r = [owner |-> r.owner, live |-> r.live, displaced |-> r.displaced, bytes |-> r.bytes]
      /\ r.owner \in [Pages -> made \cup {NoOne}] /\ r.live \subseteq made
      /\ t \in Tokens /\ r.live \subseteq Tokens
      /\ r.displaced \in [Tokens -> [Pages -> Contents \cup {NoCopy}]]
  BY ResidentsAre
<1>1. M \in [Tokens -> SUBSET Pages]
  BY DEF Keeps
<1>2. /\ new.owner = r.owner /\ new.live = r.live /\ new.displaced = r.displaced /\ new.bytes = b
      /\ new = [owner |-> new.owner, live |-> new.live,
                displaced |-> new.displaced, bytes |-> new.bytes]
  BY <1>0
<1>3. new \in Residents(made)
  BY <1>0, <1>2 DEF Residents
<1>4. Keeps(new, M, made)
  BY <1>2, <1>3 DEF Keeps
<1>5. Owns(new, t, M)
  BY <1>2 DEF Owns
<1>6. OthersSame(r, M, new, M, t)
  <2> SUFFICES ASSUME NEW u \in Tokens, NEW p \in Pages, u # t
               PROVE  ReadAt(new, M, u, p) = ReadAt(r, M, u, p)
    BY DEF OthersSame
  <2>1. CASE p \in M[t]
    <3>1. r.owner[p] = t
      BY <2>1 DEF Owns
    <3> QED BY <3>1, <1>2 DEF ReadAt
  <2>2. CASE p \notin M[t]
    BY <2>2, <1>2 DEF ReadAt
  <2> QED BY <2>1, <2>2
<1> QED BY <1>2, <1>4, <1>5, <1>6

\* Making a process resident gives it every page it maps, and moves no byte
\* that anybody would read.
LEMMA ActivateKeeps ==
  ASSUME NEW r, NEW M, NEW made, Keeps(r, M, made), NEW t \in r.live,
         NEW new, new = Activate(r, t)
  PROVE  /\ Keeps(new, M, made) /\ Owns(new, t, M) /\ new.live = r.live
         /\ \A u \in Tokens, p \in Pages : ReadAt(new, M, u, p) = ReadAt(r, M, u, p)
<1> DEFINE mine == {p \in Pages : r.displaced[t][p] # NoCopy}
           out == CopyOut(r, t, mine)
<1>0. /\ r = [owner |-> r.owner, live |-> r.live, displaced |-> r.displaced, bytes |-> r.bytes]
      /\ r.owner \in [Pages -> made \cup {NoOne}] /\ r.live \subseteq made
      /\ r.bytes \in [Pages -> Contents] /\ t \in Tokens /\ t \in made /\ r.live \subseteq Tokens
      /\ r.displaced \in [Tokens -> [Pages -> Contents \cup {NoCopy}]]
  BY ResidentsAre
<1>1. /\ M \in [Tokens -> SUBSET Pages] /\ made \subseteq Tokens
      /\ \A p \in Pages : r.owner[p] \in r.live => p \in M[r.owner[p]]
      /\ \A u \in r.live, p \in Pages :
           (r.displaced[u][p] # NoCopy) <=> (p \in M[u] /\ r.owner[p] # u)
      /\ \A u \in Tokens \ r.live : r.displaced[u] = NoCopies
  BY DEF Keeps
<1>2. \A p \in Pages : p \in mine <=> (p \in M[t] /\ r.owner[p] # t)
  BY <1>1
<1>3. /\ out \in [Tokens -> [Pages -> Contents \cup {NoCopy}]]
      /\ \A u \in Tokens, p \in Pages : out[u][p] =
           IF p \in mine /\ r.owner[p] = u /\ u # t /\ u \in r.live
           THEN r.bytes[p] ELSE r.displaced[u][p]
  <2> HIDE DEF mine
  <2> QED BY <1>0, CopyOutIs
<1>4. /\ new.owner = [p \in Pages |-> IF p \in mine THEN t ELSE r.owner[p]]
      /\ new.live = r.live
      /\ new.displaced = [out EXCEPT ![t] = NoCopies]
      /\ new.bytes = [p \in Pages |-> IF p \in mine THEN r.displaced[t][p] ELSE r.bytes[p]]
      /\ new = [owner |-> new.owner, live |-> new.live,
                displaced |-> new.displaced, bytes |-> new.bytes]
  <2>1. new = [r EXCEPT !.owner = [p \in Pages |-> IF p \in mine THEN t ELSE r.owner[p]],
                        !.bytes = [p \in Pages |-> IF p \in mine THEN r.displaced[t][p] ELSE r.bytes[p]],
                        !.displaced = [out EXCEPT ![t] = NoCopies]]
    BY <1>0 DEF Activate
  <2> HIDE DEF out, mine
  <2> QED BY <2>1, <1>0
<1>5. \A p \in mine : p \in Pages /\ r.displaced[t][p] \in Contents
  BY <1>0
<1> HIDE DEF out, mine
<1>6. /\ NoCopies \in [Pages -> Contents \cup {NoCopy}] /\ \A p \in Pages : NoCopies[p] = NoCopy
      /\ NoCopy \notin Contents /\ \A p \in Pages : r.bytes[p] \in Contents
  BY <1>0, MemoryAssumption DEF NoCopies
<1>7. /\ new.displaced \in [Tokens -> [Pages -> Contents \cup {NoCopy}]]
      /\ new.displaced[t] = NoCopies /\ \A u \in Tokens : u # t => new.displaced[u] = out[u]
  BY <1>0, <1>3, <1>4, <1>6
<1>8. /\ \A p \in Pages : new.owner[p] = IF p \in mine THEN t ELSE r.owner[p]
      /\ \A p \in Pages : new.bytes[p] = IF p \in mine THEN r.displaced[t][p] ELSE r.bytes[p]
      /\ new.owner \in [Pages -> made \cup {NoOne}]
      /\ new.bytes \in [Pages -> Contents]
  BY <1>0, <1>4, <1>5
<1>9. new \in Residents(made)
  BY <1>0, <1>4, <1>7, <1>8 DEF Residents
<1>10. ASSUME NEW u \in Tokens, NEW p \in Pages, u # t
       PROVE  /\ new.displaced[u][p] = IF p \in mine /\ r.owner[p] = u /\ u \in r.live
                                       THEN r.bytes[p] ELSE r.displaced[u][p]
              /\ new.owner[p] = u <=> (r.owner[p] = u /\ p \notin mine)
  BY <1>3, <1>7, <1>8, <1>10
<1>11. Owns(new, t, M)
  BY <1>0, <1>1, <1>2, <1>8 DEF Owns
<1>12. Keeps(new, M, made)
  <2>1. ASSUME NEW p \in Pages, new.owner[p] \in new.live PROVE p \in M[new.owner[p]]
    BY <2>1, <1>0, <1>1, <1>2, <1>4, <1>8
  <2>2. ASSUME NEW u \in new.live, NEW p \in Pages
        PROVE  (new.displaced[u][p] # NoCopy) <=> (p \in M[u] /\ new.owner[p] # u)
    <3>1. CASE u = t
      <4>1. new.displaced[t][p] = NoCopy
        BY <1>6, <1>7
      <4>2. p \in M[t] => new.owner[p] = t
        BY <1>11 DEF Owns
      <4> QED BY <3>1, <4>1, <4>2
    <3>2. CASE u # t
      BY <3>2, <1>0, <1>1, <1>4, <1>6, <1>10
    <3> QED BY <3>1, <3>2
  <2>3. ASSUME NEW u \in Tokens \ new.live PROVE new.displaced[u] = NoCopies
    <3>1. u # t /\ u \notin r.live /\ r.displaced[u] = NoCopies
      BY <1>1, <1>4
    <3>2. \A p \in Pages : new.displaced[u][p] = NoCopies[p]
      BY <3>1, <1>10
    <3>3. new.displaced[u] \in [Pages -> Contents \cup {NoCopy}]
      BY <1>7
    <3> QED BY <3>2, <3>3 DEF NoCopies
  <2> QED BY <2>1, <2>2, <2>3, <1>1, <1>9 DEF Keeps
<1>13. ASSUME NEW u \in Tokens, NEW p \in Pages
       PROVE  ReadAt(new, M, u, p) = ReadAt(r, M, u, p)
  <2>1. CASE u = t
    <3>1. p \in M[t] => new.owner[p] = t
      BY <1>11 DEF Owns
    <3>2. p \in M[t] /\ r.owner[p] # t => new.bytes[p] = r.displaced[t][p]
      BY <1>2, <1>8
    <3>3. p \in M[t] /\ r.owner[p] = t => new.bytes[p] = r.bytes[p]
      BY <1>2, <1>8
    <3> QED BY <2>1, <3>1, <3>2, <3>3, <1>4 DEF ReadAt
  <2>2. CASE u # t
    <3>1. CASE u \in r.live
      <4>1. CASE r.owner[p] = u /\ p \in mine
        BY <3>1, <4>1, <2>2, <1>4, <1>10 DEF ReadAt
      <4>2. CASE r.owner[p] = u /\ p \notin mine
        BY <3>1, <4>2, <2>2, <1>4, <1>8, <1>10 DEF ReadAt
      <4>3. CASE r.owner[p] # u
        BY <3>1, <4>3, <2>2, <1>4, <1>10 DEF ReadAt
      <4> QED BY <4>1, <4>2, <4>3
    <3>2. CASE u \notin r.live
      BY <3>2, <1>4 DEF ReadAt
    <3> QED BY <3>1, <3>2
  <2> QED BY <2>1, <2>2
<1> QED BY <1>4, <1>11, <1>12, <1>13

\* The end of a process.
LEMMA RetireKeeps ==
  ASSUME NEW r, NEW M, NEW made, Keeps(r, M, made), NEW t \in Tokens,
         NEW new, new = Retire(r, t)
  PROVE  /\ Keeps(new, M, made) /\ OthersSame(r, M, new, M, t)
         /\ new.live = r.live \ {t} /\ new.owner = r.owner /\ new.bytes = r.bytes
<1>0. /\ r = [owner |-> r.owner, live |-> r.live, displaced |-> r.displaced, bytes |-> r.bytes]
      /\ r.owner \in [Pages -> made \cup {NoOne}] /\ r.live \subseteq made
      /\ r.bytes \in [Pages -> Contents] /\ r.live \subseteq Tokens
      /\ r.displaced \in [Tokens -> [Pages -> Contents \cup {NoCopy}]]
  BY ResidentsAre
<1>1. NoCopies \in [Pages -> Contents \cup {NoCopy}]
  BY DEF NoCopies
<1>2. /\ new.owner = r.owner /\ new.live = r.live \ {t} /\ new.bytes = r.bytes
      /\ new.displaced = [r.displaced EXCEPT ![t] = NoCopies]
      /\ new = [owner |-> new.owner, live |-> new.live,
                displaced |-> new.displaced, bytes |-> new.bytes]
  <2>1. new = [r EXCEPT !.live = r.live \ {t},
                        !.displaced = [r.displaced EXCEPT ![t] = NoCopies]]
    BY <1>0 DEF Retire
  <2> QED BY <2>1, <1>0
<1>3. /\ new.displaced \in [Tokens -> [Pages -> Contents \cup {NoCopy}]]
      /\ new.displaced[t] = NoCopies
      /\ \A u \in Tokens : u # t => new.displaced[u] = r.displaced[u]
  BY <1>0, <1>1, <1>2
<1>4. new \in Residents(made)
  BY <1>0, <1>2, <1>3 DEF Residents
<1>5. Keeps(new, M, made)
  BY <1>0, <1>2, <1>3, <1>4 DEF Keeps
<1>6. OthersSame(r, M, new, M, t)
  BY <1>2, <1>3 DEF OthersSame, ReadAt
<1> QED BY <1>2, <1>5, <1>6

\* A process nobody has seen.
LEMMA NewTokenKeeps ==
  ASSUME NEW r, NEW M, NEW made, Keeps(r, M, made), NEW n \in Tokens \ made,
         NEW new, new = NewToken(r, n),
         NEW N \in [Tokens -> SUBSET Pages], N[n] = {}, \A u \in Tokens : u # n => N[u] = M[u]
  PROVE  /\ Keeps(new, N, made \cup {n}) /\ Owns(new, n, N) /\ OthersSame(r, M, new, N, n)
         /\ new.live = r.live \cup {n} /\ new.owner = r.owner /\ new.bytes = r.bytes
<1>0. /\ r = [owner |-> r.owner, live |-> r.live, displaced |-> r.displaced, bytes |-> r.bytes]
      /\ r.owner \in [Pages -> made \cup {NoOne}] /\ r.live \subseteq made
      /\ r.bytes \in [Pages -> Contents] /\ r.live \subseteq Tokens /\ made \subseteq Tokens
      /\ r.displaced \in [Tokens -> [Pages -> Contents \cup {NoCopy}]]
  BY ResidentsAre DEF Keeps
<1>1. /\ new.owner = r.owner /\ new.live = r.live \cup {n} /\ new.bytes = r.bytes
      /\ new.displaced = r.displaced
      /\ new = [owner |-> new.owner, live |-> new.live,
                displaced |-> new.displaced, bytes |-> new.bytes]
  BY <1>0 DEF NewToken
<1>2. new \in Residents(made \cup {n})
  BY <1>0, <1>1 DEF Residents
<1>3. /\ \A p \in Pages : r.owner[p] # n /\ r.displaced[n][p] = NoCopy
      /\ n \notin r.live
  <2>1. n \notin r.live /\ n # NoOne
    BY <1>0, MemoryAssumption
  <2>2. \A p \in Pages : r.displaced[n][p] = NoCopy
    BY <2>1 DEF Keeps, NoCopies
  <2>3. \A p \in Pages : r.owner[p] # n
    BY <1>0, <2>1
  <2> QED BY <2>1, <2>2, <2>3
<1>4. Keeps(new, N, made \cup {n})
  <2>1. ASSUME NEW p \in Pages, new.owner[p] \in new.live PROVE p \in N[new.owner[p]]
    BY <2>1, <1>0, <1>1, <1>3 DEF Keeps
  <2>2. ASSUME NEW u \in new.live, NEW p \in Pages
        PROVE  (new.displaced[u][p] # NoCopy) <=> (p \in N[u] /\ new.owner[p] # u)
    <3>1. CASE u = n
      BY <3>1, <1>1, <1>3
    <3>2. CASE u # n
      <4>1. u \in r.live /\ u \in Tokens /\ N[u] = M[u]
        BY <3>2, <1>0, <1>1
      <4> QED BY <4>1, <1>1 DEF Keeps
    <3> QED BY <3>1, <3>2
  <2>3. ASSUME NEW u \in Tokens \ new.live PROVE new.displaced[u] = NoCopies
    BY <1>1 DEF Keeps
  <2> QED BY <2>1, <2>2, <2>3, <1>0, <1>2 DEF Keeps
<1>5. OthersSame(r, M, new, N, n)
  BY <1>1 DEF OthersSame, ReadAt
<1>6. Owns(new, n, N)
  BY DEF Owns
<1> QED BY <1>1, <1>4, <1>5, <1>6

\* The child n is made with what t maps, and what t would read.
Forked(r, M, new, N, made, t, n) ==
  /\ Keeps(new, N, made \cup {n}) /\ Owns(new, t, N) /\ OthersSame(r, M, new, N, n)
  /\ \A p \in Pages : ReadAt(new, N, n, p) = ReadAt(r, M, t, p)
  /\ new.live = r.live \cup {n}

\* A child is born with a copy of everything its parent maps.
LEMMA ForkKeeps ==
  ASSUME NEW r, NEW M, NEW made, Keeps(r, M, made), NEW t \in r.live, Owns(r, t, M),
         NEW n \in Tokens \ made, NEW new, new = CopyFor(NewToken(r, n), n, M[t]),
         NEW N \in [Tokens -> SUBSET Pages], N[n] = M[t], \A u \in Tokens : u # n => N[u] = M[u]
  PROVE  Forked(r, M, new, N, made, t, n)
<1> DEFINE copies == [p \in Pages |-> IF p \in M[t] THEN r.bytes[p] ELSE NoCopy]
<1>0. /\ r = [owner |-> r.owner, live |-> r.live, displaced |-> r.displaced, bytes |-> r.bytes]
      /\ r.owner \in [Pages -> made \cup {NoOne}] /\ r.live \subseteq made
      /\ r.bytes \in [Pages -> Contents] /\ r.live \subseteq Tokens /\ made \subseteq Tokens
      /\ r.displaced \in [Tokens -> [Pages -> Contents \cup {NoCopy}]] /\ t \in Tokens /\ t # n
      /\ M \in [Tokens -> SUBSET Pages]
  BY ResidentsAre DEF Keeps
<1>1. /\ new.owner = r.owner /\ new.live = r.live \cup {n} /\ new.bytes = r.bytes
      /\ new.displaced = [r.displaced EXCEPT ![n] = copies]
      /\ new = [owner |-> new.owner, live |-> new.live,
                displaced |-> new.displaced, bytes |-> new.bytes]
  <2>1. new = [r EXCEPT !.live = r.live \cup {n}, !.displaced = [r.displaced EXCEPT ![n] = copies]]
    BY <1>0 DEF NewToken, CopyFor
  <2> HIDE DEF copies
  <2> QED BY <2>1, <1>0
<1>2. copies \in [Pages -> Contents \cup {NoCopy}]
      /\ \A p \in Pages : copies[p] = IF p \in M[t] THEN r.bytes[p] ELSE NoCopy
  BY <1>0
<1> HIDE DEF copies
<1>3. /\ new.displaced \in [Tokens -> [Pages -> Contents \cup {NoCopy}]]
      /\ new.displaced[n] = copies
      /\ \A u \in Tokens : u # n => new.displaced[u] = r.displaced[u]
  BY <1>0, <1>1, <1>2
<1>4. new \in Residents(made \cup {n})
  BY <1>0, <1>1, <1>3 DEF Residents
<1>5. (\A p \in Pages : r.owner[p] # n) /\ n \notin r.live
  <2>1. n \notin r.live /\ n # NoOne
    BY <1>0, MemoryAssumption
  <2>2. \A p \in Pages : r.owner[p] # n
    BY <1>0, <2>1
  <2> QED BY <2>1, <2>2
<1>6. NoCopy \notin Contents /\ \A p \in Pages : r.bytes[p] \in Contents
  BY <1>0, MemoryAssumption
<1>7. Keeps(new, N, made \cup {n})
  <2>1. ASSUME NEW p \in Pages, new.owner[p] \in new.live PROVE p \in N[new.owner[p]]
    BY <2>1, <1>0, <1>1, <1>5 DEF Keeps
  <2>2. ASSUME NEW u \in new.live, NEW p \in Pages
        PROVE  (new.displaced[u][p] # NoCopy) <=> (p \in N[u] /\ new.owner[p] # u)
    <3>1. CASE u = n
      BY <3>1, <1>1, <1>2, <1>3, <1>5, <1>6
    <3>2. CASE u # n
      <4>1. u \in r.live /\ u \in Tokens /\ N[u] = M[u]
        BY <3>2, <1>0, <1>1
      <4> QED BY <4>1, <3>2, <1>1, <1>3 DEF Keeps
    <3> QED BY <3>1, <3>2
  <2>3. ASSUME NEW u \in Tokens \ new.live PROVE new.displaced[u] = NoCopies
    BY <1>1, <1>3 DEF Keeps
  <2> QED BY <2>1, <2>2, <2>3, <1>0, <1>4 DEF Keeps
<1>8. OthersSame(r, M, new, N, n)
  BY <1>1, <1>3 DEF OthersSame, ReadAt
<1>9. ASSUME NEW p \in Pages PROVE ReadAt(new, N, n, p) = ReadAt(r, M, t, p)
  <2>1. p \in M[t] => r.owner[p] = t
    BY DEF Owns
  <2> QED BY <2>1, <1>1, <1>2, <1>3, <1>5 DEF ReadAt
<1>10. Owns(new, t, N)
  BY <1>0, <1>1 DEF Owns
<1> QED BY <1>1, <1>7, <1>8, <1>9, <1>10 DEF Forked

---------------------------------------------------------------------------
(* The page table, and a row's rewriting of it and of the owners. *)

ToldAt(sp, tab, p) ==
  /\ \A prot \in Accesses : Shows(sp, p, prot) => tab[p] = prot
  /\ p \notin MappedPages(sp) /\ p \in Heap(sp) => tab[p] = "rw"
  /\ p \notin MappedPages(sp) /\ p \notin Heap(sp) => tab[p] = "none"

Told(sp, tab) == tab \in [Pages -> Accesses] /\ \A p \in Pages : ToldAt(sp, tab, p)

\* At most one mapping shows anything at a page.
LEMMA OneShows ==
  ASSUME NEW sp, Tidy(sp), NEW p \in Nat, NEW v \in sp.vmas, NEW u \in sp.vmas,
         v.start <= p, p < End(v), u.start <= p, p < End(u)
  PROVE  v = u
<1> SUFFICES ASSUME v # u PROVE FALSE
  OBVIOUS
<1>1. Apart(v.start, End(v), u.start, End(u))
  BY DEF Tidy, TidyMaps
<1>2. v.start \in Nat /\ End(v) \in Nat /\ u.start \in Nat /\ End(u) \in Nat
  BY MapsAre DEF Tidy
<1> QED BY <1>1, <1>2 DEF Apart

\* In a space in order a page shows one access.
LEMMA ProtAtIs ==
  ASSUME NEW sp, Tidy(sp), NEW p \in Nat, NEW prot, Shows(sp, p, prot)
  PROVE  ProtAt(sp, p) = prot
<1> DEFINE over == {v \in sp.vmas : p \in PagesOf(v)}
<1>0. sp \in Spaces
  BY DEF Tidy
<1>1. PICK v \in sp.vmas : v.start <= p /\ p < End(v) /\ v.prot = prot
  BY DEF Shows
<1>2. \A u \in sp.vmas : u \in over <=> u.start <= p /\ p < End(u)
  BY <1>0, MapsAre DEF PagesOf, Range2
<1>3. over = {v}
  <2>1. \A u \in over : u = v
    BY <1>1, <1>2, OneShows
  <2>2. v \in over
    BY <1>1, <1>2
  <2> QED BY <2>1, <2>2
<1>4. v.start \in Nat
  BY <1>0, MapsAre
<1>5. ProtAt(sp, p) = (CHOOSE w \in over : \A u \in over : u.start <= w.start).prot
  BY DEF ProtAt
<1> HIDE DEF over
<1>6. (CHOOSE w \in over : \A u \in over : u.start <= w.start) = v
  BY <1>3, <1>4
<1> QED BY <1>1, <1>5, <1>6

\* The access of an unmapped page is an access.
LEMMA NoneIsAWord == "none" \in Accesses
BY DEF Accesses

\* Over a range off the heap the page table comes to say what the tree says.
LEMMA SyncTableIs ==
  ASSUME NEW sp, Tidy(sp), NEW tab \in [Pages -> Accesses], NEW lo \in Nat, NEW hi \in Nat,
         NEW new, new = SyncTable(tab, sp, lo, hi)
  PROVE  /\ new \in [Pages -> Accesses]
         /\ \A p \in Pages : p \notin Range2(lo, hi) => new[p] = tab[p]
         /\ \A p \in Pages : p \in Range2(lo, hi) /\ p \notin Heap(sp) => ToldAt(sp, new, p)
<1>0. sp \in Spaces /\ Pages \subseteq Nat
  BY DEF Tidy, Pages
<1>1. new = [p \in Pages |-> IF p \notin Range2(lo, hi) THEN tab[p]
                             ELSE IF p \in MappedPages(sp) THEN ProtAt(sp, p) ELSE "none"]
  BY DEF SyncTable
<1>2. \A p \in Pages : p \in MappedPages(sp) => ProtAt(sp, p) \in Accesses
  <2> SUFFICES ASSUME NEW p \in Pages, p \in MappedPages(sp) PROVE ProtAt(sp, p) \in Accesses
    OBVIOUS
  <2>1. PICK prot \in Accesses : Shows(sp, p, prot)
    BY <1>0, MappedShows
  <2> QED BY <2>1, <1>0, ProtAtIs
<1>3. new \in [Pages -> Accesses]
  <2>1. ASSUME NEW p \in Pages
        PROVE  (IF p \notin Range2(lo, hi) THEN tab[p]
                ELSE IF p \in MappedPages(sp) THEN ProtAt(sp, p) ELSE "none") \in Accesses
    <3>1. tab[p] \in Accesses
      OBVIOUS
    <3>2. p \in MappedPages(sp) => ProtAt(sp, p) \in Accesses
      BY <1>2
    <3> QED BY <3>1, <3>2, NoneIsAWord, Zenon
  <2> QED BY <2>1, <1>1, Zenon
<1>4. \A p \in Pages : p \notin Range2(lo, hi) => new[p] = tab[p]
  BY <1>1
<1>5. ASSUME NEW p \in Pages, p \in Range2(lo, hi), p \notin Heap(sp)
      PROVE  ToldAt(sp, new, p)
  <2>1. new[p] = IF p \in MappedPages(sp) THEN ProtAt(sp, p) ELSE "none"
    BY <1>1, <1>5
  <2>2. ASSUME NEW prot \in Accesses, Shows(sp, p, prot) PROVE new[p] = prot
    <3>1. p \in MappedPages(sp)
      BY <2>2, <1>0, MappedShows
    <3>2. ProtAt(sp, p) = prot
      BY <2>2, <1>0, ProtAtIs
    <3> QED BY <3>1, <3>2, <2>1
  <2> QED BY <2>1, <2>2, <1>5 DEF ToldAt
<1> QED BY <1>3, <1>4, <1>5

\* Process t's tree, table and pages tell one story.
Holds(t, sp, tab, r, M, made) ==
  /\ Tidy(sp) /\ Told(sp, tab)
  /\ Keeps(r, M, made) /\ t \in r.live /\ Owns(r, t, M) /\ M[t] = MappedRanges(sp)

\* A range below the limit of memory is pages.
LEMMA SpanInPages ==
  ASSUME NEW lo \in Nat, NEW hi \in Nat, 1 <= lo, hi <= Limit
  PROVE  Range2(lo, hi) \subseteq Pages
BY SpaceAssumption DEF Range2, Pages

\* A range outside the arena has no page of the heap.
LEMMA OffTheHeapIs ==
  ASSUME NEW sp, Tidy(sp), NEW lo \in Nat, NEW hi \in Nat, OffTheHeap(sp, lo, hi)
  PROVE  Range2(lo, hi) \cap Heap(sp) = {}
<1>1. sp.start \in Nat /\ sp.brk \in Nat /\ BrkCeiling(sp) \in Nat /\ sp.brk <= BrkCeiling(sp)
  BY SpaceIs DEF Tidy, TidyHeap
<1> QED BY <1>1 DEF OffTheHeap, Apart, Range2, Heap

\* What a space in order maps is pages, and no page twice.
LEMMA MappedInPages ==
  ASSUME NEW sp, Tidy(sp)
  PROVE  /\ MappedPages(sp) \subseteq Pages /\ Heap(sp) \subseteq Pages
         /\ MappedRanges(sp) \subseteq Pages
         /\ MappedPages(sp) \cap Heap(sp) = {}
         /\ \A p \in MappedPages(sp) : p < Ceiling
<1>0. sp \in Spaces /\ Ceiling \in Nat /\ Limit \in Nat /\ Ceiling <= Limit /\ Base \in Nat \ {0}
  BY SpaceAssumption DEF Tidy
<1>1. ASSUME NEW v \in sp.vmas
      PROVE  /\ PagesOf(v) \subseteq Pages /\ PagesOf(v) \cap Heap(sp) = {}
             /\ \A p \in PagesOf(v) : p < Ceiling
  <2>1. v.start \in Nat /\ End(v) \in Nat /\ v.start < End(v) /\ 1 <= v.start /\ End(v) <= Ceiling
    BY <1>0, MapsAre DEF Tidy, TidyMaps
  <2>2. OffTheHeap(sp, v.start, End(v))
    BY DEF Tidy, TidyMaps
  <2>3. PagesOf(v) \cap Heap(sp) = {}
    BY <2>1, <2>2, OffTheHeapIs DEF PagesOf
  <2> QED BY <2>1, <2>3, <1>0 DEF PagesOf, Range2, Pages
<1>2. MappedPages(sp) \subseteq Pages /\ MappedPages(sp) \cap Heap(sp) = {}
      /\ \A p \in MappedPages(sp) : p < Ceiling
  BY <1>1 DEF MappedPages
<1>3. Heap(sp) \subseteq Pages
  <2>1. sp.start \in Nat /\ sp.brk \in Nat /\ Base <= sp.start /\ (sp.brk = sp.start \/ sp.brk <= Limit)
    BY <1>0, SpaceIs DEF Tidy, TidyHeap
  <2> QED BY <2>1, <1>0 DEF Heap, Range2, Pages
<1> QED BY <1>2, <1>3 DEF MappedRanges

\* sync_pages over a range that holds every change of the tree leaves the
\* running process in order: it owns what it maps, the table says what the
\* tree says, what is new is zeros, and nobody else notices.
LEMMA SyncHolds ==
  ASSUME NEW t, NEW sp, NEW tab, NEW r, NEW M, NEW made, Holds(t, sp, tab, r, M, made),
         NEW new, Tidy(new), NEW lo \in Nat, NEW hi \in Nat, Changes(sp, new, lo, hi),
         1 <= lo, hi <= Limit, Range2(lo, hi) \cap Heap(sp) = {},
         NEW N, Turns(M, N, t, MappedRanges(new)),
         NEW q, q = SyncOwners(r, t, new, lo, hi),
         NEW tab2, tab2 = SyncTable(tab, new, lo, hi)
  PROVE  Holds(t, new, tab2, q, N, made) /\ Turned(r, M, q, N, made, t)
<1> DEFINE S == Range2(lo, hi)
           P == S \cap MappedPages(new)
<1>0. /\ Tidy(sp) /\ Told(sp, tab) /\ Keeps(r, M, made) /\ t \in r.live /\ Owns(r, t, M)
      /\ M[t] = MappedRanges(sp) /\ sp \in Spaces /\ new \in Spaces
  BY DEF Holds, Tidy
<1>1. S \in SUBSET Pages /\ P \in SUBSET S
  BY SpanInPages
<1>2. Heap(new) = Heap(sp) /\ \A p \in Nat, prot \in Accesses :
        p \notin S => (Shows(new, p, prot) <=> Shows(sp, p, prot))
  BY DEF Changes, Heap, Range2
<1>3. \A p \in Nat : p \notin S => (p \in MappedPages(new) <=> p \in MappedPages(sp))
  BY <1>0, <1>2, MappedShows
<1>4. /\ MappedPages(new) \subseteq Pages /\ MappedPages(sp) \subseteq Pages
      /\ Heap(new) \subseteq Pages /\ Pages \subseteq Nat
  BY <1>0, MappedInPages DEF Pages
<1>5. MappedRanges(new) = (M[t] \ S) \cup P
  <2>1. \A p \in Nat : p \in MappedRanges(new) <=> (p \in MappedRanges(sp) /\ p \notin S) \/ p \in P
    BY <1>2, <1>3 DEF MappedRanges
  <2>2. MappedRanges(new) \subseteq Nat /\ M[t] \subseteq Nat /\ P \subseteq Nat
    <3>1. MappedRanges(new) \subseteq Nat
      BY <1>4 DEF MappedRanges
    <3>2. MappedRanges(sp) \subseteq Nat
      BY <1>4, <1>2 DEF MappedRanges
    <3>3. P \subseteq Nat
      BY <1>4
    <3> QED BY <3>1, <3>2, <3>3, <1>0
  <2>3. \A p \in Nat : p \in MappedRanges(new) <=> p \in (M[t] \ S) \cup P
    BY <2>1, <1>0
  <2> HIDE DEF S, P
  <2>4. (M[t] \ S) \cup P \subseteq Nat
    BY <2>2
  <2> QED BY <2>2, <2>3, <2>4
<1>6. q = Claim(Release(r, t, S \ P), t, P)
  BY DEF SyncOwners
<1>7. t \in Tokens
  BY <1>0, ResidentsAre
<1>8. tab2 \in [Pages -> Accesses] /\ \A p \in Pages : ToldAt(new, tab2, p)
  <2>1. /\ tab2 \in [Pages -> Accesses]
        /\ \A p \in Pages : p \notin S => tab2[p] = tab[p]
        /\ \A p \in Pages : p \in S /\ p \notin Heap(new) => ToldAt(new, tab2, p)
    BY <1>0, SyncTableIs DEF Told
  <2>2. ASSUME NEW p \in Pages, p \notin S PROVE ToldAt(new, tab2, p)
    <3>1. p \in Nat /\ tab2[p] = tab[p] /\ ToldAt(sp, tab, p)
      BY <2>1, <2>2, <1>0, <1>4 DEF Told
    <3> QED BY <3>1, <2>2, <1>2, <1>3 DEF ToldAt
  <2> QED BY <2>1, <2>2, <1>2
<1> HIDE DEF S, P
<1>9. Turned(r, M, q, N, made, t)
  BY <1>0, <1>1, <1>5, <1>6, SyncKeeps
<1>10. Holds(t, new, tab2, q, N, made)
  BY <1>0, <1>8, <1>9 DEF Holds, Told, Turned, Turns
<1> QED BY <1>9, <1>10

\* Writing to pages the running process maps leaves it in order.
LEMMA WriteHolds ==
  ASSUME NEW t, NEW sp, NEW tab, NEW r, NEW M, NEW made, Holds(t, sp, tab, r, M, made),
         NEW b \in [Pages -> Contents], \A p \in Pages \ M[t] : b[p] = r.bytes[p],
         NEW q, q = [r EXCEPT !.bytes = b]
  PROVE  /\ Holds(t, sp, tab, q, M, made) /\ OthersSame(r, M, q, M, t)
         /\ q.live = r.live /\ q.bytes = b
<1>1. Keeps(r, M, made) /\ t \in r.live /\ Owns(r, t, M)
  BY DEF Holds
<1>2. /\ Keeps(q, M, made) /\ Owns(q, t, M) /\ OthersSame(r, M, q, M, t)
      /\ q.live = r.live /\ q.bytes = b
  BY <1>1, WriteKeeps
<1> QED BY <1>1, <1>2 DEF Holds

\* Zeros written over pages that are mapped.
LEMMA ZeroedHolds ==
  ASSUME NEW t, NEW sp, NEW tab, NEW r, NEW M, NEW made, Holds(t, sp, tab, r, M, made),
         NEW P, P \subseteq M[t], NEW q, q = Zeroed(r, P)
  PROVE  /\ Holds(t, sp, tab, q, M, made) /\ OthersSame(r, M, q, M, t) /\ q.live = r.live
         /\ \A p \in Pages : q.bytes[p] = IF p \in P THEN Zero ELSE r.bytes[p]
<1> DEFINE b == [p \in Pages |-> IF p \in P THEN Zero ELSE r.bytes[p]]
<1>1. r.bytes \in [Pages -> Contents] /\ Zero \in Contents
  BY ResidentsAre DEF Holds, Contents
<1>2. b \in [Pages -> Contents] /\ \A p \in Pages : b[p] = IF p \in P THEN Zero ELSE r.bytes[p]
  BY <1>1
<1>3. q = [r EXCEPT !.bytes = b]
  BY DEF Zeroed, Put, ZeroOf
<1> HIDE DEF b
<1>4. \A p \in Pages \ M[t] : b[p] = r.bytes[p]
  BY <1>2
<1>5. /\ Holds(t, sp, tab, q, M, made) /\ OthersSame(r, M, q, M, t)
      /\ q.live = r.live /\ q.bytes = b
  BY <1>2, <1>3, <1>4, WriteHolds
<1> QED BY <1>2, <1>5

---------------------------------------------------------------------------
(* The invariant. *)

Made  == {t \in Tokens : space[t] # Gone}
MapOf == [t \in Tokens |-> IF space[t] = Gone THEN {} ELSE MappedRanges(space[t])]

IInv ==
  /\ current \in Made
  /\ space \in [Tokens -> Spaces \cup {Gone}]
  /\ table \in [Tokens -> [Pages -> Accesses]]
  /\ \A t \in Made : Tidy(space[t])
  /\ \A t \in live : Told(space[t], table[t])
  /\ Keeps(Resident, MapOf, Made)
  /\ Running => Owns(Resident, current, MapOf)

\* The running process, as the lemmas on one process see it.
LEMMA HoldsNow ==
  ASSUME IInv, Running
  PROVE  /\ Holds(current, Mine, table[current], Resident, MapOf, Made)
         /\ current \in Made /\ current \in Tokens /\ Resident.live = live
         /\ Resident.bytes = bytes /\ Tidy(Mine) /\ Mine \in Spaces
<1>1. current \in Made /\ current \in Tokens /\ space[current] # Gone
  BY DEF IInv, Made
<1>2. Tidy(Mine) /\ Told(Mine, table[current])
  BY <1>1 DEF IInv, Mine, Running
<1>3. MapOf[current] = MappedRanges(Mine)
  BY <1>1 DEF MapOf, Mine
<1>4. Resident.live = live /\ Resident.bytes = bytes
  BY DEF Resident
<1>5. Keeps(Resident, MapOf, Made) /\ Owns(Resident, current, MapOf) /\ current \in Resident.live
  BY <1>4 DEF IInv, Running
<1> QED BY <1>1, <1>2, <1>3, <1>4, <1>5 DEF Holds, Tidy

\* The owner table after a step.
LEMMA Becomes ==
  ASSUME NEW r, NEW M, NEW made, Keeps(r, M, made), Become(r)
  PROVE  Resident' = r
BY ResidentsAre DEF Become, Resident

\* A row that leaves the running process in order leaves everything in order.
LEMMA RowIs ==
  ASSUME IInv, Running, NEW sp, NEW tab, NEW r, NEW N,
         Holds(current, sp, tab, r, N, Made), Turns(MapOf, N, current, MappedRanges(sp)),
         r.live = live,
         space' = [space EXCEPT ![current] = sp], table' = [table EXCEPT ![current] = tab],
         Become(r), current' = current
  PROVE  IInv' /\ MapOf' = N /\ Resident' = r
<1>0. /\ current \in Made /\ current \in Tokens /\ space[current] # Gone
      /\ space \in [Tokens -> Spaces \cup {Gone}] /\ table \in [Tokens -> [Pages -> Accesses]]
      /\ \A t \in Made : Tidy(space[t])
      /\ \A t \in live : Told(space[t], table[t])
  BY DEF IInv, Made
<1>1. /\ Tidy(sp) /\ sp \in Spaces /\ sp # Gone /\ Told(sp, tab) /\ tab \in [Pages -> Accesses]
      /\ Keeps(r, N, Made) /\ current \in r.live /\ Owns(r, current, N)
  BY MemoryAssumption DEF Holds, Tidy, Told
<1>2. /\ space' \in [Tokens -> Spaces \cup {Gone}] /\ table' \in [Tokens -> [Pages -> Accesses]]
      /\ space'[current] = sp /\ table'[current] = tab
      /\ \A t \in Tokens : t # current => space'[t] = space[t] /\ table'[t] = table[t]
  BY <1>0, <1>1
<1>3. Made' = Made
  BY <1>0, <1>1, <1>2 DEF Made
<1>4. Resident' = r
  BY <1>1, Becomes
<1>5. live' = live
  BY DEF Become
<1>6. MapOf' = N
  <2>1. N \in [Tokens -> SUBSET Pages] /\ N[current] = MappedRanges(sp)
        /\ \A t \in Tokens : t # current => N[t] = MapOf[t]
    BY DEF Turns
  <2>2. \A t \in Tokens : N[t] = IF space'[t] = Gone THEN {} ELSE MappedRanges(space'[t])
    <3> SUFFICES ASSUME NEW t \in Tokens
                 PROVE  N[t] = IF space'[t] = Gone THEN {} ELSE MappedRanges(space'[t])
      OBVIOUS
    <3>1. CASE t = current
      BY <3>1, <2>1, <1>1, <1>2
    <3>2. CASE t # current
      BY <3>2, <2>1, <1>2 DEF MapOf
    <3> QED BY <3>1, <3>2
  <2>3. MapOf' = [t \in Tokens |-> IF space'[t] = Gone THEN {} ELSE MappedRanges(space'[t])]
    BY DEF MapOf
  <2> QED BY <2>1, <2>2, <2>3
<1>7. \A t \in Made' : Tidy(space'[t])
  BY <1>0, <1>1, <1>2, <1>3 DEF Made
<1>8. \A t \in live' : Told(space'[t], table'[t])
  <2>1. live \subseteq Tokens
    BY ResidentsAre DEF IInv, Resident
  <2> QED BY <1>0, <1>1, <1>2, <1>5, <2>1
<1>9. Owns(Resident', current', MapOf')
  BY <1>1, <1>4, <1>6
<1>10. Keeps(Resident', MapOf', Made')
  BY <1>1, <1>3, <1>4, <1>6
<1> QED BY <1>0, <1>2, <1>3, <1>4, <1>6, <1>7, <1>8, <1>9, <1>10 DEF IInv

\* What nobody notices twice nobody notices.
LEMMA OthersCompose ==
  ASSUME NEW r, NEW M, NEW q, NEW L, NEW s, NEW N, NEW t,
         OthersSame(r, M, q, L, t), OthersSame(q, L, s, N, t)
  PROVE  OthersSame(r, M, s, N, t)
BY DEF OthersSame

---------------------------------------------------------------------------
(* What a row may leave behind, and the rows. *)

Appearing == {Zero, Text} \cup {FileByte(o) : o \in 0 .. FilePages - 1}

Kept(sp, tab, r, N) ==
  /\ Holds(current, sp, tab, r, N, Made) /\ Turns(MapOf, N, current, MappedRanges(sp))
  /\ OthersSame(Resident, MapOf, r, N, current) /\ r.live = live

\* Every page the process now maps it had, or it holds zeros or a file's bytes.
Fills(r, N) ==
  \A p \in N[current] : \/ r.bytes[p] \in Appearing
                        \/ p \in MapOf[current] /\ r.bytes[p] = bytes[p]

\* Pages of the process moved to where it mapped nothing, and grew zeros.
CarriesFrom(r, N, from, to, many) ==
  LET pages == {p \in Pages : p >= to /\ p < to + many}
      left  == {p \in Pages : p >= from /\ p < from + many}
  IN  /\ from \in MapOf[current] \ N[current] /\ to \in N[current] \ MapOf[current]
      /\ \A p \in pages : /\ from + (p - to) \in MapOf[current] /\ p \notin MapOf[current]
                          /\ p \in N[current] /\ r.bytes[p] = bytes[from + (p - to)]
      /\ \A p \in left : p \notin N[current]
      /\ \A p \in Pages \ (pages \cup left) :
           /\ p \in MapOf[current] => p \in N[current] /\ r.bytes[p] = bytes[p]
           /\ p \in N[current] \ MapOf[current] => r.bytes[p] = Zero

Carries(r, N) == \E from \in Pages, to \in Pages, many \in Pages : CarriesFrom(r, N, from, to, many)

Stepped ==
  \E sp, tab, r, N : Row(sp, tab, r) /\ Kept(sp, tab, r, N) /\ (Fills(r, N) \/ Carries(r, N))

\* Zeros and file bytes may be written where the running process maps.
LEMMA BytesKept ==
  ASSUME IInv, NEW sp, NEW tab, NEW r, NEW N, Kept(sp, tab, r, N), Fills(r, N),
         NEW b \in [Pages -> Contents],
         \A p \in Pages : b[p] = r.bytes[p] \/ (p \in N[current] /\ b[p] \in Appearing),
         NEW q, q = [r EXCEPT !.bytes = b]
  PROVE  Kept(sp, tab, q, N) /\ Fills(q, N)
<1>0. /\ Holds(current, sp, tab, r, N, Made) /\ Turns(MapOf, N, current, MappedRanges(sp))
      /\ OthersSame(Resident, MapOf, r, N, current) /\ r.live = live
  BY DEF Kept
<1>1. \A p \in Pages \ N[current] : b[p] = r.bytes[p]
  OBVIOUS
<1>2. /\ Holds(current, sp, tab, q, N, Made) /\ OthersSame(r, N, q, N, current)
      /\ q.live = r.live /\ q.bytes = b
  BY <1>0, <1>1, WriteHolds
<1>3. Kept(sp, tab, q, N)
  BY <1>0, <1>2, OthersCompose DEF Kept
<1>4. N[current] \subseteq Pages
  <2>1. N \in [Tokens -> SUBSET Pages] /\ current \in Tokens
    BY <1>0 DEF Turns, IInv, Made
  <2> QED BY <2>1
<1>5. Fills(q, N)
  BY <1>2, <1>4 DEF Fills
<1> QED BY <1>3, <1>5

\* A row may zero what the process maps.
LEMMA ZeroedKept ==
  ASSUME IInv, NEW sp, NEW tab, NEW r, NEW N, Kept(sp, tab, r, N), Fills(r, N),
         NEW P, P \subseteq N[current], NEW q, q = Zeroed(r, P)
  PROVE  Kept(sp, tab, q, N) /\ Fills(q, N)
<1> DEFINE b == [p \in Pages |-> IF p \in P THEN Zero ELSE r.bytes[p]]
<1>1. r.bytes \in [Pages -> Contents] /\ Zero \in Contents /\ Zero \in Appearing
  BY ResidentsAre DEF Kept, Holds, Contents, Appearing
<1>2. b \in [Pages -> Contents] /\ \A p \in Pages : b[p] = IF p \in P THEN Zero ELSE r.bytes[p]
  BY <1>1
<1>3. q = [r EXCEPT !.bytes = b]
  BY DEF Zeroed, Put, ZeroOf
<1> HIDE DEF b
<1>4. \A p \in Pages : b[p] = r.bytes[p] \/ (p \in N[current] /\ b[p] \in Appearing)
  BY <1>1, <1>2
<1> QED BY <1>2, <1>3, <1>4, BytesKept

\* A row that changes the tree in a range and synchronises the range.
LEMMA SyncKept ==
  ASSUME IInv, Running, NEW new, Tidy(new), NEW lo \in Nat, NEW hi \in Nat,
         Changes(Mine, new, lo, hi), 1 <= lo, hi <= Limit,
         Range2(lo, hi) \cap Heap(Mine) = {}
  PROVE  \E N : Kept(new, SyncedTable(new, lo, hi), Synced(new, lo, hi), N)
                /\ Fills(Synced(new, lo, hi), N) /\ N[current] = MappedRanges(new)
<1>0. /\ Holds(current, Mine, table[current], Resident, MapOf, Made)
      /\ current \in Tokens /\ Resident.live = live /\ Resident.bytes = bytes
  BY HoldsNow
<1>1. PICK N : N = [MapOf EXCEPT ![current] = MappedRanges(new)]
  OBVIOUS
<1>2. MappedRanges(new) \subseteq Pages
  BY MappedInPages
<1>3. Turns(MapOf, N, current, MappedRanges(new))
  BY <1>0, <1>1, <1>2 DEF Turns, Holds, Keeps
<1>4. PICK q : q = SyncOwners(Resident, current, new, lo, hi)
  OBVIOUS
<1>5. PICK tab : tab = SyncTable(table[current], new, lo, hi)
  OBVIOUS
<1>6. Holds(current, new, tab, q, N, Made) /\ Turned(Resident, MapOf, q, N, Made, current)
  BY <1>0, <1>3, <1>4, <1>5, SyncHolds
<1>7. Kept(new, tab, q, N)
  BY <1>0, <1>3, <1>6 DEF Kept, Turned
<1>8. Fills(q, N)
  <2>1. Zero \in Appearing
    BY DEF Appearing
  <2> QED BY <2>1, <1>0, <1>6 DEF Fills, Turned
<1>9. N[current] = MappedRanges(new)
  BY <1>3 DEF Turns
<1> QED BY <1>4, <1>5, <1>7, <1>8, <1>9 DEF Synced, SyncedTable

\* The range a row names.
LEMMA RequestIs ==
  ASSUME NEW lo \in Pages, NEW length \in Lengths
  PROVE  /\ lo \in Nat /\ 1 <= lo /\ length \in Nat \ {0}
         /\ lo + length \in Nat /\ lo < lo + length
BY RequestAssumption, SpaceAssumption DEF Pages

\* munmap leaves everything in order, of what the process mapped.
LEMMA MunmapIs ==
  ASSUME Tame, IInv, NEW lo \in Pages, NEW length \in Lengths, Munmap(lo, length)
  PROVE  Stepped
<1>1. PICK hi : hi = lo + length
  OBVIOUS
<1>2. PICK new : new = Unmapped(Mine, lo, hi)
  OBVIOUS
<1>3. /\ Running /\ hi <= Limit /\ Names(Mine, lo, hi)
      /\ Row(new, SyncedTable(new, lo, hi), Synced(new, lo, hi))
  BY <1>1, <1>2 DEF Munmap
<1>4. Range2(lo, hi) \subseteq MappedPages(Mine)
  BY <1>3 DEF Names, Tame
<1>5. lo \in Nat /\ hi \in Nat /\ 1 <= lo /\ lo < hi
  BY <1>1, RequestIs
<1>6. Tidy(Mine)
  BY <1>3, HoldsNow
<1>7. Tidy(new) /\ Changes(Mine, new, lo, hi)
  BY <1>2, <1>4, <1>5, <1>6, UnmappedIs
<1>8. Range2(lo, hi) \cap Heap(Mine) = {}
  BY <1>4, <1>6, MappedInPages
<1>9. PICK N : /\ Kept(new, SyncedTable(new, lo, hi), Synced(new, lo, hi), N)
               /\ Fills(Synced(new, lo, hi), N)
  BY <1>3, <1>5, <1>7, <1>8, SyncKept
<1> QED BY <1>3, <1>9 DEF Stepped

\* mprotect leaves everything in order, and no byte moves.
LEMMA MprotectIs ==
  ASSUME IInv, NEW lo \in Pages, NEW length \in Lengths, NEW prot \in Prots,
         Mprotect(lo, length, prot)
  PROVE  Stepped
<1>1. PICK hi : hi = lo + length
  OBVIOUS
<1>2. PICK new : new = Protected(Mine, lo, hi, prot)
  OBVIOUS
<1>3. /\ Running /\ hi <= Limit /\ Protectable(Mine, lo, hi)
      /\ Row(new, SyncedTable(new, lo, hi), Synced(new, lo, hi))
  BY <1>1, <1>2 DEF Mprotect
<1>4. Range2(lo, hi) \subseteq MappedPages(Mine) /\ prot \in Accesses
  BY <1>3, RequestAssumption DEF Protectable
<1>5. lo \in Nat /\ hi \in Nat /\ 1 <= lo /\ lo < hi
  BY <1>1, RequestIs
<1>6. Tidy(Mine)
  BY <1>3, HoldsNow
<1>7. Tidy(new) /\ Changes(Mine, new, lo, hi)
  BY <1>2, <1>4, <1>5, <1>6, ProtectedIs
<1>8. Range2(lo, hi) \cap Heap(Mine) = {}
  BY <1>4, <1>6, MappedInPages
<1>9. PICK N : /\ Kept(new, SyncedTable(new, lo, hi), Synced(new, lo, hi), N)
               /\ Fills(Synced(new, lo, hi), N)
  BY <1>3, <1>5, <1>7, <1>8, SyncKept
<1> QED BY <1>3, <1>9 DEF Stepped

\* madvise leaves everything in order, of what the process mapped.
LEMMA MadviseIs ==
  ASSUME Tame, IInv, NEW lo \in Pages, NEW length \in Lengths, NEW advice,
         Madvise(lo, length, advice)
  PROVE  Stepped
<1>1. PICK hi : hi = lo + length
  OBVIOUS
<1>2. PICK P : P = AdviceFill(Mine, lo, hi, advice)
  OBVIOUS
<1>3. /\ Running /\ hi <= Limit /\ Names(Mine, lo, hi)
      /\ Row(Mine, SyncedTable(Mine, lo, hi), Zeroed(Synced(Mine, lo, hi), P))
  BY <1>1, <1>2 DEF Madvise
<1>4. Range2(lo, hi) \subseteq MappedPages(Mine)
  BY <1>3 DEF Names, Tame
<1>5. lo \in Nat /\ hi \in Nat /\ 1 <= lo /\ lo < hi
  BY <1>1, RequestIs
<1>6. Tidy(Mine)
  BY <1>3, HoldsNow
<1>7. Changes(Mine, Mine, lo, hi)
  BY DEF Changes
<1>8. Range2(lo, hi) \cap Heap(Mine) = {}
  BY <1>4, <1>6, MappedInPages
<1>9. PICK N : /\ Kept(Mine, SyncedTable(Mine, lo, hi), Synced(Mine, lo, hi), N)
               /\ Fills(Synced(Mine, lo, hi), N) /\ N[current] = MappedRanges(Mine)
  BY <1>3, <1>5, <1>6, <1>7, <1>8, SyncKept
<1>10. P \subseteq N[current]
  BY <1>2, <1>4, <1>9 DEF AdviceFill, MappedRanges
<1>11. /\ Kept(Mine, SyncedTable(Mine, lo, hi), Zeroed(Synced(Mine, lo, hi), P), N)
       /\ Fills(Zeroed(Synced(Mine, lo, hi), P), N)
  BY <1>9, <1>10, ZeroedKept
<1> QED BY <1>3, <1>11 DEF Stepped

\* A byte of a file may appear.
LEMMA FileByteIs ==
  ASSUME NEW o \in Nat
  PROVE  FileByte(o) \in Contents /\ (o < FilePages => FileByte(o) \in Appearing)
<1>1. FilePages \in Nat
  BY RequestAssumption
<1>2. CASE o < FilePages
  <2>1. o \in 0 .. FilePages /\ o \in 0 .. FilePages - 1
    BY <1>1, <1>2
  <2> QED BY <2>1 DEF Contents, Appearing
<1>3. CASE ~(o < FilePages)
  <2>1. FileByte(o) = Zero
    BY <1>3 DEF FileByte
  <2> QED BY <2>1, <1>3 DEF Contents
<1> QED BY <1>2, <1>3

\* What a program may ask of mmap.
LEMMA RequestsAre ==
  ASSUME NEW q \in Requests
  PROVE  /\ q.hint \in Nat /\ q.length \in Nat \ {0} /\ q.offset \in Nat
         /\ q.mode \in {"plain", "fixed", "noreplace"} /\ q.prot \in Accesses /\ Asked(q)
<1>1. /\ q.hint \in Hints \cup {0} /\ q.length \in Lengths /\ q.prot \in Prots
      /\ q.kind \in Kinds /\ q.mode \in Modes /\ q.offset \in Offsets
  BY DEF Requests
<1>2. /\ Hints \subseteq Nat /\ Lengths \subseteq Nat \ {0} /\ Prots \subseteq Accesses
      /\ Kinds \subseteq Backings /\ Modes \subseteq {"plain", "fixed", "noreplace"}
      /\ Offsets \subseteq Nat
  BY RequestAssumption
<1>3. q.hint \in Nat /\ q.length \in Nat \ {0} /\ q.offset \in Nat
  <2>1. q.hint \in Hints \/ q.hint = 0
    BY <1>1
  <2>2. q.hint \in Nat
    <3>1. CASE q.hint \in Hints
      BY <3>1, <1>2, Zenon
    <3>2. CASE q.hint = 0
      BY <3>2
    <3> QED BY <2>1, <3>1, <3>2
  <2>3. q.length \in Nat \ {0}
    BY <1>1, <1>2, Zenon
  <2>4. q.offset \in Nat
    BY <1>1, <1>2, Zenon
  <2> QED BY <2>2, <2>3, <2>4
<1>4. q.mode \in {"plain", "fixed", "noreplace"} /\ q.prot \in Accesses /\ q.kind \in Backings
  BY <1>1, <1>2
<1> QED BY <1>3, <1>4 DEF Asked

\* Wherever an allowed mmap lands, the space stays in order.
LEMMA MappedIs ==
  ASSUME IInv, Running, Tame, NEW q \in Requests, Allowed(q), NEW out \in Mapped(Mine, q)
  PROVE  \E lo \in Nat : Maps(Mine, out, lo, lo + q.length, q.prot)
<1>1. /\ q.hint \in Nat /\ q.length \in Nat \ {0} /\ q.offset \in Nat
      /\ q.mode \in {"plain", "fixed", "noreplace"} /\ Asked(q)
  BY RequestsAre
<1>2. Tidy(Mine) /\ Mine \in Spaces
  BY HoldsNow
<1>3. CASE q.mode = "plain"
  <2>1. q.hint = 0 /\ out \in Anywhere(Mine, q)
    BY <1>3 DEF Allowed, Tame, Mapped
  <2> QED BY <2>1, <1>1, <1>2, AnywhereIs
<1>4. CASE q.mode # "plain"
  <2>1. out \in AtFixed(Mine, q)
    BY <1>1, <1>4 DEF Mapped
  <2>2. Range2(q.hint, q.hint + q.length) \cap Range2(Mine.start, BrkCeiling(Mine)) = {}
    BY <1>4 DEF Allowed, Tame
  <2>3. /\ Mine.start \in Nat /\ BrkCeiling(Mine) \in Nat /\ Mine.start < BrkCeiling(Mine)
        /\ q.hint + q.length \in Nat /\ q.hint < q.hint + q.length
    BY <1>1, <1>2, SpaceIs
  <2>4. OffTheHeap(Mine, q.hint, q.hint + q.length)
    BY <1>1, <2>2, <2>3, DisjointIsApart DEF OffTheHeap
  <2>5. Maps(Mine, out, q.hint, q.hint + q.length, q.prot)
    BY <1>1, <1>2, <2>1, <2>4, AtFixedIs
  <2> QED BY <1>1, <2>5
<1> QED BY <1>3, <1>4

\* A mapping maps its range.
LEMMA MapsCovers ==
  ASSUME NEW sp, NEW out, NEW lo \in Nat, NEW hi \in Nat, NEW prot \in Accesses,
         Maps(sp, out, lo, hi, prot)
  PROVE  Range2(lo, hi) \subseteq MappedPages(out.sp)
<1>1. out.sp \in Spaces
  BY DEF Maps, Tidy
<1>2. \A p \in Range2(lo, hi) : p \in Nat /\ Shows(out.sp, p, prot)
  BY DEF Maps, Range2
<1> QED BY <1>1, <1>2, MappedShows

\* mmap leaves everything in order: what appears is zeros or a file's bytes.
LEMMA MmapIs ==
  ASSUME Tame, IInv, NEW q \in Requests, Mmap(q)
  PROVE  Stepped
<1>1. Running /\ Allowed(q)
  BY DEF Mmap
<1>2. PICK out \in Mapped(Mine, q) :
         LET lo == out.at  hi == out.at + q.length
             blank == Zeroed(Synced(out.sp, lo, hi), out.fill)
             ByteAt(p) == FileByte(q.offset + (p - lo))
             copied == {p \in Range2(lo, hi) : q.offset + (p - lo) < FilePages}
         IN  Row(out.sp, SyncedTable(out.sp, lo, hi),
                 IF q.kind = "file" THEN Put(blank, copied, ByteAt) ELSE blank)
  BY DEF Mmap
<1>3. PICK lo \in Nat : Maps(Mine, out, lo, lo + q.length, q.prot)
  BY <1>1, <1>2, MappedIs
<1>4. PICK hi : hi = lo + q.length
  OBVIOUS
<1>5. /\ q.length \in Nat \ {0} /\ q.offset \in Nat /\ hi \in Nat /\ lo < hi /\ q.prot \in Accesses
  BY <1>3, <1>4, RequestsAre
<1>6. /\ Tidy(out.sp) /\ Changes(Mine, out.sp, lo, hi)
      /\ out.at = lo /\ out.fill \subseteq Range2(lo, hi)
      /\ 1 <= lo /\ hi <= Ceiling /\ OffTheHeap(Mine, lo, hi)
  BY <1>3, <1>4 DEF Maps
<1>7. hi <= Limit
  BY <1>5, <1>6, SpaceAssumption
<1>8. Range2(lo, hi) \cap Heap(Mine) = {}
  BY <1>1, <1>5, <1>6, HoldsNow, OffTheHeapIs
<1>9. Range2(lo, hi) \subseteq MappedPages(out.sp)
  BY <1>3, <1>4, <1>5, MapsCovers
<1>10. PICK N : /\ Kept(out.sp, SyncedTable(out.sp, lo, hi), Synced(out.sp, lo, hi), N)
                /\ Fills(Synced(out.sp, lo, hi), N) /\ N[current] = MappedRanges(out.sp)
  BY <1>1, <1>5, <1>6, <1>7, <1>8, SyncKept
<1>11. Range2(lo, hi) \subseteq N[current]
  BY <1>9, <1>10 DEF MappedRanges
<1>12. PICK blank : blank = Zeroed(Synced(out.sp, lo, hi), out.fill)
  OBVIOUS
<1>13. Kept(out.sp, SyncedTable(out.sp, lo, hi), blank, N) /\ Fills(blank, N)
  <2>1. out.fill \subseteq N[current]
    BY <1>6, <1>11
  <2> QED BY <2>1, <1>10, <1>12, ZeroedKept
<1>14. CASE q.kind = "file"
  <2> DEFINE copied == {p \in Range2(lo, hi) : q.offset + (p - lo) < FilePages}
             b == [p \in Pages |-> IF p \in copied THEN FileByte(q.offset + (p - lo))
                                   ELSE blank.bytes[p]]
  <2>1. PICK last : last = [blank EXCEPT !.bytes = b]
    OBVIOUS
  <2>2. Row(out.sp, SyncedTable(out.sp, lo, hi), last)
    BY <1>2, <1>4, <1>6, <1>12, <1>14, <2>1 DEF Put
  <2>3. blank.bytes \in [Pages -> Contents]
    BY <1>13, ResidentsAre DEF Kept, Holds
  <2>4. \A p \in copied : /\ p \in N[current] /\ p \in Nat /\ q.offset + (p - lo) \in Nat
                          /\ q.offset + (p - lo) < FilePages
    BY <1>5, <1>11 DEF Range2
  <2>5. \A p \in copied : /\ FileByte(q.offset + (p - lo)) \in Contents
                          /\ FileByte(q.offset + (p - lo)) \in Appearing
    BY <2>4, FileByteIs
  <2>6. /\ b \in [Pages -> Contents]
        /\ \A p \in Pages : b[p] = blank.bytes[p] \/ (p \in N[current] /\ b[p] \in Appearing)
    <3> HIDE DEF copied
    <3> QED BY <2>3, <2>4, <2>5
  <2> HIDE DEF b
  <2>7. Kept(out.sp, SyncedTable(out.sp, lo, hi), last, N) /\ Fills(last, N)
    BY <1>13, <2>1, <2>6, BytesKept
  <2> QED BY <2>2, <2>7 DEF Stepped
<1>15. CASE q.kind # "file"
  <2>1. Row(out.sp, SyncedTable(out.sp, lo, hi), blank)
    BY <1>2, <1>4, <1>6, <1>12, <1>15
  <2> QED BY <2>1, <1>13 DEF Stepped
<1> QED BY <1>14, <1>15

\* No mapping reaches into the arena.
LEMMA ArenaIs ==
  ASSUME NEW sp, Tidy(sp), NEW p \in Nat, sp.start <= p, p < BrkCeiling(sp)
  PROVE  p \notin MappedPages(sp)
<1>0. sp \in Spaces
  BY DEF Tidy
<1>1. sp.start \in Nat /\ BrkCeiling(sp) \in Nat
  BY <1>0, SpaceIs
<1>2. ASSUME NEW v \in sp.vmas PROVE p \notin PagesOf(v)
  <2>1. v.start \in Nat /\ End(v) \in Nat
    BY <1>0, MapsAre
  <2>2. OffTheHeap(sp, v.start, End(v))
    BY DEF Tidy, TidyMaps
  <2> QED BY <2>1, <2>2, <1>1 DEF OffTheHeap, Apart, PagesOf, Range2
<1> QED BY <1>2 DEF MappedPages

\* brk leaves everything in order, up and down.
LEMMA BrkIs ==
  ASSUME IInv, NEW to \in Pages, Brk(to)
  PROVE  Stepped
<1> DEFINE up   == Range2(Mine.brk, to)
           down == Range2(to, Mine.brk)
           tab  == [p \in Pages |-> IF p \in up THEN "rw"
                                    ELSE IF p \in down THEN "none" ELSE table[current][p]]
<1>1. PICK sp : sp = Broken(Mine, to)
  OBVIOUS
<1>2. /\ Running /\ BrkGranted(Mine, to) /\ to # Mine.brk
      /\ Row(sp, tab, IF to > Mine.brk
                      THEN Zeroed(Claim(Resident, current, up), Fill(Mine, Mine.brk, to))
                      ELSE Release(Resident, current, down))
  BY <1>1 DEF Brk
<1>3. /\ Holds(current, Mine, table[current], Resident, MapOf, Made)
      /\ current \in Tokens /\ Resident.live = live /\ Resident.bytes = bytes
      /\ Tidy(Mine) /\ Mine \in Spaces
  BY <1>2, HoldsNow
<1>4. /\ Keeps(Resident, MapOf, Made) /\ current \in Resident.live
      /\ Owns(Resident, current, MapOf) /\ MapOf[current] = MappedRanges(Mine)
      /\ MapOf \in [Tokens -> SUBSET Pages]
      /\ table[current] \in [Pages -> Accesses] /\ \A p \in Pages : ToldAt(Mine, table[current], p)
  BY <1>3 DEF Holds, Keeps, Told
<1>5. to \in Nat /\ to < Limit /\ Limit \in Nat
  BY SpaceAssumption DEF Pages
<1>6. Tidy(sp) /\ sp.start = Mine.start /\ sp.brk = to /\ sp.vmas = Mine.vmas
  BY <1>1, <1>2, <1>3, <1>5, BrokenIs
<1>7. /\ Mine.start \in Nat /\ Mine.brk \in Nat /\ BrkCeiling(Mine) \in Nat
      /\ 1 <= Mine.start /\ Mine.start <= Mine.brk /\ Mine.brk <= BrkCeiling(Mine)
      /\ Mine.start <= to /\ to <= BrkCeiling(Mine)
      /\ Mine.brk = Mine.start \/ Mine.brk <= Limit
  BY <1>2, <1>3, SpaceIs, SpaceAssumption DEF Tidy, TidyHeap, BrkGranted
<1>8. MappedPages(sp) = MappedPages(Mine)
  BY <1>6 DEF MappedPages
<1>9. up \subseteq Pages /\ down \subseteq Pages
  BY <1>5, <1>7, SpaceAssumption DEF Range2, Pages
<1>10. \A p \in up \cup down : p \in Nat /\ p \notin MappedPages(Mine)
  <2>1. \A p \in up \cup down : p \in Nat /\ Mine.start <= p /\ p < BrkCeiling(Mine)
    BY <1>5, <1>7 DEF Range2
  <2> QED BY <2>1, <1>3, ArenaIs
<1>11. Told(sp, tab)
  <2>1. tab \in [Pages -> Accesses]
    <3>1. "rw" \in Accesses /\ "none" \in Accesses
      BY DEF Accesses
    <3> HIDE DEF up, down
    <3> QED BY <1>4, <3>1
  <2>2. ASSUME NEW p \in Pages PROVE ToldAt(sp, tab, p)
    <3>0. p \in Nat
      BY DEF Pages
    <3>1. tab[p] = IF p \in up THEN "rw" ELSE IF p \in down THEN "none" ELSE table[current][p]
      OBVIOUS
    <3>2. \A prot \in Accesses : Shows(sp, p, prot) <=> Shows(Mine, p, prot)
      BY <1>6 DEF Shows
    <3>3. \A prot \in Accesses : Shows(sp, p, prot) => p \in MappedPages(Mine)
      BY <3>0, <3>2, <1>3, MappedShows
    <3>4. p \in Heap(sp) <=> (p \in Heap(Mine) \/ p \in up) /\ p \notin down
      BY <3>0, <1>5, <1>6, <1>7 DEF Heap, Range2
    <3>5. p \notin up \/ p \notin down
      BY <3>0, <1>5, <1>7 DEF Range2
    <3>6. ToldAt(Mine, table[current], p)
      BY <1>4
    <3> HIDE DEF up, down, tab
    <3>7. CASE p \in up
      BY <3>1, <3>3, <3>4, <3>5, <3>7, <1>8, <1>10 DEF ToldAt
    <3>8. CASE p \in down
      BY <3>1, <3>3, <3>4, <3>5, <3>8, <1>8, <1>10 DEF ToldAt
    <3>9. CASE p \notin up /\ p \notin down
      BY <3>1, <3>2, <3>4, <3>6, <3>9, <1>8 DEF ToldAt
    <3> QED BY <3>7, <3>8, <3>9
  <2> HIDE DEF tab
  <2> QED BY <2>1, <2>2 DEF Told
<1>12. MappedRanges(sp) = (MapOf[current] \cup up) \ down
  <2>1. Heap(sp) = (Heap(Mine) \cup up) \ down
    BY <1>5, <1>6, <1>7 DEF Heap, Range2
  <2> HIDE DEF up, down
  <2> QED BY <2>1, <1>4, <1>8, <1>10 DEF MappedRanges
<1>13. PICK N : N = [MapOf EXCEPT ![current] = MappedRanges(sp)]
  OBVIOUS
<1>14. /\ N \in [Tokens -> SUBSET Pages] /\ N[current] = MappedRanges(sp)
       /\ \A u \in Tokens : u # current => N[u] = MapOf[u]
       /\ Turns(MapOf, N, current, MappedRanges(sp))
  <2>1. MappedRanges(sp) \subseteq Pages
    BY <1>6, MappedInPages
  <2> QED BY <2>1, <1>3, <1>4, <1>13 DEF Turns
<1>15. CASE to > Mine.brk
  <2>1. down = {}
    BY <1>5, <1>7, <1>15 DEF Range2
  <2>2. PICK r : r = Claim(Resident, current, up)
    OBVIOUS
  <2>3. N[current] = MapOf[current] \cup up
    BY <2>1, <1>12, <1>14
  <2>4. PICK fill : fill = Fill(Mine, Mine.brk, to)
    OBVIOUS
  <2>5. fill \subseteq up
    BY <2>4, <1>3, <1>5, <1>7, FillIs
  <2>6. Row(sp, tab, Zeroed(r, fill))
    BY <1>2, <1>15, <2>2, <2>4
  <2> HIDE DEF up, down, tab
  <2>7. /\ Keeps(r, N, Made) /\ Owns(r, current, N) /\ OthersSame(Resident, MapOf, r, N, current)
        /\ r.live = Resident.live
    BY <2>2, <2>3, <1>4, <1>9, <1>14, ClaimKeeps
  <2>8. \A p \in Pages : p \in MapOf[current] \/ p \notin up => r.bytes[p] = Resident.bytes[p]
    BY <2>2, <2>3, <1>4, <1>9, <1>14, ClaimKeeps
  <2>9. \A p \in up \ MapOf[current] : r.bytes[p] = Zero
    BY <2>2, <2>3, <1>4, <1>9, <1>14, ClaimKeeps
  <2>10. Kept(sp, tab, r, N)
    BY <2>7, <1>3, <1>6, <1>11, <1>14 DEF Kept, Holds
  <2>11. Fills(r, N)
    <3>1. MapOf[current] \subseteq Pages /\ Zero \in Appearing
      BY <1>3, <1>4 DEF Appearing
    <3> QED BY <3>1, <2>3, <2>8, <2>9, <1>3 DEF Fills
  <2>12. Kept(sp, tab, Zeroed(r, fill), N) /\ Fills(Zeroed(r, fill), N)
    <3>1. fill \subseteq N[current]
      BY <2>3, <2>5
    <3> QED BY <3>1, <2>10, <2>11, ZeroedKept
  <2> QED BY <2>6, <2>12 DEF Stepped
<1>16. CASE ~(to > Mine.brk)
  <2>1. up = {}
    BY <1>5, <1>7, <1>16 DEF Range2
  <2>2. PICK r : r = Release(Resident, current, down)
    OBVIOUS
  <2>3. N[current] = MapOf[current] \ down
    BY <2>1, <1>12, <1>14
  <2>4. Row(sp, tab, r)
    BY <1>2, <1>16, <2>2
  <2> HIDE DEF up, down, tab
  <2>5. /\ Keeps(r, N, Made) /\ Owns(r, current, N) /\ OthersSame(Resident, MapOf, r, N, current)
        /\ r.live = Resident.live /\ r.bytes = Resident.bytes
    BY <2>2, <2>3, <1>4, <1>9, <1>14, ReleaseKeeps
  <2>6. Kept(sp, tab, r, N)
    BY <2>5, <1>3, <1>6, <1>11, <1>14 DEF Kept, Holds
  <2>7. Fills(r, N)
    BY <2>3, <2>5, <1>3 DEF Fills
  <2> QED BY <2>4, <2>6, <2>7 DEF Stepped
<1> QED BY <1>15, <1>16

\* Synchronising again what nothing changed since.
LEMMA SyncAgain ==
  ASSUME IInv, NEW sp, NEW tab, NEW r, NEW N, Kept(sp, tab, r, N), Fills(r, N),
         NEW lo \in Nat, NEW hi \in Nat, 1 <= lo, hi <= Limit,
         Range2(lo, hi) \cap Heap(sp) = {},
         NEW q, q = SyncOwners(r, current, sp, lo, hi),
         NEW tab2, tab2 = SyncTable(tab, sp, lo, hi)
  PROVE  Kept(sp, tab2, q, N) /\ Fills(q, N)
<1>0. /\ Holds(current, sp, tab, r, N, Made) /\ Turns(MapOf, N, current, MappedRanges(sp))
      /\ OthersSame(Resident, MapOf, r, N, current) /\ r.live = live
  BY DEF Kept
<1>1. Turns(N, N, current, MappedRanges(sp)) /\ Tidy(sp) /\ Changes(sp, sp, lo, hi)
  BY <1>0 DEF Turns, Holds, Changes
<1>2. Holds(current, sp, tab2, q, N, Made) /\ Turned(r, N, q, N, Made, current)
  BY <1>0, <1>1, SyncHolds
<1>3. Kept(sp, tab2, q, N)
  BY <1>0, <1>2, OthersCompose DEF Kept, Turned
<1>4. Fills(q, N)
  BY <1>2 DEF Fills, Turned
<1> QED BY <1>3, <1>4

\* mremap that leaves the mapping where it is.
LEMMA InPlaceIs ==
  ASSUME IInv, Running, NEW v \in Mine.vmas, NEW longer \in Nat, NEW out,
         Resizes(Mine, out, v, longer), v.start + longer <= Limit,
         Range2(v.start, v.start + longer) \cap Heap(Mine) = {},
         NEW hi, hi = v.start + longer,
         NEW first, first = SyncOwners(Resident, current, out.sp, v.start, hi),
         NEW both, both = SyncOwners(first, current, out.sp, v.start, hi),
         NEW tab, tab = SyncTable(SyncTable(table[current], out.sp, v.start, hi),
                                  out.sp, v.start, hi),
         NEW r, r = Zeroed(both, out.fill)
  PROVE  \E N : Kept(out.sp, tab, r, N) /\ Fills(r, N)
<1>0. Tidy(Mine) /\ Mine \in Spaces
  BY HoldsNow
<1>1. v.start \in Nat /\ 1 <= v.start /\ hi \in Nat /\ hi <= Limit
  BY <1>0, MapsAre DEF Tidy, TidyMaps
<1>2. /\ Tidy(out.sp) /\ Changes(Mine, out.sp, v.start, hi)
      /\ \A p \in out.fill : p \in MappedPages(out.sp)
  BY DEF Resizes
<1>3. Heap(out.sp) = Heap(Mine)
  BY <1>2 DEF Changes, Heap
<1>4. PICK N : /\ Kept(out.sp, SyncedTable(out.sp, v.start, hi), Synced(out.sp, v.start, hi), N)
               /\ Fills(Synced(out.sp, v.start, hi), N) /\ N[current] = MappedRanges(out.sp)
  BY <1>1, <1>2, SyncKept
<1>5. PICK tab1 : tab1 = SyncTable(table[current], out.sp, v.start, hi)
  OBVIOUS
<1>6. Kept(out.sp, tab1, first, N) /\ Fills(first, N)
  BY <1>4, <1>5 DEF Synced, SyncedTable
<1>7. tab = SyncTable(tab1, out.sp, v.start, hi) /\ Range2(v.start, hi) \cap Heap(out.sp) = {}
  BY <1>3, <1>5
<1>8. Kept(out.sp, tab, both, N) /\ Fills(both, N)
  BY <1>1, <1>6, <1>7, SyncAgain
<1>9. out.fill \subseteq N[current]
  BY <1>2, <1>4 DEF MappedRanges
<1>10. Kept(out.sp, tab, r, N) /\ Fills(r, N)
  BY <1>8, <1>9, ZeroedKept
<1> QED BY <1>10

\* mremap that moves the mapping: the table after both ends were synchronised.
LEMMA MovedTable ==
  ASSUME NEW sp, Tidy(sp), NEW v \in sp.vmas, NEW length \in Nat, v.length < length,
         NEW out, Moves(sp, out, v, length), NEW tab, Told(sp, tab),
         Range2(v.start, v.start + length) \cap Heap(sp) = {},
         NEW tab1, tab1 = SyncTable(tab, out.sp, v.start, v.start + length),
         NEW tab2, tab2 = SyncTable(tab1, out.sp, out.to, out.to + length)
  PROVE  Told(out.sp, tab2)
<1> DEFINE S1 == Range2(v.start, v.start + length)
           S2 == Range2(out.to, out.to + length)
<1>0. sp \in Spaces /\ out.sp \in Spaces /\ Tidy(out.sp) /\ Heap(out.sp) = Heap(sp)
      /\ out.to \in Nat /\ out.to + length \in Nat /\ OffTheHeap(sp, out.to, out.to + length)
  BY DEF Tidy, Moves, Heap
<1>1. v.start \in Nat /\ v.start + length \in Nat /\ End(v) = v.start + v.length /\ v.length \in Nat
  BY <1>0, MapsAre
<1>2. S2 \cap Heap(sp) = {}
  BY <1>0, OffTheHeapIs
<1>3. /\ tab1 \in [Pages -> Accesses]
      /\ \A p \in Pages : p \notin S1 => tab1[p] = tab[p]
      /\ \A p \in Pages : p \in S1 /\ p \notin Heap(out.sp) => ToldAt(out.sp, tab1, p)
  BY <1>0, <1>1, SyncTableIs DEF Told
<1>4. /\ tab2 \in [Pages -> Accesses]
      /\ \A p \in Pages : p \notin S2 => tab2[p] = tab1[p]
      /\ \A p \in Pages : p \in S2 /\ p \notin Heap(out.sp) => ToldAt(out.sp, tab2, p)
  BY <1>0, <1>3, SyncTableIs
<1>5. ASSUME NEW p \in Pages PROVE ToldAt(out.sp, tab2, p)
  <2>0. p \in Nat
    BY DEF Pages
  <2>1. CASE p \in S2
    BY <2>1, <1>0, <1>2, <1>4
  <2>2. CASE p \notin S2 /\ p \in S1
    <3>1. ToldAt(out.sp, tab1, p) /\ tab2[p] = tab1[p]
      BY <2>2, <1>0, <1>3, <1>4
    <3> QED BY <3>1 DEF ToldAt
  <2>3. CASE p \notin S2 /\ p \notin S1
    <3>1. tab2[p] = tab[p] /\ ToldAt(sp, tab, p)
      BY <2>3, <1>3, <1>4 DEF Told
    <3>2. (p < v.start \/ End(v) <= p) /\ (p < out.to \/ out.to + length <= p)
      BY <2>0, <2>3, <1>0, <1>1 DEF Range2
    <3>3. \A prot \in Accesses : Shows(out.sp, p, prot) <=> Shows(sp, p, prot)
      BY <2>0, <3>2 DEF Moves
    <3>4. p \in MappedPages(out.sp) <=> p \in MappedPages(sp)
      BY <2>0, <3>3, <1>0, MappedShows
    <3> QED BY <3>1, <3>3, <3>4, <1>0 DEF ToldAt
  <2> QED BY <2>1, <2>2, <2>3
<1> QED BY <1>4, <1>5 DEF Told

\* Which pages the process maps before and after the move.
LEMMA MovedPages ==
  ASSUME NEW sp, Tidy(sp), NEW v \in sp.vmas, NEW length \in Nat, v.length < length,
         NEW out, Moves(sp, out, v, length),
         Range2(v.start, v.start + length) \cap Heap(sp) = {}
  PROVE  /\ Tidy(out.sp) /\ Heap(out.sp) = Heap(sp)
         /\ v.start \in Nat /\ v.length \in Nat \ {0} /\ out.to \in Nat
         /\ 1 <= v.start /\ 1 <= out.to /\ out.to + length <= Ceiling
         /\ \A p \in Range2(v.start, v.start + v.length) :
              p \in MappedRanges(sp) /\ p \notin MappedRanges(out.sp)
         /\ \A p \in Range2(out.to, out.to + length) :
              /\ p \notin MappedRanges(sp) /\ p \in MappedRanges(out.sp)
              /\ p \in MappedPages(out.sp) /\ p \notin Heap(sp)
         /\ \A p \in Nat : /\ p \notin Range2(v.start, v.start + v.length)
                           /\ p \notin Range2(out.to, out.to + length)
              => /\ p \in MappedRanges(out.sp) <=> p \in MappedRanges(sp)
                 /\ p \in MappedPages(out.sp) <=> p \in MappedPages(sp)
<1>0. sp \in Spaces /\ out.sp \in Spaces /\ Tidy(out.sp) /\ Heap(out.sp) = Heap(sp)
      /\ out.to \in Nat /\ out.to + length \in Nat /\ OffTheHeap(sp, out.to, out.to + length)
      /\ 1 <= out.to /\ out.to + length <= Ceiling
  BY DEF Tidy, Moves, Heap
<1>1. /\ v.start \in Nat /\ v.start + length \in Nat /\ End(v) = v.start + v.length
      /\ v.length \in Nat \ {0} /\ End(v) \in Nat /\ 1 <= v.start
  BY <1>0, MapsAre DEF Tidy, TidyMaps, Vma
<1>2. Range2(out.to, out.to + length) \cap Heap(sp) = {}
  BY <1>0, OffTheHeapIs
<1>3. PagesOf(v) = Range2(v.start, v.start + v.length) /\ PagesOf(v) \subseteq MappedPages(sp)
  BY <1>1 DEF PagesOf, MappedPages
<1>4. ASSUME NEW p \in Range2(v.start, v.start + v.length)
      PROVE  p \in MappedRanges(sp) /\ p \notin MappedRanges(out.sp)
  <2>1. p \notin MappedPages(out.sp)
    BY <1>3 DEF Moves
  <2>2. p \in Range2(v.start, v.start + length)
    BY <1>1 DEF Range2
  <2> QED BY <2>1, <2>2, <1>0, <1>3 DEF MappedRanges
<1>5. ASSUME NEW p \in Range2(out.to, out.to + length)
      PROVE  /\ p \notin MappedRanges(sp) /\ p \in MappedRanges(out.sp)
             /\ p \in MappedPages(out.sp) /\ p \notin Heap(sp)
  <2>1. p \in Nat /\ out.to <= p /\ p < out.to + length
    BY <1>0 DEF Range2
  <2>2. p \notin MappedPages(sp) /\ p \in MappedPages(out.sp)
    BY <2>1 DEF Moves
  <2> QED BY <2>2, <1>2 DEF MappedRanges
<1>6. ASSUME NEW p \in Nat, p \notin Range2(v.start, v.start + v.length),
             p \notin Range2(out.to, out.to + length)
      PROVE  /\ p \in MappedRanges(out.sp) <=> p \in MappedRanges(sp)
             /\ p \in MappedPages(out.sp) <=> p \in MappedPages(sp)
  <2>1. (p < v.start \/ End(v) <= p) /\ (p < out.to \/ out.to + length <= p)
    BY <1>0, <1>1, <1>6 DEF Range2
  <2>2. \A prot \in Accesses : Shows(out.sp, p, prot) <=> Shows(sp, p, prot)
    BY <2>1 DEF Moves
  <2>3. p \in MappedPages(out.sp) <=> p \in MappedPages(sp)
    BY <2>2, <1>0, MappedShows
  <2> QED BY <2>3, <1>0 DEF MappedRanges
<1> QED BY <1>0, <1>1, <1>4, <1>5, <1>6

\* The owners after both ends of a move were synchronised.
LEMMA MovedOwners ==
  ASSUME NEW r, NEW M, NEW made, Keeps(r, M, made), NEW t \in r.live, Owns(r, t, M),
         NEW sp, Tidy(sp), M[t] = MappedRanges(sp),
         NEW v \in sp.vmas, NEW length \in Nat, v.length < length, v.start + length <= Limit,
         NEW out, Moves(sp, out, v, length),
         Range2(v.start, v.start + length) \cap Heap(sp) = {},
         NEW first, first = SyncOwners(r, t, out.sp, v.start, v.start + length),
         NEW both, both = SyncOwners(first, t, out.sp, out.to, out.to + length),
         NEW N, Turns(M, N, t, MappedRanges(out.sp))
  PROVE  /\ Keeps(both, N, made) /\ Owns(both, t, N) /\ OthersSame(r, M, both, N, t)
         /\ both.live = r.live
         /\ \A p \in Pages : p \in M[t] => both.bytes[p] = r.bytes[p]
         /\ \A p \in N[t] \ M[t] : both.bytes[p] = Zero
<1> DEFINE S1 == Range2(v.start, v.start + length)
           P1 == S1 \cap MappedPages(out.sp)
           S2 == Range2(out.to, out.to + length)
           P2 == S2 \cap MappedPages(out.sp)
           V  == Range2(v.start, v.start + v.length)
<1>0. /\ Tidy(out.sp) /\ Heap(out.sp) = Heap(sp)
      /\ v.start \in Nat /\ v.length \in Nat \ {0} /\ out.to \in Nat
      /\ 1 <= v.start /\ 1 <= out.to /\ out.to + length <= Ceiling
  BY MovedPages
<1>1. /\ \A p \in V : p \in M[t] /\ p \notin MappedRanges(out.sp)
      /\ \A p \in S2 : /\ p \notin M[t] /\ p \in MappedRanges(out.sp)
                       /\ p \in MappedPages(out.sp) /\ p \notin Heap(sp)
      /\ \A p \in Nat : p \notin V /\ p \notin S2
           => /\ p \in MappedRanges(out.sp) <=> p \in M[t]
              /\ p \in MappedPages(out.sp) <=> p \in MappedPages(sp)
  BY MovedPages
<1>2. S1 \subseteq Pages /\ S2 \subseteq Pages /\ P1 \subseteq S1 /\ P2 \subseteq S2 /\ P2 = S2
      /\ V \subseteq S1 /\ Pages \subseteq Nat
  <2>1. S1 \subseteq Pages /\ S2 \subseteq Pages
    BY <1>0, SpanInPages, SpaceAssumption
  <2>2. V \subseteq S1
    BY <1>0 DEF Range2
  <2> QED BY <2>1, <2>2, <1>1 DEF Pages
<1>3. t \in Tokens /\ M \in [Tokens -> SUBSET Pages] /\ M[t] \subseteq Pages
  BY ResidentsAre DEF Keeps
<1>4. PICK L : L = [M EXCEPT ![t] = (@ \ S1) \cup P1]
  OBVIOUS
<1>5. Turns(M, L, t, (M[t] \ S1) \cup P1) /\ L[t] = (M[t] \ S1) \cup P1 /\ L[t] \subseteq Pages
      /\ L \in [Tokens -> SUBSET Pages]
  BY <1>2, <1>3, <1>4 DEF Turns
<1>6. first = Claim(Release(r, t, S1 \ P1), t, P1)
  BY DEF SyncOwners
<1>7. both = Claim(Release(first, t, S2 \ P2), t, P2)
  BY DEF SyncOwners
<1>8. MappedRanges(out.sp) = (L[t] \ S2) \cup P2
  <2>1. MappedRanges(out.sp) \subseteq Pages
    BY <1>0, MappedInPages
  <2>2. ASSUME NEW p \in Pages
        PROVE  p \in MappedRanges(out.sp) <=> p \in (L[t] \ S2) \cup P2
    <3>0. p \in Nat
      BY <1>2
    <3>1. CASE p \in S2
      BY <3>1, <1>1, <1>2
    <3>2. CASE p \notin S2 /\ p \in S1
      <4>1. p \notin Heap(out.sp)
        BY <3>2, <1>0
      <4>2. p \in MappedRanges(out.sp) <=> p \in MappedPages(out.sp)
        BY <4>1 DEF MappedRanges
      <4> QED BY <4>2, <3>2, <1>5
    <3>3. CASE p \notin S2 /\ p \notin S1
      <4>1. p \notin V
        BY <3>3, <1>2
      <4> QED BY <4>1, <3>0, <3>3, <1>1, <1>2, <1>5
    <3> QED BY <3>1, <3>2, <3>3
  <2> HIDE DEF S2, P2
  <2>3. (L[t] \ S2) \cup P2 \subseteq Pages
    BY <1>2, <1>5
  <2> QED BY <2>1, <2>2, <2>3
<1>9. Turns(L, N, t, (L[t] \ S2) \cup P2)
  BY <1>5, <1>8 DEF Turns
<1> HIDE DEF S1, P1, S2, P2, V
<1>10. Turned(r, M, first, L, made, t)
  BY <1>2, <1>5, <1>6, SyncKeeps
<1>11. Keeps(first, L, made) /\ t \in first.live /\ Owns(first, t, L)
  BY <1>10 DEF Turned
<1>12. Turned(first, L, both, N, made, t)
  BY <1>2, <1>7, <1>9, <1>11, SyncKeeps
<1>13. /\ Keeps(both, N, made) /\ Owns(both, t, N) /\ OthersSame(r, M, both, N, t)
       /\ both.live = r.live
  BY <1>10, <1>12, OthersCompose DEF Turned
<1>14. N[t] = (L[t] \ S2) \cup P2
  BY <1>9 DEF Turns
<1>15. ASSUME NEW p \in Pages, p \in M[t] PROVE both.bytes[p] = r.bytes[p]
  <2>1. first.bytes[p] = r.bytes[p]
    BY <1>10, <1>15 DEF Turned
  <2>2. p \notin S2
    BY <1>1, <1>15
  <2>3. p \in L[t] \/ p \notin N[t]
    BY <2>2, <1>2, <1>14
  <2>4. both.bytes[p] = first.bytes[p]
    BY <2>3, <1>12 DEF Turned
  <2> QED BY <2>1, <2>4
<1>16. ASSUME NEW p \in N[t] \ M[t] PROVE both.bytes[p] = Zero
  <2>1. CASE p \in L[t]
    BY <2>1, <1>10, <1>12 DEF Turned
  <2>2. CASE p \notin L[t]
    BY <2>2, <1>12 DEF Turned
  <2> QED BY <2>1, <2>2
<1> QED BY <1>13, <1>15, <1>16

Wrote(q, r, b) == q = [r EXCEPT !.bytes = b]

\* The pages of a moved mapping are given up, and those of its new place taken.
Swaps(N, start, len, to, length) ==
  /\ \A p \in Range2(start, start + len) : p \in MapOf[current] /\ p \notin N[current]
  /\ \A p \in Range2(to, to + length) : p \notin MapOf[current] /\ p \in N[current]
  /\ \A p \in Nat : p \notin Range2(start, start + len) /\ p \notin Range2(to, to + length)
       => (p \in N[current] <=> p \in MapOf[current])

\* What was mapped reads as before, and what is newly mapped reads as zero.
Brought(r, N) ==
  /\ r.live = live /\ OthersSame(Resident, MapOf, r, N, current)
  /\ \A p \in Pages : p \in MapOf[current] => r.bytes[p] = bytes[p]
  /\ \A p \in N[current] \ MapOf[current] : r.bytes[p] = Zero

\* The moved pages are put at their new place, and the rest of it is zeroed.
Puts(r, both, start, len, to, length, fill) ==
  /\ \A p \in fill : p \in Nat /\ to + len <= p /\ p < to + length
  /\ \E b, moved : /\ b = [p \in Pages |-> IF p \in Range2(to, to + len)
                                           THEN both.bytes[start + (p - to)] ELSE both.bytes[p]]
                   /\ Wrote(moved, both, b) /\ r = Zeroed(moved, fill)

\* What an mremap that moves the mapping carries to the new place.
LEMMA CarriedAwayIs ==
  ASSUME NEW start \in Nat, NEW len \in Nat \ {0}, NEW length \in Nat, len < length,
         NEW to \in Nat, 1 <= start, start + length <= Limit, 1 <= to, to + length <= Ceiling,
         NEW sp, NEW N, Turns(MapOf, N, current, MappedRanges(sp)),
         Swaps(N, start, len, to, length),
         NEW tab, NEW both, Holds(current, sp, tab, both, N, Made), Brought(both, N),
         NEW fill, NEW r, Puts(r, both, start, len, to, length, fill)
  PROVE  Kept(sp, tab, r, N) /\ Carries(r, N)
<1> DEFINE V == Range2(start, start + len)
           W == Range2(to, to + len)
           S == Range2(to, to + length)
<1>1. PICK b, moved :
         /\ b = [p \in Pages |-> IF p \in Range2(to, to + len)
                               THEN both.bytes[start + (p - to)] ELSE both.bytes[p]]
         /\ Wrote(moved, both, b) /\ r = Zeroed(moved, fill)
  BY Zenon DEF Puts
<1>2. \A p \in fill : p \in Nat /\ to + len <= p /\ p < to + length
  BY DEF Puts
<1>3. \A lo, hi \in Nat : \A p : p \in Range2(lo, hi) <=> p \in Nat /\ lo <= p /\ p < hi
  BY DEF Range2
<1>4. /\ \A p : p \in V <=> p \in Nat /\ start <= p /\ p < start + len
      /\ \A p : p \in W <=> p \in Nat /\ to <= p /\ p < to + len
      /\ \A p : p \in S <=> p \in Nat /\ to <= p /\ p < to + length
  BY <1>3
<1>5. /\ Ceiling \in Nat /\ Limit \in Nat /\ Ceiling <= Limit
      /\ \A p \in Nat : 1 <= p /\ p < Limit => p \in Pages
      /\ Pages \subseteq Nat
  BY SpaceAssumption DEF Pages
<1>6. /\ \A p \in V : p \in MapOf[current] /\ p \notin N[current]
      /\ \A p \in S : p \notin MapOf[current] /\ p \in N[current]
      /\ \A p \in Nat : p \notin V /\ p \notin S => (p \in N[current] <=> p \in MapOf[current])
  BY DEF Swaps
<1>7. b = [p \in Pages |-> IF p \in W THEN both.bytes[start + (p - to)] ELSE both.bytes[p]]
  BY <1>1
<1> HIDE DEF V, W, S
<1>8. V \subseteq Pages /\ S \subseteq Pages /\ W \subseteq S
  <2>1. \A p \in V : p \in Pages
    BY <1>4, <1>5
  <2>2. \A p \in S : p \in Pages
    BY <1>4, <1>5
  <2>3. \A p \in W : p \in S
    BY <1>4
  <2> QED BY <2>1, <2>2, <2>3
<1>9. /\ \A p \in W : p \in Nat /\ start + (p - to) \in V
      /\ \A p \in fill : p \in S /\ p \notin W
  <2>1. \A p \in W : p \in Nat /\ start + (p - to) \in V
    BY <1>4
  <2>2. \A p \in fill : p \in S /\ p \notin W
    BY <1>4, <1>2
  <2> QED BY <2>1, <2>2
<1>10. /\ b \in [Pages -> Contents]
       /\ \A p \in Pages : b[p] = IF p \in W THEN both.bytes[start + (p - to)] ELSE both.bytes[p]
  <2>1. both.bytes \in [Pages -> Contents]
    BY ResidentsAre DEF Holds
  <2>2. \A p \in W : start + (p - to) \in Pages
    BY <1>8, <1>9
  <2> QED BY <1>7, <2>1, <2>2
<1>11. /\ both.live = live /\ OthersSame(Resident, MapOf, both, N, current)
       /\ \A p \in Pages : p \in MapOf[current] => both.bytes[p] = bytes[p]
       /\ \A p \in N[current] \ MapOf[current] : both.bytes[p] = Zero
  BY DEF Brought
<1>12. /\ Holds(current, sp, tab, moved, N, Made) /\ OthersSame(both, N, moved, N, current)
      /\ moved.live = both.live /\ moved.bytes = b
  <2>1. \A p \in Pages \ N[current] : b[p] = both.bytes[p]
    BY <1>6, <1>8, <1>10
  <2>2. moved = [both EXCEPT !.bytes = b]
    BY <1>1 DEF Wrote
  <2> QED BY <2>1, <2>2, <1>10, WriteHolds
<1>13. fill \subseteq N[current]
  BY <1>6, <1>9
<1>14. /\ Holds(current, sp, tab, r, N, Made) /\ OthersSame(moved, N, r, N, current)
      /\ r.live = moved.live
      /\ \A p \in Pages : r.bytes[p] = IF p \in fill THEN Zero ELSE moved.bytes[p]
  BY <1>12, <1>13, <1>1, ZeroedHolds
<1>15. \A p \in Pages : r.bytes[p] = IF p \in fill THEN Zero ELSE b[p]
  BY <1>12, <1>14
<1>16. Kept(sp, tab, r, N)
  <2>1. OthersSame(Resident, MapOf, moved, N, current)
    BY <1>12, <1>11, OthersCompose
  <2>2. OthersSame(Resident, MapOf, r, N, current)
    BY <2>1, <1>14 DEF OthersSame
  <2> QED BY <2>2, <1>12, <1>14, <1>11 DEF Kept
<1>17. Carries(r, N)
  <2>1. start \in V /\ to \in S /\ start \in Pages /\ to \in Pages /\ len \in Pages
    BY <1>4, <1>5
  <2>2. start \in MapOf[current] \ N[current] /\ to \in N[current] \ MapOf[current]
    BY <2>1, <1>6
  <2> DEFINE pages == {p \in Pages : p >= to /\ p < to + len}
             left  == {p \in Pages : p >= start /\ p < start + len}
  <2>3. pages = W /\ left = V
    <3>1. \A p \in Pages : p \in pages <=> p \in W
      BY <1>4, <1>5
    <3>2. \A p \in Pages : p \in left <=> p \in V
      BY <1>4, <1>5
    <3>3. W \subseteq Pages /\ V \subseteq Pages /\ pages \subseteq Pages /\ left \subseteq Pages
      BY <1>8
    <3> HIDE DEF pages, left
    <3> QED BY <3>1, <3>2, <3>3
  <2> HIDE DEF pages, left
  <2>4. ASSUME NEW p \in pages
        PROVE  /\ start + (p - to) \in MapOf[current] /\ p \notin MapOf[current]
               /\ p \in N[current] /\ r.bytes[p] = bytes[start + (p - to)]
    <3>1. p \in W /\ p \in Pages /\ p \in S /\ p \notin fill
      BY <2>3, <1>8, <1>9
    <3>2. PICK f : f = start + (p - to)
      OBVIOUS
    <3>3. f \in V /\ f \in Pages /\ f \in MapOf[current]
      BY <3>1, <3>2, <1>6, <1>8, <1>9
    <3>4. r.bytes[p] = both.bytes[f]
      BY <3>1, <3>2, <1>15, <1>10
    <3> QED BY <3>1, <3>2, <3>3, <3>4, <1>6, <1>11
  <2>5. \A p \in left : p \notin N[current]
    BY <2>3, <1>6
  <2>6. ASSUME NEW p \in Pages \ (pages \cup left)
        PROVE  /\ p \in MapOf[current] => p \in N[current] /\ r.bytes[p] = bytes[p]
               /\ p \in N[current] \ MapOf[current] => r.bytes[p] = Zero
    <3>1. p \in Nat /\ p \in Pages /\ p \notin W /\ p \notin V
      BY <2>3, <1>5
    <3>2. b[p] = both.bytes[p]
      BY <3>1, <1>10
    <3>3. CASE p \in MapOf[current]
      <4>1. p \notin S /\ p \notin fill
        BY <3>3, <1>6, <1>9
      <4>2. p \in N[current]
        BY <4>1, <3>1, <3>3, <1>6
      <4> QED BY <4>1, <4>2, <3>1, <3>2, <3>3, <1>15, <1>11
    <3>4. CASE p \notin MapOf[current]
      <4>1. CASE p \in fill
        BY <4>1, <3>1, <3>4, <1>15
      <4>2. CASE p \notin fill
        BY <4>2, <3>1, <3>2, <3>4, <1>11, <1>15
      <4> QED BY <4>1, <4>2
    <3> QED BY <3>3, <3>4
  <2>7. CarriesFrom(r, N, start, to, len)
    BY <2>2, <2>4, <2>5, <2>6 DEF CarriesFrom, pages, left
  <2> QED BY <2>1, <2>7 DEF Carries
<1> QED BY <1>16, <1>17

\* mremap that moves the mapping leaves everything in order.
LEMMA MovedAwayIs ==
  ASSUME IInv, Running, NEW v \in Mine.vmas, NEW length \in Nat, v.length < length,
         v.start + length <= Limit, NEW out, Moves(Mine, out, v, length),
         Range2(v.start, v.start + length) \cap Heap(Mine) = {},
         NEW first, first = SyncOwners(Resident, current, out.sp, v.start, v.start + length),
         NEW both, both = SyncOwners(first, current, out.sp, out.to, out.to + length),
         NEW tab, tab = SyncTable(SyncTable(table[current], out.sp, v.start, v.start + length),
                                  out.sp, out.to, out.to + length),
         NEW b, b = [p \in Pages |-> IF p \in Range2(out.to, out.to + v.length)
                                     THEN both.bytes[v.start + (p - out.to)]
                                     ELSE both.bytes[p]],
         NEW moved, Wrote(moved, both, b),
         NEW r, r = Zeroed(moved, out.fill)
  PROVE  \E N : Kept(out.sp, tab, r, N) /\ Carries(r, N)
<1> DEFINE V == Range2(v.start, v.start + v.length)
           W == Range2(out.to, out.to + v.length)
           S == Range2(out.to, out.to + length)
<1>1. /\ Holds(current, Mine, table[current], Resident, MapOf, Made)
      /\ current \in Tokens /\ Resident.live = live /\ Resident.bytes = bytes
      /\ Tidy(Mine) /\ Mine \in Spaces
  BY HoldsNow
<1>2. /\ Keeps(Resident, MapOf, Made) /\ current \in Resident.live
      /\ Owns(Resident, current, MapOf) /\ MapOf[current] = MappedRanges(Mine)
      /\ MapOf \in [Tokens -> SUBSET Pages] /\ Told(Mine, table[current])
  BY <1>1 DEF Holds, Keeps
<1>3. /\ Tidy(out.sp) /\ Heap(out.sp) = Heap(Mine)
      /\ v.start \in Nat /\ v.length \in Nat \ {0} /\ out.to \in Nat
      /\ 1 <= v.start /\ 1 <= out.to /\ out.to + length <= Ceiling
  BY <1>1, MovedPages
<1>4. /\ \A p \in V : p \in MapOf[current] /\ p \notin MappedRanges(out.sp)
      /\ \A p \in S : p \notin MapOf[current] /\ p \in MappedRanges(out.sp)
      /\ \A p \in Nat : p \notin V /\ p \notin S
           => (p \in MappedRanges(out.sp) <=> p \in MapOf[current])
  <2>1. \A p \in V : p \in MappedRanges(Mine) /\ p \notin MappedRanges(out.sp)
    BY <1>1, MovedPages
  <2>2. \A p \in S : p \notin MappedRanges(Mine) /\ p \in MappedRanges(out.sp)
    BY <1>1, MovedPages
  <2>3. \A p \in Nat : p \notin V /\ p \notin S
           => (p \in MappedRanges(out.sp) <=> p \in MappedRanges(Mine))
    BY <1>1, MovedPages
  <2> HIDE DEF V, S
  <2> QED BY <2>1, <2>2, <2>3, <1>2
<1>5. PICK N : N = [MapOf EXCEPT ![current] = MappedRanges(out.sp)]
  OBVIOUS
<1>6. Turns(MapOf, N, current, MappedRanges(out.sp)) /\ N[current] = MappedRanges(out.sp)
  <2>1. MappedRanges(out.sp) \subseteq Pages
    BY <1>3, MappedInPages
  <2> QED BY <2>1, <1>1, <1>2, <1>5 DEF Turns
<1>7. /\ Keeps(both, N, Made) /\ Owns(both, current, N)
      /\ OthersSame(Resident, MapOf, both, N, current)
      /\ both.live = live
      /\ \A p \in Pages : p \in MapOf[current] => both.bytes[p] = bytes[p]
      /\ \A p \in N[current] \ MapOf[current] : both.bytes[p] = Zero
  <2>1. /\ Keeps(both, N, Made) /\ Owns(both, current, N)
        /\ OthersSame(Resident, MapOf, both, N, current)
        /\ both.live = Resident.live
    BY <1>1, <1>2, <1>6, MovedOwners
  <2>2. \A p \in Pages : p \in MapOf[current] => both.bytes[p] = Resident.bytes[p]
    BY <1>1, <1>2, <1>6, MovedOwners
  <2>3. \A p \in N[current] \ MapOf[current] : both.bytes[p] = Zero
    BY <1>1, <1>2, <1>6, MovedOwners
  <2> QED BY <2>1, <2>2, <2>3, <1>1
<1>8. Told(out.sp, tab)
  <2>1. PICK tab1 : tab1 = SyncTable(table[current], out.sp, v.start, v.start + length)
    OBVIOUS
  <2>2. tab = SyncTable(tab1, out.sp, out.to, out.to + length)
    BY <2>1
  <2> QED BY <2>1, <2>2, <1>1, <1>2, MovedTable
<1>9. Holds(current, out.sp, tab, both, N, Made)
  BY <1>2, <1>1, <1>3, <1>6, <1>7, <1>8 DEF Holds
<1>10. \A p \in out.fill : p \in Nat /\ out.to + v.length <= p /\ p < out.to + length
  BY DEF Moves
<1>11. Swaps(N, v.start, v.length, out.to, length)
  <2>1. /\ \A p \in V : p \in MapOf[current] /\ p \notin N[current]
        /\ \A p \in S : p \notin MapOf[current] /\ p \in N[current]
        /\ \A p \in Nat : p \notin V /\ p \notin S
             => (p \in N[current] <=> p \in MapOf[current])
    <3> HIDE DEF V, S
    <3> QED BY <1>4, <1>6, Zenon
  <2> QED BY <2>1, Zenon DEF Swaps
<1>12. Brought(both, N)
  BY <1>7, Zenon DEF Brought
<1>13. PICK len, start, to, sp, fill :
         len = v.length /\ start = v.start /\ to = out.to /\ sp = out.sp /\ fill = out.fill
  OBVIOUS
<1>14. Kept(sp, tab, r, N) /\ Carries(r, N)
  <2>1. /\ start \in Nat /\ len \in Nat \ {0} /\ len < length /\ to \in Nat /\ 1 <= start
        /\ start + length <= Limit /\ 1 <= to /\ to + length <= Ceiling
    BY <1>3, <1>13
  <2>2. Turns(MapOf, N, current, MappedRanges(sp)) /\ Swaps(N, start, len, to, length)
    BY <1>6, <1>11, <1>13, Zenon
  <2>3. Holds(current, sp, tab, both, N, Made)
    BY <1>9, <1>13, Zenon
  <2>4. Puts(r, both, start, len, to, length, fill)
    BY <1>10, <1>13, Zenon DEF Puts
  <2> QED BY <2>1, <2>2, <2>3, <2>4, <1>12, CarriedAwayIs
<1> QED BY <1>13, <1>14, Zenon

\* mremap leaves everything in order, in place or moved.
LEMMA MremapIs ==
  ASSUME Tame, IInv, NEW v \in Mine.vmas, NEW length \in Lengths, NEW maymove \in BOOLEAN,
         Mremap(v, length, maymove)
  PROVE  Stepped
<1>1. Running
  BY DEF Mremap
<1>2. Tidy(Mine) /\ Mine \in Spaces
  BY <1>1, HoldsNow
<1>3. /\ length \in Nat \ {0} /\ v.start \in Nat /\ v.length \in Nat
      /\ v.start + length \in Nat /\ End(v) = v.start + v.length
  BY <1>2, MapsAre, RequestAssumption
<1>4. PICK out \in Remapped(Mine, v, length, maymove) :
         LET longer == IF length > v.length THEN length ELSE v.length
             kept   == Least2(length, v.length)
             first  == SyncOwners(Resident, current, out.sp, v.start, v.start + longer)
             both   == SyncOwners(first, current, out.sp, out.to, out.to + longer)
             Carried(p) == both.bytes[v.start + (p - out.to)]
             moved  == IF out.to = v.start THEN both
                       ELSE Put(both, Range2(out.to, out.to + kept), Carried)
         IN  /\ out.to + longer <= Limit /\ v.start + longer <= Limit
             /\ "holes" \in Wild \/ Range2(v.start, v.start + longer) \cap Heap(Mine) = {}
             /\ out.to = v.start => Growable(v, length)
             /\ Row(out.sp,
                    SyncTable(SyncTable(table[current], out.sp, v.start, v.start + longer),
                              out.sp, out.to, out.to + longer),
                    Zeroed(moved, out.fill))
  BY DEF Mremap
<1>5. PICK longer : longer = IF length > v.length THEN length ELSE v.length
  OBVIOUS
<1>6. PICK first : first = SyncOwners(Resident, current, out.sp, v.start, v.start + longer)
  OBVIOUS
<1>7. PICK both : both = SyncOwners(first, current, out.sp, out.to, out.to + longer)
  OBVIOUS
<1>8. PICK tab : tab = SyncTable(SyncTable(table[current], out.sp, v.start, v.start + longer),
                                 out.sp, out.to, out.to + longer)
  OBVIOUS
<1>9. /\ v.start + longer <= Limit
      /\ Range2(v.start, v.start + longer) \cap Heap(Mine) = {}
      /\ out.to = v.start => Growable(v, length)
  BY <1>4, <1>5 DEF Tame
<1>10. longer \in Nat
  BY <1>3, <1>5
<1>11. out.to = v.start => Row(out.sp, tab, Zeroed(both, out.fill))
  BY <1>4, <1>5, <1>6, <1>7, <1>8
<1>12. ASSUME Resizes(Mine, out, v, longer) PROVE Stepped
  <2>1. PICK r : r = Zeroed(both, out.fill)
    OBVIOUS
  <2>2. out.to = v.start /\ Row(out.sp, tab, r)
    BY <1>11, <1>12, <2>1 DEF Resizes
  <2>3. PICK hi : hi = v.start + longer
    OBVIOUS
  <2>4. /\ first = SyncOwners(Resident, current, out.sp, v.start, hi)
        /\ both = SyncOwners(first, current, out.sp, v.start, hi)
        /\ tab = SyncTable(SyncTable(table[current], out.sp, v.start, hi), out.sp, v.start, hi)
    BY <2>2, <2>3, <1>6, <1>7, <1>8
  <2>5. \E N : Kept(out.sp, tab, r, N) /\ Fills(r, N)
    BY <2>1, <2>3, <2>4, <1>1, <1>9, <1>10, <1>12, InPlaceIs
  <2> QED BY <2>2, <2>5 DEF Stepped
<1>13. CASE length <= v.length
  <2>1. out = Shrunk(Mine, v, length) /\ longer = v.length
    BY <1>3, <1>4, <1>5, <1>13 DEF Remapped
  <2>2. Resizes(Mine, out, v, longer)
    BY <2>1, <1>2, <1>3, <1>13, ShrunkIs
  <2> QED BY <2>2, <1>12
<1>14. CASE ~(length <= v.length) /\ out \in GrownInPlace(Mine, v, length)
  <2>1. longer = length /\ v.length < length
    BY <1>3, <1>5, <1>14
  <2>2. out.to = v.start
    BY <1>14 DEF GrownInPlace
  <2>3. /\ v.start + length <= Ceiling
        /\ \A f \in Mine.free :
           \/ Range2(End(v), v.start + length) \subseteq Range2(f[1], f[1] + f[2])
           \/ Range2(End(v), v.start + length) \cap Range2(f[1], f[1] + f[2]) = {}
    BY <2>2, <1>9 DEF Growable, Tame
  <2>4. Resizes(Mine, out, v, longer)
    BY <2>1, <2>3, <1>2, <1>3, <1>14, GrownIs
  <2> QED BY <2>4, <1>12
<1>15. CASE ~(length <= v.length) /\ out \in MovedAway(Mine, v, length)
  <2>1. longer = length /\ v.length < length
    BY <1>3, <1>5, <1>15
  <2>2. Moves(Mine, out, v, length)
    BY <2>1, <1>2, <1>3, <1>15, MovedIs
  <2>3. out.to # v.start
    <3>1. /\ v.start < End(v) /\ out.to \in Nat /\ out.to + length \in Nat
          /\ Apart(v.start, End(v), out.to, out.to + length)
      BY <2>2, <1>2, <1>3, MapsAre DEF Moves
    <3> QED BY <3>1, <1>3 DEF Apart
  <2>4. PICK b : b = [p \in Pages |-> IF p \in Range2(out.to, out.to + v.length)
                                     THEN both.bytes[v.start + (p - out.to)]
                                     ELSE both.bytes[p]]
    OBVIOUS
  <2>5. PICK moved : moved = [both EXCEPT !.bytes = b]
    OBVIOUS
  <2>6. PICK r : r = Zeroed(moved, out.fill)
    OBVIOUS
  <2>7. Row(out.sp, tab, r)
    <3>1. Least2(length, v.length) = v.length
      BY <2>1, <1>3 DEF Least2
    <3> QED BY <3>1, <2>3, <2>4, <2>5, <2>6, <1>4, <1>5, <1>6, <1>7, <1>8 DEF Put
  <2>8. Wrote(moved, both, b)
    BY <2>5 DEF Wrote
  <2>9. /\ first = SyncOwners(Resident, current, out.sp, v.start, v.start + length)
        /\ both = SyncOwners(first, current, out.sp, out.to, out.to + length)
        /\ tab = SyncTable(SyncTable(table[current], out.sp, v.start, v.start + length),
                           out.sp, out.to, out.to + length)
        /\ v.start + length <= Limit
        /\ Range2(v.start, v.start + length) \cap Heap(Mine) = {}
    BY <2>1, <1>6, <1>7, <1>8, <1>9
  <2>10. \E N : Kept(out.sp, tab, r, N) /\ Carries(r, N)
    BY <2>1, <2>2, <2>4, <2>6, <2>8, <2>9, <1>1, <1>3, MovedAwayIs
  <2> QED BY <2>7, <2>10 DEF Stepped
<1> QED BY <1>4, <1>13, <1>14, <1>15 DEF Remapped

\* Every row of a tame program leaves everything in order.
LEMMA RowsAre ==
  ASSUME Tame, IInv, Rows
  PROVE  Stepped
<1>1. ASSUME NEW to \in Pages, Brk(to) PROVE Stepped
  BY <1>1, BrkIs
<1>2. ASSUME NEW q \in Requests, Mmap(q) PROVE Stepped
  BY <1>2, MmapIs
<1>3. ASSUME NEW lo \in Pages, NEW length \in Lengths, Munmap(lo, length) PROVE Stepped
  BY <1>3, MunmapIs
<1>4. ASSUME NEW lo \in Pages, NEW length \in Lengths, NEW prot \in Prots,
             Mprotect(lo, length, prot)
      PROVE  Stepped
  BY <1>4, MprotectIs
<1>5. ASSUME NEW lo \in Pages, NEW length \in Lengths, NEW advice \in Advices,
             Madvise(lo, length, advice)
      PROVE  Stepped
  BY <1>5, MadviseIs
<1>6. ASSUME NEW v \in Mine.vmas, NEW length \in Lengths, NEW maymove \in BOOLEAN,
             Mremap(v, length, maymove)
      PROVE  Stepped
  BY <1>6, MremapIs
<1> QED BY <1>1, <1>2, <1>3, <1>4, <1>5, <1>6 DEF Rows

---------------------------------------------------------------------------
(* The steps of a process's life. *)

\* What the running process's step leaves of its own memory.
LEMMA SteppedIs ==
  ASSUME IInv, Running, Stepped
  PROVE  /\ IInv' /\ live' = live /\ current' = current
         /\ OthersSame(Resident, MapOf, Resident', MapOf', current)
         /\ Fills(Resident', MapOf') \/ Carries(Resident', MapOf')
<1>1. PICK sp, tab, r, N : Row(sp, tab, r) /\ Kept(sp, tab, r, N) /\ (Fills(r, N) \/ Carries(r, N))
  BY DEF Stepped
<1>2. /\ Holds(current, sp, tab, r, N, Made) /\ Turns(MapOf, N, current, MappedRanges(sp))
      /\ OthersSame(Resident, MapOf, r, N, current) /\ r.live = live
  BY <1>1 DEF Kept
<1>3. /\ space' = [space EXCEPT ![current] = sp] /\ table' = [table EXCEPT ![current] = tab]
      /\ Become(r) /\ current' = current
  BY <1>1 DEF Row
<1>4. IInv' /\ MapOf' = N /\ Resident' = r
  BY <1>2, <1>3, RowIs
<1> QED BY <1>1, <1>2, <1>3, <1>4 DEF Become

\* A store reaches a page the running process maps, and nothing else.
LEMMA StoreIs ==
  ASSUME IInv, NEW p \in Pages, NEW v \in Values, Store(p, v)
  PROVE  /\ IInv' /\ live' = live /\ current' = current /\ MapOf' = MapOf /\ Running
         /\ OthersSame(Resident, MapOf, Resident', MapOf', current)
         /\ p \in MapOf[current] /\ Resident'.bytes = [bytes EXCEPT ![p] = v]
<1>1. /\ Running /\ table[current][p] = "rw" /\ bytes' = [bytes EXCEPT ![p] = v]
      /\ space' = space /\ table' = table /\ owner' = owner /\ live' = live
      /\ displaced' = displaced /\ current' = current
  BY DEF Store
<1>2. /\ Holds(current, Mine, table[current], Resident, MapOf, Made)
      /\ current \in Tokens /\ Resident.live = live /\ Resident.bytes = bytes
      /\ Tidy(Mine) /\ Mine \in Spaces
  BY <1>1, HoldsNow
<1>3. /\ Keeps(Resident, MapOf, Made) /\ MapOf[current] = MappedRanges(Mine)
      /\ MapOf \in [Tokens -> SUBSET Pages] /\ Told(Mine, table[current])
  BY <1>2 DEF Holds, Keeps
<1>4. p \in MapOf[current]
  BY <1>1, <1>3 DEF Told, ToldAt, MappedRanges
<1>5. PICK b : b = [bytes EXCEPT ![p] = v]
  OBVIOUS
<1>6. b \in [Pages -> Contents] /\ \A x \in Pages \ MapOf[current] : b[x] = Resident.bytes[x]
  <2>1. bytes \in [Pages -> Contents] /\ v \in Contents
    BY <1>2, <1>3, ResidentsAre DEF Contents
  <2> QED BY <2>1, <1>2, <1>4, <1>5
<1>7. PICK r : r = [Resident EXCEPT !.bytes = b]
  OBVIOUS
<1>8. /\ Holds(current, Mine, table[current], r, MapOf, Made)
      /\ OthersSame(Resident, MapOf, r, MapOf, current) /\ r.live = live /\ r.bytes = b
  BY <1>2, <1>6, <1>7, WriteHolds
<1>9. Become(r)
  BY <1>1, <1>5, <1>7 DEF Become, Resident
<1>10. /\ space' = [space EXCEPT ![current] = Mine]
       /\ table' = [table EXCEPT ![current] = table[current]]
  BY <1>1 DEF IInv, Mine
<1>11. Turns(MapOf, MapOf, current, MappedRanges(Mine))
  BY <1>3 DEF Turns
<1>12. IInv' /\ MapOf' = MapOf /\ Resident' = r
  BY <1>1, <1>8, <1>9, <1>10, <1>11, RowIs
<1> QED BY <1>1, <1>4, <1>5, <1>8, <1>12

\* A switch brings back what others took: nobody reads anything else.
LEMMA SwitchIs ==
  ASSUME IInv, NEW t \in Tokens, Switch(t)
  PROVE  /\ IInv' /\ MapOf' = MapOf
         /\ \A u \in Tokens, p \in Pages :
              ReadAt(Resident', MapOf', u, p) = ReadAt(Resident, MapOf, u, p)
<1>1. /\ t \in live /\ current' = t /\ Become(Activate(Resident, t))
      /\ space' = space /\ table' = table
  BY DEF Switch
<1>2. PICK r : r = Activate(Resident, t)
  OBVIOUS
<1>3. Keeps(Resident, MapOf, Made) /\ Resident.live = live
  BY DEF IInv, Resident
<1>4. /\ Keeps(r, MapOf, Made) /\ Owns(r, t, MapOf) /\ r.live = live
      /\ \A u \in Tokens, p \in Pages : ReadAt(r, MapOf, u, p) = ReadAt(Resident, MapOf, u, p)
  BY <1>1, <1>2, <1>3, ActivateKeeps
<1>5. Resident' = r
  BY <1>1, <1>2, <1>4, Becomes
<1>6. Made' = Made /\ MapOf' = MapOf
  BY <1>1 DEF Made, MapOf
<1>7. live' = live
  BY <1>1, <1>2, <1>4 DEF Become
<1>8. t \in Made
  BY <1>1, <1>3, ResidentsAre
<1>9. IInv'
  BY <1>1, <1>4, <1>5, <1>6, <1>7, <1>8 DEF IInv
<1> QED BY <1>4, <1>5, <1>6, <1>9

\* An end takes one process's memory away and no byte of another's.
LEMMA FinishIs ==
  ASSUME IInv, NEW t \in Tokens, Finish(t)
  PROVE  /\ IInv' /\ MapOf' = MapOf /\ live' = live \ {t}
         /\ OthersSame(Resident, MapOf, Resident', MapOf', t)
<1>1. /\ t \in live /\ current' = current /\ Become(Retire(Resident, t))
      /\ space' = space /\ table' = table
  BY DEF Finish
<1>2. PICK r : r = Retire(Resident, t)
  OBVIOUS
<1>3. Keeps(Resident, MapOf, Made) /\ Resident.live = live
  BY DEF IInv, Resident
<1>4. /\ Keeps(r, MapOf, Made) /\ OthersSame(Resident, MapOf, r, MapOf, t)
      /\ r.live = live \ {t} /\ r.owner = Resident.owner
  BY <1>2, <1>3, RetireKeeps
<1>5. Resident' = r
  BY <1>1, <1>2, <1>4, Becomes
<1>6. Made' = Made /\ MapOf' = MapOf
  BY <1>1 DEF Made, MapOf
<1>7. live' = live \ {t}
  BY <1>1, <1>2, <1>4 DEF Become
<1>8. Running' => Owns(Resident', current', MapOf')
  BY <1>1, <1>4, <1>5, <1>6, <1>7 DEF Running, Owns, IInv
<1>9. IInv'
  BY <1>1, <1>4, <1>5, <1>6, <1>7, <1>8 DEF IInv
<1> QED BY <1>4, <1>5, <1>6, <1>7, <1>9

\* The next address space was never used.
LEMMA Next1Is ==
  ASSUME IInv, Unmade # {}
  PROVE  Next1 \in Tokens /\ Next1 \notin Made /\ Next1 # current
<1>1. Unmade \subseteq Nat
  BY MemoryAssumption DEF Unmade
<1>2. \E t \in Unmade : \A u \in Unmade : t <= u
  BY <1>1, LeastExists
<1>3. Next1 \in Unmade
  BY <1>2 DEF Next1
<1> QED BY <1>3 DEF Unmade, Made, IInv

\* A process is made in an address space of its own.
LEMMA MadeIs ==
  ASSUME IInv, NEW n \in Tokens \ Made, NEW sp, Tidy(sp), space' = [space EXCEPT ![n] = sp]
  PROVE  /\ Made' = Made \cup {n} /\ MapOf' = [MapOf EXCEPT ![n] = MappedRanges(sp)]
         /\ space' \in [Tokens -> Spaces \cup {Gone}] /\ space'[n] = sp
         /\ \A t \in Tokens : t # n => space'[t] = space[t]
         /\ \A t \in Made' : Tidy(space'[t])
<1>0. space \in [Tokens -> Spaces \cup {Gone}] /\ \A t \in Made : Tidy(space[t])
  BY DEF IInv
<1>1. sp \in Spaces /\ sp # Gone
  BY MemoryAssumption DEF Tidy
<1>2. /\ space' \in [Tokens -> Spaces \cup {Gone}] /\ space'[n] = sp
      /\ \A t \in Tokens : t # n => space'[t] = space[t]
  BY <1>0, <1>1
<1>3. Made' = Made \cup {n}
  BY <1>1, <1>2 DEF Made
<1>4. MapOf' = [MapOf EXCEPT ![n] = MappedRanges(sp)]
  <2>1. MapOf' = [t \in Tokens |-> IF space'[t] = Gone THEN {} ELSE MappedRanges(space'[t])]
    BY DEF MapOf
  <2>2. \A t \in Tokens : (IF space'[t] = Gone THEN {} ELSE MappedRanges(space'[t]))
                          = IF t = n THEN MappedRanges(sp) ELSE MapOf[t]
    <3> SUFFICES ASSUME NEW t \in Tokens
                 PROVE  (IF space'[t] = Gone THEN {} ELSE MappedRanges(space'[t]))
                        = IF t = n THEN MappedRanges(sp) ELSE MapOf[t]
      OBVIOUS
    <3>1. CASE t = n
      BY <3>1, <1>1, <1>2
    <3>2. CASE t # n
      BY <3>2, <1>2 DEF MapOf
    <3> QED BY <3>1, <3>2
  <2>3. [MapOf EXCEPT ![n] = MappedRanges(sp)]
        = [t \in Tokens |-> IF t = n THEN MappedRanges(sp) ELSE MapOf[t]]
    BY DEF MapOf
  <2> QED BY <2>1, <2>2, <2>3
<1>5. \A t \in Made' : Tidy(space'[t])
  BY <1>0, <1>2, <1>3 DEF Made
<1> QED BY <1>2, <1>3, <1>4, <1>5

\* A child reads what its parent reads, and nobody else notices.
LEMMA ForkIs ==
  ASSUME IInv, Fork
  PROVE  /\ IInv' /\ Running /\ Unmade # {} /\ live' = live \cup {Next1}
         /\ OthersSame(Resident, MapOf, Resident', MapOf', Next1)
         /\ \A p \in Pages : ReadAt(Resident', MapOf', Next1, p)
                             = ReadAt(Resident, MapOf, current, p)
<1>1. PICK n : n = Next1
  OBVIOUS
<1>2. /\ Running /\ Unmade # {} /\ space' = [space EXCEPT ![n] = Mine]
      /\ table' = [table EXCEPT ![n] = table[current]] /\ current' = current
      /\ Become(CopyFor(NewToken(Resident, n), n, MappedRanges(Mine)))
  BY <1>1 DEF Fork
<1>3. n \in Tokens /\ n \notin Made /\ n # current
  BY <1>1, <1>2, Next1Is
<1>4. /\ Holds(current, Mine, table[current], Resident, MapOf, Made)
      /\ current \in Tokens /\ Resident.live = live /\ Tidy(Mine)
  BY <1>2, HoldsNow
<1>5. /\ Keeps(Resident, MapOf, Made) /\ MapOf[current] = MappedRanges(Mine)
      /\ Owns(Resident, current, MapOf) /\ current \in Resident.live
      /\ MapOf \in [Tokens -> SUBSET Pages] /\ Told(Mine, table[current])
      /\ live \subseteq Made
  BY <1>4, ResidentsAre DEF Holds, Keeps
<1>6. PICK r : r = CopyFor(NewToken(Resident, n), n, MapOf[current])
  OBVIOUS
<1>7. PICK N : N = [MapOf EXCEPT ![n] = MapOf[current]]
  OBVIOUS
<1>8. /\ Made' = Made \cup {n} /\ MapOf' = N
      /\ space' \in [Tokens -> Spaces \cup {Gone}] /\ space'[n] = Mine
      /\ \A t \in Tokens : t # n => space'[t] = space[t]
      /\ \A t \in Made' : Tidy(space'[t])
  BY <1>2, <1>3, <1>4, <1>5, <1>7, MadeIs
<1>9. /\ N \in [Tokens -> SUBSET Pages] /\ N[n] = MapOf[current]
      /\ \A u \in Tokens : u # n => N[u] = MapOf[u]
  BY <1>3, <1>4, <1>5, <1>7
<1>10. /\ Keeps(r, N, Made \cup {n}) /\ Owns(r, current, N)
       /\ OthersSame(Resident, MapOf, r, N, n)
       /\ \A p \in Pages : ReadAt(r, N, n, p) = ReadAt(Resident, MapOf, current, p)
       /\ r.live = Resident.live \cup {n}
  <2>1. Forked(Resident, MapOf, r, N, Made, current, n)
    BY <1>3, <1>5, <1>6, <1>9, ForkKeeps
  <2> QED BY <2>1 DEF Forked
<1>12. Become(r)
  BY <1>2, <1>5, <1>6
<1>13. Resident' = r
  BY <1>10, <1>12, Becomes
<1>14. live' = live \cup {n}
  BY <1>4, <1>10, <1>12 DEF Become
<1>15. /\ table' \in [Tokens -> [Pages -> Accesses]] /\ table'[n] = table[current]
       /\ \A t \in Tokens : t # n => table'[t] = table[t]
  BY <1>2, <1>3, <1>4 DEF IInv
<1>16. \A t \in live' : Told(space'[t], table'[t])
  <2>1. \A t \in live : t \in Tokens /\ t # n /\ Told(space[t], table[t])
    BY <1>3, <1>5 DEF IInv, Made
  <2> QED BY <2>1, <1>5, <1>8, <1>14, <1>15
<1>17. IInv'
  BY <1>2, <1>8, <1>10, <1>13, <1>15, <1>16 DEF IInv
<1> QED BY <1>1, <1>2, <1>8, <1>10, <1>13, <1>14, <1>17

---------------------------------------------------------------------------
(* Loading a program. *)

\* Where the process n, being made over the memory (r, M, made), has come to.
BuildsWith(sp, tab, q, N, n, r, M, made) ==
  /\ Turns(M, N, n, MappedRanges(sp)) /\ Holds(n, sp, tab, q, N, made \cup {n})
  /\ OthersSame(r, M, q, N, n) /\ q.live = r.live \cup {n}
  /\ sp.brk = sp.start
  /\ \A p \in N[n] : q.bytes[p] \in Appearing

Builds(m, n, r, M, made) == \E N : BuildsWith(m.sp, m.tab, m.r, N, n, r, M, made)

\* Before its first brk a program has no heap.
LEMMA HeapIsEmpty ==
  ASSUME NEW sp \in Spaces, sp.brk = sp.start
  PROVE  Heap(sp) = {}
BY SpaceIs DEF Heap, Range2

\* reserve_space starts a space in order.
LEMMA ReservedBuilds ==
  ASSUME NEW r, NEW M, NEW made, Keeps(r, M, made), NEW n \in Tokens \ made
  PROVE  Builds(Reserved(r, n), n, r, M, made)
<1>1. PICK start : start = ChosenStart(Crowded(r))
  OBVIOUS
<1>2. PICK sp : sp = Fresh(start)
  OBVIOUS
<1>3. start \in Nat /\ Base <= start
  BY <1>1, ChosenStartIs
<1>4. Tidy(sp) /\ sp.vmas = {} /\ sp.start = start /\ sp.brk = start /\ sp \in Spaces
  BY <1>2, <1>3, FreshIs DEF Tidy
<1>5. MappedPages(sp) = {} /\ Heap(sp) = {} /\ MappedRanges(sp) = {}
  <2>1. MappedPages(sp) = {}
    BY <1>4 DEF MappedPages
  <2> QED BY <2>1, <1>4, HeapIsEmpty DEF MappedRanges
<1>6. PICK q : q = NewToken(r, n)
  OBVIOUS
<1>7. PICK N : N = [M EXCEPT ![n] = {}]
  OBVIOUS
<1>8. N \in [Tokens -> SUBSET Pages] /\ N[n] = {} /\ \A u \in Tokens : u # n => N[u] = M[u]
  BY <1>7 DEF Keeps
<1>9. /\ Keeps(q, N, made \cup {n}) /\ Owns(q, n, N) /\ OthersSame(r, M, q, N, n)
      /\ q.live = r.live \cup {n}
  BY <1>6, <1>8, NewTokenKeeps
<1>10. Told(sp, Unreachable)
  <2>1. Unreachable \in [Pages -> Accesses] /\ \A p \in Pages : Unreachable[p] = "none"
    BY NoneIsAWord DEF Unreachable
  <2>2. ASSUME NEW p \in Pages PROVE ToldAt(sp, Unreachable, p)
    BY <2>1, <1>4, <1>5 DEF ToldAt, Shows
  <2> QED BY <2>1, <2>2 DEF Told
<1>11. Holds(n, sp, Unreachable, q, N, made \cup {n})
  BY <1>4, <1>5, <1>8, <1>9, <1>10 DEF Holds
<1>12. Turns(M, N, n, MappedRanges(sp))
  BY <1>5, <1>8 DEF Turns
<1>13. BuildsWith(sp, Unreachable, q, N, n, r, M, made)
  BY <1>4, <1>8, <1>9, <1>11, <1>12 DEF BuildsWith
<1>14. PICK m : m = Reserved(r, n)
  OBVIOUS
<1>15. m.sp = sp /\ m.tab = Unreachable /\ m.r = q
  BY <1>1, <1>2, <1>6, <1>14 DEF Reserved
<1> QED BY <1>13, <1>14, <1>15 DEF Builds

\* A range is mapped, synchronised and written with zeros or the program's text.
LEMMA MapBuilds ==
  ASSUME NEW sp, NEW tab, NEW q, NEW N, NEW n, NEW r, NEW M, NEW made,
         BuildsWith(sp, tab, q, N, n, r, M, made),
         NEW out, NEW lo \in Nat, NEW hi \in Nat, NEW prot \in Accesses,
         Maps(sp, out, lo, hi, prot),
         NEW owned, owned = SyncOwners(q, n, out.sp, lo, hi),
         NEW tab2, tab2 = SyncTable(tab, out.sp, lo, hi)
  PROVE  \E L : /\ BuildsWith(out.sp, tab2, owned, L, n, r, M, made)
                /\ Range2(lo, hi) \subseteq L[n]
<1>1. /\ Turns(M, N, n, MappedRanges(sp)) /\ Holds(n, sp, tab, q, N, made \cup {n})
      /\ OthersSame(r, M, q, N, n) /\ q.live = r.live \cup {n} /\ sp.brk = sp.start
      /\ \A p \in N[n] : q.bytes[p] \in Appearing
  BY DEF BuildsWith
<1>2. /\ Tidy(out.sp) /\ Changes(sp, out.sp, lo, hi) /\ 1 <= lo /\ hi <= Ceiling
      /\ out.sp.brk = out.sp.start
  BY <1>1 DEF Maps, Changes
<1>3. sp \in Spaces /\ out.sp \in Spaces
  BY <1>1, <1>2 DEF Holds, Tidy
<1>4. hi <= Limit
  BY <1>2, SpaceAssumption
<1>5. Range2(lo, hi) \cap Heap(sp) = {}
  BY <1>1, <1>3, HeapIsEmpty
<1>6. PICK L : L = [N EXCEPT ![n] = MappedRanges(out.sp)]
  OBVIOUS
<1>7. n \in Tokens /\ N \in [Tokens -> SUBSET Pages]
  BY <1>1, ResidentsAre DEF Holds, Keeps
<1>8. MappedRanges(out.sp) \subseteq Pages
  BY <1>2, MappedInPages
<1>9. Turns(N, L, n, MappedRanges(out.sp)) /\ Turns(M, L, n, MappedRanges(out.sp))
  BY <1>1, <1>6, <1>7, <1>8 DEF Turns
<1>10. Holds(n, out.sp, tab2, owned, L, made \cup {n}) /\ Turned(q, N, owned, L, made \cup {n}, n)
  BY <1>1, <1>2, <1>4, <1>5, <1>9, SyncHolds
<1>11. OthersSame(r, M, owned, L, n) /\ owned.live = r.live \cup {n}
  BY <1>1, <1>10, OthersCompose DEF Turned
<1>12. \A p \in L[n] : owned.bytes[p] \in Appearing
  <2>1. Zero \in Appearing
    BY DEF Appearing
  <2> QED BY <2>1, <1>1, <1>10 DEF Turned
<1>13. BuildsWith(out.sp, tab2, owned, L, n, r, M, made)
  BY <1>2, <1>9, <1>10, <1>11, <1>12 DEF BuildsWith
<1>14. Range2(lo, hi) \subseteq L[n]
  BY <1>9, MapsCovers DEF Turns, MappedRanges
<1> QED BY <1>13, <1>14

\* The loader's writes go where the new process maps.
LEMMA WriteBuilds ==
  ASSUME NEW sp, NEW tab, NEW q, NEW N, NEW n, NEW r, NEW M, NEW made,
         BuildsWith(sp, tab, q, N, n, r, M, made),
         NEW P, P \subseteq N[n], NEW c \in Contents, c \in Appearing,
         NEW b, b = [p \in Pages |-> IF p \in P THEN c ELSE q.bytes[p]],
         NEW new, Wrote(new, q, b)
  PROVE  BuildsWith(sp, tab, new, N, n, r, M, made)
<1>1. /\ Turns(M, N, n, MappedRanges(sp)) /\ Holds(n, sp, tab, q, N, made \cup {n})
      /\ OthersSame(r, M, q, N, n) /\ q.live = r.live \cup {n} /\ sp.brk = sp.start
      /\ \A p \in N[n] : q.bytes[p] \in Appearing
  BY DEF BuildsWith
<1>2. n \in Tokens /\ N \in [Tokens -> SUBSET Pages] /\ q.bytes \in [Pages -> Contents]
  BY <1>1, ResidentsAre DEF Holds, Keeps
<1>3. /\ b \in [Pages -> Contents]
      /\ \A p \in Pages : b[p] = IF p \in P THEN c ELSE q.bytes[p]
  BY <1>2
<1>4. \A p \in Pages \ N[n] : b[p] = q.bytes[p]
  BY <1>3
<1>5. /\ Holds(n, sp, tab, new, N, made \cup {n}) /\ OthersSame(q, N, new, N, n)
      /\ new.live = q.live /\ new.bytes = b
  BY <1>1, <1>3, <1>4, WriteHolds DEF Wrote
<1>6. OthersSame(r, M, new, N, n)
  BY <1>1, <1>5 DEF OthersSame
<1>7. \A p \in N[n] : new.bytes[p] \in Appearing
  BY <1>1, <1>2, <1>3, <1>5
<1> QED BY <1>1, <1>5, <1>6, <1>7 DEF BuildsWith

Segments == [start : Nat \ {0}, length : Nat \ {0}, prot : Accesses]

\* place adds a segment to a space in order.
LEMMA PlacedBuilds ==
  ASSUME NEW r, NEW M, NEW made, NEW n, NEW m, Builds(m, n, r, M, made),
         NEW s \in Segments, s.start + s.length <= Base, NEW new \in Placed(m, n, s)
  PROVE  Builds(new, n, r, M, made)
<1>1. PICK N : BuildsWith(m.sp, m.tab, m.r, N, n, r, M, made)
  BY DEF Builds
<1>2. s.start \in Nat /\ s.length \in Nat \ {0} /\ s.prot \in Accesses
  BY DEF Segments
<1>3. PICK hi : hi = s.start + s.length
  OBVIOUS
<1>4. PICK q : q = Segment(n, s)
  OBVIOUS
<1>5. Asked(q) /\ q.hint = s.start /\ q.length = s.length /\ q.prot = s.prot
  <2>1. "anonymous" \in Backings
    BY DEF Backings
  <2>2. /\ q.hint = s.start /\ q.length = s.length /\ q.prot = s.prot
        /\ q.kind = "anonymous" /\ q.offset = 0
    BY <1>4 DEF Segment
  <2> QED BY <2>1, <2>2, <1>2 DEF Asked
<1>6. PICK out \in AtFixed(m.sp, q) :
        new = [sp |-> out.sp, tab |-> SyncTable(m.tab, out.sp, s.start, hi),
               r |-> Put(Zeroed(SyncOwners(m.r, n, out.sp, s.start, hi), PagesOf(s)),
                         PagesOf(s), TextOf)]
  BY <1>3, <1>4 DEF Placed
<1>7. Tidy(m.sp) /\ m.sp \in Spaces
  BY <1>1 DEF BuildsWith, Holds, Tidy
<1>8. OffTheHeap(m.sp, s.start, hi) /\ hi \in Nat
  <2>1. m.sp.start \in Nat /\ Base <= m.sp.start /\ Base \in Nat
    BY <1>7, SpaceIs, SpaceAssumption DEF Tidy, TidyHeap
  <2> QED BY <2>1, <1>2, <1>3 DEF OffTheHeap, Apart
<1>9. Maps(m.sp, out, s.start, hi, s.prot)
  <2>1. q.hint + q.length = hi /\ q.hint \in Nat
    BY <1>2, <1>3, <1>5
  <2>2. Maps(m.sp, out, q.hint, q.hint + q.length, q.prot)
    BY <2>1, <1>5, <1>6, <1>7, <1>8, AtFixedIs
  <2> QED BY <2>1, <2>2, <1>5
<1>10. PICK owned : owned = SyncOwners(m.r, n, out.sp, s.start, hi)
  OBVIOUS
<1>11. PICK tab2 : tab2 = SyncTable(m.tab, out.sp, s.start, hi)
  OBVIOUS
<1>12. PICK L : /\ BuildsWith(out.sp, tab2, owned, L, n, r, M, made)
                /\ Range2(s.start, hi) \subseteq L[n]
  BY <1>1, <1>2, <1>8, <1>9, <1>10, <1>11, MapBuilds
<1>13. PICK P : P = PagesOf(s)
  OBVIOUS
<1>14. P \subseteq L[n]
  BY <1>3, <1>12, <1>13 DEF PagesOf, End
<1>15. Zero \in Contents /\ Text \in Contents /\ Zero \in Appearing /\ Text \in Appearing
  BY DEF Contents, Appearing
<1>16. PICK b1 : b1 = [p \in Pages |-> IF p \in P THEN Zero ELSE owned.bytes[p]]
  OBVIOUS
<1>17. PICK blank : blank = Zeroed(owned, P)
  OBVIOUS
<1>18. Wrote(blank, owned, b1)
  BY <1>16, <1>17 DEF Wrote, Zeroed, Put, ZeroOf
<1>19. BuildsWith(out.sp, tab2, blank, L, n, r, M, made)
  BY <1>12, <1>14, <1>15, <1>16, <1>18, WriteBuilds
<1>20. PICK b2 : b2 = [p \in Pages |-> IF p \in P THEN Text ELSE blank.bytes[p]]
  OBVIOUS
<1>21. PICK last : last = Put(blank, P, TextOf)
  OBVIOUS
<1>22. Wrote(last, blank, b2)
  BY <1>20, <1>21 DEF Wrote, Put, TextOf
<1>23. BuildsWith(out.sp, tab2, last, L, n, r, M, made)
  BY <1>14, <1>15, <1>19, <1>20, <1>22, WriteBuilds
<1>24. new.sp = out.sp /\ new.tab = tab2 /\ new.r = last
  BY <1>6, <1>10, <1>11, <1>13, <1>17, <1>21
<1> QED BY <1>23, <1>24 DEF Builds

\* reserve_stack adds the stack to a space in order.
LEMMA StackedBuilds ==
  ASSUME NEW r, NEW M, NEW made, NEW n, NEW m, Builds(m, n, r, M, made),
         NEW new \in Stacked(m, n)
  PROVE  Builds(new, n, r, M, made)
<1>1. PICK N : BuildsWith(m.sp, m.tab, m.r, N, n, r, M, made)
  BY DEF Builds
<1>2. PICK q : q = StackRequest
  OBVIOUS
<1>3. Asked(q) /\ q.hint = 0 /\ q.length = StackPages /\ q.prot = "rw" /\ q.mode = "plain"
      /\ "rw" \in Accesses /\ StackPages \in Nat \ {0}
  <2>1. "anonymous" \in Backings /\ "rw" \in Accesses
    BY DEF Backings, Accesses
  <2>2. /\ q.hint = 0 /\ q.length = StackPages /\ q.prot = "rw" /\ q.mode = "plain"
        /\ q.kind = "anonymous" /\ q.offset = 0
    BY <1>2 DEF StackRequest
  <2> QED BY <2>1, <2>2, ProgramAssumption DEF Asked
<1>4. PICK out \in Mapped(m.sp, q) :
        new = [sp |-> out.sp, tab |-> SyncTable(m.tab, out.sp, out.at, out.at + StackPages),
               r |-> Zeroed(SyncOwners(m.r, n, out.sp, out.at, out.at + StackPages), out.fill)]
  BY <1>2 DEF Stacked
<1>5. Tidy(m.sp)
  BY <1>1 DEF BuildsWith, Holds
<1>6. out \in Anywhere(m.sp, q)
  BY <1>3, <1>4 DEF Mapped
<1>7. PICK lo \in Nat : Maps(m.sp, out, lo, lo + q.length, q.prot)
  BY <1>3, <1>5, <1>6, AnywhereIs
<1>8. PICK hi : hi = lo + StackPages
  OBVIOUS
<1>9. /\ Maps(m.sp, out, lo, hi, "rw") /\ hi \in Nat /\ out.at = lo
      /\ out.fill \subseteq Range2(lo, hi)
  BY <1>3, <1>7, <1>8 DEF Maps
<1>10. PICK owned : owned = SyncOwners(m.r, n, out.sp, lo, hi)
  OBVIOUS
<1>11. PICK tab2 : tab2 = SyncTable(m.tab, out.sp, lo, hi)
  OBVIOUS
<1>12. PICK L : /\ BuildsWith(out.sp, tab2, owned, L, n, r, M, made)
                /\ Range2(lo, hi) \subseteq L[n]
  BY <1>1, <1>3, <1>9, <1>10, <1>11, MapBuilds
<1>13. PICK P : P = out.fill
  OBVIOUS
<1>14. P \subseteq L[n] /\ Zero \in Contents /\ Zero \in Appearing
  BY <1>9, <1>12, <1>13 DEF Contents, Appearing
<1>15. PICK b : b = [p \in Pages |-> IF p \in P THEN Zero ELSE owned.bytes[p]]
  OBVIOUS
<1>16. PICK last : last = Zeroed(owned, P)
  OBVIOUS
<1>17. Wrote(last, owned, b)
  BY <1>15, <1>16 DEF Wrote, Zeroed, Put, ZeroOf
<1>18. BuildsWith(out.sp, tab2, last, L, n, r, M, made)
  BY <1>12, <1>14, <1>15, <1>17, WriteBuilds
<1>19. new.sp = out.sp /\ new.tab = tab2 /\ new.r = last
  BY <1>4, <1>8, <1>9, <1>10, <1>11, <1>13, <1>16
<1> QED BY <1>18, <1>19 DEF Builds

\* The segments are placed one after the other: what Loading's equation says.
PlaceEach(S, n, s) == UNION {Placed(m, n, s) : m \in S}

LoadsTo(r, n, program, j) ==
  \E h : h = [k \in 0 .. j |-> IF k = 0 THEN {Reserved(r, n)}
                               ELSE PlaceEach(h[k - 1], n, program[k])]

\* The loader's recursion has a value, however far it goes.
LEMMA LoadingExists ==
  ASSUME NEW r, NEW n, NEW program, Len(program) \in Nat, NEW j \in 0 .. Len(program)
  PROVE  LoadsTo(r, n, program, j)
<1> DEFINE P(i) == LoadsTo(r, n, program, i)
           Bad == {i \in 0 .. Len(program) : ~P(i)}
<1>1. P(0)
  <2> DEFINE h == [k \in 0 .. 0 |-> {Reserved(r, n)}]
  <2>1. h = [k \in 0 .. 0 |-> IF k = 0 THEN {Reserved(r, n)}
                              ELSE PlaceEach(h[k - 1], n, program[k])]
    OBVIOUS
  <2> QED BY <2>1 DEF LoadsTo
<1>2. ASSUME NEW i \in 0 .. Len(program), P(i), i + 1 \in 0 .. Len(program) PROVE P(i + 1)
  <2>1. PICK h : h = [k \in 0 .. i |-> IF k = 0 THEN {Reserved(r, n)}
                                       ELSE PlaceEach(h[k - 1], n, program[k])]
    BY <1>2 DEF LoadsTo
  <2>2. PICK top : top = PlaceEach(h[i], n, program[i + 1])
    OBVIOUS
  <2>3. PICK g : g = [k \in 0 .. i + 1 |-> IF k = i + 1 THEN top ELSE h[k]]
    OBVIOUS
  <2>4. \A k \in 0 .. i : g[k] = h[k] /\ h[k] = IF k = 0 THEN {Reserved(r, n)}
                                              ELSE PlaceEach(h[k - 1], n, program[k])
    <3> SUFFICES ASSUME NEW k \in 0 .. i
                 PROVE  g[k] = h[k] /\ h[k] = IF k = 0 THEN {Reserved(r, n)}
                                              ELSE PlaceEach(h[k - 1], n, program[k])
      OBVIOUS
    <3>1. g[k] = h[k]
      <4>1. k \in 0 .. i + 1 /\ k # i + 1
        OBVIOUS
      <4> QED BY <4>1, <2>3, Zenon
    <3>2. h[k] = IF k = 0 THEN {Reserved(r, n)} ELSE PlaceEach(h[k - 1], n, program[k])
      BY <2>1, Zenon
    <3> QED BY <3>1, <3>2
  <2>5. g[i + 1] = top
    BY <2>3
  <2>6. ASSUME NEW k \in 0 .. i + 1
        PROVE  g[k] = IF k = 0 THEN {Reserved(r, n)} ELSE PlaceEach(g[k - 1], n, program[k])
    <3>1. CASE k = i + 1
      <4>1. k - 1 = i /\ k # 0 /\ i \in 0 .. i
        BY <3>1
      <4> QED BY <4>1, <3>1, <2>2, <2>4, <2>5
    <3>2. CASE k # i + 1
      <4>1. k \in 0 .. i /\ (k # 0 => k - 1 \in 0 .. i)
        BY <3>2
      <4> QED BY <4>1, <2>4
    <3> QED BY <3>1, <3>2
  <2>7. g = [k \in 0 .. i + 1 |-> g[k]]
    BY <2>3
  <2>8. g = [k \in 0 .. i + 1 |-> IF k = 0 THEN {Reserved(r, n)}
                                  ELSE PlaceEach(g[k - 1], n, program[k])]
    BY <2>6, <2>7
  <2> QED BY <2>8 DEF LoadsTo
<1>3. Bad \subseteq Nat
  OBVIOUS
<1> HIDE DEF P
<1>4. Bad = {}
  <2> SUFFICES ASSUME Bad # {} PROVE FALSE
    OBVIOUS
  <2>1. PICK x \in Bad : \A y \in Bad : x <= y
    BY <1>3, LeastExists
  <2>2. x \in 0 .. Len(program) /\ ~P(x) /\ x # 0
    BY <2>1, <1>1
  <2>3. x - 1 \in 0 .. Len(program) /\ (x - 1) + 1 = x /\ x - 1 \notin Bad
    BY <2>1, <2>2
  <2>4. P(x - 1)
    BY <2>3
  <2> QED BY <2>2, <2>3, <2>4, <1>2
<1>5. P(j)
  BY <1>4
<1> QED BY <1>5 DEF P

\* The loader places its segments one after another.
LEMMA LoadingIs ==
  ASSUME NEW r, NEW n, NEW program, Len(program) \in Nat, NEW g, g = Loading(r, n, program)
  PROVE  g = [k \in 0 .. Len(program) |-> IF k = 0 THEN {Reserved(r, n)}
                                          ELSE PlaceEach(g[k - 1], n, program[k])]
<1>1. PICK h : h = [k \in 0 .. Len(program) |-> IF k = 0 THEN {Reserved(r, n)}
                                                ELSE PlaceEach(h[k - 1], n, program[k])]
  <2>1. Len(program) \in 0 .. Len(program)
    OBVIOUS
  <2>2. LoadsTo(r, n, program, Len(program))
    BY <2>1, LoadingExists
  <2> QED BY <2>2 DEF LoadsTo
<1>2. g = CHOOSE f : f = [k \in 0 .. Len(program) |->
                            IF k = 0 THEN {Reserved(r, n)}
                            ELSE UNION {Placed(m, n, program[k]) : m \in f[k - 1]}]
  BY DEF Loading
<1>3. h = [k \in 0 .. Len(program) |->
                            IF k = 0 THEN {Reserved(r, n)}
                            ELSE UNION {Placed(m, n, program[k]) : m \in h[k - 1]}]
  BY <1>1, Zenon DEF PlaceEach
<1>4. g = [k \in 0 .. Len(program) |->
                            IF k = 0 THEN {Reserved(r, n)}
                            ELSE UNION {Placed(m, n, program[k]) : m \in g[k - 1]}]
  BY <1>2, <1>3, Zenon
<1> QED BY <1>4, Zenon DEF PlaceEach

\* After any number of segments the new space is in order, and nobody else's
\* memory has moved.
LEMMA LoadingBuilds ==
  ASSUME NEW r, NEW M, NEW made, Keeps(r, M, made), NEW n \in Tokens \ made,
         NEW program \in Programs, NEW k \in 0 .. Len(program),
         NEW m \in Loading(r, n, program)[k]
  PROVE  Builds(m, n, r, M, made)
<1> DEFINE Good(i) == \A x \in Loading(r, n, program)[i] : Builds(x, n, r, M, made)
           Bad == {i \in 0 .. Len(program) : ~Good(i)}
<1>1. /\ Len(program) \in Nat
      /\ \A i \in 1 .. Len(program) :
           program[i] \in Segments /\ program[i].start + program[i].length <= Base
  <2>1. /\ program \in Seq(Segments)
        /\ \A i \in 1 .. Len(program) : program[i].start + program[i].length <= Base
    BY ProgramAssumption DEF Segments
  <2> QED BY <2>1
<1>2. PICK g : g = Loading(r, n, program)
  OBVIOUS
<1>3. g = [i \in 0 .. Len(program) |-> IF i = 0 THEN {Reserved(r, n)}
                                       ELSE PlaceEach(g[i - 1], n, program[i])]
  BY <1>1, <1>2, LoadingIs
<1>4. g[0] = {Reserved(r, n)}
  <2>1. 0 \in 0 .. Len(program)
    BY <1>1
  <2> QED BY <2>1, <1>3, Zenon
<1>5. Good(0)
  BY <1>2, <1>4, ReservedBuilds
<1>6. ASSUME NEW i \in 0 .. Len(program), Good(i), i + 1 \in 0 .. Len(program) PROVE Good(i + 1)
  <2>1. i + 1 # 0 /\ (i + 1) - 1 = i /\ i + 1 \in 1 .. Len(program)
    BY <1>6
  <2>2. g[i + 1] = PlaceEach(g[(i + 1) - 1], n, program[i + 1])
    BY <1>6, <2>1, <1>3, Zenon
  <2>3. g[i + 1] = PlaceEach(g[i], n, program[i + 1])
    BY <2>1, <2>2
  <2>4. ASSUME NEW x \in g[i + 1] PROVE Builds(x, n, r, M, made)
    <3>1. PICK y \in g[i] : x \in Placed(y, n, program[i + 1])
      BY <2>3, <2>4 DEF PlaceEach
    <3>2. Builds(y, n, r, M, made)
      BY <3>1, <1>2, <1>6
    <3>3. PICK s : s = program[i + 1]
      OBVIOUS
    <3>4. s \in Segments /\ s.start + s.length <= Base /\ x \in Placed(y, n, s)
      BY <3>1, <3>3, <2>1, <1>1
    <3> QED BY <3>2, <3>4, PlacedBuilds
  <2> QED BY <2>4, <1>2
<1>7. Bad \subseteq Nat
  OBVIOUS
<1> HIDE DEF Good
<1>8. Bad = {}
  <2> SUFFICES ASSUME Bad # {} PROVE FALSE
    OBVIOUS
  <2>1. PICK x \in Bad : \A y \in Bad : x <= y
    BY <1>7, LeastExists
  <2>2. x \in 0 .. Len(program) /\ ~Good(x) /\ x # 0
    BY <2>1, <1>5
  <2>3. x - 1 \in 0 .. Len(program) /\ (x - 1) + 1 = x /\ x - 1 \notin Bad
    BY <2>1, <2>2, <1>1
  <2>4. Good(x - 1)
    BY <2>3
  <2> QED BY <2>2, <2>3, <2>4, <1>6
<1>9. Good(k)
  BY <1>8
<1> QED BY <1>9 DEF Good

\* A loaded program's space is in order.
LEMMA LoadedBuilds ==
  ASSUME NEW r, NEW M, NEW made, Keeps(r, M, made), NEW n \in Tokens \ made,
         NEW program \in Programs, NEW m \in Loaded(r, n, program)
  PROVE  Builds(m, n, r, M, made)
<1>1. PICK x \in Loading(r, n, program)[Len(program)] : m \in Stacked(x, n)
  BY DEF Loaded
<1>2. Len(program) \in 0 .. Len(program)
  <2>1. program \in Seq([start : Nat \ {0}, length : Nat \ {0}, prot : Accesses])
    BY ProgramAssumption
  <2>2. Len(program) \in Nat
    BY <2>1
  <2> QED BY <2>2
<1>3. Builds(x, n, r, M, made)
  BY <1>1, <1>2, LoadingBuilds
<1> QED BY <1>1, <1>3, StackedBuilds

\* An execve that fails, wherever the load stopped, leaves every process
\* reading what it read: the displaced pages come back.
LEMMA ExecveFailsIs ==
  ASSUME IInv, NEW program \in Programs, ExecveFails(program)
  PROVE  /\ IInv' /\ live' = live
         /\ \A u \in Tokens, p \in Pages :
              ReadAt(Resident', MapOf', u, p) = ReadAt(Resident, MapOf, u, p)
<1>1. PICK n : n = Next1
  OBVIOUS
<1>2. Running /\ Unmade # {} /\ table' = table /\ current' = current
  BY DEF ExecveFails
<1>3. PICK k \in 0 .. Len(program) : \E m \in Loading(Resident, n, program)[k] :
         /\ space' = [space EXCEPT ![n] = m.sp]
         /\ Become(Activate(Retire(m.r, n), current))
  BY <1>1 DEF ExecveFails
<1>4. PICK m \in Loading(Resident, n, program)[k] :
         /\ space' = [space EXCEPT ![n] = m.sp]
         /\ Become(Activate(Retire(m.r, n), current))
  BY <1>3
<1>5. n \in Tokens \ Made /\ n # current /\ current \in Tokens
  BY <1>1, <1>2, Next1Is, HoldsNow
<1>6. Keeps(Resident, MapOf, Made) /\ Resident.live = live
  BY DEF IInv, Resident
<1>7. live \subseteq Made /\ n \notin live /\ current \in live
  BY <1>2, <1>5, <1>6, ResidentsAre DEF Running
<1>8. Builds(m, n, Resident, MapOf, Made)
  BY <1>4, <1>5, <1>6, LoadingBuilds
<1>9. PICK N : BuildsWith(m.sp, m.tab, m.r, N, n, Resident, MapOf, Made)
  BY <1>8 DEF Builds
<1>10. /\ Turns(MapOf, N, n, MappedRanges(m.sp)) /\ Tidy(m.sp)
       /\ Keeps(m.r, N, Made \cup {n})
       /\ OthersSame(Resident, MapOf, m.r, N, n) /\ m.r.live = live \cup {n}
  BY <1>6, <1>9 DEF BuildsWith, Holds
<1>11. /\ Made' = Made \cup {n} /\ MapOf' = [MapOf EXCEPT ![n] = MappedRanges(m.sp)]
       /\ space' \in [Tokens -> Spaces \cup {Gone}] /\ space'[n] = m.sp
       /\ \A t \in Tokens : t # n => space'[t] = space[t]
       /\ \A t \in Made' : Tidy(space'[t])
  BY <1>4, <1>5, <1>10, MadeIs
<1>12. MapOf' = N
  <2>1. /\ N \in [Tokens -> SUBSET Pages] /\ N[n] = MappedRanges(m.sp)
        /\ \A u \in Tokens : u # n => N[u] = MapOf[u]
    BY <1>10 DEF Turns
  <2>2. MapOf \in [Tokens -> SUBSET Pages]
    BY <1>6 DEF Keeps
  <2> QED BY <2>1, <2>2, <1>5, <1>11
<1>13. PICK q : q = Retire(m.r, n)
  OBVIOUS
<1>14. /\ Keeps(q, N, Made \cup {n}) /\ OthersSame(m.r, N, q, N, n)
       /\ q.live = (live \cup {n}) \ {n}
  BY <1>5, <1>10, <1>13, RetireKeeps
<1>15. q.live = live
  BY <1>7, <1>14
<1>16. PICK r : r = Activate(q, current)
  OBVIOUS
<1>17. /\ Keeps(r, N, Made \cup {n}) /\ Owns(r, current, N) /\ r.live = q.live
       /\ \A u \in Tokens, p \in Pages : ReadAt(r, N, u, p) = ReadAt(q, N, u, p)
  BY <1>7, <1>14, <1>15, <1>16, ActivateKeeps
<1>18. Resident' = r
  BY <1>4, <1>13, <1>16, <1>17, Becomes
<1>19. live' = live
  BY <1>4, <1>13, <1>15, <1>16, <1>17 DEF Become
<1>20. ASSUME NEW u \in Tokens, NEW p \in Pages
       PROVE  ReadAt(r, N, u, p) = ReadAt(Resident, MapOf, u, p)
  <2>1. CASE u = n
    <3>1. ReadAt(r, N, u, p) = Gone
      BY <2>1, <1>7, <1>15, <1>17 DEF ReadAt
    <3>2. ReadAt(Resident, MapOf, u, p) = Gone
      BY <2>1, <1>6, <1>7 DEF ReadAt
    <3> QED BY <3>1, <3>2
  <2>2. CASE u # n
    <3>1. ReadAt(m.r, N, u, p) = ReadAt(Resident, MapOf, u, p)
      BY <2>2, <1>10 DEF OthersSame
    <3>2. ReadAt(q, N, u, p) = ReadAt(m.r, N, u, p)
      BY <2>2, <1>14 DEF OthersSame
    <3> QED BY <3>1, <3>2, <1>17
  <2> QED BY <2>1, <2>2
<1>21. \A t \in live' : Told(space'[t], table'[t])
  <2>1. \A t \in live : t \in Tokens /\ t # n /\ Told(space[t], table[t])
    BY <1>7 DEF IInv, Made
  <2> QED BY <2>1, <1>2, <1>11, <1>19
<1>22. current' \in Made' /\ table' \in [Tokens -> [Pages -> Accesses]]
  BY <1>2, <1>11 DEF IInv
<1>23. Keeps(Resident', MapOf', Made') /\ Owns(Resident', current', MapOf')
  BY <1>2, <1>11, <1>12, <1>17, <1>18
<1>24. IInv'
  BY <1>11, <1>21, <1>22, <1>23 DEF IInv
<1> QED BY <1>12, <1>18, <1>19, <1>20, <1>24

\* An execve ends the old memory and moves no byte of a third process.
LEMMA ExecveIs ==
  ASSUME IInv, NEW program \in Programs, Execve(program)
  PROVE  /\ IInv' /\ Running /\ Unmade # {} /\ live' = (live \cup {Next1}) \ {current}
         /\ \A u \in Tokens \ {Next1, current}, p \in Pages :
              ReadAt(Resident', MapOf', u, p) = ReadAt(Resident, MapOf, u, p)
         /\ \A p \in Pages : ReadAt(Resident', MapOf', Next1, p) \in Appearing \cup {Gone}
<1>1. PICK n : n = Next1
  OBVIOUS
<1>2. Running /\ Unmade # {}
  BY DEF Execve
<1>3. PICK m \in Loaded(Resident, n, program) :
         /\ space' = [space EXCEPT ![n] = m.sp]
         /\ table' = [table EXCEPT ![n] = m.tab]
         /\ Become(Retire(m.r, current))
         /\ current' = n
  BY <1>1 DEF Execve
<1>4. n \in Tokens \ Made /\ n # current /\ current \in Tokens
  BY <1>1, <1>2, Next1Is, HoldsNow
<1>5. Keeps(Resident, MapOf, Made) /\ Resident.live = live
  BY DEF IInv, Resident
<1>6. live \subseteq Made /\ n \notin live /\ current \in live
  BY <1>2, <1>4, <1>5, ResidentsAre DEF Running
<1>7. Builds(m, n, Resident, MapOf, Made)
  BY <1>3, <1>4, <1>5, LoadedBuilds
<1>8. PICK N : BuildsWith(m.sp, m.tab, m.r, N, n, Resident, MapOf, Made)
  BY <1>7 DEF Builds
<1>9. /\ Turns(MapOf, N, n, MappedRanges(m.sp)) /\ Tidy(m.sp) /\ Told(m.sp, m.tab)
      /\ Keeps(m.r, N, Made \cup {n}) /\ Owns(m.r, n, N)
      /\ OthersSame(Resident, MapOf, m.r, N, n) /\ m.r.live = live \cup {n}
      /\ \A p \in N[n] : m.r.bytes[p] \in Appearing
  BY <1>5, <1>8 DEF BuildsWith, Holds
<1>10. /\ Made' = Made \cup {n} /\ MapOf' = [MapOf EXCEPT ![n] = MappedRanges(m.sp)]
       /\ space' \in [Tokens -> Spaces \cup {Gone}] /\ space'[n] = m.sp
       /\ \A t \in Tokens : t # n => space'[t] = space[t]
       /\ \A t \in Made' : Tidy(space'[t])
  BY <1>3, <1>4, <1>9, MadeIs
<1>11. MapOf' = N
  <2>1. /\ N \in [Tokens -> SUBSET Pages] /\ N[n] = MappedRanges(m.sp)
        /\ \A u \in Tokens : u # n => N[u] = MapOf[u]
    BY <1>9 DEF Turns
  <2>2. MapOf \in [Tokens -> SUBSET Pages]
    BY <1>5 DEF Keeps
  <2> QED BY <2>1, <2>2, <1>4, <1>10
<1>12. PICK r : r = Retire(m.r, current)
  OBVIOUS
<1>13. /\ Keeps(r, N, Made \cup {n}) /\ OthersSame(m.r, N, r, N, current)
       /\ r.live = (live \cup {n}) \ {current} /\ r.owner = m.r.owner /\ r.bytes = m.r.bytes
  BY <1>4, <1>9, <1>12, RetireKeeps
<1>14. Resident' = r
  BY <1>3, <1>12, <1>13, Becomes
<1>15. live' = (live \cup {n}) \ {current}
  BY <1>3, <1>12, <1>13 DEF Become
<1>16. Owns(r, n, N)
  BY <1>9, <1>13 DEF Owns
<1>17. ASSUME NEW u \in Tokens \ {n, current}, NEW p \in Pages
       PROVE  ReadAt(r, N, u, p) = ReadAt(Resident, MapOf, u, p)
  <2>1. ReadAt(m.r, N, u, p) = ReadAt(Resident, MapOf, u, p)
    BY <1>9 DEF OthersSame
  <2>2. ReadAt(r, N, u, p) = ReadAt(m.r, N, u, p)
    BY <1>13 DEF OthersSame
  <2> QED BY <2>1, <2>2
<1>18. ASSUME NEW p \in Pages PROVE ReadAt(r, N, n, p) \in Appearing \cup {Gone}
  BY <1>9, <1>13, <1>16 DEF ReadAt, Owns
<1>19. /\ table' \in [Tokens -> [Pages -> Accesses]] /\ table'[n] = m.tab
       /\ \A t \in Tokens : t # n => table'[t] = table[t]
  BY <1>3, <1>4, <1>9 DEF IInv, Told
<1>20. \A t \in live' : Told(space'[t], table'[t])
  <2>1. \A t \in live : t \in Tokens /\ t # n /\ Told(space[t], table[t])
    BY <1>6 DEF IInv, Made
  <2> QED BY <2>1, <1>9, <1>10, <1>15, <1>19
<1>21. current' \in Made'
  BY <1>3, <1>10
<1>22. Keeps(Resident', MapOf', Made') /\ Owns(Resident', current', MapOf')
  BY <1>3, <1>10, <1>11, <1>13, <1>14, <1>16
<1>23. IInv'
  BY <1>10, <1>19, <1>20, <1>21, <1>22 DEF IInv
<1> QED BY <1>1, <1>2, <1>11, <1>14, <1>15, <1>17, <1>18, <1>23

---------------------------------------------------------------------------
(* Every reachable state. *)

\* Before the first process nobody holds anything.
LEMMA EmptyKeeps ==
  ASSUME NEW M, M = [t \in Tokens |-> {}]
  PROVE  Keeps(Empty, M, {})
<1>1. PICK e : e = Empty
  OBVIOUS
<1>2. e = [owner |-> [p \in Pages |-> NoOne], live |-> {},
           displaced |-> [t \in Tokens |-> NoCopies], bytes |-> [p \in Pages |-> Zero]]
  BY <1>1 DEF Empty
<1>3. /\ e.owner = [p \in Pages |-> NoOne] /\ e.live = {}
      /\ e.displaced = [t \in Tokens |-> NoCopies] /\ e.bytes = [p \in Pages |-> Zero]
      /\ e = [owner |-> e.owner, live |-> e.live, displaced |-> e.displaced, bytes |-> e.bytes]
  BY <1>2
<1>4. NoCopies \in [Pages -> Contents \cup {NoCopy}] /\ Zero \in Contents
  BY DEF NoCopies, Contents
<1>5. e \in Residents({})
  <2>1. e.owner \in [Pages -> {} \cup {NoOne}]
    BY <1>3
  <2>2. e.displaced \in [Tokens -> [Pages -> Contents \cup {NoCopy}]]
    BY <1>3, <1>4
  <2>3. e.bytes \in [Pages -> Contents]
    BY <1>3, <1>4
  <2> QED BY <2>1, <2>2, <2>3, <1>3 DEF Residents
<1>6. M \in [Tokens -> SUBSET Pages]
  OBVIOUS
<1>7. \A t \in Tokens \ e.live : e.displaced[t] = NoCopies
  BY <1>3
<1> QED BY <1>1, <1>3, <1>5, <1>6, <1>7 DEF Keeps

\* A container starts in order, with one process.
LEMMA InitIs ==
  ASSUME Init
  PROVE  /\ IInv /\ current \in Tokens
         /\ \A p \in Pages : ReadAt(Resident, MapOf, current, p) \in Appearing \cup {Gone}
         /\ \A u \in Tokens \ {current}, p \in Pages : ReadAt(Resident, MapOf, u, p) = Gone
<1>1. PICK n : n = First
  OBVIOUS
<1>2. n \in Tokens
  <2>1. \E t \in Tokens : \A u \in Tokens : t <= u
    BY MemoryAssumption, LeastExists
  <2> QED BY <2>1, <1>1 DEF First
<1>3. PICK program \in Programs : \E m \in Loaded(Empty, n, program) :
         /\ space = [[t \in Tokens |-> Gone] EXCEPT ![n] = m.sp]
         /\ table = [[t \in Tokens |-> Unreachable] EXCEPT ![n] = m.tab]
         /\ owner = m.r.owner /\ live = m.r.live
         /\ displaced = m.r.displaced /\ bytes = m.r.bytes
  BY <1>1 DEF Init
<1>4. PICK m \in Loaded(Empty, n, program) :
         /\ space = [[t \in Tokens |-> Gone] EXCEPT ![n] = m.sp]
         /\ table = [[t \in Tokens |-> Unreachable] EXCEPT ![n] = m.tab]
         /\ owner = m.r.owner /\ live = m.r.live
         /\ displaced = m.r.displaced /\ bytes = m.r.bytes
  BY <1>3
<1>5. current = n
  BY <1>1 DEF Init
<1>6. PICK M : M = [t \in Tokens |-> {}]
  OBVIOUS
<1>7. Keeps(Empty, M, {}) /\ Empty.live = {}
  BY <1>6, EmptyKeeps DEF Empty
<1>8. PICK N : BuildsWith(m.sp, m.tab, m.r, N, n, Empty, M, {})
  <2>1. n \in Tokens \ {}
    BY <1>2
  <2>2. Builds(m, n, Empty, M, {})
    BY <2>1, <1>4, <1>7, LoadedBuilds
  <2> QED BY <2>2 DEF Builds
<1>9. /\ Turns(M, N, n, MappedRanges(m.sp)) /\ Tidy(m.sp) /\ Told(m.sp, m.tab)
      /\ Keeps(m.r, N, {n}) /\ Owns(m.r, n, N) /\ m.r.live = {n}
      /\ \A p \in N[n] : m.r.bytes[p] \in Appearing
  <2>1. {} \cup {n} = {n}
    OBVIOUS
  <2> QED BY <2>1, <1>7, <1>8 DEF BuildsWith, Holds
<1>10. m.sp \in Spaces /\ m.sp # Gone
  BY <1>9, MemoryAssumption DEF Tidy
<1>11. /\ space \in [Tokens -> Spaces \cup {Gone}] /\ space[n] = m.sp
       /\ \A t \in Tokens : t # n => space[t] = Gone
  BY <1>2, <1>4, <1>10
<1>12. table \in [Tokens -> [Pages -> Accesses]] /\ table[n] = m.tab
  <2>1. Unreachable \in [Pages -> Accesses] /\ m.tab \in [Pages -> Accesses]
    BY <1>9, NoneIsAWord DEF Unreachable, Told
  <2> QED BY <2>1, <1>2, <1>4
<1>13. Made = {n}
  BY <1>2, <1>10, <1>11 DEF Made
<1>14. MapOf = N
  <2>1. N \in [Tokens -> SUBSET Pages] /\ N[n] = MappedRanges(m.sp)
        /\ \A t \in Tokens : t # n => N[t] = {}
    BY <1>6, <1>9 DEF Turns
  <2>2. \A t \in Tokens : N[t] = IF space[t] = Gone THEN {} ELSE MappedRanges(space[t])
    BY <2>1, <1>10, <1>11
  <2> QED BY <2>1, <2>2 DEF MapOf
<1>15. Resident = m.r
  BY <1>4, <1>9, ResidentsAre DEF Resident
<1>16. live = {n}
  BY <1>4, <1>9
<1>17. IInv
  BY <1>5, <1>9, <1>11, <1>12, <1>13, <1>14, <1>15, <1>16 DEF IInv
<1>18. \A p \in Pages : ReadAt(m.r, N, n, p) \in Appearing \cup {Gone}
  BY <1>9 DEF ReadAt, Owns
<1>19. \A u \in Tokens \ {n}, p \in Pages : ReadAt(m.r, N, u, p) = Gone
  BY <1>9 DEF ReadAt
<1> QED BY <1>2, <1>5, <1>14, <1>15, <1>17, <1>18, <1>19

\* Doing nothing changes nothing.
LEMMA StutterIs ==
  ASSUME IInv, UNCHANGED vars
  PROVE  IInv' /\ MapOf' = MapOf /\ Resident' = Resident /\ live' = live /\ current' = current
<1>1. /\ space' = space /\ table' = table /\ owner' = owner /\ live' = live
      /\ displaced' = displaced /\ bytes' = bytes /\ current' = current
  BY DEF vars
<1>2. MapOf' = MapOf /\ Resident' = Resident /\ Made' = Made
  BY <1>1 DEF MapOf, Resident, Made
<1> QED BY <1>1, <1>2 DEF IInv, Running

\* Every step keeps the invariant.
LEMMA NextIs ==
  ASSUME Tame, IInv, [Next]_vars
  PROVE  IInv'
<1>1. CASE UNCHANGED vars
  BY <1>1, StutterIs
<1>2. CASE Running /\ rows < MaxRows /\ Rows
  BY <1>2, RowsAre, SteppedIs
<1>3. ASSUME NEW p \in Pages, NEW v \in Values, Store(p, v) PROVE IInv'
  BY <1>3, StoreIs
<1>4. ASSUME NEW t \in Tokens, Switch(t) PROVE IInv'
  BY <1>4, SwitchIs
<1>5. ASSUME NEW t \in Tokens, Finish(t) PROVE IInv'
  BY <1>5, FinishIs
<1>6. CASE Fork
  BY <1>6, ForkIs
<1>7. ASSUME NEW program \in Programs, Execve(program) PROVE IInv'
  BY <1>7, ExecveIs
<1>8. ASSUME NEW program \in Programs, ExecveFails(program) PROVE IInv'
  BY <1>8, ExecveFailsIs
<1> QED BY <1>1, <1>2, <1>3, <1>4, <1>5, <1>6, <1>7, <1>8 DEF Next

\* The invariant holds in every reachable state.
LEMMA InvariantHolds ==
  ASSUME Tame
  PROVE  Spec => []IInv
<1>1. Init => IInv
  BY InitIs
<1>2. IInv /\ [Next]_vars => IInv'
  BY NextIs
<1> QED BY <1>1, <1>2, PTL DEF Spec

\* The invariant says where every byte is.
LEMMA EveryByteFromInvariant ==
  ASSUME IInv
  PROVE  EveryByteHasAPlace
<1>1. /\ Keeps(Resident, MapOf, Made) /\ Resident.live = live /\ Resident.owner = owner
      /\ Resident.displaced = displaced
  BY DEF IInv, Resident
<1>2. live \subseteq Made /\ Made \subseteq Tokens
  BY <1>1, ResidentsAre DEF Made
<1>3. \A t \in live : MapOf[t] = MappedRanges(space[t])
  BY <1>2 DEF MapOf, Made
<1>4. Running => \A p \in MappedRanges(Mine) : owner[p] = current
  <2>1. Running => current \in live /\ MappedRanges(Mine) = MapOf[current]
    BY <1>3 DEF Running, Mine
  <2> QED BY <2>1, <1>1 DEF IInv, Owns
<1>5. \A p \in Pages : owner[p] \in live => p \in MappedRanges(space[owner[p]])
  BY <1>1, <1>3 DEF Keeps
<1>6. \A t \in live, p \in Pages :
         (displaced[t][p] # NoCopy) <=> (p \in MappedRanges(space[t]) /\ owner[p] # t)
  BY <1>1, <1>3 DEF Keeps
<1> QED BY <1>4, <1>5, <1>6 DEF EveryByteHasAPlace

\* A space in order, with a table that tells the same, is partitioned.
LEMMA PartitionFromTidy ==
  ASSUME NEW sp, Tidy(sp), NEW tab, Told(sp, tab)
  PROVE  /\ \A v, u \in sp.vmas : v # u => PagesOf(v) \cap PagesOf(u) = {}
         /\ \A f, g \in sp.free : f # g =>
              Range2(f[1], f[1] + f[2]) \cap Range2(g[1], g[1] + g[2]) = {}
         /\ \A f \in sp.free : Range2(f[1], f[1] + f[2]) \cap MappedRanges(sp) = {}
         /\ MappedPages(sp) \cap Heap(sp) = {}
         /\ \A p \in MappedPages(sp) : p < Ceiling
         /\ \A p \in Pages : tab[p] =
              IF p \in MappedPages(sp) THEN ProtAt(sp, p)
              ELSE IF p \in Heap(sp) THEN "rw" ELSE "none"
<1>0. sp \in Spaces /\ Pages \subseteq Nat
  BY DEF Tidy, Pages
<1>1. ASSUME NEW v \in sp.vmas, NEW u \in sp.vmas, v # u PROVE PagesOf(v) \cap PagesOf(u) = {}
  <2>1. Apart(v.start, End(v), u.start, End(u))
    BY <1>1 DEF Tidy, TidyMaps
  <2>2. v.start \in Nat /\ End(v) \in Nat /\ u.start \in Nat /\ End(u) \in Nat
    BY <1>0, MapsAre
  <2> QED BY <2>1, <2>2 DEF Apart, PagesOf, Range2
<1>2. ASSUME NEW f \in sp.free, NEW g \in sp.free, f # g
      PROVE  Range2(f[1], f[1] + f[2]) \cap Range2(g[1], g[1] + g[2]) = {}
  <2>1. f[1] + f[2] < g[1] \/ g[1] + g[2] < f[1]
    BY <1>2 DEF Tidy, TidyPool
  <2>2. f[1] \in Nat /\ f[1] + f[2] \in Nat /\ g[1] \in Nat /\ g[1] + g[2] \in Nat
    BY <1>0, PoolIs
  <2> QED BY <2>1, <2>2 DEF Range2
<1>3. ASSUME NEW f \in sp.free PROVE Range2(f[1], f[1] + f[2]) \cap MappedRanges(sp) = {}
  <2>1. f[1] \in Nat /\ f[2] \in Nat /\ f[1] + f[2] \in Nat
    BY <1>0, PoolIs
  <2>2. OffTheHeap(sp, f[1], f[1] + f[2])
    BY DEF Tidy, TidyPool
  <2>3. Range2(f[1], f[1] + f[2]) \cap Heap(sp) = {}
    BY <2>1, <2>2, OffTheHeapIs
  <2>4. ASSUME NEW v \in sp.vmas PROVE Range2(f[1], f[1] + f[2]) \cap PagesOf(v) = {}
    <3>1. f[2] = 0 \/ Apart(f[1], f[1] + f[2], v.start, End(v))
      BY DEF Tidy, PoolIsUnmapped
    <3>2. v.start \in Nat /\ End(v) \in Nat
      BY <1>0, MapsAre
    <3> QED BY <3>1, <3>2, <2>1 DEF Apart, PagesOf, Range2
  <2>5. Range2(f[1], f[1] + f[2]) \cap MappedPages(sp) = {}
    BY <2>4 DEF MappedPages
  <2> QED BY <2>3, <2>5 DEF MappedRanges
<1>4. MappedPages(sp) \cap Heap(sp) = {} /\ \A p \in MappedPages(sp) : p < Ceiling
  BY MappedInPages
<1>5. ASSUME NEW p \in Pages
      PROVE  tab[p] = IF p \in MappedPages(sp) THEN ProtAt(sp, p)
                      ELSE IF p \in Heap(sp) THEN "rw" ELSE "none"
  <2>1. ToldAt(sp, tab, p)
    BY DEF Told
  <2>2. CASE p \in MappedPages(sp)
    <3>1. PICK prot \in Accesses : Shows(sp, p, prot)
      BY <2>2, <1>0, MappedShows
    <3>2. ProtAt(sp, p) = prot
      BY <3>1, <1>0, ProtAtIs
    <3> QED BY <3>1, <3>2, <2>1, <2>2 DEF ToldAt
  <2>3. CASE p \notin MappedPages(sp)
    BY <2>1, <2>3 DEF ToldAt
  <2> QED BY <2>2, <2>3
<1> QED BY <1>1, <1>2, <1>3, <1>4, <1>5

\* The invariant says that every space is partitioned.
LEMMA PartitionFromInvariant ==
  ASSUME IInv
  PROVE  SpaceIsPartitioned
<1>1. live \subseteq Made
  BY ResidentsAre DEF IInv, Resident
<1>2. ASSUME NEW t \in live PROVE Tidy(space[t]) /\ Told(space[t], table[t])
  BY <1>1 DEF IInv
<1> QED BY <1>2, PartitionFromTidy DEF SpaceIsPartitioned

(* For any processes, programs and requests, and however many rows are     *)
(* made: the running process owns every page it maps, a live process maps  *)
(* what it owns, and a process holds a copy of exactly the pages it maps   *)
(* and does not own. These are the three invariants in the head comment of *)
(* resident.rs, for a program that unmaps and advises only what it mapped  *)
(* and leaves the heap to brk.                                             *)
THEOREM BytesHavePlaces ==
  ASSUME Tame
  PROVE  Spec => []EveryByteHasAPlace
<1>1. IInv => EveryByteHasAPlace
  BY EveryByteFromInvariant
<1>2. Spec => []IInv
  BY InvariantHolds
<1> QED BY <1>1, <1>2, PTL

(* For any sizes of arena, block and memory: the mappings of a process     *)
(* never overlap each other or its heap, the pool holds nothing mapped and *)
(* nothing twice, everything lies inside the block, and the page table     *)
(* says of every page what the tree says (space.rs, and sync_pages in      *)
(* mmap.rs).                                                               *)
THEOREM SpacesArePartitioned ==
  ASSUME Tame
  PROVE  Spec => []SpaceIsPartitioned
<1>1. IInv => SpaceIsPartitioned
  BY PartitionFromInvariant
<1>2. Spec => []IInv
  BY InvariantHolds
<1> QED BY <1>1, <1>2, PTL

---------------------------------------------------------------------------
(* The refinement: every process has a memory of its own. *)

Read(r, M, t) == [p \in Pages |-> ReadAt(r, M, t, p)]
Views   == [t \in Tokens |-> View(t)]
ViewsAre == Views = [t \in Tokens |-> Read(Resident, MapOf, t)]

\* What a process would read, as the lemmas put it.
LEMMA ViewsFromInvariant ==
  ASSUME IInv
  PROVE  ViewsAre
<1>1. /\ Resident.live = live /\ Resident.owner = owner /\ Resident.displaced = displaced
      /\ Resident.bytes = bytes
  BY DEF Resident
<1>2. live \subseteq Made
  BY <1>1, ResidentsAre DEF IInv
<1>3. ASSUME NEW t \in Tokens PROVE View(t) = Read(Resident, MapOf, t)
  <2>1. ASSUME NEW p \in Pages
        PROVE  (IF t \notin live \/ p \notin MappedRanges(space[t]) THEN Gone
                ELSE IF owner[p] = t THEN bytes[p] ELSE displaced[t][p])
               = ReadAt(Resident, MapOf, t, p)
    <3>1. CASE t \notin live
      BY <3>1, <1>1 DEF ReadAt
    <3>2. CASE t \in live
      <4>1. MapOf[t] = MappedRanges(space[t])
        BY <3>2, <1>2 DEF MapOf, Made
      <4> QED BY <4>1, <1>1, <3>2 DEF ReadAt
    <3> QED BY <3>1, <3>2
  <2> QED BY <2>1 DEF View, Read
<1> QED BY <1>3 DEF ViewsAre, Views

\* What a page reads as is Gone exactly where nothing is mapped.
LEMMA GoneIs ==
  ASSUME IInv, NEW t \in Tokens, NEW p \in Pages
  PROVE  ReadAt(Resident, MapOf, t, p) = Gone <=> (t \notin live \/ p \notin MapOf[t])
<1>1. /\ Keeps(Resident, MapOf, Made) /\ Resident.live = live
  BY DEF IInv, Resident
<1>2. Gone \notin Contents
  BY MemoryAssumption
<1>3. CASE t \notin live \/ p \notin MapOf[t]
  BY <1>3, <1>1 DEF ReadAt
<1>4. CASE t \in live /\ p \in MapOf[t]
  <2>1. CASE Resident.owner[p] = t
    <3>1. Resident.bytes[p] \in Contents
      BY <1>1, ResidentsAre
    <3> QED BY <3>1, <2>1, <1>1, <1>2, <1>4 DEF ReadAt
  <2>2. CASE Resident.owner[p] # t
    <3>1. Resident.displaced[t][p] # NoCopy
      BY <1>1, <1>4, <2>2 DEF Keeps
    <3>2. Resident.displaced[t][p] \in Contents \cup {NoCopy}
      BY <1>1, ResidentsAre
    <3> QED BY <3>1, <3>2, <2>2, <1>1, <1>2, <1>4 DEF ReadAt
  <2> QED BY <2>1, <2>2
<1> QED BY <1>3, <1>4

\* What the running process maps it reads where it lies.
LEMMA RunningReads ==
  ASSUME IInv, Running, NEW p \in Pages
  PROVE  /\ p \in MapOf[current] => /\ ReadAt(Resident, MapOf, current, p) = bytes[p]
                                    /\ bytes[p] # Gone
         /\ p \notin MapOf[current] => ReadAt(Resident, MapOf, current, p) = Gone
<1>1. /\ Resident.live = live /\ current \in Tokens /\ Resident.bytes = bytes
      /\ Owns(Resident, current, MapOf) /\ Keeps(Resident, MapOf, Made)
  BY HoldsNow DEF IInv
<1>2. bytes[p] \in Contents /\ Gone \notin Contents
  BY <1>1, ResidentsAre, MemoryAssumption
<1> QED BY <1>1, <1>2 DEF ReadAt, Owns, Running

\* Gone, Zero and the bytes of files and programs are what may appear.
LEMMA NewIs == PM!New = Appearing
BY DEF PM!New, Appearing

\* A step after which only one process reads anything else, in one of the
\* ways a process may change its own memory, is a step of the abstract memory.
LEMMA StepIsAlone ==
  ASSUME NEW A \in [Tokens -> [Pages -> Contents \cup {Gone}]],
         NEW B \in [Tokens -> [Pages -> Contents \cup {Gone}]],
         NEW t \in Tokens, Views = A, Views' = B,
         \A u \in Tokens \ {t} : B[u] = A[u],
         PM!Map(A[t], B[t]) \/ PM!Write(A[t], B[t]) \/ PM!Move(A[t], B[t])
  PROVE  PM!Next
<1>1. [u \in Tokens |-> View(u)] = A /\ [u \in Tokens |-> View(u)]' = B
  BY DEF Views
<1>2. PM!Alone(t)
  BY <1>1 DEF PM!Alone
<1> QED BY <1>2 DEF PM!Next

\* The types of what processes read, before and after.
Sights(r, M) == [t \in Tokens |-> Read(r, M, t)]

\* What a process reads is a byte, or Gone.
LEMMA SightsAre ==
  ASSUME NEW r, NEW M, NEW made, Keeps(r, M, made)
  PROVE  /\ Sights(r, M) \in [Tokens -> [Pages -> Contents \cup {Gone}]]
         /\ \A t \in Tokens, p \in Pages : Sights(r, M)[t][p] = ReadAt(r, M, t, p)
<1>1. ASSUME NEW t \in Tokens, NEW p \in Pages
      PROVE  ReadAt(r, M, t, p) \in Contents \cup {Gone}
  <2>1. /\ r.bytes[p] \in Contents /\ r.displaced[t][p] \in Contents \cup {NoCopy}
    BY ResidentsAre
  <2>2. t \in r.live /\ p \in M[t] /\ r.owner[p] # t => r.displaced[t][p] # NoCopy
    BY DEF Keeps
  <2> QED BY <2>1, <2>2 DEF ReadAt
<1>2. \A t \in Tokens : Read(r, M, t) \in [Pages -> Contents \cup {Gone}]
  BY <1>1 DEF Read
<1> QED BY <1>2 DEF Sights, Read

\* What the others read stays, and a page of the running process is one it
\* had, or shows what may appear: the abstract Map.
LEMMA FillsIsMap ==
  ASSUME IInv, IInv', Running, live' = live, current' = current, Fills(Resident', MapOf'),
         NEW old, NEW new,
         \A p \in Pages : /\ old[p] = ReadAt(Resident, MapOf, current, p)
                          /\ new[p] = ReadAt(Resident', MapOf', current, p)
  PROVE  PM!Map(old, new)
<1>1. current \in Tokens /\ current \in live
  BY DEF IInv, Made, Running
<1>2. Keeps(Resident', MapOf', Made') /\ Owns(Resident', current', MapOf') /\ Resident'.live = live'
  BY <1>1 DEF IInv, Running, Resident
<1>3. ASSUME NEW p \in Pages PROVE new[p] \in {old[p], Gone} \cup Appearing
  <2>1. CASE p \notin MapOf'[current]
    BY <2>1 DEF ReadAt
  <2>2. CASE p \in MapOf'[current]
    <3>1. new[p] = Resident'.bytes[p]
      BY <2>2, <1>1, <1>2 DEF ReadAt, Owns
    <3>2. CASE Resident'.bytes[p] \in Appearing
      BY <3>1, <3>2
    <3>3. CASE p \in MapOf[current] /\ Resident'.bytes[p] = bytes[p]
      <4>1. old[p] = bytes[p]
        BY <3>3, RunningReads
      <4> QED BY <3>1, <3>3, <4>1
    <3> QED BY <2>2, <3>2, <3>3 DEF Fills
  <2> QED BY <2>1, <2>2
<1> QED BY <1>3, NewIs DEF PM!Map

\* Bytes carried to where the process mapped nothing: the abstract Move.
LEMMA CarriesIsMove ==
  ASSUME IInv, IInv', Running, live' = live, current' = current, Carries(Resident', MapOf'),
         NEW old, NEW new,
         \A p \in Pages : /\ old[p] = ReadAt(Resident, MapOf, current, p)
                          /\ new[p] = ReadAt(Resident', MapOf', current, p)
  PROVE  PM!Move(old, new)
<1>1. current \in Tokens /\ current \in live
  BY DEF IInv, Made, Running
<1>2. Keeps(Resident', MapOf', Made') /\ Owns(Resident', current', MapOf') /\ Resident'.live = live'
      /\ Keeps(Resident, MapOf, Made)
  BY <1>1 DEF IInv, Running, Resident
<1>3. MapOf[current] \subseteq Pages /\ MapOf'[current] \subseteq Pages
  <2>1. MapOf \in [Tokens -> SUBSET Pages]
    BY <1>2 DEF Keeps
  <2>2. MapOf' \in [Tokens -> SUBSET Pages]
    BY <1>2 DEF Keeps
  <2>3. MapOf[current] \subseteq Pages
    BY <2>1, <1>1
  <2>4. MapOf'[current] \subseteq Pages
    BY <2>2, <1>1
  <2> QED BY <2>3, <2>4
<1>4. PICK b : b = Resident'.bytes
  OBVIOUS
<1>5. PICK S : S = MapOf[current]
  OBVIOUS
<1>6. PICK N : N = MapOf'[current]
  OBVIOUS
<1>7. ASSUME NEW p \in Pages
      PROVE  /\ p \in S => old[p] = bytes[p] /\ old[p] # Gone
             /\ p \notin S => old[p] = Gone
             /\ p \in N => new[p] = b[p] /\ new[p] # Gone
             /\ p \notin N => new[p] = Gone
  <2>1. /\ p \in S => old[p] = bytes[p] /\ old[p] # Gone
        /\ p \notin S => old[p] = Gone
    BY <1>5, RunningReads
  <2>2. b[p] \in Contents /\ Gone \notin Contents
    BY <1>2, <1>4, ResidentsAre, MemoryAssumption
  <2>3. p \in N => new[p] = b[p] /\ new[p] # Gone
    BY <2>2, <1>1, <1>2, <1>4, <1>6 DEF ReadAt, Owns
  <2>4. p \notin N => new[p] = Gone
    BY <1>6 DEF ReadAt
  <2> QED BY <2>1, <2>3, <2>4
<1>8. PICK from \in Pages, to \in Pages, many \in Pages :
        CarriesFrom(Resident', MapOf', from, to, many)
  BY DEF Carries
<1>9. PICK pages : pages = {p \in Pages : p >= to /\ p < to + many}
  OBVIOUS
<1>10. PICK left : left = {p \in Pages : p >= from /\ p < from + many}
  OBVIOUS
<1>11. /\ from \in S \ N /\ to \in N \ S
       /\ \A p \in pages : /\ from + (p - to) \in S /\ p \notin S
                           /\ p \in N /\ b[p] = bytes[from + (p - to)]
       /\ \A p \in left : p \notin N
       /\ \A p \in Pages \ (pages \cup left) :
            /\ p \in S => p \in N /\ b[p] = bytes[p]
            /\ p \in N \ S => b[p] = Zero
  BY <1>4, <1>5, <1>6, <1>8, <1>9, <1>10 DEF CarriesFrom
<1>12. \A p \in pages : from + (p - to) \in Pages /\ old[p] = Gone
  BY <1>3, <1>5, <1>7, <1>9, <1>11
<1>13. ASSUME NEW p \in Pages
       PROVE  new[p] = IF p \in pages THEN old[from + (p - to)]
                       ELSE IF p \in left THEN Gone
                       ELSE IF old[p] = Gone /\ new[p] # Gone THEN Zero
                       ELSE old[p]
  <2>1. CASE p \in pages
    <3>1. from + (p - to) \in S /\ p \in N /\ b[p] = bytes[from + (p - to)]
      BY <2>1, <1>11
    <3>2. old[from + (p - to)] = bytes[from + (p - to)]
      BY <3>1, <1>3, <1>5, <1>7
    <3> QED BY <3>1, <3>2, <2>1, <1>7
  <2>2. CASE p \notin pages /\ p \in left
    BY <2>2, <1>7, <1>11
  <2>3. CASE p \notin pages /\ p \notin left
    BY <2>3, <1>7, <1>11
  <2> QED BY <2>1, <2>2, <2>3
<1>14. from \in {p \in Pages : old[p] # Gone /\ new[p] = Gone}
       /\ to \in {p \in Pages : old[p] = Gone /\ new[p] # Gone}
  BY <1>7, <1>11
<1> QED BY <1>8, <1>9, <1>10, <1>12, <1>13, <1>14 DEF PM!Move

\* A step of one process alone, as the lemmas on steps describe it.
LEMMA AloneRefines ==
  ASSUME IInv, IInv', ViewsAre, ViewsAre', NEW t \in Tokens,
         OthersSame(Resident, MapOf, Resident', MapOf', t),
         \A old, new : (\A p \in Pages : /\ old[p] = ReadAt(Resident, MapOf, t, p)
                                         /\ new[p] = ReadAt(Resident', MapOf', t, p))
                       /\ old = Read(Resident, MapOf, t) /\ new = Read(Resident', MapOf', t)
                       => PM!Map(old, new) \/ PM!Write(old, new) \/ PM!Move(old, new)
  PROVE  PM!Next
<1>1. Keeps(Resident, MapOf, Made) /\ Keeps(Resident', MapOf', Made')
  BY DEF IInv
<1>2. PICK A : A = Sights(Resident, MapOf)
  OBVIOUS
<1>3. PICK B : B = Sights(Resident', MapOf')
  OBVIOUS
<1>4. /\ A \in [Tokens -> [Pages -> Contents \cup {Gone}]]
      /\ \A u \in Tokens, p \in Pages : A[u][p] = ReadAt(Resident, MapOf, u, p)
  BY <1>1, <1>2, SightsAre
<1>5. /\ B \in [Tokens -> [Pages -> Contents \cup {Gone}]]
      /\ \A u \in Tokens, p \in Pages : B[u][p] = ReadAt(Resident', MapOf', u, p)
  BY <1>1, <1>3, SightsAre
<1>6. Views = A /\ Views' = B
  BY <1>2, <1>3 DEF ViewsAre, Sights
<1>7. ASSUME NEW u \in Tokens \ {t} PROVE B[u] = A[u]
  <2>1. \A p \in Pages : B[u][p] = A[u][p]
    BY <1>4, <1>5 DEF OthersSame
  <2> QED BY <2>1, <1>4, <1>5
<1>8. A[t] = Read(Resident, MapOf, t) /\ B[t] = Read(Resident', MapOf', t)
  BY <1>2, <1>3 DEF Sights
<1>9. PM!Map(A[t], B[t]) \/ PM!Write(A[t], B[t]) \/ PM!Move(A[t], B[t])
  BY <1>4, <1>5, <1>8
<1> QED BY <1>4, <1>5, <1>6, <1>7, <1>9, StepIsAlone

\* A row.
LEMMA SteppedRefines ==
  ASSUME IInv, ViewsAre, ViewsAre', Running, Stepped
  PROVE  PM!Next
<1>1. /\ IInv' /\ live' = live /\ current' = current
      /\ OthersSame(Resident, MapOf, Resident', MapOf', current)
      /\ Fills(Resident', MapOf') \/ Carries(Resident', MapOf')
  BY SteppedIs
<1>2. current \in Tokens
  BY DEF IInv, Made
<1>3. ASSUME NEW old, NEW new,
             \A p \in Pages : /\ old[p] = ReadAt(Resident, MapOf, current, p)
                              /\ new[p] = ReadAt(Resident', MapOf', current, p)
      PROVE  PM!Map(old, new) \/ PM!Move(old, new)
  <2>1. CASE Fills(Resident', MapOf')
    BY <2>1, <1>1, <1>3, FillsIsMap
  <2>2. CASE Carries(Resident', MapOf')
    BY <2>2, <1>1, <1>3, CarriesIsMove
  <2> QED BY <2>1, <2>2, <1>1
<1> QED BY <1>1, <1>2, <1>3, AloneRefines

\* A store.
LEMMA StoreRefines ==
  ASSUME IInv, ViewsAre, ViewsAre', NEW p \in Pages, NEW v \in Values, Store(p, v)
  PROVE  PM!Next
<1>1. /\ IInv' /\ live' = live /\ current' = current /\ MapOf' = MapOf /\ Running
      /\ OthersSame(Resident, MapOf, Resident', MapOf', current)
      /\ p \in MapOf[current] /\ Resident'.bytes = [bytes EXCEPT ![p] = v]
  BY StoreIs
<1>2. current \in Tokens /\ bytes \in [Pages -> Contents]
  <2>1. Resident.bytes = bytes /\ Keeps(Resident, MapOf, Made) /\ current \in Tokens
    BY DEF IInv, Made, Resident
  <2> QED BY <2>1, ResidentsAre
<1>3. /\ Keeps(Resident', MapOf', Made') /\ Owns(Resident', current, MapOf')
      /\ Resident'.live = live
  BY <1>1 DEF IInv, Running, Resident
<1>4. PICK b : b = Resident'.bytes
  OBVIOUS
<1>5. \A x \in Pages : b[x] = IF x = p THEN v ELSE bytes[x]
  BY <1>1, <1>2, <1>4
<1>6. ASSUME NEW old, NEW new,
             \A x \in Pages : /\ old[x] = ReadAt(Resident, MapOf, current, x)
                              /\ new[x] = ReadAt(Resident', MapOf', current, x),
             old = Read(Resident, MapOf, current), new = Read(Resident', MapOf', current)
      PROVE  PM!Write(old, new)
  <2>1. old[p] # Gone
    BY <1>1, <1>6, RunningReads
  <2>2. ASSUME NEW x \in Pages PROVE new[x] = IF x = p THEN v ELSE old[x]
    <3>1. CASE x \in MapOf[current]
      <4>1. new[x] = b[x]
        BY <3>1, <1>1, <1>3, <1>4, <1>6 DEF ReadAt, Owns, Running
      <4>2. old[x] = bytes[x]
        BY <3>1, <1>1, <1>6, RunningReads
      <4> QED BY <4>1, <4>2, <1>5
    <3>2. CASE x \notin MapOf[current]
      BY <3>2, <1>1, <1>6 DEF ReadAt
    <3> QED BY <3>1, <3>2
  <2>3. /\ old = [x \in Pages |-> old[x]] /\ new = [x \in Pages |-> new[x]]
    BY <1>6 DEF Read
  <2>4. new = [old EXCEPT ![p] = v]
    BY <2>2, <2>3
  <2> QED BY <2>1, <2>4 DEF PM!Write
<1> QED BY <1>1, <1>2, <1>6, AloneRefines

\* An end.
LEMMA FinishRefines ==
  ASSUME IInv, ViewsAre, ViewsAre', NEW t \in Tokens, Finish(t)
  PROVE  PM!Next
<1>1. /\ IInv' /\ MapOf' = MapOf /\ live' = live \ {t}
      /\ OthersSame(Resident, MapOf, Resident', MapOf', t)
  BY FinishIs
<1>2. Resident'.live = live'
  BY DEF Resident
<1>3. ASSUME NEW old, NEW new,
             \A p \in Pages : new[p] = ReadAt(Resident', MapOf', t, p)
      PROVE  PM!Map(old, new)
  <2>1. \A p \in Pages : new[p] = Gone
    BY <1>1, <1>2, <1>3 DEF ReadAt
  <2> QED BY <2>1 DEF PM!Map
<1> QED BY <1>1, <1>3, AloneRefines

\* A switch, and an execve that fails, move nothing.
LEMMA SameRefines ==
  ASSUME IInv, IInv', ViewsAre, ViewsAre',
         \A u \in Tokens, p \in Pages :
           ReadAt(Resident', MapOf', u, p) = ReadAt(Resident, MapOf, u, p)
  PROVE  Views' = Views
BY Zenon DEF ViewsAre, Read

\* A process that was never made maps nothing.
LEMMA UnmadeReads ==
  ASSUME IInv, NEW n \in Tokens, n \notin Made, NEW p \in Pages
  PROVE  ReadAt(Resident, MapOf, n, p) = Gone
BY DEF ReadAt, MapOf, Made

\* A fork.
LEMMA ForkRefines ==
  ASSUME IInv, ViewsAre, ViewsAre', Fork
  PROVE  PM!Next
<1>1. PICK n : n = Next1
  OBVIOUS
<1>2. /\ IInv' /\ Running /\ Unmade # {}
      /\ OthersSame(Resident, MapOf, Resident', MapOf', n)
      /\ \A p \in Pages : ReadAt(Resident', MapOf', n, p) = ReadAt(Resident, MapOf, current, p)
  BY <1>1, ForkIs
<1>3. n \in Tokens \ {current} /\ n \notin Made /\ current \in Tokens
  BY <1>1, <1>2, Next1Is DEF IInv, Made
<1>4. PICK A : A = Sights(Resident, MapOf)
  OBVIOUS
<1>5. PICK B : B = Sights(Resident', MapOf')
  OBVIOUS
<1>6. Keeps(Resident, MapOf, Made) /\ Keeps(Resident', MapOf', Made')
  BY <1>2 DEF IInv
<1>7. /\ A \in [Tokens -> [Pages -> Contents \cup {Gone}]]
      /\ \A u \in Tokens, p \in Pages : A[u][p] = ReadAt(Resident, MapOf, u, p)
  BY <1>6, <1>4, SightsAre
<1>8. /\ B \in [Tokens -> [Pages -> Contents \cup {Gone}]]
      /\ \A u \in Tokens, p \in Pages : B[u][p] = ReadAt(Resident', MapOf', u, p)
  BY <1>6, <1>5, SightsAre
<1>9. [u \in Tokens |-> View(u)] = A /\ [u \in Tokens |-> View(u)]' = B
  BY <1>4, <1>5 DEF ViewsAre, Sights, Views
<1>10. A[n] = PM!Nothing
  <2>1. \A p \in Pages : A[n][p] = Gone
    BY <1>3, <1>7, UnmadeReads
  <2> QED BY <2>1, <1>3, <1>7 DEF PM!Nothing
<1>11. B[n] = A[current]
  <2>1. \A p \in Pages : B[n][p] = A[current][p]
    BY <1>2, <1>3, <1>7, <1>8
  <2> QED BY <2>1, <1>3, <1>7, <1>8
<1>12. ASSUME NEW u \in Tokens \ {n} PROVE B[u] = A[u]
  <2>1. \A p \in Pages : B[u][p] = A[u][p]
    BY <1>2, <1>7, <1>8 DEF OthersSame
  <2> QED BY <2>1, <1>7, <1>8
<1>13. B = [A EXCEPT ![n] = A[current]]
  BY <1>7, <1>8, <1>11, <1>12
<1>14. PM!Fork(current, n)
  BY <1>9, <1>10, <1>13 DEF PM!Fork
<1> QED BY <1>3, <1>14 DEF PM!Next

\* An execve.
LEMMA ExecveRefines ==
  ASSUME IInv, ViewsAre, ViewsAre', NEW program \in Programs, Execve(program)
  PROVE  PM!Next
<1>1. PICK n : n = Next1
  OBVIOUS
<1>2. /\ IInv' /\ Running /\ Unmade # {} /\ live' = (live \cup {n}) \ {current}
      /\ \A u \in Tokens \ {n, current}, p \in Pages :
           ReadAt(Resident', MapOf', u, p) = ReadAt(Resident, MapOf, u, p)
      /\ \A p \in Pages : ReadAt(Resident', MapOf', n, p) \in Appearing \cup {Gone}
  BY <1>1, ExecveIs
<1>3. n \in Tokens \ {current} /\ n \notin Made /\ current \in Tokens
  BY <1>1, <1>2, Next1Is DEF IInv, Made
<1>4. PICK A : A = Sights(Resident, MapOf)
  OBVIOUS
<1>5. PICK B : B = Sights(Resident', MapOf')
  OBVIOUS
<1>6. Keeps(Resident, MapOf, Made) /\ Keeps(Resident', MapOf', Made')
  BY <1>2 DEF IInv
<1>7. /\ A \in [Tokens -> [Pages -> Contents \cup {Gone}]]
      /\ \A u \in Tokens, p \in Pages : A[u][p] = ReadAt(Resident, MapOf, u, p)
  BY <1>6, <1>4, SightsAre
<1>8. /\ B \in [Tokens -> [Pages -> Contents \cup {Gone}]]
      /\ \A u \in Tokens, p \in Pages : B[u][p] = ReadAt(Resident', MapOf', u, p)
  BY <1>6, <1>5, SightsAre
<1>9. [u \in Tokens |-> View(u)] = A /\ [u \in Tokens |-> View(u)]' = B
  BY <1>4, <1>5 DEF ViewsAre, Sights, Views
<1>10. A[n] = PM!Nothing
  <2>1. \A p \in Pages : A[n][p] = Gone
    BY <1>3, <1>7, UnmadeReads
  <2> QED BY <2>1, <1>3, <1>7 DEF PM!Nothing
<1>11. B[current] = PM!Nothing
  <2>1. Resident'.live = live'
    BY DEF Resident
  <2>2. \A p \in Pages : B[current][p] = Gone
    BY <2>1, <1>2, <1>3, <1>8 DEF ReadAt
  <2> QED BY <2>2, <1>3, <1>8 DEF PM!Nothing
<1>12. \A p \in Pages : B[n][p] \in PM!New \cup {Gone}
  BY <1>2, <1>3, <1>8, NewIs
<1>13. ASSUME NEW u \in Tokens \ {n, current} PROVE B[u] = A[u]
  <2>1. \A p \in Pages : B[u][p] = A[u][p]
    BY <1>2, <1>7, <1>8
  <2> QED BY <2>1, <1>7, <1>8
<1>14. B = [A EXCEPT ![current] = PM!Nothing, ![n] = B[n]]
  BY <1>3, <1>7, <1>8, <1>11, <1>13
<1>15. PM!Load(current, n)
  BY <1>9, <1>10, <1>12, <1>14 DEF PM!Load
<1> QED BY <1>3, <1>15 DEF PM!Next

\* A container starts as the abstract memory does.
LEMMA InitRefines ==
  ASSUME Init
  PROVE  PM!Init
<1>1. /\ IInv /\ current \in Tokens
      /\ \A p \in Pages : ReadAt(Resident, MapOf, current, p) \in Appearing \cup {Gone}
      /\ \A u \in Tokens \ {current}, p \in Pages : ReadAt(Resident, MapOf, u, p) = Gone
  BY InitIs
<1>2. PICK A : A = Sights(Resident, MapOf)
  OBVIOUS
<1>3. /\ A \in [Tokens -> [Pages -> Contents \cup {Gone}]]
      /\ \A u \in Tokens, p \in Pages : A[u][p] = ReadAt(Resident, MapOf, u, p)
  BY <1>1, <1>2, SightsAre DEF IInv
<1>4. [u \in Tokens |-> View(u)] = A
  BY <1>1, <1>2, ViewsFromInvariant DEF ViewsAre, Sights, Views
<1>5. \A p \in Pages : A[current][p] \in PM!New \cup {Gone}
  BY <1>1, <1>3, NewIs
<1>6. ASSUME NEW u \in Tokens \ {current} PROVE A[u] = PM!Nothing
  <2>1. \A p \in Pages : A[u][p] = Gone
    BY <1>1, <1>3
  <2> QED BY <2>1, <1>3 DEF PM!Nothing
<1> QED BY <1>1, <1>4, <1>5, <1>6 DEF PM!Init

\* Every step is a step of the abstract memory, or none.
LEMMA NextRefines ==
  ASSUME Tame, IInv, ViewsAre, ViewsAre', [Next]_vars
  PROVE  PM!Next \/ Views' = Views
<1>0. IInv'
  BY NextIs
<1>1. CASE UNCHANGED vars
  BY <1>1, StutterIs, SameRefines, <1>0
<1>2. CASE Running /\ rows < MaxRows /\ Rows
  BY <1>2, RowsAre, SteppedRefines
<1>3. ASSUME NEW p \in Pages, NEW v \in Values, Store(p, v) PROVE PM!Next
  BY <1>3, StoreRefines
<1>4. ASSUME NEW t \in Tokens, Switch(t) PROVE Views' = Views
  BY <1>0, <1>4, SwitchIs, SameRefines
<1>5. ASSUME NEW t \in Tokens, Finish(t) PROVE PM!Next
  BY <1>5, FinishRefines
<1>6. CASE Fork
  BY <1>6, ForkRefines
<1>7. ASSUME NEW program \in Programs, Execve(program) PROVE PM!Next
  BY <1>7, ExecveRefines
<1>8. ASSUME NEW program \in Programs, ExecveFails(program) PROVE Views' = Views
  BY <1>0, <1>8, ExecveFailsIs, SameRefines
<1> QED BY <1>1, <1>2, <1>3, <1>4, <1>5, <1>6, <1>7, <1>8 DEF Next

(* The owner table and the copies implement a memory of one's own:         *)
(* whatever the processes, programs and requests, every row, store,        *)
(* switch, fork, execve and end is a step of one process in PrivateMemory, *)
(* or changes nothing that any process reads.                              *)
THEOREM MemoryIsPrivate ==
  ASSUME Tame
  PROVE  Spec => KeepsPrivateMemory
<1>1. Init => PM!Init
  BY InitRefines
<1>2. IInv /\ ViewsAre /\ ViewsAre' /\ [Next]_vars => [PM!Next]_[t \in Tokens |-> View(t)]
  BY NextRefines DEF Views
<1>3. IInv => ViewsAre
  BY ViewsFromInvariant
<1>4. Spec => []IInv
  BY InvariantHolds
<1> QED BY <1>1, <1>2, <1>3, <1>4, PTL DEF Spec, KeepsPrivateMemory, PM!Spec

---------------------------------------------------------------------------
(* The others, whatever a step does. *)

\* Who reads the same sees the same.
LEMMA ViewIsRead ==
  ASSUME ViewsAre, ViewsAre', NEW t \in Tokens,
         \A p \in Pages : ReadAt(Resident', MapOf', t, p) = ReadAt(Resident, MapOf, t, p)
  PROVE  View(t)' = View(t)
<1>1. Views[t] = View(t) /\ Views'[t] = View(t)'
  BY DEF Views
<1>2. Views[t] = Read(Resident, MapOf, t) /\ Views'[t] = Read(Resident', MapOf', t)
  BY DEF ViewsAre
<1>3. Read(Resident', MapOf', t) = Read(Resident, MapOf, t)
  BY DEF Read
<1> QED BY <1>1, <1>2, <1>3

\* No step moves a byte of a live process that is not the running one.
LEMMA OthersStep ==
  ASSUME Tame, IInv, ViewsAre, ViewsAre', [Next]_vars,
         NEW t \in (live \cap live') \ {current}
  PROVE  View(t)' = View(t)
<1>0. t \in Tokens /\ t \in Made
  <2>1. live \subseteq Made /\ Made \subseteq Tokens
    <3>1. Resident.live = live /\ Keeps(Resident, MapOf, Made)
      BY DEF IInv, Resident
    <3> QED BY <3>1, ResidentsAre DEF Made
  <2> QED BY <2>1
<1> SUFFICES \A p \in Pages : ReadAt(Resident', MapOf', t, p) = ReadAt(Resident, MapOf, t, p)
  BY <1>0, ViewIsRead
<1>1. CASE UNCHANGED vars
  BY <1>1, StutterIs
<1>2. CASE Running /\ rows < MaxRows /\ Rows
  <2>1. OthersSame(Resident, MapOf, Resident', MapOf', current)
    BY <1>2, RowsAre, SteppedIs
  <2> QED BY <1>0, <2>1 DEF OthersSame
<1>3. ASSUME NEW p \in Pages, NEW v \in Values, Store(p, v)
      PROVE  OthersSame(Resident, MapOf, Resident', MapOf', current)
  BY <1>3, StoreIs
<1>4. ASSUME NEW u \in Tokens, Switch(u)
      PROVE  \A p \in Pages : ReadAt(Resident', MapOf', t, p) = ReadAt(Resident, MapOf, t, p)
  BY <1>0, <1>4, SwitchIs
<1>5. ASSUME NEW u \in Tokens, Finish(u)
      PROVE  \A p \in Pages : ReadAt(Resident', MapOf', t, p) = ReadAt(Resident, MapOf, t, p)
  <2>1. OthersSame(Resident, MapOf, Resident', MapOf', u) /\ live' = live \ {u}
    BY <1>5, FinishIs
  <2> QED BY <1>0, <2>1 DEF OthersSame
<1>6. CASE Fork
  <2>1. OthersSame(Resident, MapOf, Resident', MapOf', Next1) /\ Unmade # {}
    BY <1>6, ForkIs
  <2>2. t # Next1
    BY <1>0, <2>1, Next1Is
  <2> QED BY <1>0, <2>1, <2>2 DEF OthersSame
<1>7. ASSUME NEW program \in Programs, Execve(program)
      PROVE  \A p \in Pages : ReadAt(Resident', MapOf', t, p) = ReadAt(Resident, MapOf, t, p)
  <2>1. /\ Unmade # {}
        /\ \A u \in Tokens \ {Next1, current}, p \in Pages :
             ReadAt(Resident', MapOf', u, p) = ReadAt(Resident, MapOf, u, p)
    BY <1>7, ExecveIs
  <2>2. t # Next1
    BY <1>0, <2>1, Next1Is
  <2> QED BY <1>0, <2>1, <2>2
<1>8. ASSUME NEW program \in Programs, ExecveFails(program)
      PROVE  \A p \in Pages : ReadAt(Resident', MapOf', t, p) = ReadAt(Resident, MapOf, t, p)
  BY <1>0, <1>8, ExecveFailsIs
<1>9. OthersSame(Resident, MapOf, Resident', MapOf', current)
      => \A p \in Pages : ReadAt(Resident', MapOf', t, p) = ReadAt(Resident, MapOf, t, p)
  BY <1>0 DEF OthersSame
<1> QED BY <1>1, <1>2, <1>3, <1>4, <1>5, <1>6, <1>7, <1>8, <1>9 DEF Next

(* Of programs that are Tame, no step moves a byte that a live process     *)
(* other than the running one would read: what resident.rs keeps when a    *)
(* page changes hands.  With holes in Wild a madvise moves one.            *)
THEOREM OthersStayUntouched ==
  ASSUME Tame
  PROVE  Spec => OthersAreUntouched
<1>1. IInv /\ ViewsAre /\ ViewsAre' /\ [Next]_vars
      => [\A t \in (live \cap live') \ {current} : View(t)' = View(t)]_vars
  BY OthersStep
<1>2. IInv => ViewsAre
  BY ViewsFromInvariant
<1>3. Spec => []IInv
  BY InvariantHolds
<1> QED BY <1>1, <1>2, <1>3, PTL DEF Spec, OthersAreUntouched
=============================================================================
