---------------------------- MODULE AddressSpace ----------------------------
(***************************************************************************)
(* The interval surgery of one process's address space, as pure operators: *)
(* kernel/src/space.rs.  Addresses and lengths are in pages: a misaligned  *)
(* start is refused by every row before anything changes and a length is   *)
(* rounded up before it is used (round_up).  A space is a record of        *)
(*   start   where its heap begins          brk   the program break        *)
(*   high    one past what was ever given   vmas  the mappings             *)
(*   free    the ranges given back                                         *)
(* The code keeps vmas ordered by start and free in the order ranges came  *)
(* back; here both are sets, so which of several fitting free ranges is    *)
(* found first is left open.  A row answers the set of outcomes it may     *)
(* have, empty when it refuses.                                            *)
(***************************************************************************)
EXTENDS Integers, FiniteSets

CONSTANTS Arena,    \* BRK_CEILING: the pages the break may use
          Ceiling,  \* one past the last page of the guest's block
          Base,     \* the first page of the block
          Limit,    \* one past the last page memory can be grown to
          Slots     \* SLOTS: how many places a fresh program may start at

ASSUME SpaceAssumption ==
    /\ Arena \in Nat \ {0} /\ Base \in Nat \ {0} /\ Slots \in Nat \ {0}
    /\ Ceiling \in Nat /\ Base + Arena <= Ceiling
    /\ Limit \in Nat /\ Ceiling <= Limit

(* What a page allows, and what backs a mapping; a mapping, and a space. *)
Accesses == {"none", "r", "w", "x", "rw", "rx", "wx", "rwx"}
Backings == {"anonymous", "reservation", "file"}
Vma    == [start : Nat, length : Nat \ {0}, prot : Accesses, kind : Backings, offset : Int]
Spaces == [start : Nat, brk : Nat, high : Nat, vmas : SUBSET Vma, free : SUBSET (Nat \X Nat)]

(* grow_memory: the block is reserved at boot, so growing to its ceiling is *)
(* always granted; beyond it, until memory ends.                           *)
Grows(to) == to <= Limit

Most(S) == CHOOSE x \in S : \A y \in S : y <= x
Least2(a, b) == IF a < b THEN a ELSE b
Range2(lo, hi) == lo .. hi - 1

(* Vma::end, slice: a file's offset moves with the start. *)
End(v) == v.start + v.length
Slice(v, lo, hi) ==
    [v EXCEPT !.start = lo, !.length = hi - lo,
              !.offset = IF v.kind = "file" THEN v.offset + (lo - v.start) ELSE v.offset]

PagesOf(v) == Range2(v.start, End(v))
Touches(v, lo, hi) == v.start < hi /\ lo < End(v)
Overlaps(sp, lo, hi) == \E v \in sp.vmas : Touches(v, lo, hi)

BrkCeiling(sp) == sp.start + Arena
Heap(sp)       == Range2(sp.start, sp.brk)
MappedPages(sp) == UNION {PagesOf(v) : v \in sp.vmas}

(* What a fork copies: the tree, and the heap, which no mapping covers. *)
MappedRanges(sp) == MappedPages(sp) \cup Heap(sp)

Fresh(start) == [start |-> start, brk |-> start, high |-> start,
                 vmas |-> {}, free |-> {}]

(* claim: the pages below the high-water mark are owed zeros. *)
Fill(sp, lo, hi) == Range2(lo, Least2(hi, sp.high))
Claimed(sp, hi)  == [sp EXCEPT !.high = IF hi > @ THEN hi ELSE @]

(* punch: what sticks out of the hole on either side stays. *)
Punched(sp, lo, hi) ==
    LET hit == {v \in sp.vmas : Touches(v, lo, hi)}
        below == {Slice(v, v.start, lo) : v \in {u \in hit : u.start < lo}}
        above == {Slice(v, hi, End(v)) : v \in {u \in hit : End(u) > hi}}
    IN  [sp EXCEPT !.vmas = (@ \ hit) \cup below \cup above]

(* take: a range leaves the pool.  release: it comes back, joined to every *)
(* range it touches.                                                       *)
Taken(sp, lo, hi) ==
    LET hit == {f \in sp.free : ~(f[1] + f[2] <= lo \/ f[1] >= hi)}
        below == {<<f[1], lo - f[1]>> : f \in {g \in hit : g[1] < lo}}
        above == {<<hi, f[1] + f[2] - hi>> : f \in {g \in hit : g[1] + g[2] > hi}}
    IN  [sp EXCEPT !.free = (@ \ hit) \cup below \cup above]

\* The loop widens the range as it absorbs, so what touches the widened
\* range is absorbed too when it comes later; the pool holds no two ranges
\* that touch, so one pass over what touches [lo, hi) is the loop.
Released(sp, lo, hi) ==
    LET hit == {f \in sp.free : ~(f[1] + f[2] < lo \/ f[1] > hi)}
        from == Least2(lo, IF hit = {} THEN lo
                           ELSE CHOOSE x \in {f[1] : f \in hit} : \A f \in hit : x <= f[1])
        to   == Most({hi} \cup {f[1] + f[2] : f \in hit})
    IN  [sp EXCEPT !.free = (@ \ hit) \cup {<<from, to - from>>}]

(* top and allocate: a range from the pool that fits, else above everything. *)
Top(sp) == Most({BrkCeiling(sp), sp.high} \cup {End(v) : v \in sp.vmas}
                \cup {f[1] + f[2] : f \in sp.free})
Allocations(sp, length) ==
    LET fitting == {f \in sp.free : f[2] >= length} IN
    IF fitting # {}
    THEN {[sp |-> [sp EXCEPT !.free = (@ \ {f}) \cup
                     (IF f[2] = length THEN {} ELSE {<<f[1] + length, f[2] - length>>})],
           at |-> f[1]] : f \in fitting}
    ELSE IF Top(sp) + length > Ceiling \/ ~Grows(Top(sp) + length) THEN {} ELSE {[sp |-> sp, at |-> Top(sp)]}

(* map. *)
Installed(sp, at, q) ==
    [sp   |-> [Claimed(sp, at + q.length) EXCEPT !.vmas = @ \cup
                 {[start |-> at, length |-> q.length, prot |-> q.prot,
                   kind |-> q.kind, offset |-> q.offset]}],
     at   |-> at,
     fill |-> Fill(sp, at, at + q.length)]

\* Mutant: a fixed mapping that leaves its range in the pool.
AtFixedInPool(sp, q) ==
    LET end == q.hint + q.length IN
    IF \/ q.hint = 0
       \/ q.mode = "noreplace" /\ Overlaps(sp, q.hint, end)
       \/ end > Ceiling \/ ~Grows(end)
    THEN {}
    ELSE {Installed(Punched(sp, q.hint, end), q.hint, q)}

AtFixed(sp, q) ==
    LET end == q.hint + q.length IN
    IF \/ q.hint = 0
       \/ q.mode = "noreplace" /\ Overlaps(sp, q.hint, end)
       \/ end > Ceiling \/ ~Grows(end)
    THEN {}
    ELSE {Installed(Taken(Punched(sp, q.hint, end), q.hint, end), q.hint, q)}

HintTaken(sp, q) ==
    /\ q.hint # 0
    /\ ~Overlaps(sp, q.hint, q.hint + q.length)
    /\ q.hint >= BrkCeiling(sp)

Anywhere(sp, q) ==
    IF HintTaken(sp, q)
    THEN IF Grows(q.hint + q.length) THEN {Installed(sp, q.hint, q)} ELSE {}
    ELSE {Installed(a.sp, a.at, q) : a \in Allocations(sp, q.length)}

Mapped(sp, q) ==
    IF q.mode \in {"fixed", "noreplace"} THEN AtFixed(sp, q) ELSE Anywhere(sp, q)

(* brk: a request outside the arena, or zero, only asks. *)
BrkGranted(sp, to) == sp.start <= to /\ to <= BrkCeiling(sp)
Broken(sp, to) ==
    IF to > sp.brk THEN [Claimed(sp, to) EXCEPT !.brk = to]
                   ELSE [sp EXCEPT !.brk = to]

(* unmap, protect, advise. *)
Unmapped(sp, lo, hi) == Released(Punched(sp, lo, hi), lo, hi)

Protectable(sp, lo, hi) == Range2(lo, hi) \subseteq MappedPages(sp)
Protected(sp, lo, hi, prot) ==
    LET pieces == {[Slice(v, IF v.start > lo THEN v.start ELSE lo,
                             Least2(End(v), hi)) EXCEPT !.prot = prot]
                     : v \in {u \in sp.vmas : Touches(u, lo, hi)}}
    IN  [Punched(sp, lo, hi) EXCEPT !.vmas = @ \cup pieces]

AdviceFill(sp, lo, hi, advice) ==
    IF /\ advice = "dontneed"
       /\ \E v \in sp.vmas : Touches(v, lo, hi) /\ v.kind = "anonymous"
    THEN Range2(lo, hi) ELSE {}

(* reserve_above: the pool gives the space above a mapping, or it is fresh. *)
ReservedAbove(sp, lo, hi) ==
    LET holding == {f \in sp.free : f[1] <= lo /\ f[1] + f[2] >= hi} IN
    IF lo < BrkCeiling(sp) THEN {}
    ELSE IF holding # {}
    THEN {[sp EXCEPT !.free = (@ \ {f})
             \cup (IF f[1] < lo THEN {<<f[1], lo - f[1]>>} ELSE {})
             \cup (IF f[1] + f[2] > hi THEN {<<hi, f[1] + f[2] - hi>>} ELSE {})]
            : f \in holding}
    ELSE IF hi <= sp.high \/ ~Grows(hi) THEN {} ELSE {sp}

(* remap: truncate, grow in place, or move. *)
Shrunk(sp, v, length) ==
    [sp |-> Released([sp EXCEPT !.vmas = (@ \ {v}) \cup {[v EXCEPT !.length = length]}],
                     v.start + length, End(v)),
     to |-> v.start, fill |-> {}]

GrownInPlace(sp, v, length) ==
    LET end == v.start + length IN
    IF Overlaps(sp, End(v), end) THEN {}
    ELSE {[sp |-> [Claimed(s, end) EXCEPT !.vmas =
                     (@ \ {v}) \cup {[v EXCEPT !.length = length]}],
           to |-> v.start, fill |-> Fill(s, End(v), end)]
            : s \in ReservedAbove(sp, End(v), end)}

MovedAway(sp, v, length) ==
    {LET whole == Fill(a.sp, a.at, a.at + length)
         gone  == Unmapped(Claimed(a.sp, a.at + length), v.start, End(v))
     IN  [sp |-> [gone EXCEPT !.vmas = @ \cup
                    {[v EXCEPT !.start = a.at, !.length = length]}],
          to |-> a.at, fill |-> whole \ Range2(a.at, a.at + v.length)]
       : a \in Allocations(sp, length)}

Remapped(sp, v, length, maymove) ==
    IF length <= v.length THEN {Shrunk(sp, v, length)}
    ELSE IF GrownInPlace(sp, v, length) # {} THEN GrownInPlace(sp, v, length)
    ELSE IF maymove THEN MovedAway(sp, v, length) ELSE {}

(* choose_start: the slot that the pages crowding it, given by a predicate *)
(* of their number, occupy least; the first of those that tie.            *)
Span == (Ceiling - Base) \div Slots
ChosenStart(crowding) ==
    LET begin(s) == Base + s * Span
        crowd(s) == Cardinality(Range2(begin(s), begin(s) + Span) \cap crowding)
        best     == CHOOSE s \in 0 .. Slots - 1 : \A z \in 0 .. Slots - 1 :
                       crowd(s) < crowd(z) \/ (crowd(s) = crowd(z) /\ s <= z)
    IN  IF Span < 1 THEN Base ELSE begin(best)
=============================================================================
