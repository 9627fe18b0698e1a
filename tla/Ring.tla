------------------------------- MODULE Ring -------------------------------
(***************************************************************************)
(* One ring of crates/kernel/src/ring.rs: the bounded byte buffer behind a *)
(* pipe, and each direction of a socket, with its reference counts.        *)
(*                                                                         *)
(* The arena `Rings` is a vector of optional rings.  A slot that is None   *)
(* answers every question the way a ring with nothing in it and nobody on  *)
(* it does, so None is the record FreeRing.  A ring in use is never equal  *)
(* to it: the last release frees it.                                       *)
(***************************************************************************)
EXTENDS Naturals, Sequences

CONSTANTS
  Capacity,  (* how many bytes a ring holds                                *)
  Atomic     (* PIPE_BUF: a write this long arrives in one piece           *)

ASSUME RingAssumption ==
  /\ Capacity \in Nat \ {0}
  /\ Atomic \in 1..Capacity

End == {"Read", "Write"}

FreeRing ==
  [bytes |-> << >>, readers |-> 0, writers |-> 0, attached |-> 0]

\* One descriptor on each end, which is what pipe(2) hands back.
NewRing ==
  [bytes |-> << >>, readers |-> 1, writers |-> 1, attached |-> 0]

\* Mutant: frees a slot as soon as one side has gone.
FreeIfEitherUnused(r) == IF r.readers = 0 \/ r.writers = 0 THEN FreeRing ELSE r

\* Mutant: a slot nobody can move bytes through goes, though one asks of it.
FreeIfNoEnds(r) == IF r.readers = 0 /\ r.writers = 0 THEN FreeRing ELSE r

\* All three conditions: any one of them alone is a slot something still
\* expects to find its own ring in.
FreeIfUnused(r) ==
  IF r.readers = 0 /\ r.writers = 0 /\ r.attached = 0 THEN FreeRing ELSE r

SaturatingSub(a, b) == IF a >= b THEN a - b ELSE 0

\* Mutant: moves the count once, however many descriptors came or went.
AdjustedByOne(count, was, now) ==
  CASE now > was -> count + 1
    [] now < was -> SaturatingSub(count, 1)
    [] OTHER     -> count

(***************************************************************************)
(* reconcile_shared moves a count by the difference of two censuses of     *)
(* descriptors: an acquire for each one gained, a release (which saturates *)
(* at zero) for each one lost.  Neither does anything to a freed slot.     *)
(***************************************************************************)
Adjusted(count, was, now) ==
  IF now >= was THEN count + (now - was) ELSE SaturatingSub(count, was - now)

Reconciled(r, was, now) ==
  IF r = FreeRing
  THEN r
  ELSE FreeIfUnused(
         [r EXCEPT !.readers = Adjusted(@, was["Read"], now["Read"]),
                   !.writers = Adjusted(@, was["Write"], now["Write"])])

Lesser(a, b) == IF a <= b THEN a ELSE b

Queued(r) == Len(r.bytes)
Room(r)   == Capacity - Queued(r)

\* Mutant: forgets that a read at end of file returns.
ReadableWithBytes(r) == Queued(r) > 0

\* A read returns when there is a byte, and when there never will be one.
Readable(r) == Queued(r) > 0 \/ r.writers = 0

\* Mutant: takes a write for ready whenever there is any room.
WritableWithRoom(r, length) == r.readers = 0 \/ (length > 0 /\ Room(r) > 0)

\* Mutant: forgets that a write nobody will read returns.
WritableWhileRead(r, length) ==
  IF length <= Atomic THEN Room(r) >= length ELSE Room(r) > 0

\* A write makes progress when all of it fits, if it is atomic; when one
\* byte fits, if it is not; and when it is going to fail.
Writable(r, length) ==
  \/ r.readers = 0
  \/ length <= Atomic /\ Room(r) >= length
  \/ length > Atomic /\ Room(r) > 0

\* Mutant: empties the ring whatever was asked for.
AfterTakeAll(r, count) == IF count > 0 THEN [r EXCEPT !.bytes = << >>] ELSE r

\* What `take` moves out of the ring, and what it leaves.
Taken(r, count)       == SubSeq(r.bytes, 1, Lesser(count, Queued(r)))
AfterTake(r, count)   ==
  [r EXCEPT !.bytes = SubSeq(@, Lesser(count, Queued(r)) + 1, Len(@))]
AfterGive(r, data)    == [r EXCEPT !.bytes = @ \o data]

\* Mutants: pay no attention to the room, and to PIPE_BUF.
AcceptedPastRoom(r, left)   == IF Room(r) = 0 THEN 0 ELSE left
AcceptedPiecemeal(r, left)  == Lesser(left, Room(r))

(***************************************************************************)
(* The loop of advance_transfer on the write end: how many of the `left`   *)
(* bytes go in before the call finishes or waits.  Its second round always *)
(* finds either nothing left or no room.                                   *)
(***************************************************************************)
Accepted(r, left) ==
  IF left <= Atomic /\ Room(r) < left THEN 0 ELSE Lesser(left, Room(r))
===========================================================================
