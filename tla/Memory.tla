------------------------------- MODULE Memory -------------------------------
(***************************************************************************)
(* Who has which bytes at which page: the memory rows (kernel/src/mmap.rs, *)
(* brk through mremap), the page table a row rewrites (sync_pages), the    *)
(* owner table of the one linear memory every process shares               *)
(* (kernel/src/resident.rs), and the steps of a process's life that move   *)
(* memory: a switch, a fork, an execve that loads or fails, an end.        *)
(***************************************************************************)
EXTENDS AddressSpace, Sequences

CONSTANTS Tokens,     \* one per address space ever made, in order of making
          Values,     \* what a program stores
          Programs,   \* sets of segments [start, length, prot]
          StackPages, \* STACK_BYTES
          FilePages,  \* how long the file is that a mapping copies
          Offsets,    \* where in it a mapping begins
          Lengths, Prots, Kinds, Modes, Hints,   \* what a program asks mmap for
          Advices,
          MaxRows,    \* how many rows are made, which bounds the instance
          Wild,       \* the steps set apart that are taken: "holes", "growth"
          NoOne, NoCopy, Gone, Zero

Pages == 1 .. Limit - 1
FileByte(o) == IF o < FilePages THEN <<"file", o>> ELSE Zero
Text == <<"program", 0>>
Contents == {Zero, Text} \cup Values \cup {FileByte(o) : o \in 0 .. FilePages}

ASSUME MemoryAssumption ==
    /\ Tokens \subseteq Nat /\ Tokens # {} /\ IsFiniteSet(Tokens)
    /\ NoOne \notin Tokens /\ NoCopy \notin Contents
    /\ Gone \notin Contents /\ Gone \notin Spaces

\* A program's segments lie below the block, one page up from address zero:
\* check_region refuses any other.
ASSUME ProgramAssumption ==
    /\ StackPages \in Nat \ {0}
    /\ \A program \in Programs :
         /\ program \in Seq([start : Nat \ {0}, length : Nat \ {0}, prot : Accesses])
         /\ \A k \in 1 .. Len(program) : program[k].start + program[k].length <= Base

ASSUME RequestAssumption ==
    /\ FilePages \in Nat /\ Offsets \subseteq Nat /\ Hints \subseteq Nat
    /\ Lengths \subseteq Nat \ {0} /\ Prots \subseteq Accesses /\ Kinds \subseteq Backings
    /\ Modes \subseteq {"plain", "fixed", "noreplace"}

VARIABLES space,     \* each process's tree, pool and break
          table,     \* cpu::space: what each page of each process allows
          owner,     \* Residency.owners
          live,      \* Residency.live
          displaced, \* Residency.displaced: the copies each process holds
          bytes,     \* linear memory, a page at a time
          current,   \* the process whose turn it is
          rows       \* how many rows were made

vars == <<space, table, owner, live, displaced, bytes, current, rows>>

Unreachable == [p \in Pages |-> "none"]
NoCopies    == [p \in Pages |-> NoCopy]

(***************************************************************************)
(* The owner table, over a record [owner, live, displaced, bytes].         *)
(***************************************************************************)
Resident == [owner |-> owner, live |-> live, displaced |-> displaced, bytes |-> bytes]

\* displace: the live process u loses page p and keeps a copy.
CopyOut(r, t, P) ==
    [u \in Tokens |-> [p \in Pages |->
        IF p \in P /\ r.owner[p] = u /\ u # t /\ u \in r.live
        THEN r.bytes[p] ELSE r.displaced[u][p]]]

\* Mutants: a claim that saves nothing of the owner it displaces, and one
\* that gives the page over as it is.
ClaimUnsaved(r, t, P) ==
    LET taken == {p \in P : r.owner[p] # t}
    IN  [r EXCEPT !.owner = [p \in Pages |-> IF p \in taken THEN t ELSE @[p]],
                  !.bytes = [p \in Pages |-> IF p \in taken THEN Zero ELSE @[p]]]
ClaimUnzeroed(r, t, P) ==
    LET taken == {p \in P : r.owner[p] # t}
        out   == CopyOut(r, t, taken)
    IN  [r EXCEPT !.owner = [p \in Pages |-> IF p \in taken THEN t ELSE @[p]],
                  !.displaced = [out EXCEPT ![t] =
                      [p \in Pages |-> IF p \in taken THEN NoCopy ELSE @[p]]]]

Claim(r, t, P) ==
    LET taken == {p \in P : r.owner[p] # t}
        out   == CopyOut(r, t, taken)
    IN  [r EXCEPT !.owner = [p \in Pages |-> IF p \in taken THEN t ELSE @[p]],
                  !.bytes = [p \in Pages |-> IF p \in taken THEN Zero ELSE @[p]],
                  !.displaced = [out EXCEPT ![t] =
                      [p \in Pages |-> IF p \in taken THEN NoCopy ELSE @[p]]]]

Release(r, t, P) ==
    [r EXCEPT !.owner = [p \in Pages |-> IF p \in P /\ @[p] = t THEN NoOne ELSE @[p]],
              !.displaced[t] = [p \in Pages |-> IF p \in P THEN NoCopy ELSE @[p]]]

Activate(r, t) ==
    LET mine == {p \in Pages : r.displaced[t][p] # NoCopy}
        out  == CopyOut(r, t, mine)
    IN  [r EXCEPT !.owner = [p \in Pages |-> IF p \in mine THEN t ELSE @[p]],
                  !.bytes = [p \in Pages |-> IF p \in mine THEN r.displaced[t][p] ELSE @[p]],
                  !.displaced = [out EXCEPT ![t] = NoCopies]]

CopyFor(r, child, P) ==
    [r EXCEPT !.displaced[child] = [p \in Pages |-> IF p \in P THEN r.bytes[p] ELSE NoCopy]]

NewToken(r, t) == [r EXCEPT !.live = @ \cup {t}]
Retire(r, t)   == [r EXCEPT !.live = @ \ {t}, !.displaced[t] = NoCopies]

\* The kernel's own writes, which no protection and no owner stops.
Put(r, P, content(_)) ==
    [r EXCEPT !.bytes = [p \in Pages |-> IF p \in P THEN content(p) ELSE @[p]]]
ZeroOf(p) == Zero
TextOf(p) == Text
Zeroed(r, P) == Put(r, P, ZeroOf)

(***************************************************************************)
(* sync_pages: the table says what the tree says over a range, and the     *)
(* range's pages are claimed where a mapping covers them, released else.   *)
(***************************************************************************)
ProtAt(sp, p) ==
    LET over == {v \in sp.vmas : p \in PagesOf(v)}
    IN  (CHOOSE v \in over : \A u \in over : u.start <= v.start).prot

SyncTable(tab, sp, lo, hi) ==
    [p \in Pages |-> IF p \notin Range2(lo, hi) THEN tab[p]
                     ELSE IF p \in MappedPages(sp) THEN ProtAt(sp, p) ELSE "none"]
SyncOwners(r, t, sp, lo, hi) ==
    LET covered == Range2(lo, hi) \cap MappedPages(sp)
    IN  Claim(Release(r, t, Range2(lo, hi) \ covered), t, covered)

(***************************************************************************)
(* What a row leaves behind.                                               *)
(***************************************************************************)
Become(r) == /\ owner' = r.owner /\ live' = r.live
             /\ displaced' = r.displaced /\ bytes' = r.bytes

Row(sp, tab, r) ==
    /\ space' = [space EXCEPT ![current] = sp]
    /\ table' = [table EXCEPT ![current] = tab]
    /\ Become(r)
    /\ rows < MaxRows /\ rows' = rows + 1
    /\ UNCHANGED current

Synced(sp, lo, hi) == SyncOwners(Resident, current, sp, lo, hi)
SyncedTable(sp, lo, hi) == SyncTable(table[current], sp, lo, hi)

\* A program that is not wild names only what it mapped: no hole, and never
\* the heap.
Names(sp, lo, hi) ==
    \/ "holes" \in Wild
    \/ Range2(lo, hi) \subseteq MappedPages(sp)

Running == current \in live
Mine    == space[current]

(* brk: the heap is claimed and released here, since no mapping covers it. *)
Brk(to) ==
    LET sp   == Broken(Mine, to)
        up   == Range2(Mine.brk, to)
        down == Range2(to, Mine.brk)
    IN  /\ Running /\ BrkGranted(Mine, to) /\ to # Mine.brk
        /\ Row(sp,
               [p \in Pages |-> IF p \in up THEN "rw"
                                ELSE IF p \in down THEN "none" ELSE table[current][p]],
               IF to > Mine.brk
               THEN Zeroed(Claim(Resident, current, up),
                           Fill(Mine, Mine.brk, to))
               ELSE Release(Resident, current, down))

(* mmap: zeroed first, then the file's bytes over the top. *)
Allowed(q) ==
    \/ "holes" \in Wild
    \/ q.mode = "plain" /\ q.hint = 0
    \/ /\ q.mode # "plain"
       /\ Range2(q.hint, q.hint + q.length) \cap Range2(Mine.start, BrkCeiling(Mine)) = {}

Mmap(q) ==
    /\ Running /\ Allowed(q)
    /\ \E out \in Mapped(Mine, q) :
         LET lo == out.at  hi == out.at + q.length
             blank == Zeroed(Synced(out.sp, lo, hi), out.fill)
             ByteAt(p) == FileByte(q.offset + (p - lo))
             copied == {p \in Range2(lo, hi) : q.offset + (p - lo) < FilePages}
         IN  Row(out.sp, SyncedTable(out.sp, lo, hi),
                 IF q.kind = "file" THEN Put(blank, copied, ByteAt) ELSE blank)

Munmap(lo, length) ==
    LET hi == lo + length  sp == Unmapped(Mine, lo, hi) IN
    /\ Running /\ hi <= Limit /\ Names(Mine, lo, hi)
    /\ Row(sp, SyncedTable(sp, lo, hi), Synced(sp, lo, hi))

Mprotect(lo, length, prot) ==
    LET hi == lo + length  sp == Protected(Mine, lo, hi, prot) IN
    /\ Running /\ hi <= Limit /\ Protectable(Mine, lo, hi)
    /\ Row(sp, SyncedTable(sp, lo, hi), Synced(sp, lo, hi))

(* madvise: the table and the owners are rewritten from the tree whatever *)
(* the advice, and the fill goes to linear memory as it lies.             *)
Madvise(lo, length, advice) ==
    LET hi == lo + length IN
    /\ Running /\ hi <= Limit /\ Names(Mine, lo, hi)
    /\ Row(Mine, SyncedTable(Mine, lo, hi),
           Zeroed(Synced(Mine, lo, hi), AdviceFill(Mine, lo, hi, advice)))

(* mremap: both ends are synchronised, and the bytes carried across.       *)
(* reserve_above grants growth in place past the block, and growth into a  *)
(* range the pool holds a part of, which it then leaves in the pool.       *)
Growable(v, length) ==
    \/ "growth" \in Wild
    \/ /\ v.start + length <= Ceiling
       /\ \A f \in Mine.free :
            LET pool == Range2(f[1], f[1] + f[2])  above == Range2(End(v), v.start + length)
            IN  above \subseteq pool \/ above \cap pool = {}

Mremap(v, length, maymove) ==
    /\ Running
    /\ \E out \in Remapped(Mine, v, length, maymove) :
         LET longer == IF length > v.length THEN length ELSE v.length
             kept   == Least2(length, v.length)
             first  == SyncOwners(Resident, current, out.sp, v.start, v.start + longer)
             both   == SyncOwners(first, current, out.sp, out.to, out.to + longer)
             Carried(p) == both.bytes[v.start + (p - out.to)]
             moved  == IF out.to = v.start THEN both
                       ELSE Put(both, Range2(out.to, out.to + kept), Carried)
         IN  /\ out.to + longer <= Limit /\ v.start + longer <= Limit
             /\ "holes" \in Wild \/ Range2(v.start, v.start + longer) \cap Heap(Mine) = {}
             /\ out.to = v.start => Growable(v, length)
             /\ Row(out.sp,
                    SyncTable(SyncTable(table[current], out.sp, v.start, v.start + longer),
                              out.sp, out.to, out.to + longer),
                    Zeroed(moved, out.fill))

(* A program's store, which the page table decides. *)
Store(p, v) ==
    /\ Running /\ table[current][p] = "rw" /\ bytes[p] # v
    /\ bytes' = [bytes EXCEPT ![p] = v]
    /\ UNCHANGED <<space, table, owner, live, displaced, current, rows>>

(***************************************************************************)
(* A process's life.                                                       *)
(***************************************************************************)
Unmade == {t \in Tokens : space[t] = Gone}
Next1  == CHOOSE t \in Unmade : \A u \in Unmade : t <= u

(* System::switch: what others took comes back. *)
Switch(t) ==
    /\ t \in live /\ t # current
    /\ current' = t
    /\ Become(Activate(Resident, t))
    /\ UNCHANGED <<space, table, rows>>

(* Interpreted::fork: the child is born displaced. *)
Fork ==
    /\ Running /\ Unmade # {}
    /\ LET c == Next1 IN
       /\ space' = [space EXCEPT ![c] = Mine]
       /\ table' = [table EXCEPT ![c] = table[current]]
       /\ Become(CopyFor(NewToken(Resident, c), c, MappedRanges(Mine)))
    /\ UNCHANGED <<current, rows>>

(* finish_at: a process ends, on its own or by another's signal. *)
Finish(t) ==
    /\ t \in live
    /\ Become(Retire(Resident, t))
    /\ UNCHANGED <<space, table, current, rows>>

(***************************************************************************)
(* Loading a program into an address space being made: reserve_space,      *)
(* place, reserve_stack.  The new process runs from the moment it is made, *)
(* so what it claims is taken from the one that asked.                     *)
(***************************************************************************)
Crowded(r) == {p \in Pages : r.owner[p] \in r.live}

Reserved(r, t) == [sp |-> Fresh(ChosenStart(Crowded(r))), tab |-> Unreachable,
                   r |-> NewToken(r, t)]

Segment(at, s) == [hint |-> s.start, length |-> s.length, prot |-> s.prot,
                   kind |-> "anonymous", mode |-> "fixed", offset |-> 0]

Placed(m, t, s) ==
    {LET hi == s.start + s.length
         owned == SyncOwners(m.r, t, out.sp, s.start, hi)
     IN  [sp |-> out.sp, tab |-> SyncTable(m.tab, out.sp, s.start, hi),
          r |-> Put(Zeroed(owned, PagesOf(s)), PagesOf(s), TextOf)]
       : out \in AtFixed(m.sp, Segment(t, s))}

StackRequest == [hint |-> 0, length |-> StackPages, prot |-> "rw",
                 kind |-> "anonymous", mode |-> "plain", offset |-> 0]

Stacked(m, t) ==
    {LET hi == out.at + StackPages IN
     [sp |-> out.sp, tab |-> SyncTable(m.tab, out.sp, out.at, hi),
      r |-> Zeroed(SyncOwners(m.r, t, out.sp, out.at, hi), out.fill)]
       : out \in Mapped(m.sp, StackRequest)}

\* After the first k segments, as a set that is empty if one did not fit.
Loading(r, t, program) ==
    LET after[k \in 0 .. Len(program)] ==
            IF k = 0 THEN {Reserved(r, t)}
            ELSE UNION {Placed(m, t, program[k]) : m \in after[k - 1]}
    IN  after

Loaded(r, t, program) ==
    UNION {Stacked(m, t) : m \in Loading(r, t, program)[Len(program)]}

(* execute: the old process is dropped when the new one has loaded, and    *)
(* activated again when it has not, wherever the load stopped.             *)
Execve(program) ==
    /\ Running /\ Unmade # {}
    /\ LET n == Next1 IN
       \E m \in Loaded(Resident, n, program) :
         /\ space' = [space EXCEPT ![n] = m.sp]
         /\ table' = [table EXCEPT ![n] = m.tab]
         /\ Become(Retire(m.r, current))
         /\ current' = n
         /\ UNCHANGED rows

ExecveFails(program) ==
    /\ Running /\ Unmade # {}
    /\ LET n == Next1 IN
       \E k \in 0 .. Len(program) : \E m \in Loading(Resident, n, program)[k] :
         /\ space' = [space EXCEPT ![n] = m.sp]
         /\ Become(Activate(Retire(m.r, n), current))
         /\ UNCHANGED <<table, current, rows>>

(***************************************************************************)
(* The specification.  A container starts with a program loaded.           *)
(***************************************************************************)
First == CHOOSE t \in Tokens : \A u \in Tokens : t <= u
Empty == [owner |-> [p \in Pages |-> NoOne], live |-> {},
          displaced |-> [t \in Tokens |-> NoCopies],
          bytes |-> [p \in Pages |-> Zero]]

Init ==
    /\ current = First /\ rows = 0
    /\ \E program \in Programs : \E m \in Loaded(Empty, First, program) :
         /\ space = [[t \in Tokens |-> Gone] EXCEPT ![First] = m.sp]
         /\ table = [[t \in Tokens |-> Unreachable] EXCEPT ![First] = m.tab]
         /\ owner = m.r.owner /\ live = m.r.live
         /\ displaced = m.r.displaced /\ bytes = m.r.bytes

Requests == [hint : Hints \cup {0}, length : Lengths, prot : Prots,
             kind : Kinds, mode : Modes, offset : Offsets]
Sensible(q) == /\ q.kind # "file" => q.offset = 0
               /\ q.kind = "reservation" <=> (q.prot = "none" /\ q.kind # "file")
               /\ q.mode # "plain" => q.hint # 0

Rows ==
    \/ \E to \in Pages : Brk(to)
    \/ \E q \in Requests : Sensible(q) /\ Mmap(q)
    \/ \E lo \in Pages, length \in Lengths :
         \/ Munmap(lo, length)
         \/ \E prot \in Prots : Mprotect(lo, length, prot)
         \/ \E advice \in Advices : Madvise(lo, length, advice)
    \/ \E v \in Mine.vmas, length \in Lengths, maymove \in BOOLEAN :
         Mremap(v, length, maymove)

Next ==
    \/ Running /\ rows < MaxRows /\ Rows
    \/ \E p \in Pages, v \in Values : Store(p, v)
    \/ \E t \in Tokens : Switch(t) \/ Finish(t)
    \/ Fork
    \/ \E program \in Programs : Execve(program) \/ ExecveFails(program)

Spec == Init /\ [][Next]_vars

(***************************************************************************)
(* Properties.                                                             *)
(***************************************************************************)
(* The three invariants of resident.rs, over what a fork would copy: what  *)
(* the running process maps it owns, what a live process owns it maps, and *)
(* a process that is not running holds a copy of every page it maps and    *)
(* does not own, and of no other.                                          *)
EveryByteHasAPlace ==
    /\ Running => \A p \in MappedRanges(Mine) : owner[p] = current
    /\ \A p \in Pages : owner[p] \in live => p \in MappedRanges(space[owner[p]])
    /\ \A t \in live, p \in Pages :
         (displaced[t][p] # NoCopy) <=> (p \in MappedRanges(space[t]) /\ owner[p] # t)

(* The tree, the pool, the heap and the page table of a process tell one   *)
(* story: mappings never overlap each other or the heap, the pool holds    *)
(* nothing that is mapped and so nothing that could be given twice,        *)
(* everything lies inside the block, and a page is reachable exactly as    *)
(* its mapping says.                                                       *)
SpaceIsPartitioned ==
    \A t \in live : LET sp == space[t] IN
        /\ \A v, u \in sp.vmas : v # u => PagesOf(v) \cap PagesOf(u) = {}
        /\ \A f, g \in sp.free : f # g =>
              Range2(f[1], f[1] + f[2]) \cap Range2(g[1], g[1] + g[2]) = {}
        /\ \A f \in sp.free : Range2(f[1], f[1] + f[2]) \cap MappedRanges(sp) = {}
        /\ MappedPages(sp) \cap Heap(sp) = {}
        /\ \A p \in MappedPages(sp) : p < Ceiling
        /\ \A p \in Pages : table[t][p] =
              IF p \in MappedPages(sp) THEN ProtAt(sp, p)
              ELSE IF p \in Heap(sp) THEN "rw" ELSE "none"

(* What a process would read at a page, were it running. *)
View(t) ==
    [p \in Pages |->
        IF t \notin live \/ p \notin MappedRanges(space[t]) THEN Gone
        ELSE IF owner[p] = t THEN bytes[p] ELSE displaced[t][p]]

(* A row of the running process moves no byte of another, whatever range    *)
(* the row names: mmap.rs and resident.rs keep one process's bytes at any  *)
(* page it maps.                                                           *)
OthersAreUntouched ==
    [][\A t \in (live \cap live') \ {current} : View(t)' = View(t)]_vars

(* The owner table and the copies implement a memory of one's own: no      *)
(* row, store, fork, execve or end of one process moves a byte another     *)
(* would read, and a page that appears holds zeros or a file's bytes.      *)
PM == INSTANCE PrivateMemory WITH
        mem <- [t \in Tokens |-> View(t)], Loadable <- {Text} \cup {FileByte(o) : o \in 0 .. FilePages - 1}
KeepsPrivateMemory == PM!Spec
=============================================================================
