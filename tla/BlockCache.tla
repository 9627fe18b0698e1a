---------------------------- MODULE BlockCache ----------------------------
(***************************************************************************)
(* The cached blocks of block.rs and the marks of cpu/space.rs that keep   *)
(* them true to the bytes.  A space is a record [mem, prot, code, dirty,   *)
(* clean, perm]; a cache a record [slab, free, entries, recent, registry]. *)
(*                                                                         *)
(* A page some block was decoded from is marked; the first store to a      *)
(* marked page unmarks and queues it, and the queue is drained before the  *)
(* next fetch.  Two shortcuts stand before the marks: `clean`, the page a  *)
(* store last found unmarked, and `perm`, for each access the page it was  *)
(* last found permitted on.                                                *)
(***************************************************************************)
EXTENDS Blocks

CONSTANTS Capacity,  \* how many blocks before everything is thrown away
          Recent     \* slots of the small table in front of the map

ASSUME CacheAssumption == Capacity \in Nat \ {0} /\ Recent \in Nat \ {0}

Kinds == {"r", "w", "x"}
NoPage == -1
Hole == [entry |-> 0, code |-> <<>>, trace |-> <<>>]   \* a freed slab slot
Slot(a) == a % Recent

---------------------------------------------------------------------------
(* The space.                                                              *)

NewSpace(mem, prot) ==
    [mem |-> mem, prot |-> prot, code |-> {}, dirty |-> {}, clean |-> NoPage,
     perm |-> [k \in Kinds |-> NoPage]]

Permitted(space, a, access) ==
    space.perm[access] = Page(a) \/ access \in space.prot[Page(a)]
Remembered(space, a, access) == [space EXCEPT !.perm[access] = Page(a)]
Forgotten(space) == [space EXCEPT !.perm = [k \in Kinds |-> NoPage]]

\* note_code_write.
NoteCodeWrite(space, a) ==
    LET page == Page(a)
    IN  IF page = space.clean THEN space
        ELSE [space EXCEPT !.code = @ \ {page}, !.clean = page,
                           !.dirty = @ \cup (space.code \cap {page})]
Written(space, a, v) == NoteCodeWrite([space EXCEPT !.mem[a] = v], a)
HasDirtyCode(space) == space.dirty # {}

\* Mutant: a page once found unmarked stays the shortcut's.
MarkCodeQuietly(space, pages) == [space EXCEPT !.code = @ \cup pages]
MarkCode(space, pages) ==
    [space EXCEPT !.code = @ \cup pages, !.clean = IF @ \in pages THEN NoPage ELSE @]
ClearCode(space, pages) == [space EXCEPT !.code = @ \ pages]

Protect(space, page, rights) == Forgotten([space EXCEPT !.prot[page] = rights])
Unmap(space, page) ==
    Forgotten([space EXCEPT !.prot[page] = {}, !.code = @ \ {page},
                            !.dirty = @ \cup (space.code \cap {page})])

---------------------------------------------------------------------------
(* The cache.                                                              *)

EmptyCache ==
    [slab |-> <<>>, free |-> {}, entries |-> [a \in Word |-> 0],
     recent |-> [s \in 0..(Recent - 1) |-> <<NoPage, 0>>],
     registry |-> [p \in Pages |-> {}]]

Cached(cc) == {a \in Word : cc.entries[a] # 0}
PagesOf(block) == Page(block.entry)..Page(block.entry + Len(block.code) - 1)

\* Throws the whole cache away, and the marks with it.
Flush(cc) == EmptyCache
Unmarked(cc, space) == ClearCode(space, {p \in Pages : cc.registry[p] # {}})

\* drain_invalidations: invalidate_page of each queued page, in any order, drops
\* every block that took bytes from one, from all its pages.
Drained(cc, space, gone, registry) ==
    [cc |-> [cc EXCEPT
               !.slab = [n \in DOMAIN @ |-> IF n \in gone THEN Hole ELSE @[n]],
               !.free = @ \cup gone,
               !.entries = [a \in Word |-> IF @[a] \in gone THEN 0 ELSE @[a]],
               !.registry = registry],
     space |-> [ClearCode(space, {p \in Pages : cc.registry[p] # {} /\ registry[p] = {}})
                  EXCEPT !.dirty = {}]]
Drain(cc, space) ==
    LET gone == UNION {cc.registry[p] : p \in space.dirty}
    IN  Drained(cc, space, gone, [p \in Pages |-> cc.registry[p] \ gone])

\* install, in the slot given up last or a new one.
Install(cc, space, block) ==
    LET full == Cardinality(Cached(cc)) >= Capacity
        before == IF full THEN Flush(cc) ELSE cc
        marks == IF full THEN Unmarked(cc, space) ELSE space
        index == IF before.free = {} THEN Len(before.slab) + 1
                 ELSE CHOOSE n \in before.free : \A o \in before.free : n <= o
    IN  [index |-> index,
         cc |-> [before EXCEPT
            !.slab = [n \in DOMAIN @ \cup {index} |-> IF n = index THEN block ELSE before.slab[n]],
            !.free = @ \ {index},
            !.entries[block.entry] = index,
            !.registry = [p \in Pages |-> IF p \in PagesOf(block) THEN @[p] \cup {index} ELSE @[p]]],
         space |-> MarkCode(marks, PagesOf(block))]

\* The small table's answer for an address, checked against the block it names.
InRecent(cc, a) ==
    LET seen == cc.recent[Slot(a)]
    IN  seen[1] = a /\ seen[2] \in DOMAIN cc.slab
        /\ cc.slab[seen[2]] # Hole /\ cc.slab[seen[2]].entry = a
Remember(cc, a, index) == [cc EXCEPT !.recent[Slot(a)] = <<a, index>>]

\* A block that was not there is installed, if there is one.
Found(put, a) == [ok |-> TRUE, index |-> put.index, space |-> put.space,
                  cc |-> Remember(put.cc, a, put.index)]
Decoded(cc, space, a, fetch) ==
    IF fetch.ok
    THEN Found(Install(cc, space, [entry |-> a, code |-> fetch.code,
                                   trace |-> Transpile(a, fetch.code)]), a)
    ELSE [ok |-> FALSE, why |-> fetch.why, cc |-> cc, space |-> space]

\* entry: the block entered at a, decoding it if it is not there.  Nothing is
\* mapped past the last page.
Entry(cc, space, isa, a, cap) ==
    CASE a \notin Word -> [ok |-> FALSE, why |-> Fault(a, "x"), cc |-> cc, space |-> space]
      [] a \in Word /\ InRecent(cc, a) ->
            [ok |-> TRUE, index |-> cc.recent[Slot(a)][2], cc |-> cc, space |-> space]
      [] a \in Word /\ ~InRecent(cc, a) /\ cc.entries[a] # 0 ->
            [ok |-> TRUE, index |-> cc.entries[a], space |-> space,
             cc |-> Remember(cc, a, cc.entries[a])]
      [] a \in Word /\ ~InRecent(cc, a) /\ cc.entries[a] = 0 /\ Permitted(space, a, "x") ->
            Decoded(cc, Remembered(space, a, "x"), a,
                    Decode(space.mem, [space.prot EXCEPT ![Page(a)] = @ \cup {"x"}], isa, a, cap))
      [] OTHER -> Decoded(cc, space, a, Decode(space.mem, space.prot, isa, a, cap))

\* resolve_trace: the same answer, of what is already there.
Resolve(cc, a) == IF InRecent(cc, a) THEN cc.recent[Slot(a)][2] ELSE cc.entries[a]

---------------------------------------------------------------------------
(* What the two halves owe each other.                                     *)

Live(cc) == {n \in DOMAIN cc.slab : cc.slab[n] # Hole}

\* Every block is found under its entry and under every page it came from,
\* and every such page is watched or already queued.
Watched(cc, space) ==
    /\ \A n \in Live(cc) :
        /\ cc.entries[cc.slab[n].entry] = n
        /\ \A p \in PagesOf(cc.slab[n]) :
              n \in cc.registry[p] /\ p \in space.code \cup space.dirty
    /\ \A a \in Cached(cc) : cc.entries[a] \in Live(cc) /\ cc.slab[cc.entries[a]].entry = a
    /\ cc.free = DOMAIN cc.slab \ Live(cc)

\* Neither shortcut hides what the maps behind it say.
ShortcutsAreTrue(space) ==
    /\ space.clean \notin space.code
    /\ \A k \in Kinds : space.perm[k] # NoPage => k \in space.prot[space.perm[k]]

\* A block that is not queued to go says what the bytes say.
Current(cc, space, isa) ==
    \A n \in Live(cc) :
        PagesOf(cc.slab[n]) \cap space.dirty = {} =>
            \A k \in DOMAIN cc.slab[n].code :
                cc.slab[n].code[k] = isa[space.mem[cc.slab[n].entry + k - 1]]
===========================================================================
