------------------------------ MODULE CpuProofs -----------------------------
(***************************************************************************)
(* The block cache and its marks, for every program, every capacity of the *)
(* cache and every mixture of calls and of the kernel's writes.            *)
(*                                                                         *)
(* The inductive invariant is MarksHold with the shapes of the two records *)
(* (Holding).  Each operation of the cache and of the space is shown to    *)
(* keep it (SpaceMoves, DrainHolds, FlushHolds, AddedHolds), whatever it is *)
(* called on, and then each action to be made of such operations.          *)
(***************************************************************************)
EXTENDS Cpu, NaturalsInduction, WellFoundedInduction, TLAPS

---------------------------------------------------------------------------
(* What the invariant is made of.                                          *)

\* What a space is, whatever its bytes, rights and marks.
SpaceIs(s) ==
    /\ s = [mem |-> s.mem, prot |-> s.prot, code |-> s.code, dirty |-> s.dirty,
            clean |-> s.clean, perm |-> s.perm]
    /\ s.mem = [a \in Word |-> s.mem[a]]
    /\ s.prot = [p \in Pages |-> s.prot[p]]
    /\ s.perm = [k \in Kinds |-> s.perm[k]]
    /\ s.code \subseteq Pages
    /\ s.dirty \subseteq Pages

\* What a block is: at least one instruction, and none past the last address.
BlockIs(b) ==
    /\ b.entry \in Word
    /\ \E k \in 1..(W - b.entry) : Len(b.code) = k /\ DOMAIN b.code = 1..k

\* What a cache is: no page lists a slot that was given up.
CacheIs(c) ==
    /\ c = [slab |-> c.slab, free |-> c.free, entries |-> c.entries, recent |-> c.recent,
            registry |-> c.registry]
    /\ \E k \in Nat : Len(c.slab) = k /\ c.slab = [n \in 1..k |-> c.slab[n]]
    /\ c.entries = [a \in Word |-> c.entries[a]]
    /\ c.registry = [p \in Pages |-> c.registry[p]]
    /\ \A p \in Pages : c.registry[p] \subseteq Live(c)
    /\ \A n \in Live(c) : BlockIs(c.slab[n])

\* What Cpu.tla calls MarksHold, of any cache and any space.
Marks(c, s, isa) == Watched(c, s) /\ ShortcutsAreTrue(s) /\ Current(c, s, isa)

\* A cache and a space that hold each other up.
Holding(c, s, isa) == SpaceIs(s) /\ CacheIs(c) /\ Marks(c, s, isa)

\* The inductive invariant.
Inv == Holding(cc, space, GuestIsa)

---------------------------------------------------------------------------
(* Least and greatest members, lengths, and what decoding gives.           *)

\* A set of numbers has the least member that CHOOSE names.
LEMMA LeastIs ==
  ASSUME NEW S, S \subseteq Nat, S # {}
  PROVE  LET x == CHOOSE n \in S : \A o \in S : n <= o
         IN  x \in S /\ \A y \in S : x <= y
<1> DEFINE R == OpToRel(<, Nat)
<1>1. \A x, y \in Nat : x < y => <<x, y>> \in R
  <2> SUFFICES ASSUME NEW x \in Nat, NEW y \in Nat, x < y
               PROVE  <<x, y>> \in R
    OBVIOUS
  <2>1. <<x, y>> \in Nat \X Nat /\ <<x, y>>[1] = x /\ <<x, y>>[2] = y
    OBVIOUS
  <2> QED BY <2>1 DEF OpToRel
<1>2. \E x \in S : \A y \in S : <<y, x>> \notin R
  BY NatLessThanWellFounded, WFMin
<1> HIDE DEF R
<1>3. PICK x \in S : \A y \in S : <<y, x>> \notin R
  BY <1>2
<1>4. \A y \in S : ~(y < x)
  BY <1>1, <1>3
<1>5. \A y \in S : x <= y
  BY <1>4
<1> QED BY <1>5

\* A function of 1..k is as long as k.
LEMMA LengthIs ==
  ASSUME NEW k \in Nat, NEW f, DOMAIN f = 1..k, f = [i \in 1..k |-> f[i]]
  PROVE  Len(f) = k
<1>1. f \in Seq({f[i] : i \in 1..k})
  OBVIOUS
<1> QED BY <1>1

\* What is fetched is what memory says, and it is something.
Decodes(fetch, mem, isa, a) ==
    fetch.ok = TRUE =>
        \E k \in 1..(W - a) : fetch.code = [n \in 1..k |-> isa[mem[a + n - 1]]]

\* Decoding stops at the first instruction that ends a block, before the last address.
LEMMA DecodeIs ==
  ASSUME NEW mem, NEW prot, NEW isa, NEW a \in Word, NEW cap
  PROVE  Decodes(Decode(mem, prot, isa, a, cap), mem, isa, a)
<1> SUFFICES ASSUME Decode(mem, prot, isa, a, cap).ok = TRUE
             PROVE  \E k \in 1..(W - a) :
                      Decode(mem, prot, isa, a, cap).code = [n \in 1..k |-> isa[mem[a + n - 1]]]
  BY DEF Decodes
<1> DEFINE Runs(n) == \A p \in Page(a)..Page(n) : "x" \in prot[p]
           ends == {n \in a..(W - 1) :
                    \/ Terminates(isa[mem[n]])
                    \/ n + 1 - a = cap
                    \/ n + 1 = W \/ ~Runs(n + 1)}
           end == CHOOSE n \in ends : \A o \in ends : n <= o
           bad == {n \in a..end : isa[mem[n]].op = "bad"}
<1>1. ends \subseteq Nat /\ W - 1 \in ends
  BY DEF W, Word
<1>2. end \in ends
  <2> HIDE DEF ends
  <2> QED BY <1>1, LeastIs
<1>3. end \in a..(W - 1)
  BY <1>2
<1> HIDE DEF end
<1>4. Decode(mem, prot, isa, a, cap)
        = CASE "x" \notin prot[Page(a)] -> [ok |-> FALSE, why |-> Fault(a, "x")]
          [] "x" \in prot[Page(a)] /\ bad # {} ->
                [ok |-> FALSE, why |-> Trap("undefined", CHOOSE n \in bad : \A o \in bad : n <= o)]
          [] OTHER -> [ok |-> TRUE, code |-> [n \in 1..(end - a + 1) |-> isa[mem[a + n - 1]]]]
  BY DEF Decode, end
<1> HIDE DEF bad
<1>5. Decode(mem, prot, isa, a, cap)
        = [ok |-> TRUE, code |-> [n \in 1..(end - a + 1) |-> isa[mem[a + n - 1]]]]
  BY <1>4
<1>6. end - a + 1 \in 1..(W - a)
  BY <1>3 DEF W, Word
<1> QED BY <1>5, <1>6

\* The pages of a block are pages, and each of its instructions is on one.
LEMMA PagesAre ==
  ASSUME NEW b, BlockIs(b)
  PROVE  /\ PagesOf(b) \subseteq Pages
         /\ \A i \in DOMAIN b.code : /\ b.entry + i - 1 \in Word
                                     /\ Page(b.entry + i - 1) \in PagesOf(b)
         /\ b # Hole
         /\ Page(b.entry) \in PagesOf(b)
<1>1. PICK k \in 1..(W - b.entry) : Len(b.code) = k /\ DOMAIN b.code = 1..k
  BY DEF BlockIs
<1> DEFINE e == b.entry
<1>2. e \in 0..7 /\ k \in Nat /\ k >= 1 /\ e + k <= 8
  BY <1>1 DEF BlockIs, W, Word
<1>3. PagesOf(b) = (e \div 2)..((e + k - 1) \div 2)
  BY <1>1 DEF PagesOf, Page, PageSize
<1>4. Pages = 0..3
  BY DEF Pages, W, PageSize
<1>5. b # Hole
  <2> SUFFICES ASSUME b = Hole PROVE FALSE
    OBVIOUS
  <2>1. Len(b.code) = 0
    BY DEF Hole
  <2> QED BY <2>1, <1>1, <1>2
<1> HIDE DEF e
<1>6. PagesOf(b) \subseteq Pages
  BY <1>2, <1>3, <1>4
<1>7. ASSUME NEW i \in 1..k
      PROVE  e + i - 1 \in Word /\ Page(e + i - 1) \in PagesOf(b)
  <2>1. e + i - 1 \in 0..7 /\ e <= e + i - 1 /\ e + i - 1 <= e + k - 1
    BY <1>2
  <2>2. (e + i - 1) \div 2 \in (e \div 2)..((e + k - 1) \div 2)
    BY <1>2, <2>1
  <2> QED BY <2>1, <2>2, <1>3 DEF Word, W, Page, PageSize
<1>8. Page(e) \in PagesOf(b)
  BY <1>2, <1>3 DEF Page, PageSize
<1> QED BY <1>1, <1>5, <1>6, <1>7, <1>8 DEF e

\* A slot in use is a slot, and 0, which names none, is not one.
LEMMA HolesAre ==
  ASSUME NEW c, CacheIs(c)
  PROVE  /\ c.slab = [n \in DOMAIN c.slab |-> c.slab[n]]
         /\ \E k \in Nat : DOMAIN c.slab = 1..k /\ Len(c.slab) = k
         /\ Live(c) \subseteq DOMAIN c.slab
         /\ 0 \notin DOMAIN c.slab
  BY DEF CacheIs, Live

---------------------------------------------------------------------------
(* The operations of the space.                                            *)

\* A step of the space alone that keeps the marks.
LEMMA SpaceMoves ==
  ASSUME NEW c, NEW s, NEW t, NEW isa, Holding(c, s, isa), SpaceIs(t),
         s.code \cup s.dirty \subseteq t.code \cup t.dirty, s.dirty \subseteq t.dirty,
         ShortcutsAreTrue(t),
         \A n \in Live(c) : PagesOf(c.slab[n]) \cap t.dirty = {} =>
            \A a \in Word : Page(a) \in PagesOf(c.slab[n]) => t.mem[a] = s.mem[a]
  PROVE  Holding(c, t, isa)
<1>1. Watched(c, t)
  BY DEF Holding, Marks, Watched
<1>2. Current(c, t, isa)
  <2> SUFFICES ASSUME NEW n \in Live(c), PagesOf(c.slab[n]) \cap t.dirty = {},
                      NEW k \in DOMAIN c.slab[n].code
               PROVE  c.slab[n].code[k] = isa[t.mem[c.slab[n].entry + k - 1]]
    BY DEF Current
  <2>1. PagesOf(c.slab[n]) \cap s.dirty = {}
    OBVIOUS
  <2>2. c.slab[n].code[k] = isa[s.mem[c.slab[n].entry + k - 1]]
    BY <2>1 DEF Holding, Marks, Current
  <2>3. BlockIs(c.slab[n])
    BY DEF Holding, CacheIs
  <2>4. /\ c.slab[n].entry + k - 1 \in Word
        /\ Page(c.slab[n].entry + k - 1) \in PagesOf(c.slab[n])
    BY <2>3, PagesAre
  <2> QED BY <2>2, <2>4
<1> QED BY <1>1, <1>2 DEF Holding, Marks

\* A store: of a page that holds code, it takes the mark and queues the page.
LEMMA WrittenHolds ==
  ASSUME NEW c, NEW s, NEW isa, Holding(c, s, isa), NEW a, NEW v
  PROVE  Holding(c, Written(s, a, v), isa)
<1> DEFINE t == Written(s, a, v)
           page == Page(a)
<1>0. SpaceIs(s) /\ ShortcutsAreTrue(s)
  BY DEF Holding, Marks
<1>1. /\ t.mem = [s.mem EXCEPT ![a] = v] /\ t.prot = s.prot /\ t.perm = s.perm
      /\ page = s.clean => t.code = s.code /\ t.dirty = s.dirty /\ t.clean = s.clean
      /\ page # s.clean => /\ t.code = s.code \ {page}
                           /\ t.dirty = s.dirty \cup (s.code \cap {page})
                           /\ t.clean = page
      /\ t = [mem |-> t.mem, prot |-> t.prot, code |-> t.code, dirty |-> t.dirty,
              clean |-> t.clean, perm |-> t.perm]
  BY <1>0 DEF SpaceIs, Written, NoteCodeWrite
<1> HIDE DEF t, page
<1>2. SpaceIs(t)
  BY <1>0, <1>1 DEF SpaceIs
<1>3. ShortcutsAreTrue(t)
  BY <1>0, <1>1 DEF ShortcutsAreTrue
<1>4. ASSUME NEW n \in Live(c), PagesOf(c.slab[n]) \cap t.dirty = {},
             NEW b \in Word, Page(b) \in PagesOf(c.slab[n])
      PROVE  t.mem[b] = s.mem[b]
  <2>1. CASE b # a
    BY <2>1, <1>0, <1>1 DEF SpaceIs
  <2>2. CASE b = a
    <3>1. page \in s.code \cup s.dirty
      BY <2>2, <1>4 DEF Holding, Marks, Watched, page
    <3>2. page \in t.dirty
      BY <3>1, <1>0, <1>1 DEF ShortcutsAreTrue
    <3> QED BY <3>2, <2>2, <1>4 DEF page
  <2> QED BY <2>1, <2>2
<1>5. s.code \cup s.dirty \subseteq t.code \cup t.dirty /\ s.dirty \subseteq t.dirty
  BY <1>1
<1>6. Holding(c, t, isa)
  BY <1>2, <1>3, <1>4, <1>5, SpaceMoves
<1> QED BY <1>6 DEF t

\* What is remembered of rights can change, if what it says is true.
LEMMA PermHolds ==
  ASSUME NEW c, NEW s, NEW isa, Holding(c, s, isa), NEW f, f = [k \in Kinds |-> f[k]],
         \A k \in Kinds : f[k] # NoPage => k \in s.prot[f[k]]
  PROVE  Holding(c, [s EXCEPT !.perm = f], isa)
<1> DEFINE t == [s EXCEPT !.perm = f]
<1>0. SpaceIs(s) /\ ShortcutsAreTrue(s)
  BY DEF Holding, Marks
<1>1. /\ t.mem = s.mem /\ t.prot = s.prot /\ t.perm = f /\ t.code = s.code /\ t.dirty = s.dirty
      /\ t.clean = s.clean
      /\ t = [mem |-> t.mem, prot |-> t.prot, code |-> t.code, dirty |-> t.dirty,
              clean |-> t.clean, perm |-> t.perm]
  BY <1>0 DEF SpaceIs
<1> HIDE DEF t
<1>2. SpaceIs(t)
  BY <1>0, <1>1 DEF SpaceIs
<1>3. ShortcutsAreTrue(t)
  BY <1>0, <1>1 DEF ShortcutsAreTrue
<1>6. Holding(c, t, isa)
  BY <1>1, <1>2, <1>3, SpaceMoves
<1> QED BY <1>6 DEF t

\* An access that is permitted is remembered as such.
LEMMA RememberedHolds ==
  ASSUME NEW c, NEW s, NEW isa, Holding(c, s, isa), NEW a, NEW k \in Kinds, Permitted(s, a, k)
  PROVE  Holding(c, Remembered(s, a, k), isa)
<1> DEFINE f == [s.perm EXCEPT ![k] = Page(a)]
<1>0. SpaceIs(s) /\ ShortcutsAreTrue(s)
  BY DEF Holding, Marks
<1>1. f = [o \in Kinds |-> f[o]]
  BY <1>0 DEF SpaceIs
<1>2. ASSUME NEW o \in Kinds, f[o] # NoPage PROVE o \in s.prot[f[o]]
  <2>1. CASE o = k
    <3>1. f[o] = Page(a)
      BY <2>1, <1>0 DEF SpaceIs
    <3> QED BY <3>1, <2>1, <1>0, <1>2 DEF ShortcutsAreTrue, Permitted
  <2>2. CASE o # k
    BY <2>2, <1>0, <1>2 DEF SpaceIs, ShortcutsAreTrue
  <2> QED BY <2>1, <2>2
<1>3. Remembered(s, a, k) = [s EXCEPT !.perm = f]
  BY DEF Remembered
<1> HIDE DEF f
<1> QED BY <1>1, <1>2, <1>3, PermHolds

\* Forgetting changes nothing but what was remembered.
LEMMA ForgottenIs ==
  ASSUME NEW s, s = [mem |-> s.mem, prot |-> s.prot, code |-> s.code, dirty |-> s.dirty,
                     clean |-> s.clean, perm |-> s.perm]
  PROVE  Forgotten(s) = [mem |-> s.mem, prot |-> s.prot, code |-> s.code, dirty |-> s.dirty,
                         clean |-> s.clean, perm |-> [k \in Kinds |-> NoPage]]
  BY DEF Forgotten

\* A page taken out of the space and put back with other rights.
LEMMA SyncIs ==
  ASSUME NEW s, SpaceIs(s), NEW page, NEW rights
  PROVE  Protect(Unmap(s, page), page, rights)
           = [mem |-> s.mem, prot |-> [[s.prot EXCEPT ![page] = {}] EXCEPT ![page] = rights],
              code |-> s.code \ {page}, dirty |-> s.dirty \cup (s.code \cap {page}),
              clean |-> s.clean, perm |-> [k \in Kinds |-> NoPage]]
<1> DEFINE u == [s EXCEPT !.prot[page] = {}, !.code = @ \ {page},
                          !.dirty = @ \cup (s.code \cap {page})]
           v == Forgotten(u)
           w == [v EXCEPT !.prot[page] = rights]
<1>1. u = [mem |-> s.mem, prot |-> [s.prot EXCEPT ![page] = {}], code |-> s.code \ {page},
           dirty |-> s.dirty \cup (s.code \cap {page}), clean |-> s.clean, perm |-> s.perm]
  <2>1. u = [s EXCEPT !.prot = [s.prot EXCEPT ![page] = {}], !.code = @ \ {page},
                      !.dirty = @ \cup (s.code \cap {page})]
    OBVIOUS
  <2> DEFINE prot == [s.prot EXCEPT ![page] = {}]
             code == s.code \ {page}
             dirty == s.dirty \cup (s.code \cap {page})
  <2>2. u = [s EXCEPT !.prot = prot, !.code = code, !.dirty = dirty]
    BY <2>1
  <2> HIDE DEF prot, code, dirty, u
  <2>3. u = [mem |-> s.mem, prot |-> prot, code |-> code, dirty |-> dirty,
             clean |-> s.clean, perm |-> s.perm]
    BY <2>2 DEF SpaceIs
  <2> QED BY <2>3 DEF prot, code, dirty
<1>2. Unmap(s, page) = v /\ Protect(v, page, rights) = Forgotten(w)
  BY DEF Unmap, Protect
<1> DEFINE prot == [s.prot EXCEPT ![page] = {}]
           again == [prot EXCEPT ![page] = rights]
           code == s.code \ {page}
           dirty == s.dirty \cup (s.code \cap {page})
           none == [k \in Kinds |-> NoPage]
<1>3. v = [mem |-> s.mem, prot |-> prot, code |-> code, dirty |-> dirty, clean |-> s.clean,
           perm |-> none]
  <2>1. u = [mem |-> s.mem, prot |-> prot, code |-> code, dirty |-> dirty, clean |-> s.clean,
             perm |-> s.perm]
    BY <1>1
  <2> HIDE DEF u, prot, code, dirty
  <2>2. /\ u = [mem |-> u.mem, prot |-> u.prot, code |-> u.code, dirty |-> u.dirty,
                clean |-> u.clean, perm |-> u.perm]
        /\ u.mem = s.mem /\ u.prot = prot /\ u.code = code /\ u.dirty = dirty
        /\ u.clean = s.clean
    BY <2>1
  <2>3. v = [mem |-> u.mem, prot |-> u.prot, code |-> u.code, dirty |-> u.dirty,
             clean |-> u.clean, perm |-> none]
    BY <2>2, ForgottenIs
  <2> QED BY <2>2, <2>3
<1> HIDE DEF v
<1>4. w = [mem |-> s.mem, prot |-> again, code |-> code, dirty |-> dirty, clean |-> s.clean,
           perm |-> none]
  <2>1. w = [v EXCEPT !.prot = [v.prot EXCEPT ![page] = rights]]
    OBVIOUS
  <2>2. v.prot = prot
    BY <1>3
  <2>3. w = [v EXCEPT !.prot = again]
    BY <2>1, <2>2
  <2> HIDE DEF prot, again, code, dirty, none, w
  <2> QED BY <2>3, <1>3
<1> HIDE DEF w
<1>5. Forgotten(w) = w
  <2> HIDE DEF prot, again, code, dirty
  <2>1. /\ w = [mem |-> w.mem, prot |-> w.prot, code |-> w.code, dirty |-> w.dirty,
                clean |-> w.clean, perm |-> w.perm]
        /\ w.perm = none
    BY <1>4
  <2> QED BY <2>1, ForgottenIs
<1> QED BY <1>2, <1>4, <1>5

\* Such a page is queued if it held code.
LEMMA SyncHolds ==
  ASSUME NEW c, NEW s, NEW isa, Holding(c, s, isa), NEW page, NEW rights
  PROVE  Holding(c, Protect(Unmap(s, page), page, rights), isa)
<1> DEFINE t == Protect(Unmap(s, page), page, rights)
<1>0. SpaceIs(s) /\ ShortcutsAreTrue(s)
  BY DEF Holding, Marks
<1>1. t = [mem |-> s.mem, prot |-> [[s.prot EXCEPT ![page] = {}] EXCEPT ![page] = rights],
           code |-> s.code \ {page}, dirty |-> s.dirty \cup (s.code \cap {page}),
           clean |-> s.clean, perm |-> [k \in Kinds |-> NoPage]]
  BY <1>0, SyncIs
<1> HIDE DEF t
<1>2. SpaceIs(t)
  BY <1>0, <1>1 DEF SpaceIs
<1>3. ShortcutsAreTrue(t)
  BY <1>0, <1>1 DEF ShortcutsAreTrue
<1>4. s.code \cup s.dirty \subseteq t.code \cup t.dirty /\ s.dirty \subseteq t.dirty
  BY <1>1
<1>6. Holding(c, t, isa)
  BY <1>1, <1>2, <1>3, <1>4, SpaceMoves
<1> QED BY <1>6 DEF t

---------------------------------------------------------------------------
(* The operations of the cache.                                            *)

\* What is left of a cache without the blocks that took bytes from queued pages.
LEMMA DrainIs ==
  ASSUME NEW c, NEW s, NEW isa, Holding(c, s, isa)
  PROVE  LET d == Drain(c, s)
             gone == UNION {c.registry[p] : p \in s.dirty}
         IN  /\ SpaceIs(d.space) /\ CacheIs(d.cc)
             /\ d.space.dirty = {} /\ d.space.mem = s.mem /\ d.space.prot = s.prot
             /\ d.space.perm = s.perm /\ d.space.clean = s.clean
             /\ d.space.code
                  = s.code \ {p \in Pages : c.registry[p] # {} /\ c.registry[p] \ gone = {}}
             /\ Live(d.cc) = Live(c) \ gone
             /\ \A n \in Live(d.cc) : d.cc.slab[n] = c.slab[n]
             /\ \A a \in Word : d.cc.entries[a] = IF c.entries[a] \in gone THEN 0 ELSE c.entries[a]
             /\ \A p \in Pages : d.cc.registry[p] = c.registry[p] \ gone
             /\ d.cc.free = c.free \cup gone
             /\ DOMAIN d.cc.slab = DOMAIN c.slab
<1> DEFINE d == Drain(c, s)
           gone == UNION {c.registry[p] : p \in s.dirty}
           registry == [p \in Pages |-> c.registry[p] \ gone]
           bare == {p \in Pages : c.registry[p] # {} /\ registry[p] = {}}
           slab == [n \in DOMAIN c.slab |-> IF n \in gone THEN Hole ELSE c.slab[n]]
           entries == [a \in Word |-> IF c.entries[a] \in gone THEN 0 ELSE c.entries[a]]
<1>0. SpaceIs(s) /\ CacheIs(c)
  BY DEF Holding
<1>1. d = Drained(c, s, gone, registry)
  BY DEF Drain
<1> HIDE DEF d, gone, registry, slab, entries
<1>2. /\ d.cc = [c EXCEPT !.slab = slab, !.free = @ \cup gone, !.entries = entries,
                          !.registry = registry]
      /\ d.space = [ClearCode(s, bare) EXCEPT !.dirty = {}]
  BY <1>1 DEF Drained, slab, entries
<1>3. /\ d.cc.slab = slab /\ d.cc.free = c.free \cup gone /\ d.cc.entries = entries
      /\ d.cc.registry = registry
      /\ d.cc = [slab |-> d.cc.slab, free |-> d.cc.free, entries |-> d.cc.entries,
                 recent |-> d.cc.recent, registry |-> d.cc.registry]
  BY <1>0, <1>2 DEF CacheIs
<1>4. /\ d.space.dirty = {} /\ d.space.mem = s.mem /\ d.space.prot = s.prot
      /\ d.space.perm = s.perm /\ d.space.clean = s.clean /\ d.space.code = s.code \ bare
      /\ d.space = [mem |-> d.space.mem, prot |-> d.space.prot, code |-> d.space.code,
                    dirty |-> d.space.dirty, clean |-> d.space.clean, perm |-> d.space.perm]
  BY <1>0, <1>2 DEF SpaceIs, ClearCode
<1> HIDE DEF bare
<1>5. SpaceIs(d.space)
  BY <1>0, <1>4 DEF SpaceIs
<1>6. \A p \in Pages : registry[p] = c.registry[p] \ gone
  BY DEF registry
<1>7. \A a \in Word : entries[a] = IF c.entries[a] \in gone THEN 0 ELSE c.entries[a]
  BY DEF entries
<1>8. DOMAIN slab = DOMAIN c.slab
      /\ \A n \in DOMAIN slab : slab[n] = IF n \in gone THEN Hole ELSE c.slab[n]
  BY DEF slab
<1>9. Live(d.cc) = Live(c) \ gone /\ \A n \in Live(d.cc) : d.cc.slab[n] = c.slab[n]
  BY <1>3, <1>8 DEF Live
<1>10. CacheIs(d.cc)
  <2>1. PICK k \in Nat : DOMAIN c.slab = 1..k /\ Len(c.slab) = k
    BY <1>0, HolesAre
  <2>2. slab = [n \in 1..k |-> slab[n]]
    BY <2>1 DEF slab
  <2>3. Len(slab) = k
    BY <2>1, <2>2, <1>8, LengthIs
  <2>4. \E j \in Nat : Len(d.cc.slab) = j /\ d.cc.slab = [n \in 1..j |-> d.cc.slab[n]]
    BY <2>2, <2>3, <1>3
  <2>5. d.cc.entries = [a \in Word |-> d.cc.entries[a]]
    BY <1>3 DEF entries
  <2>6. d.cc.registry = [p \in Pages |-> d.cc.registry[p]]
    BY <1>3 DEF registry
  <2>7. \A p \in Pages : d.cc.registry[p] \subseteq Live(d.cc)
    BY <1>0, <1>3, <1>6, <1>9 DEF CacheIs
  <2>8. \A n \in Live(d.cc) : BlockIs(d.cc.slab[n])
    BY <1>0, <1>9 DEF CacheIs
  <2> QED BY <1>3, <2>4, <2>5, <2>6, <2>7, <2>8 DEF CacheIs
<1>11. bare = {p \in Pages : c.registry[p] # {} /\ c.registry[p] \ gone = {}}
  BY <1>6 DEF bare
<1> QED BY <1>3, <1>4, <1>5, <1>6, <1>7, <1>8, <1>9, <1>10, <1>11 DEF d, gone

\* Draining the queue leaves no block that came from a queued page.
LEMMA DrainHolds ==
  ASSUME NEW c, NEW s, NEW isa, Holding(c, s, isa)
  PROVE  Holding(Drain(c, s).cc, Drain(c, s).space, isa) /\ Drain(c, s).space.dirty = {}
<1> DEFINE gone == UNION {c.registry[p] : p \in s.dirty}
           e == Drain(c, s).cc
           t == Drain(c, s).space
<1>0. SpaceIs(s) /\ CacheIs(c) /\ Watched(c, s) /\ ShortcutsAreTrue(s) /\ Current(c, s, isa)
  BY DEF Holding, Marks
<1>1. /\ SpaceIs(t) /\ CacheIs(e)
      /\ t.dirty = {} /\ t.mem = s.mem /\ t.prot = s.prot
      /\ t.perm = s.perm /\ t.clean = s.clean
      /\ t.code = s.code \ {p \in Pages : c.registry[p] # {} /\ c.registry[p] \ gone = {}}
      /\ Live(e) = Live(c) \ gone
      /\ \A n \in Live(e) : e.slab[n] = c.slab[n]
      /\ \A a \in Word : e.entries[a] = IF c.entries[a] \in gone THEN 0 ELSE c.entries[a]
      /\ \A p \in Pages : e.registry[p] = c.registry[p] \ gone
      /\ e.free = c.free \cup gone
      /\ DOMAIN e.slab = DOMAIN c.slab
  BY DrainIs
<1>2. gone \subseteq Live(c) /\ \A p \in s.dirty : c.registry[p] \subseteq gone
  BY <1>0 DEF CacheIs, SpaceIs
<1> HIDE DEF gone, e, t
<1>3. ASSUME NEW n \in Live(e)
      PROVE  /\ n \in Live(c) /\ n \notin gone /\ e.slab[n] = c.slab[n]
             /\ BlockIs(e.slab[n]) /\ e.slab[n].entry \in Word
             /\ \A p \in PagesOf(e.slab[n]) :
                   p \in Pages /\ n \in c.registry[p] /\ p \notin s.dirty /\ p \in s.code
  <2>1. n \in Live(c) /\ n \notin gone /\ e.slab[n] = c.slab[n] /\ BlockIs(e.slab[n])
    BY <1>1 DEF CacheIs
  <2>2. ASSUME NEW p \in PagesOf(e.slab[n])
        PROVE  p \in Pages /\ n \in c.registry[p] /\ p \notin s.dirty /\ p \in s.code
    BY <2>1, <1>0, <1>2, PagesAre DEF Watched
  <2> QED BY <2>1, <2>2 DEF BlockIs
<1>4. Watched(e, t)
  <2>1. ASSUME NEW n \in Live(e)
        PROVE  /\ e.entries[e.slab[n].entry] = n
               /\ \A p \in PagesOf(e.slab[n]) : n \in e.registry[p] /\ p \in t.code \cup t.dirty
    <3>1. c.entries[c.slab[n].entry] = n
      BY <1>0, <1>3 DEF Watched
    <3>2. e.entries[e.slab[n].entry] = n
      BY <3>1, <1>1, <1>3
    <3>3. ASSUME NEW p \in PagesOf(e.slab[n])
          PROVE  n \in e.registry[p] /\ p \in t.code
      BY <1>1, <1>3
    <3> QED BY <3>2, <3>3
  <2>2. ASSUME NEW a \in Cached(e)
        PROVE  e.entries[a] \in Live(e) /\ e.slab[e.entries[a]].entry = a
    <3>1. a \in Word /\ e.entries[a] # 0
      BY DEF Cached
    <3>2. e.entries[a] = c.entries[a] /\ c.entries[a] \notin gone /\ a \in Cached(c)
      BY <3>1, <1>1 DEF Cached
    <3> QED BY <3>2, <1>0, <1>1 DEF Watched
  <2>3. e.free = DOMAIN e.slab \ Live(e)
    BY <1>0, <1>1, <1>2 DEF Watched, Live
  <2> QED BY <2>1, <2>2, <2>3 DEF Watched
<1>5. ShortcutsAreTrue(t)
  BY <1>0, <1>1 DEF ShortcutsAreTrue
<1>6. Current(e, t, isa)
  <2> SUFFICES ASSUME NEW n \in Live(e), NEW k \in DOMAIN e.slab[n].code
               PROVE  e.slab[n].code[k] = isa[t.mem[e.slab[n].entry + k - 1]]
    BY DEF Current
  <2>1. PagesOf(c.slab[n]) \cap s.dirty = {}
    BY <1>3
  <2> QED BY <2>1, <1>0, <1>1, <1>3 DEF Current
<1> QED BY <1>1, <1>4, <1>5, <1>6 DEF Holding, Marks, e, t

\* An empty cache agrees with every space.
LEMMA EmptyHolds ==
  ASSUME NEW s, NEW isa
  PROVE  /\ CacheIs(EmptyCache) /\ Watched(EmptyCache, s) /\ Current(EmptyCache, s, isa)
         /\ \A a \in Word : EmptyCache.entries[a] = 0
<1> DEFINE e == EmptyCache
<1>2. /\ e.slab = <<>> /\ e.free = {} /\ \A a \in Word : e.entries[a] = 0
      /\ e.entries = [a \in Word |-> 0] /\ e.registry = [p \in Pages |-> {}]
      /\ e = [slab |-> e.slab, free |-> e.free, entries |-> e.entries, recent |-> e.recent,
              registry |-> e.registry]
  BY DEF EmptyCache
<1> HIDE DEF e
<1>3. Live(e) = {} /\ DOMAIN e.slab = {}
  BY <1>2 DEF Live
<1>5. CacheIs(e)
  <2>1. Len(e.slab) = 0 /\ e.slab = [n \in 1..0 |-> e.slab[n]] /\ 0 \in Nat
    BY <1>2
  <2>2. e.entries = [a \in Word |-> e.entries[a]] /\ e.registry = [p \in Pages |-> e.registry[p]]
        /\ \A p \in Pages : e.registry[p] = {}
    BY <1>2
  <2> QED BY <1>2, <1>3, <2>1, <2>2 DEF CacheIs
<1>7. Watched(e, s) /\ Current(e, s, isa)
  BY <1>2, <1>3 DEF Watched, Current, Cached
<1> QED BY <1>2, <1>5, <1>7 DEF e

\* Throwing every block away, and with them the marks of the pages they came from.
LEMMA FlushHolds ==
  ASSUME NEW c, NEW s, NEW isa, Holding(c, s, isa)
  PROVE  /\ Holding(Flush(c), Unmarked(c, s), isa)
         /\ \A a \in Word : Flush(c).entries[a] = 0
         /\ Unmarked(c, s).dirty = s.dirty /\ Unmarked(c, s).mem = s.mem
<1> DEFINE t == Unmarked(c, s)
           marked == {p \in Pages : c.registry[p] # {}}
<1>0. SpaceIs(s) /\ ShortcutsAreTrue(s)
  BY DEF Holding, Marks
<1>1. /\ t = [mem |-> s.mem, prot |-> s.prot, code |-> s.code \ marked, dirty |-> s.dirty,
              clean |-> s.clean, perm |-> s.perm]
  <2> DEFINE code == s.code \ marked
  <2>1. t = [s EXCEPT !.code = code]
    BY DEF Unmarked, ClearCode
  <2> HIDE DEF t, code
  <2>2. t = [mem |-> s.mem, prot |-> s.prot, code |-> code, dirty |-> s.dirty,
             clean |-> s.clean, perm |-> s.perm]
    BY <1>0, <2>1 DEF SpaceIs
  <2> QED BY <2>2 DEF code
<1> HIDE DEF t, marked
<1>4. SpaceIs(t)
  BY <1>0, <1>1 DEF SpaceIs
<1>6. ShortcutsAreTrue(t)
  BY <1>0, <1>1 DEF ShortcutsAreTrue
<1> QED BY <1>1, <1>4, <1>6, EmptyHolds DEF Flush, Holding, Marks, t

\* The slot a block goes to.
SlotFor(c) == IF c.free = {} THEN Len(c.slab) + 1
              ELSE CHOOSE n \in c.free : \A o \in c.free : n <= o
\* The cache with the block in it.
Added(c, b) ==
    [c EXCEPT
       !.slab = [n \in DOMAIN @ \cup {SlotFor(c)} |-> IF n = SlotFor(c) THEN b ELSE c.slab[n]],
       !.free = @ \ {SlotFor(c)},
       !.entries[b.entry] = SlotFor(c),
       !.registry = [p \in Pages |-> IF p \in PagesOf(b) THEN @[p] \cup {SlotFor(c)} ELSE @[p]]]

\* The slot a block goes to is not in use, and one of those given up or the next.
LEMMA SlotIs ==
  ASSUME NEW c, NEW s, NEW isa, Holding(c, s, isa)
  PROVE  /\ SlotFor(c) \notin Live(c) /\ SlotFor(c) # 0
         /\ \E k \in Nat : DOMAIN c.slab \cup {SlotFor(c)} = 1..k
         /\ c.free \ {SlotFor(c)} = (DOMAIN c.slab \cup {SlotFor(c)}) \ (Live(c) \cup {SlotFor(c)})
<1>0. CacheIs(c) /\ c.free = DOMAIN c.slab \ Live(c) /\ Live(c) \subseteq DOMAIN c.slab
  BY DEF Holding, Marks, Watched, Live
<1>1. PICK k \in Nat : DOMAIN c.slab = 1..k /\ Len(c.slab) = k
  BY <1>0, HolesAre
<1>2. CASE c.free = {}
  <2>1. SlotFor(c) = k + 1
    BY <1>1, <1>2 DEF SlotFor
  <2>2. DOMAIN c.slab \cup {SlotFor(c)} = 1..(k + 1)
    BY <1>1, <2>1
  <2> QED BY <1>0, <1>1, <1>2, <2>1, <2>2
<1>3. CASE c.free # {}
  <2>1. c.free \subseteq Nat
    BY <1>0, <1>1
  <2>2. SlotFor(c) \in c.free
    BY <1>3, <2>1, LeastIs DEF SlotFor
  <2> QED BY <1>0, <1>1, <2>2
<1> QED BY <1>2, <1>3

\* A block that says what memory says, put in where there was none.
LEMMA AddedHolds ==
  ASSUME NEW c, NEW s, NEW isa, Holding(c, s, isa), s.dirty = {},
         NEW b, BlockIs(b), c.entries[b.entry] = 0,
         \A k \in DOMAIN b.code : b.code[k] = isa[s.mem[b.entry + k - 1]]
  PROVE  /\ Holding(Added(c, b), MarkCode(s, PagesOf(b)), isa)
         /\ MarkCode(s, PagesOf(b)).dirty = {} /\ MarkCode(s, PagesOf(b)).mem = s.mem
         /\ SlotFor(c) \in Live(Added(c, b)) /\ Added(c, b).slab[SlotFor(c)] = b
<1> DEFINE e == Added(c, b)
           t == MarkCode(s, PagesOf(b))
           i == SlotFor(c)
           slab == [n \in DOMAIN c.slab \cup {i} |-> IF n = i THEN b ELSE c.slab[n]]
           entries == [c.entries EXCEPT ![b.entry] = i]
           registry == [p \in Pages |-> IF p \in PagesOf(b) THEN c.registry[p] \cup {i}
                                       ELSE c.registry[p]]
<1>0. SpaceIs(s) /\ CacheIs(c) /\ Watched(c, s) /\ ShortcutsAreTrue(s) /\ Current(c, s, isa)
  BY DEF Holding, Marks
<1>1. e = [c EXCEPT !.slab = slab, !.free = @ \ {i}, !.entries = entries, !.registry = registry]
  BY DEF Added
<1>2. /\ t = [mem |-> s.mem, prot |-> s.prot, code |-> s.code \cup PagesOf(b), dirty |-> s.dirty,
              clean |-> IF s.clean \in PagesOf(b) THEN NoPage ELSE s.clean, perm |-> s.perm]
  <2> DEFINE code == s.code \cup PagesOf(b)
             clean == IF s.clean \in PagesOf(b) THEN NoPage ELSE s.clean
  <2>1. t = [s EXCEPT !.code = code, !.clean = clean]
    BY DEF MarkCode
  <2> HIDE DEF t, code, clean
  <2>2. t = [mem |-> s.mem, prot |-> s.prot, code |-> code, dirty |-> s.dirty,
             clean |-> clean, perm |-> s.perm]
    BY <1>0, <2>1 DEF SpaceIs
  <2> QED BY <2>2 DEF code, clean
<1>3. /\ b.entry \in Word /\ PagesOf(b) \subseteq Pages /\ b # Hole
      /\ \A p \in Pages : p # NoPage
  BY PagesAre DEF BlockIs, Pages, NoPage, W, PageSize
<1>4. /\ i \notin Live(c) /\ i # 0
      /\ \E k \in Nat : DOMAIN c.slab \cup {i} = 1..k
      /\ c.free \ {i} = (DOMAIN c.slab \cup {i}) \ (Live(c) \cup {i})
  BY SlotIs
<1>5. /\ DOMAIN slab = DOMAIN c.slab \cup {i} /\ slab[i] = b
      /\ \A n \in DOMAIN c.slab : n # i => slab[n] = c.slab[n]
  OBVIOUS
<1>6. /\ \A a \in Word : entries[a] = IF a = b.entry THEN i ELSE c.entries[a]
      /\ entries = [a \in Word |-> entries[a]]
  BY <1>0, <1>3 DEF CacheIs
<1>7. /\ \A p \in Pages : registry[p] = IF p \in PagesOf(b) THEN c.registry[p] \cup {i}
                                       ELSE c.registry[p]
      /\ registry = [p \in Pages |-> registry[p]]
  OBVIOUS
<1> HIDE DEF e, t, slab, entries, registry
<1>8. /\ e.slab = slab /\ e.free = c.free \ {i} /\ e.entries = entries /\ e.registry = registry
      /\ e = [slab |-> e.slab, free |-> e.free, entries |-> e.entries, recent |-> e.recent,
              registry |-> e.registry]
  BY <1>0, <1>1 DEF CacheIs
<1> HIDE DEF i
<1>9. /\ Live(e) = Live(c) \cup {i}
      /\ \A n \in Live(c) : n # i /\ e.slab[n] = c.slab[n]
      /\ e.slab[i] = b
  BY <1>3, <1>4, <1>5, <1>8 DEF Live
<1>10. SpaceIs(t)
  BY <1>0, <1>2, <1>3 DEF SpaceIs
<1>11. CacheIs(e)
  <2>1. PICK k \in Nat : DOMAIN slab = 1..k
    BY <1>4, <1>5
  <2>2. slab = [n \in 1..k |-> slab[n]]
    BY <2>1 DEF slab
  <2>3. Len(slab) = k
    BY <2>1, <2>2, LengthIs
  <2>4. \A p \in Pages : e.registry[p] \subseteq Live(e)
    BY <1>0, <1>7, <1>8, <1>9 DEF CacheIs
  <2>5. \A n \in Live(e) : BlockIs(e.slab[n])
    BY <1>0, <1>9 DEF CacheIs
  <2>6. \E h \in Nat : Len(e.slab) = h /\ e.slab = [n \in 1..h |-> e.slab[n]]
    BY <1>8, <2>2, <2>3
  <2>7. /\ e.entries = [a \in Word |-> e.entries[a]]
        /\ e.registry = [p \in Pages |-> e.registry[p]]
    BY <1>6, <1>7, <1>8, Zenon
  <2> QED BY <1>8, <2>4, <2>5, <2>6, <2>7, Zenon DEF CacheIs
<1>12. Watched(e, t)
  <2>1. ASSUME NEW n \in Live(e)
        PROVE  /\ e.entries[e.slab[n].entry] = n
               /\ \A p \in PagesOf(e.slab[n]) : n \in e.registry[p] /\ p \in t.code \cup t.dirty
    <3>1. CASE n = i
      BY <3>1, <1>2, <1>3, <1>6, <1>7, <1>8, <1>9
    <3>2. CASE n \in Live(c)
      <4>1. c.entries[c.slab[n].entry] = n /\ n # 0 /\ c.slab[n].entry \in Word
        <5>1. n # 0 /\ BlockIs(c.slab[n])
          <6>1. BlockIs(c.slab[n])
            BY <3>2, <1>0 DEF CacheIs
          <6>2. n # 0
            BY <3>2, <1>0, HolesAre
          <6> QED BY <6>1, <6>2
        <5>2. c.entries[c.slab[n].entry] = n
          BY <3>2, <1>0 DEF Watched
        <5> QED BY <5>1, <5>2 DEF BlockIs
      <4>2. e.entries[e.slab[n].entry] = n
        BY <4>1, <3>2, <1>6, <1>8, <1>9
      <4>3. ASSUME NEW p \in PagesOf(e.slab[n])
            PROVE  n \in e.registry[p] /\ p \in t.code \cup t.dirty
        <5>1. n \in c.registry[p] /\ p \in s.code \cup s.dirty /\ p \in Pages
          BY <3>2, <1>0, <1>9, PagesAre DEF Watched, CacheIs
        <5> QED BY <5>1, <1>2, <1>7, <1>8
      <4> QED BY <4>2, <4>3
    <3> QED BY <3>1, <3>2, <1>9
  <2>2. ASSUME NEW a \in Cached(e)
        PROVE  e.entries[a] \in Live(e) /\ e.slab[e.entries[a]].entry = a
    <3>1. a \in Word /\ e.entries[a] # 0
      BY DEF Cached
    <3>2. CASE a = b.entry
      BY <3>1, <3>2, <1>6, <1>8, <1>9
    <3>3. CASE a # b.entry
      <4>1. e.entries[a] = c.entries[a] /\ a \in Cached(c)
        BY <3>1, <3>3, <1>6, <1>8 DEF Cached
      <4> QED BY <4>1, <1>0, <1>9 DEF Watched
    <3> QED BY <3>2, <3>3
  <2>3. e.free = DOMAIN e.slab \ Live(e)
    BY <1>4, <1>5, <1>8, <1>9
  <2> QED BY <2>1, <2>2, <2>3 DEF Watched
<1>13. ShortcutsAreTrue(t)
  BY <1>0, <1>2, <1>3 DEF ShortcutsAreTrue, SpaceIs
<1>14. Current(e, t, isa)
  <2> SUFFICES ASSUME NEW n \in Live(e), NEW k \in DOMAIN e.slab[n].code
               PROVE  e.slab[n].code[k] = isa[t.mem[e.slab[n].entry + k - 1]]
    BY DEF Current
  <2>1. CASE n = i
    BY <2>1, <1>2, <1>9
  <2>2. CASE n \in Live(c)
    BY <2>2, <1>0, <1>2, <1>9 DEF Current
  <2> QED BY <2>1, <2>2, <1>9
<1> QED BY <1>2, <1>9, <1>10, <1>11, <1>12, <1>13, <1>14 DEF Holding, Marks, e, t, i

\* The small table says nothing the blocks do not: any entry of it will do.
LEMMA RememberHolds ==
  ASSUME NEW c, NEW s, NEW isa, Holding(c, s, isa), NEW a, NEW i
  PROVE  /\ Holding(Remember(c, a, i), s, isa)
         /\ Live(Remember(c, a, i)) = Live(c) /\ Remember(c, a, i).slab = c.slab
<1> DEFINE e == Remember(c, a, i)
           recent == [c.recent EXCEPT ![Slot(a)] = <<a, i>>]
<1>1. e = [c EXCEPT !.recent = recent]
  BY DEF Remember
<1> HIDE DEF e, recent
<1>2. /\ e.slab = c.slab /\ e.free = c.free /\ e.entries = c.entries /\ e.registry = c.registry
      /\ e = [slab |-> e.slab, free |-> e.free, entries |-> e.entries, recent |-> e.recent,
              registry |-> e.registry]
  BY <1>1 DEF Holding, CacheIs
<1>3. Live(e) = Live(c) /\ Cached(e) = Cached(c)
  BY <1>2 DEF Live, Cached
<1>4. CacheIs(e)
  BY <1>2, <1>3 DEF Holding, CacheIs
<1>5. Watched(e, s) /\ Current(e, s, isa)
  BY <1>2, <1>3 DEF Holding, Marks, Watched, Current
<1> QED BY <1>2, <1>3, <1>4, <1>5 DEF Holding, Marks, e

\* Installing a block, in a full cache too.
LEMMA InstallHolds ==
  ASSUME NEW c, NEW s, NEW isa, Holding(c, s, isa), s.dirty = {},
         NEW b, BlockIs(b), c.entries[b.entry] = 0,
         \A k \in DOMAIN b.code : b.code[k] = isa[s.mem[b.entry + k - 1]]
  PROVE  LET put == Install(c, s, b)
         IN  /\ Holding(put.cc, put.space, isa)
             /\ put.space.dirty = {} /\ put.space.mem = s.mem
             /\ put.index \in Live(put.cc) /\ put.cc.slab[put.index] = b
<1> DEFINE full == Cardinality(Cached(c)) >= Capacity
           before == IF full THEN Flush(c) ELSE c
           marks == IF full THEN Unmarked(c, s) ELSE s
<1>1. Install(c, s, b) = [index |-> SlotFor(before), cc |-> Added(before, b),
                          space |-> MarkCode(marks, PagesOf(b))]
  BY DEF Install, SlotFor, Added
<1>2. /\ Holding(before, marks, isa) /\ marks.dirty = {} /\ marks.mem = s.mem
      /\ before.entries[b.entry] = 0
  <2>1. b.entry \in Word
    BY DEF BlockIs
  <2> QED BY <2>1, FlushHolds
<1> HIDE DEF before, marks
<1>3. /\ Holding(Added(before, b), MarkCode(marks, PagesOf(b)), isa)
      /\ MarkCode(marks, PagesOf(b)).dirty = {} /\ MarkCode(marks, PagesOf(b)).mem = marks.mem
      /\ SlotFor(before) \in Live(Added(before, b)) /\ Added(before, b).slab[SlotFor(before)] = b
  BY <1>2, AddedHolds
<1> QED BY <1>1, <1>2, <1>3

\* What the fetch of a block leaves.
Entered(f, s, isa, a) ==
    /\ Holding(f.cc, f.space, isa)
    /\ f.space.dirty = {}
    /\ f.space.mem = s.mem
    /\ f.ok \in BOOLEAN
    /\ f.ok = TRUE => f.index \in Live(f.cc) /\ f.cc.slab[f.index].entry = a

\* A block decoded from memory as it is, and installed.
LEMMA DecodedHolds ==
  ASSUME NEW c, NEW s, NEW isa, Holding(c, s, isa), s.dirty = {}, NEW a \in Word,
         c.entries[a] = 0, NEW prot, NEW cap
  PROVE  Entered(Decoded(c, s, a, Decode(s.mem, prot, isa, a, cap)), s, isa, a)
<1> DEFINE fetch == Decode(s.mem, prot, isa, a, cap)
           b == [entry |-> a, code |-> fetch.code, trace |-> Transpile(a, fetch.code)]
           put == Install(c, s, b)
<1>1. CASE fetch.ok = TRUE
  <2>1. PICK k \in 1..(W - a) : fetch.code = [n \in 1..k |-> isa[s.mem[a + n - 1]]]
    <3>1. Decodes(fetch, s.mem, isa, a)
      BY DecodeIs
    <3> HIDE DEF fetch
    <3> QED BY <1>1, <3>1 DEF Decodes
  <2>2. b.entry = a /\ b.code = fetch.code
    OBVIOUS
  <2> HIDE DEF fetch, b
  <2>3. DOMAIN fetch.code = 1..k /\ Len(fetch.code) = k
    <3>1. k \in Nat
      BY DEF Word, W
    <3> QED BY <3>1, <2>1, LengthIs
  <2>4. BlockIs(b)
    BY <2>2, <2>3 DEF BlockIs
  <2>5. \A n \in DOMAIN b.code : b.code[n] = isa[s.mem[b.entry + n - 1]]
    BY <2>1, <2>2, <2>3
  <2>6. /\ Holding(put.cc, put.space, isa)
        /\ put.space.dirty = {} /\ put.space.mem = s.mem
        /\ put.index \in Live(put.cc) /\ put.cc.slab[put.index] = b
    BY <2>2, <2>4, <2>5, InstallHolds
  <2>7. Decoded(c, s, a, fetch)
          = [ok |-> TRUE, index |-> put.index, space |-> put.space,
             cc |-> Remember(put.cc, a, put.index)]
    BY <1>1 DEF Decoded, Found, put, b
  <2> HIDE DEF put
  <2>8. /\ Holding(Remember(put.cc, a, put.index), put.space, isa)
        /\ Live(Remember(put.cc, a, put.index)) = Live(put.cc)
        /\ Remember(put.cc, a, put.index).slab = put.cc.slab
    BY <2>6, RememberHolds
  <2>9. Entered(Decoded(c, s, a, fetch), s, isa, a)
    BY <2>2, <2>6, <2>7, <2>8 DEF Entered
  <2> QED BY <2>9 DEF fetch
<1>2. CASE fetch.ok # TRUE
  <2> HIDE DEF fetch
  <2>1. Decoded(c, s, a, fetch) = [ok |-> FALSE, why |-> fetch.why, cc |-> c, space |-> s]
    BY <1>2 DEF Decoded
  <2>2. Entered(Decoded(c, s, a, fetch), s, isa, a)
    BY <2>1 DEF Entered
  <2> QED BY <2>2 DEF fetch
<1> QED BY <1>1, <1>2

\* Finding the block at an address, by the table, by the map or by decoding it.
LEMMA EntryHolds ==
  ASSUME NEW c, NEW s, NEW isa, Holding(c, s, isa), s.dirty = {}, NEW a, NEW cap
  PROVE  Entered(Entry(c, s, isa, a, cap), s, isa, a)
<1> DEFINE f == Entry(c, s, isa, a, cap)
<1>0. SpaceIs(s) /\ Watched(c, s)
  BY DEF Holding, Marks
<1>1. CASE a \notin Word
  <2>1. f = [ok |-> FALSE, why |-> Fault(a, "x"), cc |-> c, space |-> s]
    BY <1>1 DEF Entry
  <2> QED BY <2>1 DEF Entered
<1>2. CASE a \in Word /\ InRecent(c, a)
  <2>1. f = [ok |-> TRUE, index |-> c.recent[Slot(a)][2], cc |-> c, space |-> s]
    BY <1>2 DEF Entry
  <2>2. c.recent[Slot(a)][2] \in Live(c) /\ c.slab[c.recent[Slot(a)][2]].entry = a
    BY <1>2 DEF InRecent, Live
  <2> QED BY <2>1, <2>2 DEF Entered
<1>3. CASE a \in Word /\ ~InRecent(c, a) /\ c.entries[a] # 0
  <2>1. f = [ok |-> TRUE, index |-> c.entries[a], space |-> s, cc |-> Remember(c, a, c.entries[a])]
    BY <1>3 DEF Entry
  <2>2. c.entries[a] \in Live(c) /\ c.slab[c.entries[a]].entry = a
    BY <1>0, <1>3 DEF Watched, Cached
  <2>3. /\ Holding(Remember(c, a, c.entries[a]), s, isa)
        /\ Live(Remember(c, a, c.entries[a])) = Live(c)
        /\ Remember(c, a, c.entries[a]).slab = c.slab
    BY RememberHolds
  <2> QED BY <2>1, <2>2, <2>3 DEF Entered
<1>4. CASE a \in Word /\ ~InRecent(c, a) /\ c.entries[a] = 0 /\ Permitted(s, a, "x")
  <2> DEFINE t == Remembered(s, a, "x")
             prot == [s.prot EXCEPT ![Page(a)] = @ \cup {"x"}]
             perm == [s.perm EXCEPT !["x"] = Page(a)]
  <2>1. f = Decoded(c, t, a, Decode(s.mem, prot, isa, a, cap))
    BY <1>4 DEF Entry
  <2>2. Holding(c, t, isa)
    BY <1>4, RememberedHolds DEF Kinds
  <2>3. t.mem = s.mem /\ t.dirty = s.dirty
    <3>1. t = [s EXCEPT !.perm = perm]
      BY DEF Remembered
    <3> HIDE DEF t, perm
    <3> QED BY <3>1, <1>0 DEF SpaceIs
  <2> HIDE DEF t, prot
  <2>4. Entered(Decoded(c, t, a, Decode(t.mem, prot, isa, a, cap)), t, isa, a)
    BY <1>4, <2>2, <2>3, DecodedHolds
  <2>5. Entered(f, t, isa, a)
    BY <2>1, <2>3, <2>4
  <2> QED BY <2>3, <2>5 DEF Entered
<1>5. CASE a \in Word /\ ~InRecent(c, a) /\ c.entries[a] = 0 /\ ~Permitted(s, a, "x")
  <2>1. f = Decoded(c, s, a, Decode(s.mem, s.prot, isa, a, cap))
    BY <1>5 DEF Entry
  <2>2. Entered(Decoded(c, s, a, Decode(s.mem, s.prot, isa, a, cap)), s, isa, a)
    BY <1>5, DecodedHolds
  <2> QED BY <2>1, <2>2
<1> QED BY <1>1, <1>2, <1>3, <1>4, <1>5

\* The loop drains before it fetches, so what it fetches is never stale.
LEMMA FetchedHolds ==
  ASSUME Inv
  PROVE  \E s : Entered(Fetched, s, GuestIsa, tcb.rip)
<1> DEFINE e == Drain(cc, space).cc
           t == Drain(cc, space).space
<1>1. Holding(e, t, GuestIsa) /\ t.dirty = {}
  BY DrainHolds DEF Inv
<1>2. Fetched = Entry(e, t, GuestIsa, tcb.rip, Cap)
  BY DEF Fetched
<1> HIDE DEF e, t
<1>3. Entered(Entry(e, t, GuestIsa, tcb.rip, Cap), t, GuestIsa, tcb.rip)
  BY <1>1, EntryHolds
<1> QED BY <1>2, <1>3

---------------------------------------------------------------------------
(* What an instruction does to the space.                                  *)

\* A set of numbers up to n has the greatest member that CHOOSE names.
LEMMA GreatestIs ==
  ASSUME NEW n \in Nat, NEW S, S \subseteq 1..n, S # {}
  PROVE  (CHOOSE k \in S : \A o \in S : o <= k) \in S
<1> DEFINE T == {n - x : x \in S}
           y == CHOOSE k \in T : \A o \in T : k <= o
<1>1. T \subseteq Nat /\ T # {}
  <2>1. \A x \in S : n - x \in Nat
    OBVIOUS
  <2>2. PICK x \in S : TRUE
    OBVIOUS
  <2>3. n - x \in T
    BY <2>2
  <2> QED BY <2>1, <2>3
<1>2. y \in T /\ \A o \in T : y <= o
  <2> HIDE DEF T
  <2> QED BY <1>1, LeastIs
<1>3. PICK x \in S : y = n - x
  BY <1>2
<1>4. \A o \in S : o <= x
  <2> SUFFICES ASSUME NEW o \in S PROVE o <= x
    OBVIOUS
  <2>1. n - o \in T
    OBVIOUS
  <2>2. y <= n - o
    BY <1>2, <2>1
  <2> HIDE DEF y, T
  <2> QED BY <1>3, <2>2
<1> QED BY <1>4

\* What an instruction accesses is a sequence of reads and writes.
LEMMA TouchesAre ==
  ASSUME NEW regs, NEW carry, NEW zero, NEW i
  PROVE  LET t == Accesses(regs, carry, zero, i)
         IN  /\ Len(t) \in Nat /\ DOMAIN t = 1..Len(t)
             /\ \A n \in DOMAIN t : t[n][2] \in {"r", "w"}
<1> DEFINE S == {<<i.s, "r">>, <<i.d, "r">>, <<i.d, "w">>, <<Above(regs[SP]), "w">>,
                 <<Cell(regs[SP]), "r">>, <<Cell(regs[DX]), "w">>}
<1>1. /\ Read(i.s) \in Seq(S) /\ Read(i.d) \in Seq(S) /\ Write(i.d) \in Seq(S)
      /\ Write(Above(regs[SP])) \in Seq(S) /\ Read(Cell(regs[SP])) \in Seq(S)
      /\ Write(Cell(regs[DX])) \in Seq(S) /\ <<>> \in Seq(S)
  BY DEF Read, Write
<1> HIDE DEF S
<1>2. Accesses(regs, carry, zero, i) \in Seq(S)
  BY <1>1 DEF Accesses
<1>3. \A x \in S : x[2] \in {"r", "w"}
  BY DEF S
<1> QED BY <1>2, <1>3

\* The first n accesses are permitted.
Tried(accesses, n) ==
    \A k \in 1..n : k \in DOMAIN accesses
                    /\ Allowed(AddressOf(tcb.regs, accesses[k][1]), accesses[k][2])

\* The pages found permitted are remembered for what they are permitted.
LEMMA UpToHolds ==
  ASSUME Inv, NEW accesses, NEW n \in Nat, Tried(accesses, n)
  PROVE  Holding(cc, AccessedUpTo(space, accesses, n), GuestIsa)
<1> DEFINE Those(access) == {k \in 1..n : accesses[k][2] = access}
           Latest(access) == CHOOSE k \in Those(access) : \A o \in Those(access) : o <= k
           f == [access \in Kinds |->
                    IF Those(access) = {} THEN space.perm[access]
                    ELSE Page(AddressOf(tcb.regs, accesses[Latest(access)][1]))]
<1>0. SpaceIs(space) /\ ShortcutsAreTrue(space)
  BY DEF Inv, Holding, Marks
<1>1. AccessedUpTo(space, accesses, n) = [space EXCEPT !.perm = f]
  BY DEF AccessedUpTo
<1>2. ASSUME NEW access \in Kinds, f[access] # NoPage
      PROVE  access \in space.prot[f[access]]
  <2>1. CASE Those(access) = {}
    BY <2>1, <1>0, <1>2 DEF ShortcutsAreTrue
  <2>2. CASE Those(access) # {}
    <3> DEFINE a == AddressOf(tcb.regs, accesses[Latest(access)][1])
    <3>1. Latest(access) \in Those(access)
      <4>1. Those(access) \subseteq 1..n
        OBVIOUS
      <4> HIDE DEF Those
      <4> QED BY <4>1, <2>2, GreatestIs
    <3>2. f[access] = Page(a)
      BY <2>2
    <3>3. Allowed(a, access)
      BY <3>1 DEF Tried
    <3> HIDE DEF f, a
    <3> QED BY <3>2, <3>3, <1>0, <1>2 DEF Allowed, Permitted, ShortcutsAreTrue
  <2> QED BY <2>1, <2>2
<1>3. f = [access \in Kinds |-> f[access]]
  OBVIOUS
<1> HIDE DEF f
<1>4. Holding(cc, [space EXCEPT !.perm = f], GuestIsa)
  BY <1>2, <1>3, PermHolds DEF Inv
<1> QED BY <1>1, <1>4

\* An instruction that faults has had its earlier accesses permitted.
LEMMA AccessedHolds ==
  ASSUME Inv
  PROVE  Holding(cc, Accessed, GuestIsa)
<1> DEFINE refused == {n \in DOMAIN Touches :
                        ~Allowed(AddressOf(tcb.regs, Touches[n][1]), Touches[n][2])}
           first == CHOOSE n \in refused : \A o \in refused : n <= o
           upto == IF refused = {} THEN Len(Touches) ELSE first - 1
<1>1. Accessed = AccessedUpTo(space, Touches, upto)
  BY DEF Accessed
<1>2. Len(Touches) \in Nat /\ DOMAIN Touches = 1..Len(Touches)
  BY TouchesAre DEF Touches
<1>3. upto \in Nat /\ upto <= Len(Touches) /\ \A k \in 1..upto : k \notin refused
  <2>1. CASE refused = {}
    BY <2>1, <1>2
  <2>2. CASE refused # {}
    <3>1. refused \subseteq 1..Len(Touches)
      BY <1>2
    <3> HIDE DEF refused
    <3>2. first \in refused /\ \A o \in refused : first <= o
      <4>1. refused \subseteq Nat
        BY <3>1, <1>2
      <4> QED BY <4>1, <2>2, LeastIs
    <3>3. first \in 1..Len(Touches) /\ upto = first - 1
      BY <3>1, <3>2, <2>2
    <3> HIDE DEF first, upto
    <3> QED BY <3>2, <3>3, <1>2
  <2> QED BY <2>1, <2>2
<1> HIDE DEF upto
<1>4. Tried(Touches, upto)
  BY <1>2, <1>3 DEF Tried
<1>5. Holding(cc, AccessedUpTo(space, Touches, upto), GuestIsa)
  BY <1>3, <1>4, UpToHolds
<1> QED BY <1>1, <1>5

\* An instruction that stores.
LEMMA StoredHolds ==
  ASSUME Inv
  PROVE  Holding(cc, Stored, GuestIsa)
<1>1. Holding(cc, Accessed, GuestIsa)
  BY AccessedHolds
<1>2. CASE Stores = {}
  BY <1>1, <1>2 DEF Stored
<1>3. CASE Stores # {}
  <2> DEFINE a == CHOOSE a \in Stores : TRUE
  <2>1. Stored = Written(Accessed, a, Done.mem[a])
    BY <1>3 DEF Stored
  <2> HIDE DEF a
  <2>2. Holding(cc, Written(Accessed, a, Done.mem[a]), GuestIsa)
    BY <1>1, WrittenHolds
  <2> QED BY <2>1, <2>2
<1> QED BY <1>2, <1>3

---------------------------------------------------------------------------
(* The actions.                                                            *)

\* A step that leaves the cache alone.
LEMMA StaysHolds ==
  ASSUME Inv, UNCHANGED <<program, cc>>, Holding(cc, space', GuestIsa)
  PROVE  Inv'
BY DEF Inv, GuestIsa

\* The turns of the loop.
LEMMA LoopHolds ==
  ASSUME Inv, Loop
  PROVE  Inv'
<1>1. CASE RunsOut
  BY <1>1, StaysHolds DEF RunsOut, Inv
<1>2. ASSUME NEW f \in {Fetched}, AtTheLoop(f), UNCHANGED program
      PROVE  Inv'
  <2>1. Holding(f.cc, f.space, GuestIsa)
    BY <1>2, FetchedHolds DEF Entered
  <2> QED BY <1>2, <2>1 DEF AtTheLoop, Inv, GuestIsa
<1>3. CASE FetchFails
  BY <1>2, <1>3 DEF FetchFails
<1>4. CASE EnterTrace
  BY <1>2, <1>4 DEF EnterTrace
<1>5. CASE EnterBlock
  BY <1>2, <1>5 DEF EnterBlock
<1> QED BY <1>1, <1>3, <1>4, <1>5 DEF Loop

\* The instructions of a block, interpreted.
LEMMA InterpretHolds ==
  ASSUME Inv, Interpret
  PROVE  Inv'
<1>1. UNCHANGED <<program, cc>>
  BY DEF Interpret, OutOfBudget, Traps, Advances, Transfers, Calls, Interprets
<1>2. space' \in {space, Accessed, Stored}
  BY DEF Interpret, OutOfBudget, Traps, Advances, Transfers, Calls
<1>3. Holding(cc, space', GuestIsa)
  BY <1>2, AccessedHolds, StoredHolds DEF Inv
<1> QED BY <1>1, <1>3, StaysHolds

\* A load of a trace.
LEMMA LoadHolds ==
  ASSUME Inv, NEW a, NEW k \in Kinds, Allowed(a, k)
  PROVE  Holding(cc, Remembered(space, a, k), GuestIsa)
BY RememberedHolds DEF Inv, Allowed

\* A store of a trace.
LEMMA StoreHolds ==
  ASSUME Inv, NEW a, NEW v, Allowed(a, "w")
  PROVE  Holding(cc, Written(Remembered(space, a, "w"), a, v), GuestIsa)
BY LoadHolds, WrittenHolds DEF Kinds

\* An operation of a trace on memory.
LEMMA ModifyHolds ==
  ASSUME Inv, NEW a, NEW v, Allowed(a, "r"), Allowed(a, "w")
  PROVE  Holding(cc, Written(Remembered(Remembered(space, a, "r"), a, "w"), a, v), GuestIsa)
<1> DEFINE t == Remembered(space, a, "r")
           perm == [space.perm EXCEPT !["r"] = Page(a)]
<1>1. Holding(cc, t, GuestIsa)
  BY LoadHolds DEF Kinds
<1>2. Permitted(t, a, "w")
  <2>0. SpaceIs(space)
    BY DEF Inv, Holding
  <2>1. t = [space EXCEPT !.perm = perm] /\ perm["w"] = space.perm["w"]
    BY <2>0 DEF Remembered, SpaceIs, Kinds
  <2> HIDE DEF t, perm
  <2>2. t.perm = perm /\ t.prot = space.prot
    BY <2>0, <2>1 DEF SpaceIs
  <2> QED BY <2>1, <2>2 DEF Allowed, Permitted
<1> HIDE DEF t
<1>3. Holding(cc, Remembered(t, a, "w"), GuestIsa)
  BY <1>1, <1>2, RememberedHolds DEF Kinds
<1>4. Holding(cc, Written(Remembered(t, a, "w"), a, v), GuestIsa)
  BY <1>3, WrittenHolds
<1> QED BY <1>4 DEF t

\* The ops of a trace.
LEMMA AccelerateHolds ==
  ASSUME Inv, Accelerate
  PROVE  Inv'
<1>0. Holding(cc, space, GuestIsa)
  BY DEF Inv
<1>1. UNCHANGED <<program, cc>>
  BY DEF Accelerate, Executes, TraceComputes, TraceLoads, TraceStores, TracePops, TraceModifies,
         TraceDivides, TraceDefers, TraceBranches, TraceExits
<1>2. CASE UNCHANGED space
  BY <1>0, <1>1, <1>2, StaysHolds
<1>3. CASE TraceLoads
  BY <1>1, <1>2, <1>3, LoadHolds, StaysHolds DEF TraceLoads, Faults, Kinds
<1>4. CASE TracePops
  BY <1>1, <1>2, <1>4, LoadHolds, StaysHolds DEF TracePops, Faults, Kinds
<1>5. CASE TraceStores
  BY <1>1, <1>2, <1>5, StoreHolds, StaysHolds DEF TraceStores, Faults
<1>6. CASE TraceModifies
  BY <1>1, <1>2, <1>6, ModifyHolds, StaysHolds DEF TraceModifies, Faults
<1>7. CASE TraceComputes \/ TraceDivides \/ TraceDefers \/ TraceBranches \/ TraceExits
  BY <1>2, <1>7 DEF TraceComputes, TraceDivides, TraceDefers, TraceBranches, TraceExits
<1> QED BY <1>3, <1>4, <1>5, <1>6, <1>7 DEF Accelerate

\* What the kernel does between two calls.
LEMMA KernelHolds ==
  ASSUME Inv, Kernel
  PROVE  Inv'
<1>1. ASSUME NEW quantum, NEW exact, Run(quantum, exact)
      PROVE  Inv'
  BY <1>1, StaysHolds DEF Run, Inv
<1>2. ASSUME NEW a, NEW word, Place(a, word)
      PROVE  Inv'
  BY <1>2, WrittenHolds, StaysHolds DEF Place, Meddle, Inv
<1>3. ASSUME NEW page, NEW rights, Sync(page, rights)
      PROVE  Inv'
  BY <1>3, SyncHolds, StaysHolds DEF Sync, Meddle, Inv
<1>4. CASE Discard
  <2>1. Holding(cc', space', GuestIsa)
    BY <1>4, FlushHolds DEF Discard, Inv
  <2> QED BY <1>4, <2>1 DEF Discard, Inv, GuestIsa
<1> QED BY <1>1, <1>2, <1>3, <1>4 DEF Kernel

\* A program starts with no block and no mark.
LEMMA InitHolds ==
  ASSUME Init
  PROVE  Inv
<1> DEFINE mem == Programs[program].mem
           prot == Programs[program].prot
<1>1. mem \in [Word -> Word] /\ prot \in [Pages -> SUBSET Kinds]
  BY ProgramsAssumption DEF Init
<1>2. space = [mem |-> mem, prot |-> prot, code |-> {}, dirty |-> {}, clean |-> NoPage,
               perm |-> [k \in Kinds |-> NoPage]]
      /\ cc = EmptyCache
  BY DEF Init, NewSpace
<1> HIDE DEF mem, prot
<1>3. SpaceIs(space) /\ ShortcutsAreTrue(space)
  BY <1>1, <1>2 DEF SpaceIs, ShortcutsAreTrue
<1>4. CacheIs(cc) /\ Watched(cc, space) /\ Current(cc, space, GuestIsa)
  BY <1>2, EmptyHolds
<1> QED BY <1>3, <1>4 DEF Inv, Holding, Marks

\* Every step of the specification.
LEMMA StepHolds ==
  ASSUME Inv, [Next]_vars
  PROVE  Inv'
<1>1. CASE UNCHANGED vars
  BY <1>1, StaysHolds DEF vars, Inv
<1> QED BY <1>1, LoopHolds, InterpretHolds, AccelerateHolds, KernelHolds DEF Next, Engine

---------------------------------------------------------------------------
\* The cache and the marks always hold each other up (MarksHold): a block can be
\* found by every page it came from, each of which is watched or queued, and a
\* block not queued to go says what memory says, whatever the program stores
\* over its own code and whatever pages the kernel writes or takes away.
THEOREM MarksAreRight == Spec => []MarksHold
<1>1. Inv => MarksHold
  BY DEF Inv, Holding, Marks, MarksHold
<1>2. Init => Inv
  BY InitHolds
<1>3. Inv /\ [Next]_vars => Inv'
  BY StepHolds
<1> QED BY <1>1, <1>2, <1>3, PTL DEF Spec

\* The block the engine is in is the one at rip, and says what memory says.
BlockIsCurrent ==
    /\ Block.entry = tcb.rip
    /\ \A k \in DOMAIN Block.code : Block.code[k] = GuestIsa[space.mem[Block.entry + k - 1]]

\* The engine has the fields it starts with.
EngineIs == DOMAIN eng = DOMAIN Idle

\* No step gives it others.
LEMMA EngineStays ==
  ASSUME EngineIs, [Next]_vars
  PROVE  EngineIs'
<1>1. CASE UNCHANGED vars
  BY <1>1 DEF vars, EngineIs
<1>2. CASE RunsOut \/ FetchFails \/ EnterTrace \/ EnterBlock
  BY <1>2 DEF RunsOut, FetchFails, EnterTrace, EnterBlock, Stopped, EngineIs
<1>3. CASE Interpret
  <2>1. CASE OutOfBudget
    BY <2>1 DEF OutOfBudget, BackToLoop, EngineIs
  <2>2. CASE Traps
    BY <2>2 DEF Traps, Stopped, EngineIs
  <2>3. CASE Advances
    BY <2>3 DEF Advances, BackToLoop, EngineIs
  <2>4. CASE Transfers
    BY <2>4 DEF Transfers, BackToLoop, EngineIs
  <2>5. CASE Calls
    BY <2>5 DEF Calls, Stopped, EngineIs
  <2> QED BY <1>3, <2>1, <2>2, <2>3, <2>4, <2>5 DEF Interpret
<1>4. ASSUME NEW regs, NEW flags, NEW to, Goes(regs, flags, to)
      PROVE  EngineIs'
  BY <1>4 DEF Goes, EngineIs
<1>5. ASSUME NEW regs, NEW flags, NEW spent, NEW rip, NEW defers,
             Leaves(regs, flags, spent, rip, defers)
      PROVE  EngineIs'
  BY <1>5 DEF Leaves, EngineIs
<1>6. ASSUME NEW flags, NEW a, NEW access, Faults(flags, a, access)
      PROVE  EngineIs'
  BY <1>6 DEF Faults, Stopped, EngineIs
<1>7. ASSUME NEW s, NEW regs, NEW flags, GoesUnlessDirty(s, regs, flags)
      PROVE  EngineIs'
  BY <1>4, <1>5, <1>7 DEF GoesUnlessDirty
<1>8. CASE TraceComputes \/ TraceLoads \/ TraceStores \/ TracePops \/ TraceModifies
           \/ TraceDivides \/ TraceDefers
  BY <1>4, <1>5, <1>6, <1>7, <1>8
     DEF TraceComputes, TraceLoads, TraceStores, TracePops, TraceModifies, TraceDivides, TraceDefers
<1>9. CASE TraceBranches
  BY <1>5, <1>9 DEF TraceBranches, EngineIs
<1>10. CASE TraceExits
  BY <1>5, <1>10 DEF TraceExits, EngineIs
<1>11. CASE Kernel
  <2>1. ASSUME NEW quantum, NEW exact, Run(quantum, exact)
        PROVE  EngineIs'
    BY <2>1 DEF Run, EngineIs
  <2>2. CASE UNCHANGED eng
    BY <2>2 DEF EngineIs
  <2> QED BY <1>11, <2>1, <2>2 DEF Kernel, Place, Sync, Discard, Meddle
<1> QED BY <1>1, <1>2, <1>3, <1>8, <1>9, <1>10, <1>11 DEF Next, Engine, Loop, Accelerate

\* Whenever the loop enters a block or its trace, it is the one at rip and each
\* of its instructions is the one memory holds at that moment: no store of the
\* guest, write of the kernel or change of rights before it is ever missed.
THEOREM EnteredIsCurrent == Spec => [][EnterTrace \/ EnterBlock => BlockIsCurrent']_vars
<1>1. ASSUME Inv, NEW f \in {Fetched}, AtTheLoop(f), f.ok, eng'.index = f.index,
             UNCHANGED <<program, tcb>>
      PROVE  BlockIsCurrent'
  <2>1. PICK s : Entered(Fetched, s, GuestIsa, tcb.rip)
    BY <1>1, FetchedHolds
  <2>2. /\ Current(f.cc, f.space, GuestIsa) /\ f.space.dirty = {}
        /\ f.index \in Live(f.cc) /\ f.cc.slab[f.index].entry = tcb.rip
    BY <1>1, <2>1 DEF Entered, Holding, Marks
  <2>3. cc' = f.cc /\ space' = f.space /\ GuestIsa' = GuestIsa
    BY <1>1 DEF AtTheLoop, GuestIsa
  <2> DEFINE b == f.cc.slab[f.index]
  <2>4. \A k \in DOMAIN b.code : b.code[k] = GuestIsa[f.space.mem[b.entry + k - 1]]
    BY <2>2 DEF Current
  <2>5. Block' = b
    BY <1>1, <2>3 DEF Block
  <2> HIDE DEF b
  <2> QED BY <1>1, <2>2, <2>3, <2>4, <2>5 DEF BlockIsCurrent, b
<1>2. ASSUME Inv, EngineIs, EnterTrace \/ EnterBlock
      PROVE  BlockIsCurrent'
  <2>1. PICK f \in {Fetched} :
            /\ AtTheLoop(f) /\ f.ok /\ UNCHANGED <<program, tcb>>
            /\ \/ eng' = [eng EXCEPT
                           !.at = "trace", !.index = f.index, !.pos = 1, !.spent = 0,
                           !.regs = [r \in 0..5 |-> IF r = 5 THEN 0 ELSE tcb.regs[r]],
                           !.flags = tcb.flags]
               \/ eng' = [eng EXCEPT !.at = "block", !.next = eng.exact,
                                     !.index = f.index, !.pos = 1, !.last = 0]
    BY <1>2 DEF EnterTrace, EnterBlock
  <2>2. "index" \in DOMAIN eng
    BY <1>2 DEF EngineIs, Idle
  <2>3. eng'.index = f.index
    BY <2>1, <2>2
  <2> QED BY <1>1, <1>2, <2>1, <2>3
<1>3. Init => Inv /\ EngineIs
  BY InitHolds DEF Init, EngineIs
<1>4. Inv /\ EngineIs /\ [Next]_vars => Inv' /\ EngineIs'
  BY StepHolds, EngineStays
<1> QED BY <1>2, <1>3, <1>4, PTL DEF Spec
=============================================================================
