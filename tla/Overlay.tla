------------------------------ MODULE Overlay ------------------------------
(***************************************************************************)
(* The writable layer over a baked image, as pure operators:               *)
(* kernel/src/overlay.rs.  A layer is a record of                          *)
(*   nodes     the arena, which never shrinks   copied    where each lower *)
(*   orphaned  nodes whose last name has gone             directory went   *)
(* A node number says which layer it is in, as the high bit does in the    *)
(* code.  Names are numbers, ordered as their bytes are.  A directory's    *)
(* stored size is its number of entries.  Attributes beyond the mode and   *)
(* the owner, and every timestamp, are left out.                           *)
(***************************************************************************)
EXTENDS Integers, Sequences, SequencesExt

CONSTANTS Image,    \* the lower layer: its inodes, by number
          Names,    \* the names an entry may have
          MaxSize,  \* MAX_FILE_SIZE
          Upper,    \* UPPER: numbers above it are in the upper layer
          NoNode    \* no number at all

LowerRoot == 1
Top == Upper + 1

\* Every lower file is one the bake wrote: a directory's entries name inodes
\* of the image, and each directory but the root is in its parent's entries.
ASSUME ImageAssumption ==
    /\ Names \subseteq Nat /\ MaxSize \in Nat /\ Upper \in Nat /\ NoNode = 0
    /\ DOMAIN Image \subseteq 1 .. Upper /\ LowerRoot \in DOMAIN Image
    /\ \A n \in DOMAIN Image : Image[n].kind = "directory" =>
         /\ \A name \in DOMAIN Image[n].entries :
              name \in Names /\ Image[n].entries[name] \in DOMAIN Image
         /\ n # LowerRoot =>
              \E name \in DOMAIN Image[Image[n].parent].entries :
                 Image[Image[n].parent].entries[name] = n

(* What an upper directory holds under a name that is deleted. *)
Whiteout == NoNode

Without(f, x) == [y \in DOMAIN f \ {x} |-> f[y]]
With(f, x, v) == [y \in DOMAIN f \cup {x} |-> IF y = x THEN v ELSE f[y]]
NoEntries == [y \in {} |-> NoNode]
AtLeast(x, low) == IF x < low THEN low ELSE x

IsUpper(n) == n > Upper
Node(fs, n) == fs.nodes[n - Upper]

(* A lower directory that was copied up answers as its copy. *)
Promote(fs, n) == IF n \in DOMAIN fs.copied THEN fs.copied[n] ELSE n

Inode(fs, n)  == IF IsUpper(n) THEN Node(fs, n) ELSE Image[n]
Kind(fs, n)   == Inode(fs, n).kind
IsDir(fs, n)  == Kind(fs, n) = "directory"
Parent(fs, n) == Promote(fs, Inode(fs, n).parent)

(* What a read finds: a node that was released has no bytes left. *)
Contents(fs, n) == IF Inode(fs, n).released THEN <<>> ELSE Inode(fs, n).data

(* lookup in the layer below. *)
Below(fs, d, name) ==
    IF name \in DOMAIN Image[d].entries
    THEN Promote(fs, Image[d].entries[name]) ELSE NoNode

(* lookup: the upper entry decides when there is one, and a whiteout stops *)
(* the search.  A lower number is looked up below, whatever was copied.    *)
Lookup(fs, d, name) ==
    IF ~IsUpper(d) THEN Below(fs, d, name)
    ELSE LET node == Node(fs, d)
         IN  IF name \in DOMAIN node.entries THEN node.entries[name]
             ELSE IF node.lower = NoNode THEN NoNode
             ELSE Below(fs, node.lower, name)

(* The entries of one layer, in name order. *)
Sorted(entries) == SetToSortSeq(DOMAIN entries, <)

(* Merge::next: the two sorted layers walked in parallel.  The lower names *)
(* the upper layer has an opinion about are skipped, and so are whiteouts; *)
(* a lower name passed over for a smaller upper one is still owed.         *)
Shows(node) == SelectSeq(Sorted(node.entries), LAMBDA n : node.entries[n] # Whiteout)
ShowsBelow(node) ==
    IF node.lower = NoNode THEN <<>>
    ELSE SelectSeq(Sorted(Image[node.lower].entries), LAMBDA n : n \notin DOMAIN node.entries)
Merged(above, below) ==
    LET merge[i \in 1 .. Len(above) + 1, j \in 1 .. Len(below) + 1] ==
            IF i > Len(above) THEN SubSeq(below, j, Len(below))
            ELSE IF j > Len(below) \/ above[i] <= below[j]
                 THEN <<above[i]>> \o merge[i + 1, j]
            ELSE <<below[j]>> \o merge[i, j + 1]
    IN  merge[1, 1]
Merge(fs, d) == Merged(Shows(Node(fs, d)), ShowsBelow(Node(fs, d)))

(* entries: a directory still below is read straight out of the image. *)
Listing(fs, d) == IF IsUpper(d) THEN Merge(fs, d) ELSE Sorted(Image[d].entries)
IsEmpty(fs, d) == Listing(fs, d) = <<>>

(* refresh: the counts from scratch, once, when a directory enters here. *)
Subdirectories(fs, d) ==
    Len(SelectSeq(Merge(fs, d), LAMBDA name : IsDir(fs, Lookup(fs, d, name))))
Refreshed(fs, d) ==
    [fs EXCEPT !.nodes[d - Upper].size = Len(Merge(fs, d)),
               !.nodes[d - Upper].nlink = 2 + Subdirectories(fs, d)]

(* visible and adjust: what one name meant before and means now. *)
One(condition) == IF condition THEN 1 ELSE 0
IsDirAt(fs, n) == n # NoNode /\ IsDir(fs, n)
Adjusted(fs, d, before, after) ==
    LET entries == One(after # NoNode) - One(before # NoNode)
        dirs    == One(IsDirAt(fs, after)) - One(IsDirAt(fs, before))
    IN  [fs EXCEPT !.nodes[d - Upper].size = AtLeast(@ + entries, 0),
                   !.nodes[d - Upper].nlink = AtLeast(@ + dirs, 2)]

\* Mutant: the name's old meaning is not asked.
SetEntryUnadjusted(fs, d, name, entry) ==
    Adjusted([fs EXCEPT !.nodes[d - Upper].entries = With(@, name, entry)],
             d, NoNode, entry)

(* set_entry: the entry, and the counts without walking the listing. *)
SetEntry(fs, d, name, entry) ==
    Adjusted([fs EXCEPT !.nodes[d - Upper].entries = With(@, name, entry)],
             d, Lookup(fs, d, name), entry)

Pushed(fs, node) == [fs EXCEPT !.nodes = Append(@, node)]
Newest(fs) == Upper + Len(fs.nodes)

(* Overlay::new: the root is always upper. *)
Copy(n, parent, nlink) ==
    [Image[n] EXCEPT !.parent = parent, !.nlink = nlink, !.entries = NoEntries,
                     !.lower = IF Image[n].kind = "directory" THEN n ELSE NoNode]
Fresh ==
    Refreshed([nodes |-> <<Copy(LowerRoot, Top, 2)>>,
               copied |-> [n \in {LowerRoot} |-> Top], orphaned |-> {}], Top)

(* name_in: which entry of a lower directory names the child. *)
NameIn(d, child) == CHOOSE name \in DOMAIN Image[d].entries : Image[d].entries[name] = child

(* copy_up: the directories above first, then this one, under its name. *)
Marked(fs, n, parent) ==
    [Pushed(fs, Copy(n, parent, 2)) EXCEPT !.copied = With(@, n, Newest(fs) + 1)]
CopyOne(fs, n) ==
    SetEntry(Refreshed(Marked(fs, n, fs.copied[Image[n].parent]), Newest(fs) + 1),
             fs.copied[Image[n].parent], NameIn(Image[n].parent, n), Newest(fs) + 1)

Chain[n \in DOMAIN Image] ==
    IF n = LowerRoot THEN <<>> ELSE Append(Chain[Image[n].parent], n)

\* A lower file has no parent to be copied through: it is left alone, and
\* the caller answers EINVAL.
CopyUp(fs, n) ==
    IF IsUpper(n) \/ ~IsDir(fs, n) THEN fs
    ELSE FoldLeft(CopyOne, fs, SelectSeq(Chain[n], LAMBDA m : m \notin DOMAIN fs.copied))

(* Every change of a directory copies it up first: Do is what is done to   *)
(* the layer that has the copy, at the copy.                               *)
AtCopy(up, d, Do(_, _)) == Do(up, Promote(up, d))
InCopy(fs, d, Do(_, _)) == AtCopy(CopyUp(fs, d), d, Do)

(* copy_up_child: by the name it was reached through.  A file's copy is    *)
(* found by that one name, so the link to its other names is broken.       *)
CopyUpEntry(up, at, name, child) ==
    IF child = NoNode \/ IsUpper(child) THEN up
    ELSE IF IsDir(up, child) THEN CopyUp(up, child)
    ELSE SetEntry(Pushed(up, Copy(child, at, 1)), at, name, Newest(up) + 1)
CopyUpChild(fs, d, name) ==
    InCopy(fs, d, LAMBDA up, at : CopyUpEntry(up, at, name, Lookup(up, at, name)))

NewNode(kind, parent, nlink, data, target) ==
    [kind |-> kind, parent |-> parent, nlink |-> nlink, size |-> 0, mode |-> 0,
     owner |-> 0, entries |-> NoEntries, lower |-> NoNode, data |-> data,
     target |-> target, released |-> FALSE]

(* create: nothing shows through a directory made here. *)
Create(fs, d, name, kind, target) == InCopy(fs, d, LAMBDA up, at :
    SetEntry(Pushed(up, NewNode(kind, at, IF kind = "directory" THEN 2 ELSE 1, <<>>, target)),
             at, name, Newest(up) + 1))

(* link: a second entry for one node. *)
Link(fs, d, name, n) == InCopy(fs, d, LAMBDA up, at :
    SetEntry([up EXCEPT !.nodes[n - Upper].nlink = @ + 1], at, name, n))

\* Mutant: the name is only removed here.
DetachAbove(fs, d, name) ==
    LET gone == [fs EXCEPT !.nodes[d - Upper].entries = Without(@, name)]
    IN  Adjusted(gone, d, Lookup(fs, d, name), Lookup(gone, d, name))

(* detach: a name the image also has is covered, another one removed. *)
Detach(fs, d, name) ==
    LET node  == Node(fs, d)
        below == node.lower # NoNode /\ name \in DOMAIN Image[node.lower].entries
        gone  == [fs EXCEPT !.nodes[d - Upper].entries = Without(@, name)]
    IN  IF below THEN SetEntry(fs, d, name, Whiteout)
        ELSE Adjusted(gone, d, Lookup(fs, d, name), Lookup(gone, d, name))

(* A node, if it is one, loses a name; the last one makes it an orphan. *)
LosesName(fs, n) ==
    LET left == AtLeast(Node(fs, n).nlink - 1, 0)
    IN  IF n = Whiteout THEN fs
        ELSE [fs EXCEPT !.nodes[n - Upper].nlink = left,
                        !.orphaned = IF left = 0 THEN @ \cup {n} ELSE @]

Entry(fs, d, name) ==
    IF name \in DOMAIN Node(fs, d).entries THEN Node(fs, d).entries[name] ELSE Whiteout

(* unlink *)
Unlink(fs, d, name) == InCopy(fs, d, LAMBDA up, at :
    LosesName(Detach(up, at, name), Entry(up, at, name)))

(* rename: the name that is replaced is lost, the one that moves is not. *)
Replaced(up, to, newName, node) ==
    IF Entry(up, to, newName) = node THEN up ELSE LosesName(up, Entry(up, to, newName))
Moving(up, from, name, to, newName, node) ==
    SetEntry([Detach(Replaced(up, to, newName, node), from, name)
                EXCEPT !.nodes[node - Upper].parent = to],
             to, newName, node)
Rename(fs, from, name, to, newName) ==
    InCopy(CopyUpChild(fs, from, name), to, LAMBDA up, at :
        Moving(up, Promote(up, from), name, at, newName, Lookup(up, Promote(up, from), name)))

IsOrphaned(fs, n) == IsUpper(n) /\ Node(fs, n).nlink = 0

(* release: the bytes go, the node stays, unless a name reappeared. *)
Release(fs, n) ==
    IF Node(fs, n).nlink > 0 THEN fs
    ELSE [fs EXCEPT !.nodes[n - Upper].released = TRUE]

ShadowsLower(fs, n) == ~IsUpper(n) \/ Node(fs, n).lower # NoNode

(* grow: a hole is stored as zeros, and too large a file is refused. *)
Fits(to) == to <= MaxSize
Grown(data, to) == data \o [i \in 1 .. AtLeast(to - Len(data), 0) |-> 0]

(* write_at and truncate, on the contents. *)
Overwritten(data, offset, bytes) ==
    LET room == Grown(data, offset + Len(bytes))
    IN  [i \in DOMAIN room |->
            IF i > offset /\ i <= offset + Len(bytes) THEN bytes[i - offset] ELSE room[i]]
Truncated(data, length) ==
    IF length < Len(data) THEN SubSeq(data, 1, length) ELSE Grown(data, length)

SetData(fs, n, data) == [fs EXCEPT !.nodes[n - Upper].data = data]
SetMode(fs, n, mode) == [fs EXCEPT !.nodes[n - Upper].mode = mode]
SetOwner(fs, n, owner) == [fs EXCEPT !.nodes[n - Upper].owner = owner]
=============================================================================
