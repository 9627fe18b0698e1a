------------------------------ MODULE NameTree ------------------------------
(***************************************************************************)
(* What a filesystem promises, with one layer and no copies: a tree of     *)
(* names.  A name is the sequence of components from the root; it leads to *)
(* an object, and two names of one object lead to the same number.  A call *)
(* makes one name, takes one away, moves a tree of them, or changes one    *)
(* object.  The overlay keeps this promise with one exception its source   *)
(* states: the first change of a file of the image takes the name it was   *)
(* changed through away from the file's other names.                       *)
(***************************************************************************)
EXTENDS Sequences, Naturals

CONSTANTS Start   \* the tree the image holds

VARIABLE tree     \* what each name leads to

Beneath(p, q) == Len(p) <= Len(q) /\ SubSeq(q, 1, Len(p)) = p
IsFolder(t, p) == p = <<>> \/ (p \in DOMAIN t /\ t[p].kind = "directory")
Above(p) == SubSeq(p, 1, Len(p) - 1)
Bare(t, p) == \A q \in DOMAIN t : Beneath(p, q) => q = p
Twins(t, p) == {q \in DOMAIN t : t[q].id = t[p].id}

\* Everything but which object it is.
Same(a, b) == [a EXCEPT !.id = 0] = [b EXCEPT !.id = 0]
Kept(t, u, names) == \A p \in names : p \in DOMAIN u /\ u[p] = t[p]
Alone(u, p) == Twins(u, p) = {p}

\* Each step is about the tree t before it and the tree u after it.
Make(t, u, p) ==
    /\ p \notin DOMAIN t /\ IsFolder(t, Above(p))
    /\ DOMAIN u = DOMAIN t \cup {p}
    /\ Kept(t, u, DOMAIN t) /\ Alone(u, p)

Alias(t, u, p, q) ==
    /\ p \in DOMAIN t /\ t[p].kind # "directory"
    /\ q \notin DOMAIN t /\ IsFolder(t, Above(q))
    /\ DOMAIN u = DOMAIN t \cup {q}
    /\ Kept(t, u, DOMAIN t \ {p}) /\ Same(u[p], t[p]) /\ u[q] = u[p]
    /\ u[p].id = t[p].id \/ Twins(u, p) = {p, q}

Drop(t, u, p) ==
    /\ p \in DOMAIN t /\ Bare(t, p)
    /\ DOMAIN u = DOMAIN t \ {p}
    /\ Kept(t, u, DOMAIN u)

\* What was below the one name is below the other, and nothing else moves.
Move(t, u, p, q) ==
    LET stays == {r \in DOMAIN t : ~Beneath(p, r) /\ ~Beneath(q, r)}
        moves == {r \in DOMAIN t : Beneath(p, r)}
        moved(r) == q \o SubSeq(r, Len(p) + 1, Len(r))
    IN  /\ p \in DOMAIN t /\ ~Beneath(p, q) /\ IsFolder(t, Above(q))
        /\ q \in DOMAIN t =>
             Bare(t, q) /\ (t[q].kind = "directory" <=> t[p].kind = "directory")
        /\ DOMAIN u = stays \cup {moved(r) : r \in moves}
        /\ Kept(t, u, stays)
        /\ \A r \in moves \ {p} : u[moved(r)] = t[r]
        /\ Same(u[q], t[p]) /\ (u[q].id = t[p].id \/ Alone(u, q))

\* One object changes, under every name it has; or one name is given an
\* object of its own, which changes.
Change(t, u, p) ==
    /\ p \in DOMAIN t /\ DOMAIN u = DOMAIN t
    /\ u[p].kind = t[p].kind /\ u[p].target = t[p].target
    /\ \/ Kept(t, u, DOMAIN t \ Twins(t, p)) /\ \A r \in Twins(t, p) : u[r] = u[p]
       \/ Kept(t, u, DOMAIN t \ {p}) /\ Alone(u, p)

Init == tree = Start

\* The names a step may be about: those there before and those there after.
Next ==
    \E p \in DOMAIN tree \cup DOMAIN tree' :
        \/ Make(tree, tree', p) \/ Drop(tree, tree', p) \/ Change(tree, tree', p)
        \/ \E q \in DOMAIN tree' : Alias(tree, tree', p, q) \/ Move(tree, tree', p, q)

Spec == Init /\ [][Next]_tree
=============================================================================
