--------------------------- MODULE PrivateMemory ---------------------------
(***************************************************************************)
(* What memory promises: every process has an address space of its own.    *)
(* mem[t][p] is what process t would read at page p, or Gone where it maps *)
(* nothing.  A step is one process's: it writes one page, remaps some, or  *)
(* makes, replaces or ends a process; nobody else's memory moves, and what *)
(* appears in a page is zeros, a file's bytes or the process's own, never  *)
(* what somebody left there.                                               *)
(***************************************************************************)
EXTENDS Integers

CONSTANTS Tokens, Pages, Zero, Loadable, Gone, Values

VARIABLE mem

Nothing == [p \in Pages |-> Gone]
New == {Zero} \cup Loadable

Init == \E t \in Tokens :
    /\ \A p \in Pages : mem[t][p] \in New \cup {Gone}
    /\ \A u \in Tokens \ {t} : mem[u] = Nothing

\* The memory of t, before and after a step of its own.
Write(old, new) == \E p \in Pages, v \in Values :
    old[p] # Gone /\ new = [old EXCEPT ![p] = v]

\* The pages of a call become mapped, zeroed or unmapped; the others stay.
Map(old, new) == \A p \in Pages : new[p] \in {old[p], Gone} \cup New

\* Pages move to where nothing was, in order; what grew is zeros.
Move(old, new) == \E from \in {p \in Pages : old[p] # Gone /\ new[p] = Gone} :
    \E to \in {p \in Pages : old[p] = Gone /\ new[p] # Gone}, many \in Pages :
        LET pages == {p \in Pages : p >= to /\ p < to + many}
            left  == {p \in Pages : p >= from /\ p < from + many}
        IN  /\ \A p \in pages : from + (p - to) \in Pages /\ old[p] = Gone
            /\ \A p \in Pages : new[p] =
                 IF p \in pages THEN old[from + (p - to)]
                 ELSE IF p \in left THEN Gone
                 ELSE IF old[p] = Gone /\ new[p] # Gone THEN Zero
                 ELSE old[p]

Alone(t) ==
    /\ \A u \in Tokens \ {t} : mem'[u] = mem[u]
    /\ LET old == mem[t]  new == mem'[t] IN
       Map(old, new) \/ Write(old, new) \/ Move(old, new)

Fork(t, c) == /\ mem[c] = Nothing
              /\ mem' = [mem EXCEPT ![c] = mem[t]]

Load(t, n) == /\ mem[n] = Nothing
              /\ \A p \in Pages : mem'[n][p] \in New \cup {Gone}
              /\ mem' = [mem EXCEPT ![t] = Nothing, ![n] = mem'[n]]

Next == \E t \in Tokens :
            \/ Alone(t)
            \/ \E c \in Tokens \ {t} : Fork(t, c) \/ Load(t, c)

Spec == Init /\ [][Next]_mem
=============================================================================
