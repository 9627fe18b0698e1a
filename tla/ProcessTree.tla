---------------------------- MODULE ProcessTree ----------------------------
(***************************************************************************)
(* What wait4 and kill promise a tree of processes, with no table, turns,  *)
(* slices or parked threads in it: every process that ends is told of      *)
(* exactly once, to its parent or to the first process when its parent is  *)
(* gone, with the status it ended with; and a caller is told it has no     *)
(* children only when it has none.                                         *)
(*                                                                         *)
(* Abstracts crates/kernel/src/system.rs.                                  *)
(***************************************************************************)
EXTENDS Integers

CONSTANTS
  Pids,     (* process identifiers, 1 the first process's                  *)
  Endings,  (* how a process may end                                       *)
  Alive     (* the status of one that has not                              *)

VARIABLES
  parent,  (* of each process that exists; 0 is nobody's                   *)
  life,    (* "Unborn", "Alive", "Zombie" and "Gone", in that order        *)
  status,  (* how each zombie ended                                        *)
  answer   (* what wait4 or kill just answered                             *)

vars == <<parent, life, status, answer>>

ESRCH  == -3
ECHILD == -10

\* The children a wait4 is about: all of them, or the one it names.
Children(p, about) ==
  {c \in Pids : life[c] \in {"Alive", "Zombie"} /\ parent[c] = p
                /\ (about = 0 \/ about = c)}

Tells(p, call, about, value, what) ==
  answer' = [to |-> p, call |-> call, about |-> about, value |-> value, status |-> what]

Fork(p) ==
  \E c \in Pids :
    /\ life[c] = "Unborn"
    /\ \A q \in Pids : life[q] = "Unborn" => c <= q
    /\ life' = [life EXCEPT ![c] = "Alive"]
    /\ parent' = [parent EXCEPT ![c] = p]
    /\ UNCHANGED <<status, answer>>

\* A process ends once, and the first process adopts its children.
Ends(p) ==
  /\ life' = [life EXCEPT ![p] = "Zombie"]
  /\ parent' = [c \in Pids |-> IF parent[c] = p THEN 1 ELSE parent[c]]
  /\ \E ending \in Endings : status' = [status EXCEPT ![p] = ending]

NoAnswer == [to |-> 0, call |-> "none", about |-> 0, value |-> 0, status |-> Alive]
IsForgotten == answer' \in {answer, NoAnswer}

End(p) == Ends(p) /\ IsForgotten

Reap(p) ==
  \E about \in Pids \cup {0} : \E c \in Children(p, about) :
    /\ life[c] = "Zombie"
    /\ Tells(p, "wait4", about, c, status[c])
    /\ life' = [life EXCEPT ![c] = "Gone"]
    /\ parent' = [parent EXCEPT ![c] = 0]
    /\ status' = [status EXCEPT ![c] = Alive]

NotYet(p) ==
  \E about \in Pids \cup {0} :
    /\ Children(p, about) # {}
    /\ \A c \in Children(p, about) : life[c] = "Alive"
    /\ Tells(p, "wait4", about, 0, Alive)
    /\ UNCHANGED <<parent, life, status>>

NoChildren(p) ==
  \E about \in Pids \cup {0} :
    /\ Children(p, about) = {}
    /\ Tells(p, "wait4", about, ECHILD, Alive)
    /\ UNCHANGED <<parent, life, status>>

\* A zombie is a process still: a kill that races an exit is no error.
Signal(p) ==
  \E about \in Pids :
    \/ /\ life[about] = "Alive"
       /\ Tells(p, "kill", about, 0, Alive)
       /\ Ends(about) \/ UNCHANGED <<parent, life, status>>
    \/ /\ life[about] = "Zombie"
       /\ Tells(p, "kill", about, 0, Alive)
       /\ UNCHANGED <<parent, life, status>>
    \/ /\ life[about] \in {"Unborn", "Gone"}
       /\ Tells(p, "kill", about, ESRCH, Alive)
       /\ UNCHANGED <<parent, life, status>>

Init ==
  /\ parent = [p \in Pids |-> 0]
  /\ life = [p \in Pids |-> IF p = 1 THEN "Alive" ELSE "Unborn"]
  /\ status = [p \in Pids |-> Alive]
  /\ answer = NoAnswer

Next ==
  \/ \E p \in Pids :
       /\ life[p] = "Alive"
       /\ Fork(p) \/ End(p) \/ Reap(p) \/ NotYet(p) \/ NoChildren(p) \/ Signal(p)
  \/ IsForgotten /\ UNCHANGED <<parent, life, status>>

Spec == Init /\ [][Next]_vars
============================================================================
