------------------------------ MODULE MCMemory ------------------------------
(***************************************************************************)
(* Instances of Memory for TLC.                                            *)
(***************************************************************************)
EXTENDS Memory

\* A program at one fixed page, below the block.
Low == {<<[start |-> 1, length |-> 1, prot |-> "rw"]>>}
=============================================================================
