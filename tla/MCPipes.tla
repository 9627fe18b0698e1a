------------------------------ MODULE MCPipes ------------------------------
(***************************************************************************)
(* Instances of Pipes for TLC.  The runs differ in what they spend their   *)
(* states on: descriptors and processes, bytes and parking, or threads     *)
(* that share a table.                                                     *)
(***************************************************************************)
EXTENDS Pipes

\* One thread in each process: thread n is process n.
OneEach == [t \in Threads |-> t]

\* Two threads share the first process; the second has one.
Shared == <<1, 1, 2>>
============================================================================
