------------------------------ MODULE MCEpoll ------------------------------
(***************************************************************************)
(* Instances of Epoll for TLC.                                             *)
(***************************************************************************)
EXTENDS Epoll

\* A read's readiness, or both directions in one mask.
JustIn    == {{"IN"}}
Both      == {{"IN", "OUT"}}
============================================================================
