---------------------------- MODULE MCProcesses ----------------------------
(***************************************************************************)
(* Instances of Processes for TLC.  The runs differ in which signals the   *)
(* programs handle, and in whether they may sleep or start threads.        *)
(***************************************************************************)
EXTENDS Processes

NoSignals   == {}
ChildSignal == {SIGCHLD}
StopSignal  == {SIGTERM}
============================================================================
