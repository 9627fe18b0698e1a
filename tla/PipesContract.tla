--------------------------- MODULE PipesContract ---------------------------
(***************************************************************************)
(* What a pipe promises its readers and writers, with no rings, counts,    *)
(* capacities, parked threads or scheduler in it: a stream of bytes that   *)
(* is read in the order it was written, each byte once; an end of file     *)
(* that is told only when everything was read and no descriptor anywhere   *)
(* could write more; a broken pipe that is told only when no descriptor    *)
(* anywhere could read; and a count that is the number of bytes moved.     *)
(*                                                                         *)
(* Abstracts ring.rs, pipe.rs and the comments that head them.             *)
(***************************************************************************)
EXTENDS Integers, Sequences, FiniteSets

CONSTANTS
  Threads, Serials, Lengths,
  Atomic,     (* PIPE_BUF                                                  *)
  NoRequest   (* a thread that is not in the middle of a call              *)

VARIABLES
  made,     (* how many pipes there have been                              *)
  open,     (* the ends of each that some descriptor is on                 *)
  stream,   (* every byte written to each                                  *)
  taken,    (* the bytes that have been read from it                       *)
  writes,   (* write calls begun                                           *)
  request,  (* the call each thread is in the middle of                    *)
  answer    (* the last answer given, and to which thread                  *)

vars == <<made, open, stream, taken, writes, request, answer>>

End == {"Read", "Write"}
EAGAIN == -11
EFAULT == -14
EMFILE == -24
EPIPE  == -32

Unread(g) == Len(stream[g]) - Len(taken[g])

\* The call a thread is in the middle of, or one it may begin.
Requests(t) ==
  IF request[t] # NoRequest
  THEN {request[t]}
  ELSE UNION {{[end |-> e, length |-> n, done |-> 0, pipe |-> g,
                call |-> IF e = "Read" THEN 0 ELSE writes + 1] : e \in open[g]}
                : n \in Lengths, g \in Serials}

Begins(t, x) ==
  /\ x \in Requests(t)
  /\ writes' = IF request[t] = NoRequest /\ x.end = "Write" THEN x.call ELSE writes
  /\ UNCHANGED <<made, open>>

Returns(t, values) ==
  /\ request' = [request EXCEPT ![t] = NoRequest]
  /\ \E value \in values : answer' = [thread |-> t, value |-> value]

Waits(t, x) ==
  /\ request' = [request EXCEPT ![t] = x]
  /\ UNCHANGED answer

---------------------------------------------------------------------------
\* As many bytes as there are, up to what was asked for, from the front.
\* The caller's buffer may be gone by then, and the bytes with it.
Deliver(t, x) ==
  \E n \in 1..x.length :
    /\ n = x.length \/ n = Unread(x.pipe)
    /\ n <= Unread(x.pipe)
    /\ taken' = [taken EXCEPT ![x.pipe] =
         @ \o SubSeq(stream[x.pipe], Len(@) + 1, Len(@) + n)]
    /\ Returns(t, {n, EFAULT})
    /\ UNCHANGED stream

\* Only when everything was read and nobody can ever write more.
EndOfFile(t, x) ==
  /\ Unread(x.pipe) = 0
  /\ "Write" \notin open[x.pipe]
  /\ Returns(t, {0})
  /\ UNCHANGED <<stream, taken>>

\* Only when there is nothing to read and somebody could still write.
AwaitBytes(t, x) ==
  /\ Unread(x.pipe) = 0
  /\ "Write" \in open[x.pipe]
  /\ Returns(t, {EAGAIN}) \/ Waits(t, x)
  /\ UNCHANGED <<stream, taken>>

Reading(t) ==
  \E x \in Requests(t) :
    /\ x.end = "Read"
    /\ Begins(t, x)
    /\ Deliver(t, x) \/ EndOfFile(t, x) \/ AwaitBytes(t, x)

---------------------------------------------------------------------------
\* Bytes go in where the last ones ended.  A write of up to PIPE_BUF bytes
\* goes in whole or not at all.
Accept(t, x) ==
  \E n \in 0..(x.length - x.done) :
    LET moved == x.done + n IN
    /\ "Read" \in open[x.pipe]
    /\ x.length <= Atomic => n \in {0, x.length}
    /\ stream' = [stream EXCEPT ![x.pipe] =
         @ \o [i \in 1..n |-> <<x.call, x.done + i>>]]
    /\ \/ moved = x.length /\ Returns(t, {moved})
       \/ 0 < moved /\ moved < x.length /\ Returns(t, {moved})
       \/ moved = 0 /\ Returns(t, {EAGAIN})
       \/ moved < x.length /\ Waits(t, [x EXCEPT !.done = moved])
    /\ UNCHANGED taken

\* Only when nobody can ever read.
Broken(t, x) ==
  /\ "Read" \notin open[x.pipe]
  /\ Returns(t, {EPIPE} \cup ({x.done} \ {0}))
  /\ UNCHANGED <<stream, taken>>

\* The buffer of a call in progress is gone.
Faulted(t, x) ==
  /\ request[t] = x
  /\ Returns(t, {EFAULT})
  /\ UNCHANGED <<stream, taken>>

Writing(t) ==
  \E x \in Requests(t) :
    /\ x.end = "Write"
    /\ Begins(t, x)
    /\ Accept(t, x) \/ Broken(t, x) \/ Faulted(t, x)

---------------------------------------------------------------------------
Make ==
  /\ made' = made + 1
  /\ made' \in Serials
  /\ open' = [open EXCEPT ![made'] = End]
  /\ UNCHANGED <<stream, taken, writes, request, answer>>

Refuse(t) ==
  /\ answer' = [thread |-> t, value |-> EMFILE]
  /\ UNCHANGED <<made, open, stream, taken, writes, request>>

\* An end that nobody is on any longer never opens again, and a thread that
\* is gone is in the middle of nothing.
Close ==
  /\ \A g \in Serials : open'[g] \subseteq open[g]
  /\ \A t \in Threads : request'[t] \in {request[t], NoRequest}
  /\ DOMAIN open' = Serials /\ DOMAIN request' = Threads
  /\ UNCHANGED <<made, stream, taken, writes, answer>>

Init ==
  /\ made = 0
  /\ open = [g \in Serials |-> {}]
  /\ stream = [g \in Serials |-> << >>]
  /\ taken = [g \in Serials |-> << >>]
  /\ writes = 0
  /\ request = [t \in Threads |-> NoRequest]
  /\ answer \in [thread : Threads, value : {0}]

Next ==
  \/ \E t \in Threads : Reading(t) \/ Writing(t) \/ Refuse(t)
  \/ Make
  \/ Close

Spec == Init /\ [][Next]_vars
============================================================================
