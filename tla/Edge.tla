-------------------------------- MODULE Edge --------------------------------
(***************************************************************************)
(* The host's side of the network: NetStore of crates/host/src/net.rs.  It *)
(* listens on the ports that are mapped, reads each connection it accepts  *)
(* on a thread of its own, and reports what happens as a queue of events   *)
(* that one store read takes whole.                                        *)
(*                                                                         *)
(* A connection is numbered by its place in `connections`, which is never  *)
(* reused.  Its record also says whether the guest has ended it (`shut`),   *)
(* whether its reader thread still runs (`reading`), and how many bytes    *)
(* the peer has sent, which is history.                                    *)
(***************************************************************************)
EXTENDS Naturals, Sequences

CONSTANT Mapped  (* the guest ports that -p maps                            *)

NewNet == [events |-> <<>>, connections |-> <<>>, listening |-> {}]

NewConnection ==
  [incoming |-> <<>>, present |-> TRUE, shut |-> FALSE, reading |-> TRUE, sent |-> 0]

Report(net, kind, conn, port) ==
  [net EXCEPT !.events = Append(@, [kind |-> kind, conn |-> conn, port |-> port])]

\* listen: an unmapped port is no error, and a second listen is nothing new.
HostListens(net, port) ==
  IF port \in Mapped THEN [net EXCEPT !.listening = @ \cup {port}] ELSE net

\* The accepting thread: it goes on whatever becomes of the guest's listener.
HostAccepts(net, port) ==
  Report([net EXCEPT !.connections = Append(@, NewConnection)],
         "open", Len(net.connections) + 1, port)

\* read_into, a chunk: a connection let go of keeps none of it.
Arrived(net, conn, bytes) ==
  LET kept == IF net.connections[conn].present THEN bytes ELSE <<>>
  IN  Report([net EXCEPT !.connections[conn].incoming = @ \o kept,
                         !.connections[conn].sent = @ + Len(bytes)],
             "data", conn, 0)

\* read_into, the end: the peer is done, or the guest has closed.
Ended(net, conn) ==
  Report([net EXCEPT !.connections[conn].reading = FALSE], "eof", conn, 0)

\* read /iso/net/conn/{j}/rx/{room}
Rx(net, conn, room) ==
  LET held == net.connections[conn].incoming
  IN  SubSeq(held, 1, IF room <= Len(held) THEN room ELSE Len(held))
AfterRx(net, conn, room) ==
  LET taken == Len(Rx(net, conn, room))
  IN  [net EXCEPT !.connections[conn].incoming = SubSeq(@, taken + 1, Len(@))]

\* write /iso/net/conn/{j}/ctl
Ctl(net, conn, how) ==
  IF how = "close"
  THEN [net EXCEPT !.connections[conn].present = FALSE,
                   !.connections[conn].incoming = <<>>,
                   !.connections[conn].shut = TRUE]
  ELSE [net EXCEPT !.connections[conn].shut = TRUE]
=============================================================================
