------------------------------ MODULE Sockets ------------------------------
(***************************************************************************)
(* Sockets of the kernel (socket.rs): the arena every process shares, the  *)
(* two rings behind each connection, the descriptors that hold them (the   *)
(* census of file.rs, fork and execve of syscall.rs) and the pump that     *)
(* carries connections and bytes over the edge to the host's threads.      *)
(*                                                                         *)
(* A step is one call, one resumed accept, one half of the pump or one     *)
(* event of a batch it took; the host's threads run between any two.  The  *)
(* transfers that park are those of Pipes; here a send or a receive        *)
(* answers at once.  A byte is its position in its stream.                 *)
(*                                                                         *)
(* `streams`, `carries`, `skewed` and `adrift`, and the fields `hears` and *)
(* `says` of an endpoint, are history: no action of the kernel reads them. *)
(* `skewed` and `adrift` name the streams and the sockets whose count one  *)
(* of the steps README.md lists has left wrong.                            *)
(***************************************************************************)
EXTENDS Ring, Edge, Integers, FiniteSets, SequencesExt

CONSTANTS
  Procs,      (* process identifiers 1..n; 1 is the first process          *)
  Fds,        (* descriptor numbers                                        *)
  Ids,        (* indices of the socket arena                               *)
  Slots,      (* indices of the ring arena                                 *)
  Ports,      (* the ports a program names                                 *)
  Ephemeral,  (* EPHEMERAL_FIRST..EPHEMERAL_LAST                           *)
  Paths,      (* names a unix socket may be bound to                       *)
  Lengths,    (* lengths a send, a receive or a peer's chunk may have      *)
  MaxStreams, (* bound: streams opened, two for each connection            *)
  Menus,      (* bound: the calls a behaviour makes, the descriptors a     *)
              (* process may have, the sockets there may be, the backlogs  *)
              (* listen is given, how many connections the host accepts    *)
              (* and how many bytes each stream carries                    *)
  NoFile, NoSocket

(* An endpoint, a socket of the arena, and what a descriptor holds of one. *)
Addresses == [family : {"inet", "unix", "none"}, host : Nat, port : Nat, path : Seq(Paths)]
Endpoints == [receive : Slots \cup {0}, transmit : Slots \cup {0}, local : Addresses,
              peer : Addresses, readShut : BOOLEAN, writeShut : BOOLEAN,
              hears : Nat, says : Nat]
Records   == [state : {"Idle", "Bound", "Listening", "Connected"}, references : Nat,
              edge : Nat, address : Addresses, backlog : Nat, queue : Seq(Ids),
              ends : Endpoints]
OpenFiles == [socket : Ids, cloexec : BOOLEAN]

ASSUME SocketsAssumption ==
  /\ Procs \subseteq Nat /\ 1 \in Procs /\ IsFiniteSet(Procs)
  /\ Fds \subseteq Nat /\ IsFiniteSet(Fds) /\ Ids \subseteq Nat /\ IsFiniteSet(Ids) /\ Slots \subseteq Nat
  /\ NoSocket \notin Records \cup Ids /\ NoFile \notin OpenFiles
  /\ Ports \subseteq Nat \ {0} /\ Ephemeral \subseteq Nat \ {0} /\ Mapped \subseteq Ports
  /\ Lengths \subseteq Nat \ {0} /\ MaxStreams \in Nat
  /\ \A m \in Menus : m.fds \subseteq Fds /\ m.ids \subseteq Ids
                      /\ m.backlogs \subseteq Nat \ {0} /\ m.peers \in Nat /\ m.bytes \in Nat

VARIABLES
  rings,     (* the ring arena                                             *)
  sockets,   (* the socket arena                                           *)
  files,     (* each process's descriptor table                            *)
  nodes,     (* the socket nodes of each process's own writable layer      *)
  next,      (* the identifier the next fork hands out                     *)
  accepting, (* the listener a parked accept of each process waits on      *)
  net,       (* the host                                                   *)
  batch,     (* the events the pump has taken and not handled              *)
  streams, carries, skewed, adrift,
  menu

history == <<streams, carries, skewed, adrift>>
vars    == <<rings, sockets, files, nodes, next, accepting, net, batch,
             streams, carries, skewed, adrift, menu>>

Inet(host, port)  == [family |-> "inet", host |-> host, port |-> port, path |-> <<>>]
Unix(node, path)  == [family |-> "unix", host |-> node, port |-> 0, path |-> path]
Unbound           == [family |-> "none", host |-> 0, port |-> 0, path |-> <<>>]
Wildcard == 0
Loopback == 1

NoEnds == [receive |-> 0, transmit |-> 0, local |-> Unbound, peer |-> Unbound,
           readShut |-> TRUE, writeShut |-> TRUE, hears |-> 0, says |-> 0]

\* create: a socket with nothing done to it.
NewSocket == [state |-> "Idle", references |-> 1, edge |-> 0, address |-> Unbound,
              backlog |-> 0, queue |-> <<>>, ends |-> NoEnds]

Live          == {i \in Ids : sockets[i] # NoSocket}
Is(i, state)  == i \in Live /\ sockets[i].state = state
Connected     == {i \in Live : sockets[i].state = "Connected"}
Listening     == {i \in Live : sockets[i].state = "Listening"}

Least(S)      == CHOOSE x \in S : \A y \in S : x <= y
FreeSlots     == {s \in Slots : rings[s] = FreeRing}
FreeIds       == menu.ids \ Live
Open(table)   == {fd \in Fds : table[fd] # NoFile}
Free(table)   == menu.fds \ Open(table)
Naming(table, i) == {fd \in Open(table) : table[fd].socket = i}
NoFiles       == [fd \in Fds |-> NoFile]
Descriptors(i)   == UNION {{<<p, fd>> : fd \in Naming(files[p], i)} : p \in Procs}

---------------------------------------------------------------------------
(* The port table is a scan of the arena.                                  *)

Accepts(bound, wanted) ==
  \/ /\ bound.family = "inet" /\ wanted.family = "inet"
     /\ bound.port = wanted.port
     /\ bound.host \in {Wildcard, wanted.host}
  \/ bound.family = "unix" /\ wanted.family = "unix" /\ bound.host = wanted.host

ListenersFor(wanted) == {i \in Listening : Accepts(sockets[i].address, wanted)}

Bound(wanted) ==
  \E i \in Live : sockets[i].state \in {"Bound", "Listening"} /\ sockets[i].address = wanted

FreePorts ==
  {port \in Ephemeral :
     /\ ~Bound(Inet(Loopback, port))
     /\ \A i \in Connected : sockets[i].ends.local.port # port}

---------------------------------------------------------------------------
(* Two rings for a connection, and the histories of its two streams.       *)

Ends(receive, transmit, local, peer, hears, says) ==
  [receive |-> receive, transmit |-> transmit, local |-> local, peer |-> peer,
   readShut |-> FALSE, writeShut |-> FALSE, hears |-> hears, says |-> says]

\* The connection of the host that reads or writes it, or 0: the other end
\* is a socket.  What the host writes is counted in its connection.
Stream(reads, writes) == [sent |-> 0, got |-> 0, reads |-> reads, writes |-> writes]

\* The slots the next two rings go into, and the streams they will carry.
Up      == Least(FreeSlots)
Down    == Least(FreeSlots \ {Up})
UpStream   == Len(streams) + 1
DownStream == Len(streams) + 2
CanConnect == Cardinality(FreeSlots) >= 2 /\ Len(streams) + 2 <= MaxStreams

\* attach_endpoint is called once for each socket that names the two.
TwoRings(endpoints) ==
  rings' = [rings EXCEPT ![Up]   = [NewRing EXCEPT !.attached = endpoints],
                         ![Down] = [NewRing EXCEPT !.attached = endpoints]]
TwoStreams(up, down) ==
  /\ streams' = streams \o <<Stream(up, 0), Stream(0, down)>>
  /\ carries' = [carries EXCEPT ![Up] = UpStream, ![Down] = DownStream]

---------------------------------------------------------------------------
(* reconcile_shared, when process p's table becomes `table`.               *)

\* Mutant: hands back the end that shutdown gave up.
CensusOfShut(table, s) ==
  [e \in End |->
     Cardinality({fd \in Open(table) :
       LET i == table[fd].socket
       IN  /\ i \in Connected
           /\ \/ e = "Read" /\ sockets[i].ends.receive = s
              \/ e = "Write" /\ sockets[i].ends.transmit = s})]

\* Once per descriptor, for each direction that is not shut down.
Census(table, s) ==
  [e \in End |->
     Cardinality({fd \in Open(table) :
       LET i == table[fd].socket
       IN  /\ i \in Connected
           /\ \/ e = "Read" /\ sockets[i].ends.receive = s /\ ~sockets[i].ends.readShut
              \/ e = "Write" /\ sockets[i].ends.transmit = s /\ ~sockets[i].ends.writeShut})]

References(i, was, now) == Adjusted(sockets[i].references, was, now)

Retired(was, now) ==
  {i \in Live : /\ Cardinality(Naming(now, i)) < Cardinality(Naming(was, i))
                /\ References(i, Cardinality(Naming(was, i)), Cardinality(Naming(now, i))) = 0}

\* How many of a set of sockets, that have gone, named a ring.
NamedBy(S, s) ==
  Cardinality({i \in S \cap Connected : sockets[i].ends.receive = s})
    + Cardinality({i \in S \cap Connected : sockets[i].ends.transmit = s})

Detached(r, n) ==
  IF r = FreeRing THEN r ELSE FreeIfUnused([r EXCEPT !.attached = SaturatingSub(@, n)])

\* The rings whose queued bytes end_edge hands to the host first.
Flushed(edges) == {sockets[i].ends.transmit : i \in edges}
Emptied(r)     == [r EXCEPT !.bytes = <<>>]

\* Mutant: the connection is ended without sending what was written.
EndEdgesUnsent(edges, how, settled) ==
  /\ rings' = [s \in Slots |-> settled[s]]
  /\ net' = [net EXCEPT !.connections =
               [c \in DOMAIN @ |-> IF \E i \in edges : sockets[i].edge = c
                                   THEN Ctl(net, c, how).connections[c] ELSE @[c]]]
  /\ UNCHANGED streams

\* end_edge for each of `edges`: first what is queued, then the end.  The
\* rings become `settled`, less the bytes that were sent.
EndEdges(edges, how, settled) ==
  /\ rings' = [s \in Slots |-> IF s \in Flushed(edges) /\ settled[s] # FreeRing
                               THEN Emptied(settled[s]) ELSE settled[s]]
  /\ net' = [net EXCEPT !.connections =
               [c \in DOMAIN @ |-> IF \E i \in edges : sockets[i].edge = c
                                   THEN Ctl(net, c, how).connections[c] ELSE @[c]]]
  /\ streams' = [k \in DOMAIN streams |->
                   IF \E i \in edges : sockets[i].ends.says = k
                   THEN [streams[k] EXCEPT !.got = streams[k].sent] ELSE streams[k]]

\* Nobody will ever accept what a retired listener still queues: `abandoned`
\* would drain it, and is not called.
Abandoned(gone) == UNION {Range(sockets[i].queue) : i \in gone}
StreamsOf(S)    == UNION {{sockets[i].ends.hears, sockets[i].ends.says} : i \in S \cap Connected}

SetTable(p, table) ==
  LET was  == files[p]
      gone == Retired(was, table)
  IN /\ files' = [files EXCEPT ![p] = table]
     /\ sockets' = [i \in Ids |->
          IF i \in gone THEN NoSocket
          ELSE IF i \in Live
          THEN [sockets[i] EXCEPT !.references =
                  References(i, Cardinality(Naming(was, i)), Cardinality(Naming(table, i)))]
          ELSE NoSocket]
     /\ EndEdges({i \in gone : sockets[i].edge # 0}, "close",
          [s \in Slots |-> Detached(Reconciled(rings[s], Census(was, s), Census(table, s)),
                                    NamedBy(gone, s))])
     /\ skewed' = skewed \cup StreamsOf(Abandoned(gone))
     /\ adrift' = adrift \cup Abandoned(gone)
     /\ UNCHANGED <<carries, batch, menu>>

---------------------------------------------------------------------------
(* The rows.  The kernel makes no call between two events of a batch.      *)

Call(name) == name \in menu.calls /\ batch = <<>>
Alive(p)   == p < next
SocketAt(p, fd) == files[p][fd].socket
Names(p, fd, state) ==
  fd \in Open(files[p]) /\ sockets[SocketAt(p, fd)].state = state

MakeSocket(p, cloexec) ==
  /\ Call("socket") /\ Alive(p)
  /\ Free(files[p]) # {} /\ FreeIds # {}
  /\ LET i == Least(FreeIds)
     IN /\ sockets' = [sockets EXCEPT ![i] = NewSocket]
        /\ files' = [files EXCEPT ![p][Least(Free(files[p]))] =
                       [socket |-> i, cloexec |-> cloexec]]
  /\ UNCHANGED <<rings, nodes, next, accepting, net, batch, history, menu>>

MakeSocketpair(p) ==
  /\ Call("socketpair") /\ Alive(p)
  /\ Cardinality(Free(files[p])) >= 2 /\ Cardinality(FreeIds) >= 2 /\ CanConnect
  /\ LET first == Least(FreeIds)
         second == Least(FreeIds \ {first})
         fd == Least(Free(files[p]))
     IN /\ sockets' = [sockets EXCEPT
             ![first]  = [NewSocket EXCEPT !.state = "Connected",
                !.ends = Ends(Down, Up, Unbound, Unbound, DownStream, UpStream)],
             ![second] = [NewSocket EXCEPT !.state = "Connected",
                !.ends = Ends(Up, Down, Unbound, Unbound, UpStream, DownStream)]]
        /\ files' = [files EXCEPT ![p] =
             [@ EXCEPT ![fd] = [socket |-> first, cloexec |-> FALSE],
                       ![Least(Free(files[p]) \ {fd})] = [socket |-> second, cloexec |-> FALSE]]]
  /\ TwoRings(2) /\ TwoStreams(0, 0)
  /\ UNCHANGED <<nodes, next, accepting, net, batch, skewed, adrift, menu>>

BindTo(p, fd, address) ==
  sockets' = IF Bound(address) THEN sockets
             ELSE [sockets EXCEPT ![SocketAt(p, fd)].state = "Bound",
                                  ![SocketAt(p, fd)].address = address]

\* Port zero is the first free one, and none is EADDRINUSE.
BindInet(p, fd, host, wanted) ==
  /\ Call("bind") /\ Names(p, fd, "Idle")
  /\ wanted = 0 => FreePorts # {}
  /\ BindTo(p, fd, Inet(host, IF wanted = 0 THEN Least(FreePorts) ELSE wanted))
  /\ UNCHANGED <<rings, files, nodes, next, accepting, net, batch, history, menu>>

\* The node is made before the address is looked for.
BindUnix(p, fd, path) ==
  /\ Call("bindunix") /\ Names(p, fd, "Idle")
  /\ path \notin Range(nodes[p])
  /\ nodes' = [nodes EXCEPT ![p] = Append(@, path)]
  /\ BindTo(p, fd, Unix(Len(nodes[p]) + 1, <<path>>))
  /\ UNCHANGED <<rings, files, next, accepting, net, batch, history, menu>>

ListenOn(i, address, backlog) ==
  /\ sockets' = [sockets EXCEPT ![i].state = "Listening", ![i].address = address,
                                ![i].backlog = backlog]
  /\ net' = IF address.family = "inet" THEN HostListens(net, address.port) ELSE net

\* A second listen only changes the backlog, and an unbound one binds first.
Listen(p, fd, backlog) ==
  /\ Call("listen")
  /\ LET i == SocketAt(p, fd)
     IN \/ Names(p, fd, "Bound") /\ ListenOn(i, sockets[i].address, backlog)
        \/ /\ Names(p, fd, "Idle") /\ FreePorts # {}
           /\ ListenOn(i, Inet(Loopback, Least(FreePorts)), backlog)
        \/ /\ Names(p, fd, "Listening") /\ sockets[i].backlog # backlog
           /\ sockets' = [sockets EXCEPT ![i].backlog = backlog]
           /\ UNCHANGED net
  /\ UNCHANGED <<rings, files, nodes, next, accepting, batch, history, menu>>

\* enqueue, of a connection that has been made: whether there is room.
Enqueues(listener) == Len(sockets[listener].queue) < sockets[listener].backlog

\* The reference is the accept queue's, and goes to the descriptor.
Far(ends, edge) ==
  [NewSocket EXCEPT !.state = "Connected", !.ends = ends, !.edge = edge]

(***************************************************************************)
(* connect: the far socket goes on the queue of the listener, and what was *)
(* made for it goes again when the queue has no room.  The rings start     *)
(* with one end each whatever names the near socket by then.               *)
(***************************************************************************)
ConnectTo(p, fd, wanted) ==
  LET i        == SocketAt(p, fd)
      listener == Least(ListenersFor(wanted))
      local    == IF wanted.family = "inet" /\ FreePorts # {}
                  THEN Inet(Loopback, Least(FreePorts)) ELSE Unbound
      far      == Least(FreeIds)
  IN /\ Names(p, fd, "Idle") \/ Names(p, fd, "Bound")
     /\ ListenersFor(wanted) # {} /\ Enqueues(listener)
     /\ FreeIds # {} /\ CanConnect
     /\ sockets' = [sockets EXCEPT
          ![far] = Far(Ends(Up, Down, wanted, local, UpStream, DownStream), 0),
          ![listener].queue = Append(@, far),
          ![i].state = "Connected", ![i].address = Unbound,
          ![i].ends = Ends(Down, Up, local, wanted, DownStream, UpStream)]
     /\ TwoRings(2) /\ TwoStreams(0, 0)
     /\ skewed' = IF Cardinality(Descriptors(i)) > 1
                  THEN skewed \cup {UpStream, DownStream} ELSE skewed
     /\ UNCHANGED <<files, nodes, next, accepting, net, batch, adrift, menu>>

ConnectInet(p, fd, port) == Call("connect") /\ ConnectTo(p, fd, Inet(Loopback, port))

\* The path is resolved in the caller's own layer.
ConnectUnix(p, fd, path) ==
  /\ Call("connectunix")
  /\ \E node \in DOMAIN nodes[p] :
       nodes[p][node] = path /\ ConnectTo(p, fd, Unix(node, <<path>>))

---------------------------------------------------------------------------
(* accept.                                                                 *)

\* The connection is dropped after it left the queue: its socket goes, and
\* the ends of its rings do not.
DropAccepted(listener, i) ==
  /\ sockets' = [sockets EXCEPT ![listener].queue = Tail(@), ![i] = NoSocket]
  /\ rings' = [s \in Slots |-> Detached(rings[s], NamedBy({i}, s))]
  /\ skewed' = skewed \cup StreamsOf({i})
  /\ UNCHANGED files

GiveAccepted(p, listener, i, cloexec) ==
  /\ sockets' = [sockets EXCEPT ![listener].queue = Tail(@)]
  /\ files' = [files EXCEPT ![p][Least(Free(files[p]))] = [socket |-> i, cloexec |-> cloexec]]
  /\ UNCHANGED <<rings, skewed>>

\* complete_accept, with the peer's address somewhere it cannot be written
\* when `fault`.
CompleteAccept(p, listener, cloexec, fault) ==
  LET i == Head(sockets[listener].queue)
  IN /\ Is(listener, "Listening") /\ sockets[listener].queue # <<>>
     /\ IF fault \/ Free(files[p]) = {}
        THEN DropAccepted(listener, i)
        ELSE GiveAccepted(p, listener, i, cloexec)

Accept(p, fd, cloexec, fault) ==
  /\ Call("accept") /\ Names(p, fd, "Listening")
  /\ fault => "fault" \in menu.calls
  /\ CompleteAccept(p, SocketAt(p, fd), cloexec, fault)
  /\ UNCHANGED <<nodes, next, accepting, net, batch, streams, carries, adrift, menu>>

\* It holds the listener's index, and no reference.
ParkOnAccept(p, fd) ==
  /\ Call("accept") /\ Names(p, fd, "Listening")
  /\ accepting[p] = NoSocket
  /\ sockets[SocketAt(p, fd)].queue = <<>>
  /\ accepting' = [accepting EXCEPT ![p] = SocketAt(p, fd)]
  /\ UNCHANGED <<rings, sockets, files, nodes, next, net, batch, history, menu>>

ResumeAccept(p, fault) ==
  /\ batch = <<>>
  /\ accepting[p] # NoSocket
  /\ fault => "fault" \in menu.calls
  /\ CompleteAccept(p, accepting[p], FALSE, fault)
  /\ accepting' = [accepting EXCEPT ![p] = NoSocket]
  /\ UNCHANGED <<nodes, next, net, batch, streams, carries, adrift, menu>>

---------------------------------------------------------------------------
(* Bytes.                                                                  *)

Numbers(from, n) == [k \in 1..n |-> from + k]

Send(p, fd, length) ==
  /\ Call("send") /\ Names(p, fd, "Connected")
  /\ LET e == sockets[SocketAt(p, fd)].ends
         r == rings[e.transmit]
         n == Accepted(r, length)
     IN /\ ~e.writeShut /\ r.readers > 0 /\ n > 0
        /\ streams[e.says].sent + n <= menu.bytes
        /\ rings' = [rings EXCEPT ![e.transmit] =
                       AfterGive(r, Numbers(streams[e.says].sent, n))]
        /\ streams' = [streams EXCEPT ![e.says].sent = @ + n]
  /\ UNCHANGED <<sockets, files, nodes, next, accepting, net, batch, carries, skewed,
                 adrift, menu>>

Receive(p, fd, length) ==
  /\ Call("receive") /\ Names(p, fd, "Connected")
  /\ LET e == sockets[SocketAt(p, fd)].ends
         r == rings[e.receive]
     IN /\ ~e.readShut /\ Queued(r) > 0
        /\ rings' = [rings EXCEPT ![e.receive] = AfterTake(r, length)]
        /\ streams' = [streams EXCEPT ![e.hears].got = @ + Len(Taken(r, length))]
  /\ UNCHANGED <<sockets, files, nodes, next, accepting, net, batch, carries, skewed,
                 adrift, menu>>

(***************************************************************************)
(* shutdown: each direction given up is one end released, once, however    *)
(* many descriptors hold it.  The write half of an edge is ended at the    *)
(* host before the ring is touched.                                        *)
(***************************************************************************)
Shutdown(p, fd, directions) ==
  /\ Call("shutdown") /\ Names(p, fd, "Connected")
  /\ LET i     == SocketAt(p, fd)
         e     == sockets[i].ends
         read  == "Read" \in directions /\ ~e.readShut
         write == "Write" \in directions /\ ~e.writeShut
         given(s) == [d \in End |-> IF \/ d = "Read" /\ read /\ s = e.receive
                                       \/ d = "Write" /\ write /\ s = e.transmit
                                    THEN 1 ELSE 0]
         none == [d \in End |-> 0]
     IN /\ read \/ write
        /\ sockets' = [sockets EXCEPT ![i].ends.readShut = @ \/ read,
                                      ![i].ends.writeShut = @ \/ write]
        /\ EndEdges(IF write /\ sockets[i].edge # 0 THEN {i} ELSE {}, "shutdown",
                    [s \in Slots |-> Reconciled(rings[s], given(s), none)])
        /\ skewed' = IF Cardinality(Descriptors(i)) > 1
                     THEN skewed \cup (IF read THEN {e.hears} ELSE {})
                                 \cup (IF write THEN {e.says} ELSE {})
                     ELSE skewed
  /\ UNCHANGED <<files, nodes, next, accepting, batch, carries, adrift, menu>>

---------------------------------------------------------------------------
(* Descriptors and processes.                                              *)

Dup(p, fd) ==
  /\ Call("dup") /\ fd \in Open(files[p]) /\ Free(files[p]) # {}
  /\ SetTable(p, [files[p] EXCEPT ![Least(Free(files[p]))] =
                    [files[p][fd] EXCEPT !.cloexec = FALSE]])
  /\ UNCHANGED <<nodes, next, accepting>>

Dup2(p, fd, new) ==
  /\ Call("dup2") /\ fd \in Open(files[p]) /\ new \in menu.fds \ {fd}
  /\ SetTable(p, [files[p] EXCEPT ![new] = [files[p][fd] EXCEPT !.cloexec = FALSE]])
  /\ UNCHANGED <<nodes, next, accepting>>

Close(p, fd) ==
  /\ Call("close") /\ fd \in Open(files[p])
  /\ SetTable(p, [files[p] EXCEPT ![fd] = NoFile])
  /\ UNCHANGED <<nodes, next, accepting>>

\* The copied table's references are raised, and the layer is copied too.
Fork(p) ==
  /\ Call("fork") /\ Alive(p) /\ next \in Procs
  /\ next' = next + 1
  /\ nodes' = [nodes EXCEPT ![next] = nodes[p]]
  /\ SetTable(next, files[p])
  /\ UNCHANGED accepting

\* A process that ends lets go of everything.
Exit(p) ==
  /\ Call("exit") /\ Open(files[p]) # {}
  /\ SetTable(p, NoFiles)
  /\ accepting' = [accepting EXCEPT ![p] = NoSocket]
  /\ UNCHANGED <<nodes, next>>

\* execed lets go of the pipes of marked descriptors and of no socket.
Execve(p) ==
  LET marked == {fd \in Open(files[p]) : files[p][fd].cloexec}
      held   == {SocketAt(p, fd) : fd \in marked}
  IN /\ Call("execve") /\ marked # {}
     /\ files' = [files EXCEPT ![p] = [fd \in Fds |-> IF fd \in marked THEN NoFile ELSE @[fd]]]
     /\ adrift' = adrift \cup held
     /\ skewed' = skewed \cup StreamsOf(held)
     /\ accepting' = [accepting EXCEPT ![p] = NoSocket]
     /\ UNCHANGED <<rings, sockets, nodes, next, net, batch, streams, carries, menu>>

---------------------------------------------------------------------------
(* The pump.                                                               *)

Edges == {i \in Connected : sockets[i].edge # 0}
Sending == {i \in Edges : rings[sockets[i].ends.transmit].bytes # <<>>}

\* flush_edges: what the guest has written and the host has not been given.
FlushEdges ==
  /\ rings' = [s \in Slots |-> IF s \in Flushed(Sending) THEN Emptied(rings[s]) ELSE rings[s]]
  /\ streams' = [k \in DOMAIN streams |->
                   IF \E i \in Sending : sockets[i].ends.says = k
                   THEN [streams[k] EXCEPT !.got = streams[k].sent] ELSE streams[k]]
  /\ UNCHANGED <<sockets, files, nodes, next, accepting, carries, skewed, adrift, menu>>

Flush == batch = <<>> /\ Sending # {} /\ FlushEdges /\ UNCHANGED <<net, batch>>

Pump ==
  /\ batch = <<>> /\ net.events # <<>>
  /\ FlushEdges
  /\ batch' = net.events
  /\ net' = [net EXCEPT !.events = <<>>]

SocketForEdge(c) == {i \in Edges : sockets[i].edge = c}

\* Mutant: takes all the host has and gives what fits.
DrainEdgeWhole(c) ==
  LET r == IF SocketForEdge(c) = {} THEN FreeRing
           ELSE rings[sockets[Least(SocketForEdge(c))].ends.receive]
  IN  IF SocketForEdge(c) = {} \/ Room(r) = 0
      THEN [ring |-> r, net |-> net]
      ELSE [ring |-> AfterGive(r, Rx(net, c, Room(r))), net |-> AfterRx(net, c, Capacity + 9)]

\* What the host has, up to the room: the ring and the host afterwards.
DrainEdge(c) ==
  LET r == IF SocketForEdge(c) = {} THEN FreeRing
           ELSE rings[sockets[Least(SocketForEdge(c))].ends.receive]
  IN  IF SocketForEdge(c) = {} \/ Room(r) = 0
      THEN [ring |-> r, net |-> net]
      ELSE [ring |-> AfterGive(r, Rx(net, c, Room(r))), net |-> AfterRx(net, c, Room(r))]

NextEvent == batch' = Tail(batch)

\* accept_edge: with nobody listening nothing is made, and with no room in
\* the queue what was made stays.  The host is told of neither.
AcceptEdge ==
  LET event    == Head(batch)
      wanted   == Inet(Loopback, event.port)
      listener == Least(ListenersFor(wanted))
      made     == Least(FreeIds)
      far      == Far(Ends(Down, Up, wanted, Unbound, DownStream, UpStream), event.conn)
  IN /\ batch # <<>> /\ event.kind = "open"
     /\ NextEvent
     /\ IF ListenersFor(wanted) = {}
        THEN UNCHANGED <<rings, sockets, history>>
        ELSE /\ FreeIds # {} /\ CanConnect
             /\ TwoRings(1)
             /\ TwoStreams(event.conn, event.conn)
             /\ IF Enqueues(listener)
                THEN /\ sockets' = [sockets EXCEPT ![made] = far,
                                                   ![listener].queue = Append(@, made)]
                     /\ UNCHANGED <<skewed, adrift>>
                ELSE /\ sockets' = [sockets EXCEPT ![made] = far]
                     /\ skewed' = skewed \cup {UpStream, DownStream}
                     /\ adrift' = adrift \cup {made}
     /\ UNCHANGED <<files, nodes, next, accepting, net, menu>>

Data ==
  LET event == Head(batch)
      after == DrainEdge(event.conn)
  IN /\ batch # <<>> /\ event.kind = "data"
     /\ NextEvent
     /\ rings' = IF SocketForEdge(event.conn) = {} THEN rings
                 ELSE [rings EXCEPT ![sockets[Least(SocketForEdge(event.conn))].ends.receive] =
                         after.ring]
     /\ net' = after.net
     /\ UNCHANGED <<sockets, files, nodes, next, accepting, history, menu>>

\* The write end goes whether or not everything there was fitted.
Eof ==
  LET event == Head(batch)
      after == DrainEdge(event.conn)
  IN /\ batch # <<>> /\ event.kind = "eof"
     /\ NextEvent
     /\ net' = after.net
     /\ IF SocketForEdge(event.conn) = {}
        THEN UNCHANGED <<rings, streams>>
        ELSE LET e == sockets[Least(SocketForEdge(event.conn))].ends
             IN /\ rings' = [rings EXCEPT ![e.receive] =
                     FreeIfUnused([after.ring EXCEPT !.writers = SaturatingSub(@, 1)])]
                /\ streams' = [streams EXCEPT ![e.hears].writes = 0]
     /\ UNCHANGED <<sockets, files, nodes, next, accepting, carries, skewed, adrift, menu>>

---------------------------------------------------------------------------
(* The host's threads.                                                     *)

HostStep == UNCHANGED <<rings, sockets, files, nodes, next, accepting, batch, carries,
                        skewed, adrift, menu>>

PeerConnects(port) ==
  /\ port \in net.listening /\ Len(net.connections) < menu.peers
  /\ net' = HostAccepts(net, port)
  /\ HostStep /\ UNCHANGED streams

PeerSends(c, length) ==
  /\ net.connections[c].reading
  /\ net.connections[c].sent + length <= menu.bytes
  /\ net' = Arrived(net, c, Numbers(net.connections[c].sent, length))
  /\ HostStep /\ UNCHANGED streams

\* The peer is done sending, or the guest's close has ended the reader.
PeerFinishes(c) ==
  /\ net.connections[c].reading
  /\ net' = Ended(net, c)
  /\ HostStep /\ UNCHANGED streams

---------------------------------------------------------------------------
Init ==
  /\ rings = [s \in Slots |-> FreeRing]
  /\ sockets = [i \in Ids |-> NoSocket]
  /\ files = [p \in Procs |-> NoFiles]
  /\ nodes = [p \in Procs |-> <<>>]
  /\ next = 2
  /\ accepting = [p \in Procs |-> NoSocket]
  /\ net = NewNet /\ batch = <<>>
  /\ streams = <<>> /\ carries = [s \in Slots |-> 0]
  /\ skewed = {} /\ adrift = {}
  /\ menu \in Menus

Opens ==
  \E p \in Procs, cloexec \in BOOLEAN :
    /\ cloexec => "execve" \in menu.calls
    /\ \/ MakeSocket(p, cloexec)
       \/ \E fd \in Fds, fault \in BOOLEAN : Accept(p, fd, cloexec, fault)

Rows ==
  \E p \in Procs :
    \/ MakeSocketpair(p)
    \/ \E fd \in Fds :
         \/ \E host \in {Wildcard, Loopback}, port \in Ports \cup {0} : BindInet(p, fd, host, port)
         \/ \E path \in Paths : BindUnix(p, fd, path) \/ ConnectUnix(p, fd, path)
         \/ \E backlog \in menu.backlogs : Listen(p, fd, backlog)
         \/ \E port \in Ports \cup Ephemeral : ConnectInet(p, fd, port)
         \/ ParkOnAccept(p, fd)
         \/ \E length \in Lengths : Send(p, fd, length) \/ Receive(p, fd, length)
         \/ \E directions \in SUBSET End \ {{}} : Shutdown(p, fd, directions)
         \/ Dup(p, fd) \/ Close(p, fd)
         \/ \E new \in Fds : Dup2(p, fd, new)
    \/ \E fault \in BOOLEAN : ResumeAccept(p, fault)
    \/ Fork(p) \/ Exit(p) \/ Execve(p)

Host ==
  \/ \E port \in Mapped : PeerConnects(port)
  \/ \E c \in DOMAIN net.connections :
       PeerFinishes(c) \/ \E length \in Lengths : PeerSends(c, length)

Next == Opens \/ Rows \/ Flush \/ Pump \/ AcceptEdge \/ Data \/ Eof \/ Host

Spec == Init /\ [][Next]_vars

---------------------------------------------------------------------------
(* Properties.                                                             *)

InQueues == UNION {Range(sockets[i].queue) : i \in Listening}
Holders(i) == Cardinality(Descriptors(i)) + (IF i \in InQueues THEN 1 ELSE 0)
HeldBy(S) == Cardinality(UNION {Descriptors(i) : i \in S}) + Cardinality(S \cap InQueues)

Readers(s) ==
  HeldBy({i \in Connected : sockets[i].ends.receive = s /\ ~sockets[i].ends.readShut})
    + (IF streams[carries[s]].reads # 0 THEN 1 ELSE 0)
Writers(s) ==
  HeldBy({i \in Connected : sockets[i].ends.transmit = s /\ ~sockets[i].ends.writeShut})
    + (IF streams[carries[s]].writes # 0 THEN 1 ELSE 0)

(* Every count is what the tables say it is: a socket's references are its *)
(* descriptors in all processes and its place in a queue, a ring's ends    *)
(* are those of the sockets that can still move bytes through it and the   *)
(* host's, and a ring stays while a socket names it.  A count too low is   *)
(* an end of file or an EPIPE while the peer is still there; one too high  *)
(* is a reader that waits for ever.  Only the steps that README.md lists   *)
(* leave a count wrong.                                                    *)
EndsAgree ==
  /\ \A i \in Live \ adrift : sockets[i].references = Holders(i)
  /\ \A s \in Slots :
       /\ rings[s].attached = NamedBy(Connected, s)
       /\ carries[s] \notin skewed \cup {0} =>
            rings[s].readers = Readers(s) /\ rings[s].writers = Writers(s)

(* A connection's rings are its own, whatever was closed, shut down, forked *)
(* or reused before, and the bytes of each direction come out once, in the *)
(* order they went in: what was taken, then what the ring holds, then what *)
(* waits at the host, is all that was sent.                                *)
StreamsStayWhole ==
  \A i \in Connected :
    LET e == sockets[i].ends
        heard == streams[e.hears]
        said  == streams[e.says]
        host  == net.connections[sockets[i].edge]
    IN /\ carries[e.receive] = e.hears /\ carries[e.transmit] = e.says
       /\ IF sockets[i].edge = 0
          THEN rings[e.receive].bytes = Numbers(heard.got, heard.sent - heard.got)
          ELSE rings[e.receive].bytes \o host.incoming
                 = Numbers(heard.got, host.sent - heard.got)
       /\ rings[e.transmit].bytes = Numbers(said.got, said.sent - said.got)

(* Once the guest has closed or half-closed a connection of the host, the  *)
(* peer has been sent everything the guest wrote before (end_edge flushes, *)
(* and is called before the rings go).                                     *)
RepliesArrive ==
  \A k \in DOMAIN streams :
    streams[k].reads # 0 /\ net.connections[streams[k].reads].shut =>
      streams[k].got = streams[k].sent

(* A peer that has gone does not come back: an endpoint that saw the last  *)
(* writer or the last reader at the other end go never sees one again,     *)
(* which is what Ring::attached is for.                                    *)
HangupIsFinal ==
  [][\A i \in Connected :
       LET e == sockets[i].ends
       IN  (sockets'[i] # NoSocket /\ sockets'[i].ends.hears = e.hears) =>
             /\ rings[e.receive].writers = 0 /\ e.hears \notin skewed =>
                  rings'[e.receive].writers = 0
             /\ rings[e.transmit].readers = 0 /\ e.says \notin skewed =>
                  rings'[e.transmit].readers = 0]_vars

(* The comment at socket.rs:1839: what is left is taken before the writing *)
(* end goes, so the guest reads it all and then zero.                      *)
EndOfFileIsTheEnd ==
  \A i \in Edges :
    rings[sockets[i].ends.receive].writers = 0 =>
      net.connections[sockets[i].edge].incoming = <<>>
=============================================================================
