---------------------------- MODULE StreamsProofs ---------------------------
(***************************************************************************)
(* The bytes of the sockets, for every number of processes, descriptors,   *)
(* sockets and rings, any lengths and any peer.                            *)
(*                                                                         *)
(* Over the counts of SocketsProofs stands Flow: what a connection's ring  *)
(* holds, with what waits at the host, is one run of the numbered bytes    *)
(* that were sent and not yet taken.  A shape moves one end of one run     *)
(* (Puts, Takes), carries bytes over the edge (Draining), or ends          *)
(* connections of the host that were emptied into it first (Ending).       *)
(***************************************************************************)
EXTENDS SocketsProofs

---------------------------------------------------------------------------
(* The runs.                                                               *)

\* The bytes b of a stream: after got taken, all the rest of what was sent.
Run(b, got, sent) == got <= sent /\ b = Numbers(got, sent - got)

\* Where everything was taken nothing is left.
LEMMA RunEmpty ==
  ASSUME NEW n \in Nat
  PROVE  Run(<<>>, n, n)
<1>1. PICK z : z = Numbers(n, 0)
  OBVIOUS
<1>2. z \in Seq(Nat) /\ Len(z) = 0
  BY <1>1, NumbersIs
<1>3. z = <<>>
  BY <1>2, EmptySeq
<1>4. n - n = 0 /\ n <= n
  OBVIOUS
<1> QED BY <1>1, <1>3, <1>4 DEF Run

\* A run that grows at its end is a run.
LEMMA RunGrows ==
  ASSUME NEW b, NEW got \in Nat, NEW sent \in Nat, NEW n \in Nat, Run(b, got, sent)
  PROVE  Run(b \o Numbers(sent, n), got, sent + n)
<1>1. PICK m : m = sent - got
  OBVIOUS
<1>2. m \in Nat /\ got + m = sent /\ sent + n - got = m + n
  BY <1>1 DEF Run
<1>3. b = Numbers(got, m)
  BY <1>1 DEF Run
<1>4. Numbers(got, m) \o Numbers(got + m, n) = Numbers(got, m + n)
  BY <1>2, NumbersJoin
<1>5. b \o Numbers(sent, n) = Numbers(got, m + n)
  BY <1>2, <1>3, <1>4
<1>6. Numbers(got, m + n) = Numbers(got, sent + n - got)
  BY <1>2
<1>7. got <= sent + n
  BY DEF Run
<1> QED BY <1>5, <1>6, <1>7 DEF Run

\* A run that loses its front is a run.
LEMMA RunShrinks ==
  ASSUME NEW x \in Seq(Nat), NEW y \in Seq(Nat), NEW got \in Nat, NEW sent \in Nat,
         Run(x \o y, got, sent)
  PROVE  Run(y, got + Len(x), sent)
<1>1. PICK m : m = sent - got
  OBVIOUS
<1>2. PICK w : w = x \o y
  OBVIOUS
<1>3. m \in Nat /\ w = Numbers(got, m)
  BY <1>1, <1>2 DEF Run
<1>4. Len(w) = m /\ \A k \in 1..m : w[k] = got + k
  BY <1>3, NumbersIs
<1>5. PICK a, b : a = Len(x) /\ b = Len(y)
  OBVIOUS
<1>6. a \in Nat /\ b \in Nat
  BY <1>5
<1>7. Len(w) = a + b /\ \A k \in 1..(a + b) : w[k] = IF k <= a THEN x[k] ELSE y[k - a]
  BY <1>2, <1>5, ConcatProperties
<1>8. m = a + b /\ sent - (got + a) = b /\ got + a <= sent /\ got + a \in Nat
  BY <1>1, <1>3, <1>4, <1>6, <1>7
<1>9. PICK z : z = Numbers(got + a, b)
  OBVIOUS
<1>10. z \in Seq(Nat) /\ Len(z) = b /\ \A k \in 1..b : z[k] = got + a + k
  BY <1>6, <1>8, <1>9, NumbersIs
<1>11. ASSUME NEW k \in 1..b PROVE y[k] = z[k]
  <2>1. PICK j : j = a + k
    OBVIOUS
  <2>2. j \in 1..m /\ j \in 1..(a + b) /\ ~(j <= a) /\ j - a = k /\ got + j = got + a + k
    BY <1>6, <1>8, <2>1
  <2>3. w[j] = got + j
    BY <1>4, <2>2
  <2>4. w[j] = y[j - a]
    BY <1>7, <2>2
  <2> QED BY <1>10, <2>2, <2>3, <2>4
<1>12. y = z
  BY <1>5, <1>10, <1>11, SeqEqual
<1>13. got + Len(x) = got + a
  BY <1>5
<1> QED BY <1>8, <1>9, <1>12, <1>13 DEF Run

\* What a connection's rings hold, with what waits at the host, is a run.
SaidWhole(k, r, str, i) ==
  Run(r[k[i].ends.transmit].bytes, str[k[i].ends.says].got, str[k[i].ends.says].sent)
HeardHere(k, r, str, i) ==
  Run(r[k[i].ends.receive].bytes, str[k[i].ends.hears].got, str[k[i].ends.hears].sent)
HeardThere(k, r, str, con, i) ==
  Run(r[k[i].ends.receive].bytes \o con[k[i].edge].incoming,
      str[k[i].ends.hears].got, con[k[i].edge].sent)

\* So for every connection; and what the host was told the end of, it has.
WholeAre(k, r, str, con) ==
  \A i \in JoinedIn(k) :
    /\ SaidWhole(k, r, str, i)
    /\ k[i].edge = 0 => HeardHere(k, r, str, i)
    /\ k[i].edge # 0 => HeardThere(k, r, str, con, i)

RepliedAre(str, con) ==
  \A a \in DOMAIN str : str[a].reads # 0 /\ con[str[a].reads].shut => str[a].got = str[a].sent

\* The invariant of the streams.
Flow == WholeAre(sockets, rings, streams, net.connections) /\ RepliedAre(streams, net.connections)

\* What two connections share.
Apart(i, j) ==
  LET e == sockets[i].ends
      g == sockets[j].ends
  IN /\ e.transmit = g.transmit \/ e.says = g.says => i = j
     /\ e.receive = g.receive \/ e.hears = g.hears => i = j
     /\ e.transmit = g.receive \/ e.says = g.hears => sockets[i].edge = 0 /\ sockets[j].edge = 0
     /\ sockets[i].edge = sockets[j].edge /\ sockets[i].edge # 0 => i = j

\* Two connections share no ring and no stream but as the two ends of one.
LEMMA ApartIs ==
  ASSUME Core, NEW i \in JoinedIn(sockets), NEW j \in JoinedIn(sockets)
  PROVE  Apart(i, j)
<1>1. CarriedAre(sockets, carries, streams) /\ EventsAre(sockets, streams, Pending, net.connections)
  BY CoreParts
<1>2. PICK e, g : e = sockets[i].ends /\ g = sockets[j].ends
  OBVIOUS
<1>3. /\ carries[e.transmit] = e.says /\ carries[e.receive] = e.hears
      /\ carries[g.transmit] = g.says /\ carries[g.receive] = g.hears
  BY <1>1, <1>2 DEF CarriedAre
<1>4. /\ g.hears = e.hears => i = j
      /\ g.says = e.says => i = j
      /\ sockets[i].edge # 0 => g.hears # e.says
      /\ sockets[j].edge # 0 => e.says # g.hears
  BY <1>1, <1>2 DEF CarriedAre
<1>5. i \in LiveIn(sockets) /\ j \in LiveIn(sockets)
  BY DEF JoinedIn, LiveIn
<1>6. sockets[i].edge = sockets[j].edge /\ sockets[i].edge # 0 => i = j
  BY <1>1, <1>5 DEF EventsAre
<1> QED BY <1>2, <1>3, <1>4, <1>6 DEF Apart

\* The ring and the stream of an end are each other's.
LEMMA StreamPlace ==
  ASSUME Core, NEW i \in JoinedIn(sockets), NEW s \in Slots, carries[s] # 0
  PROVE  /\ sockets[i].ends.transmit = s <=> sockets[i].ends.says = carries[s]
         /\ sockets[i].ends.receive = s <=> sockets[i].ends.hears = carries[s]
<1>1. CarriedAre(sockets, carries, streams)
  BY CoreParts
<1>2. PICK e : e = sockets[i].ends
  OBVIOUS
<1>3. /\ carries[e.transmit] = e.says /\ carries[e.receive] = e.hears
      /\ e.transmit \in Slots /\ e.receive \in Slots
  BY <1>1, <1>2 DEF CarriedAre
<1>4. \A t \in Slots : carries[t] = carries[s] => t = s
  BY <1>1 DEF CarriedAre
<1> QED BY <1>2, <1>3, <1>4

\* Only ring s and its stream k move: s as its sockets may, k at the host too.
OneMoves(s, k) ==
  /\ s \in Slots /\ k = carries[s] /\ k # 0
  /\ \A t \in Slots : t # s => rings'[t].bytes = rings[t].bytes
  /\ \A a \in 1..Len(streams) : a # k => /\ streams'[a].got = streams[a].got
                                         /\ streams'[a].sent = streams[a].sent

MovesHere(s, k) ==
  ((\E j \in JoinedIn(sockets) : \/ sockets[j].ends.says = k
                                 \/ sockets[j].ends.hears = k /\ sockets[j].edge = 0)
    /\ Run(rings[s].bytes, streams[k].got, streams[k].sent))
  => Run(rings'[s].bytes, streams'[k].got, streams'[k].sent)

MovesThere(k) ==
  \A j \in JoinedIn(sockets) : sockets[j].edge # 0 =>
    IF sockets[j].ends.hears = k
    THEN HeardThere(sockets, rings, streams, net.connections, j)
           => HeardThere(sockets, rings', streams', net'.connections, j)
    ELSE /\ net'.connections[sockets[j].edge].incoming = net.connections[sockets[j].edge].incoming
         /\ net'.connections[sockets[j].edge].sent = net.connections[sockets[j].edge].sent

\* Where one ring and its stream move, every stream stays whole.
LEMMA OneMovesWhole ==
  ASSUME Core, WholeAre(sockets, rings, streams, net.connections), JoinedStay,
         NEW s, NEW k, OneMoves(s, k), MovesHere(s, k), MovesThere(k)
  PROVE  WholeAre(sockets', rings', streams', net'.connections)
<1> SUFFICES ASSUME NEW i \in JoinedIn(sockets')
             PROVE  /\ SaidWhole(sockets', rings', streams', i)
                    /\ sockets'[i].edge = 0 => HeardHere(sockets', rings', streams', i)
                    /\ sockets'[i].edge # 0 =>
                         HeardThere(sockets', rings', streams', net'.connections, i)
  BY DEF WholeAre
<1>1. /\ i \in JoinedIn(sockets) /\ sockets'[i].ends = sockets[i].ends
      /\ sockets'[i].edge = sockets[i].edge
  BY DEF JoinedStay
<1>2. PICK e : e = sockets[i].ends
  OBVIOUS
<1>3. /\ e.receive \in Slots /\ e.transmit \in Slots
      /\ e.hears \in 1..Len(streams) /\ e.says \in 1..Len(streams)
  BY <1>1, <1>2, EndIs
<1>4. s \in Slots /\ carries[s] # 0 /\ k = carries[s]
  BY DEF OneMoves
<1>5. (e.transmit = s <=> e.says = k) /\ (e.receive = s <=> e.hears = k)
  BY <1>1, <1>2, <1>4, StreamPlace
<1>6. /\ SaidWhole(sockets, rings, streams, i)
      /\ sockets[i].edge = 0 => HeardHere(sockets, rings, streams, i)
      /\ sockets[i].edge # 0 => HeardThere(sockets, rings, streams, net.connections, i)
  BY <1>1 DEF WholeAre
<1>7. SaidWhole(sockets', rings', streams', i)
  <2>1. CASE e.says = k
    <3>1. Run(rings[s].bytes, streams[k].got, streams[k].sent)
      BY <1>2, <1>5, <1>6, <2>1 DEF SaidWhole
    <3>2. Run(rings'[s].bytes, streams'[k].got, streams'[k].sent)
      BY <1>1, <1>2, <2>1, <3>1 DEF MovesHere
    <3> QED BY <1>1, <1>2, <1>5, <2>1, <3>2 DEF SaidWhole
  <2>2. CASE e.says # k
    <3>1. /\ rings'[e.transmit].bytes = rings[e.transmit].bytes
          /\ streams'[e.says].got = streams[e.says].got
          /\ streams'[e.says].sent = streams[e.says].sent
      BY <1>3, <1>5, <2>2 DEF OneMoves
    <3> QED BY <1>1, <1>2, <1>6, <3>1 DEF SaidWhole
  <2> QED BY <2>1, <2>2
<1>8. ASSUME sockets'[i].edge = 0 PROVE HeardHere(sockets', rings', streams', i)
  <2>1. CASE e.hears = k
    <3>1. Run(rings[s].bytes, streams[k].got, streams[k].sent)
      BY <1>1, <1>2, <1>5, <1>6, <1>8, <2>1 DEF HeardHere
    <3>2. Run(rings'[s].bytes, streams'[k].got, streams'[k].sent)
      BY <1>1, <1>2, <1>8, <2>1, <3>1 DEF MovesHere
    <3> QED BY <1>1, <1>2, <1>5, <2>1, <3>2 DEF HeardHere
  <2>2. CASE e.hears # k
    <3>1. /\ rings'[e.receive].bytes = rings[e.receive].bytes
          /\ streams'[e.hears].got = streams[e.hears].got
          /\ streams'[e.hears].sent = streams[e.hears].sent
      BY <1>3, <1>5, <2>2 DEF OneMoves
    <3> QED BY <1>1, <1>2, <1>6, <1>8, <3>1 DEF HeardHere
  <2> QED BY <2>1, <2>2
<1>9. ASSUME sockets'[i].edge # 0 PROVE HeardThere(sockets', rings', streams', net'.connections, i)
  <2>1. HeardThere(sockets, rings', streams', net'.connections, i)
    <3>1. CASE e.hears = k
      BY <1>1, <1>2, <1>6, <1>9, <3>1 DEF MovesThere
    <3>2. CASE e.hears # k
      <4>1. /\ rings'[e.receive].bytes = rings[e.receive].bytes
            /\ streams'[e.hears].got = streams[e.hears].got
        BY <1>3, <1>5, <3>2 DEF OneMoves
      <4>2. PICK c : c = sockets[i].edge
        OBVIOUS
      <4>3. /\ net'.connections[c].incoming = net.connections[c].incoming
            /\ net'.connections[c].sent = net.connections[c].sent
        BY <1>1, <1>2, <1>9, <3>2, <4>2 DEF MovesThere
      <4>4. HeardThere(sockets, rings, streams, net.connections, i)
        BY <1>1, <1>6, <1>9
      <4> QED BY <1>2, <4>1, <4>2, <4>3, <4>4 DEF HeardThere
    <3> QED BY <3>1, <3>2
  <2> QED BY <1>1, <2>1 DEF HeardThere
<1> QED BY <1>7, <1>8, <1>9

\* What was sent in full stays so, where nobody is newly told of an end.
LEMMA RepliesStay ==
  ASSUME RepliedAre(streams, net.connections), StreamsAre(streams), StreamsAre(streams'),
         Len(streams') = Len(streams),
         \A a \in 1..Len(streams) :
           /\ streams'[a].reads = streams[a].reads
           /\ streams[a].reads # 0 /\ net'.connections[streams[a].reads].shut =>
                \/ streams'[a].got = streams'[a].sent
                \/ /\ net.connections[streams[a].reads].shut
                   /\ streams'[a].got = streams[a].got /\ streams'[a].sent = streams[a].sent
  PROVE  RepliedAre(streams', net'.connections)
<1>1. DOMAIN streams' = 1..Len(streams) /\ DOMAIN streams = 1..Len(streams)
  BY DEF StreamsAre
<1> QED BY <1>1 DEF RepliedAre

\* The parts of the next state's invariant that the streams rest on.
LEMMA CoreStreams ==
  ASSUME Core'
  PROVE  /\ StreamsAre(streams') /\ RingsAre(rings') /\ NetIs(net') /\ SocketsAre(sockets')
         /\ AttachedAre(sockets', rings') /\ CarriedAre(sockets', carries', streams')
BY DEF Core, TypesAre, Agree

\* What a stream counts.
LEMMA StreamNumbers ==
  ASSUME Core, NEW k \in 1..Len(streams)
  PROVE  streams[k].got \in Nat /\ streams[k].sent \in Nat
<1>1. streams[k] \in Streams
  BY CoreParts DEF StreamsAre
<1> QED BY <1>1 DEF Streams

\* A sender that is still open has not been ended at the host.
LEMMA OpenUnshut ==
  ASSUME Core, NEW i \in JoinedIn(sockets), ~sockets[i].ends.writeShut
  PROVE  LET a == sockets[i].ends.says
         IN  streams[a].reads = 0 \/ ~net.connections[streams[a].reads].shut
<1>1. CarriedAre(sockets, carries, streams) /\ EventsAre(sockets, streams, Pending, net.connections)
  BY CoreParts
<1>2. streams[sockets[i].ends.says].reads = sockets[i].edge
  BY <1>1 DEF CarriedAre
<1>3. i \in LiveIn(sockets)
  BY DEF JoinedIn, LiveIn
<1>4. sockets[i].edge # 0 => ~net.connections[sockets[i].edge].shut
  BY <1>1, <1>3 DEF EventsAre
<1> QED BY <1>2, <1>4

\* A connection that has a host's side names it.
LEMMA EdgeIsConnection ==
  ASSUME Core, NEW i \in JoinedIn(sockets), sockets[i].edge # 0
  PROVE  sockets[i].edge \in 1..Len(net.connections) /\ net.connections \in Seq(Connections)
<1>1. NetIs(net) /\ EventsAre(sockets, streams, Pending, net.connections) /\ Len(net.connections) \in Nat
  BY CoreParts
<1>2. i \in LiveIn(sockets)
  BY DEF JoinedIn, LiveIn
<1>3. sockets[i].edge \in 0..Len(net.connections)
  BY <1>1, <1>2 DEF EventsAre
<1>4. net.connections \in Seq(Connections)
  BY <1>1, ConnectionsAre
<1> QED BY <1>1, <1>3, <1>4

\* Bytes put at the end of a ring are the next of its stream.
LEMMA PutsFlow ==
  ASSUME Core, Core', Flow, Puts
  PROVE  Flow'
<1>1. PICK i \in JoinedIn(sockets), n \in Nat :
    LET e == sockets[i].ends IN
    /\ ~e.writeShut /\ sockets' = sockets /\ net' = net
    /\ rings'[e.transmit].bytes = rings[e.transmit].bytes \o Numbers(streams[e.says].sent, n)
    /\ \A t \in Slots : t # e.transmit => rings'[t] = rings[t]
    /\ Len(streams') = Len(streams) /\ StreamsKept(streams, streams')
    /\ \A a \in 1..Len(streams) : a # e.says => streams'[a] = streams[a]
    /\ streams'[e.says].got = streams[e.says].got
    /\ streams'[e.says].sent = streams[e.says].sent + n
  BY DEF Puts
<1>2. PICK e : e = sockets[i].ends
  OBVIOUS
<1>3. PICK s, k : s = e.transmit /\ k = e.says
  OBVIOUS
<1>4. s \in Slots /\ k \in 1..Len(streams)
  BY <1>2, <1>3, EndIs
<1>5. k = carries[s] /\ k # 0
  BY <1>2, <1>3, <1>4, CoreParts DEF CarriedAre
<1>6. streams[k].got \in Nat /\ streams[k].sent \in Nat
  BY <1>4, StreamNumbers
<1>7. OneMoves(s, k)
  BY <1>1, <1>2, <1>3, <1>4, <1>5 DEF OneMoves
<1>8. MovesHere(s, k)
  <2>1. ASSUME Run(rings[s].bytes, streams[k].got, streams[k].sent)
        PROVE  Run(rings'[s].bytes, streams'[k].got, streams'[k].sent)
    <3>1. Run(rings[s].bytes \o Numbers(streams[k].sent, n), streams[k].got, streams[k].sent + n)
      BY <1>6, <2>1, RunGrows
    <3> QED BY <3>1, <1>1, <1>2, <1>3
  <2> QED BY <2>1 DEF MovesHere
<1>9. MovesThere(k)
  <2> SUFFICES ASSUME NEW j \in JoinedIn(sockets), sockets[j].edge # 0
               PROVE  sockets[j].ends.hears # k
    BY <1>1 DEF MovesThere
  <2>1. Apart(i, j)
    BY ApartIs
  <2> QED BY <2>1, <1>2, <1>3 DEF Apart
<1>10. JoinedStay
  BY <1>1 DEF JoinedStay, JoinedIn
<1>11. WholeAre(sockets', rings', streams', net'.connections)
  BY <1>7, <1>8, <1>9, <1>10, OneMovesWhole DEF Flow
<1>12. RepliedAre(streams', net'.connections)
  <2>1. streams[k].reads = 0 \/ ~net.connections[streams[k].reads].shut
    BY <1>1, <1>2, <1>3, OpenUnshut
  <2>2. \A a \in 1..Len(streams) :
           /\ streams'[a].reads = streams[a].reads
           /\ streams[a].reads # 0 /\ net'.connections[streams[a].reads].shut =>
                \/ streams'[a].got = streams'[a].sent
                \/ /\ net.connections[streams[a].reads].shut
                   /\ streams'[a].got = streams[a].got /\ streams'[a].sent = streams[a].sent
    BY <2>1, <1>1, <1>2, <1>3 DEF StreamsKept
  <2>3. StreamsAre(streams) /\ StreamsAre(streams')
    BY CoreParts, CoreStreams
  <2> QED BY <2>2, <2>3, <1>1, RepliesStay DEF Flow
<1> QED BY <1>11, <1>12 DEF Flow

\* Bytes taken off a ring are the next its reader has not had.
LEMMA TakesFlow ==
  ASSUME Core, Core', Flow, Takes
  PROVE  Flow'
<1>1. PICK i \in JoinedIn(sockets), x \in Seq(Nat) :
    LET e == sockets[i].ends IN
    /\ sockets' = sockets /\ net' = net
    /\ rings'[e.receive].bytes \in Seq(Nat)
    /\ rings[e.receive].bytes = x \o rings'[e.receive].bytes
    /\ \A t \in Slots : t # e.receive => rings'[t] = rings[t]
    /\ Len(streams') = Len(streams) /\ StreamsKept(streams, streams')
    /\ \A a \in 1..Len(streams) : a # e.hears => streams'[a] = streams[a]
    /\ streams'[e.hears].got = streams[e.hears].got + Len(x)
    /\ streams'[e.hears].sent = streams[e.hears].sent
  BY DEF Takes
<1>2. PICK e : e = sockets[i].ends
  OBVIOUS
<1>3. PICK s, k : s = e.receive /\ k = e.hears
  OBVIOUS
<1>4. s \in Slots /\ k \in 1..Len(streams)
  BY <1>2, <1>3, EndIs
<1>5. k = carries[s] /\ k # 0
  BY <1>2, <1>3, <1>4, CoreParts DEF CarriedAre
<1>6. streams[k].got \in Nat /\ streams[k].sent \in Nat
  BY <1>4, StreamNumbers
<1>7. PICK y \in Seq(Nat) : y = rings'[s].bytes
  BY <1>1, <1>2, <1>3
<1>8. /\ rings[s].bytes = x \o y
      /\ streams'[k].got = streams[k].got + Len(x) /\ streams'[k].sent = streams[k].sent
      /\ \A a \in 1..Len(streams) : a # k => streams'[a] = streams[a]
      /\ \A t \in Slots : t # s => rings'[t] = rings[t]
  BY <1>1, <1>2, <1>3, <1>7
<1>9. OneMoves(s, k)
  BY <1>4, <1>5, <1>8 DEF OneMoves
<1>10. MovesHere(s, k)
  <2>1. ASSUME Run(rings[s].bytes, streams[k].got, streams[k].sent)
        PROVE  Run(rings'[s].bytes, streams'[k].got, streams'[k].sent)
    <3>1. Run(y, streams[k].got + Len(x), streams[k].sent)
      BY <1>6, <1>8, <2>1, RunShrinks
    <3> QED BY <3>1, <1>7, <1>8
  <2> QED BY <2>1 DEF MovesHere
<1>11. MovesThere(k)
  <2> SUFFICES ASSUME NEW j \in JoinedIn(sockets), sockets[j].edge # 0, sockets[j].ends.hears = k,
                      HeardThere(sockets, rings, streams, net.connections, j)
               PROVE  HeardThere(sockets, rings', streams', net'.connections, j)
    BY <1>1 DEF MovesThere
  <2>1. Apart(i, j)
    BY ApartIs
  <2>2. i = j
    BY <2>1, <1>2, <1>3 DEF Apart
  <2>3. PICK c : c = net.connections[sockets[j].edge]
    OBVIOUS
  <2>4. c.incoming \in Seq(Nat) /\ c.sent \in Nat
    <3>1. sockets[j].edge \in 1..Len(net.connections) /\ net.connections \in Seq(Connections)
      BY EdgeIsConnection
    <3>2. c \in Connections
      BY <2>3, <3>1
    <3> QED BY <3>2 DEF Connections
  <2>10. PICK w \in Seq(Nat) : w = c.incoming
    BY <2>4
  <2>5. Run((x \o y) \o w, streams[k].got, c.sent)
    BY <1>2, <1>3, <1>8, <2>2, <2>3, <2>10 DEF HeardThere
  <2>6. (x \o y) \o w = x \o (y \o w)
    BY Regroup
  <2>11. y \o w \in Seq(Nat)
    OBVIOUS
  <2>7. PICK z \in Seq(Nat) : z = y \o w
    BY <2>11
  <2>8. Run(x \o z, streams[k].got, c.sent)
    BY <2>5, <2>6, <2>7
  <2>9. Run(z, streams[k].got + Len(x), c.sent)
    BY <1>6, <2>4, <2>8, RunShrinks
  <2> QED BY <1>1, <1>2, <1>3, <1>7, <1>8, <2>2, <2>3, <2>7, <2>9, <2>10 DEF HeardThere
<1>12. JoinedStay
  BY <1>1 DEF JoinedStay, JoinedIn
<1>13. WholeAre(sockets', rings', streams', net'.connections)
  BY <1>9, <1>10, <1>11, <1>12, OneMovesWhole DEF Flow
<1>14. RepliedAre(streams', net'.connections)
  <2>1. streams[k].reads = 0
    BY <1>2, <1>3, CoreParts DEF CarriedAre
  <2>2. \A a \in 1..Len(streams) :
           /\ streams'[a].reads = streams[a].reads
           /\ streams[a].reads # 0 /\ net'.connections[streams[a].reads].shut =>
                \/ streams'[a].got = streams'[a].sent
                \/ /\ net.connections[streams[a].reads].shut
                   /\ streams'[a].got = streams[a].got /\ streams'[a].sent = streams[a].sent
    BY <2>1, <1>1, <1>8 DEF StreamsKept
  <2>3. StreamsAre(streams) /\ StreamsAre(streams')
    BY CoreParts, CoreStreams
  <2> QED BY <2>2, <2>3, <1>1, RepliesStay DEF Flow
<1> QED BY <1>13, <1>14 DEF Flow

\* The ends of some connections of the host are ended, and rings that nobody
\* names any more go: what a drop, a changed table, a shutdown and a flush do.
Ending(E) ==
  /\ \A i \in E : i \in JoinedIn(sockets) /\ sockets[i].edge # 0
  /\ \A i \in JoinedIn(sockets') :
       /\ i \in JoinedIn(sockets)
       /\ sockets'[i].ends.receive = sockets[i].ends.receive
       /\ sockets'[i].ends.transmit = sockets[i].ends.transmit
       /\ sockets'[i].ends.hears = sockets[i].ends.hears
       /\ sockets'[i].ends.says = sockets[i].ends.says
       /\ sockets'[i].edge = sockets[i].edge
       /\ sockets[i].edge # 0 =>
            /\ net'.connections[sockets[i].edge].incoming = net.connections[sockets[i].edge].incoming
            /\ net'.connections[sockets[i].edge].sent = net.connections[sockets[i].edge].sent
  /\ \A s \in Slots : \/ rings'[s].attached = 0
                      \/ s \in Flushed(E) /\ rings'[s].bytes = <<>>
                      \/ s \notin Flushed(E) /\ rings'[s].bytes = rings[s].bytes
  /\ Len(streams') = Len(streams)
  /\ \A a \in 1..Len(streams) :
       /\ streams'[a].reads = streams[a].reads /\ streams'[a].sent = streams[a].sent
       /\ (\E i \in E : sockets[i].ends.says = a) => streams'[a].got = streams[a].sent
       /\ (\A i \in E : sockets[i].ends.says # a) => streams'[a].got = streams[a].got
       /\ streams[a].reads # 0 /\ net'.connections[streams[a].reads].shut =>
            \/ net.connections[streams[a].reads].shut
            \/ \E i \in E : sockets[i].ends.says = a

\* A ring that says what was ended, and a stream that it says, are those of
\* one of the ended.
LEMMA EndingPlaces ==
  ASSUME Core, NEW E, Ending(E), NEW i \in JoinedIn(sockets)
  PROVE  /\ sockets[i].ends.transmit \in Flushed(E) => i \in E
         /\ i \in E => sockets[i].ends.transmit \in Flushed(E)
         /\ (\E j \in E : sockets[j].ends.says = sockets[i].ends.says) => i \in E
         /\ sockets[i].ends.receive \in Flushed(E) => FALSE
         /\ \A j \in E : sockets[j].ends.says # sockets[i].ends.hears
<1>1. ASSUME NEW j \in E
      PROVE  /\ Apart(j, i) /\ sockets[j].edge # 0
  BY <1>1, ApartIs DEF Ending
<1>2. Flushed(E) = {sockets[j].ends.transmit : j \in E}
  BY DEF Flushed
<1>3. \A j \in E : /\ sockets[j].ends.transmit = sockets[i].ends.transmit => j = i
                   /\ sockets[j].ends.says = sockets[i].ends.says => j = i
                   /\ sockets[j].ends.transmit # sockets[i].ends.receive
                   /\ sockets[j].ends.says # sockets[i].ends.hears
  BY <1>1 DEF Apart
<1> QED BY <1>2, <1>3

\* What is ended is flushed first: nothing of it is lost.
LEMMA EndingFlow ==
  ASSUME Core, Core', Flow, NEW E, Ending(E)
  PROVE  Flow'
<1>1. StreamsAre(streams) /\ StreamsAre(streams') /\ AttachedAre(sockets', rings')
  BY CoreParts, CoreStreams
<1>2. WholeAre(sockets', rings', streams', net'.connections)
  <2> SUFFICES ASSUME NEW i \in JoinedIn(sockets')
               PROVE  /\ SaidWhole(sockets', rings', streams', i)
                      /\ sockets'[i].edge = 0 => HeardHere(sockets', rings', streams', i)
                      /\ sockets'[i].edge # 0 =>
                           HeardThere(sockets', rings', streams', net'.connections, i)
    BY DEF WholeAre
  <2>1. PICK e : e = sockets[i].ends
    OBVIOUS
  <2>2. /\ i \in JoinedIn(sockets) /\ sockets'[i].edge = sockets[i].edge
        /\ sockets'[i].ends.receive = e.receive /\ sockets'[i].ends.transmit = e.transmit
        /\ sockets'[i].ends.hears = e.hears /\ sockets'[i].ends.says = e.says
    BY <2>1 DEF Ending
  <2>3. /\ e.receive \in Slots /\ e.transmit \in Slots
        /\ e.hears \in 1..Len(streams) /\ e.says \in 1..Len(streams)
    BY <2>1, <2>2, EndIs
  <2>4. rings'[e.receive].attached # 0 /\ rings'[e.transmit].attached # 0
    BY <1>1, <2>2, <2>3, UnattachedIsUnnamed
  <2>5. /\ e.transmit \in Flushed(E) => i \in E
        /\ i \in E => e.transmit \in Flushed(E)
        /\ (\E j \in E : sockets[j].ends.says = e.says) => i \in E
        /\ e.receive \in Flushed(E) => FALSE
        /\ \A j \in E : sockets[j].ends.says # e.hears
    BY <2>1, <2>2, EndingPlaces
  <2>6. /\ SaidWhole(sockets, rings, streams, i)
        /\ sockets[i].edge = 0 => HeardHere(sockets, rings, streams, i)
        /\ sockets[i].edge # 0 => HeardThere(sockets, rings, streams, net.connections, i)
    BY <2>2 DEF Flow, WholeAre
  <2>7. Run(rings'[e.transmit].bytes, streams'[e.says].got, streams'[e.says].sent)
    <3>1. CASE i \in E
      <4>1. rings'[e.transmit].bytes = <<>>
        BY <2>3, <2>4, <2>5, <3>1 DEF Ending
      <4>2. streams'[e.says].got = streams[e.says].sent /\ streams'[e.says].sent = streams[e.says].sent
        BY <2>1, <2>3, <3>1 DEF Ending
      <4>3. PICK n : n = streams[e.says].sent
        OBVIOUS
      <4>4. n \in Nat
        BY <2>3, <4>3, StreamNumbers
      <4>5. Run(<<>>, n, n)
        BY <4>4, RunEmpty
      <4> QED BY <4>1, <4>2, <4>3, <4>5
    <3>2. CASE i \notin E
      <4>1. rings'[e.transmit].bytes = rings[e.transmit].bytes
        BY <2>3, <2>4, <2>5, <3>2 DEF Ending
      <4>2. streams'[e.says].got = streams[e.says].got /\ streams'[e.says].sent = streams[e.says].sent
        BY <2>3, <2>5, <3>2 DEF Ending
      <4> QED BY <2>1, <2>6, <4>1, <4>2 DEF SaidWhole
    <3> QED BY <3>1, <3>2
  <2>8. /\ rings'[e.receive].bytes = rings[e.receive].bytes
        /\ streams'[e.hears].got = streams[e.hears].got
        /\ streams'[e.hears].sent = streams[e.hears].sent
    BY <2>3, <2>4, <2>5 DEF Ending
  <2>9. sockets[i].edge # 0 => HeardThere(sockets, rings', streams', net'.connections, i)
    <3>1. sockets[i].edge # 0 =>
            /\ net'.connections[sockets[i].edge].incoming = net.connections[sockets[i].edge].incoming
            /\ net'.connections[sockets[i].edge].sent = net.connections[sockets[i].edge].sent
      BY DEF Ending
    <3> QED BY <2>1, <2>6, <2>8, <3>1 DEF HeardThere
  <2>10. SaidWhole(sockets', rings', streams', i)
    BY <2>2, <2>7 DEF SaidWhole
  <2>11. sockets'[i].edge = 0 => HeardHere(sockets', rings', streams', i)
    BY <2>1, <2>2, <2>6, <2>8 DEF HeardHere
  <2>12. sockets'[i].edge # 0 => HeardThere(sockets', rings', streams', net'.connections, i)
    BY <2>1, <2>2, <2>9 DEF HeardThere
  <2> QED BY <2>10, <2>11, <2>12
<1>3. RepliedAre(streams', net'.connections)
  <2>1. ASSUME NEW a \in 1..Len(streams)
        PROVE  /\ streams'[a].reads = streams[a].reads
               /\ streams[a].reads # 0 /\ net'.connections[streams[a].reads].shut =>
                    \/ streams'[a].got = streams'[a].sent
                    \/ /\ net.connections[streams[a].reads].shut
                       /\ streams'[a].got = streams[a].got /\ streams'[a].sent = streams[a].sent
    <3>1. CASE \E i \in E : sockets[i].ends.says = a
      BY <3>1 DEF Ending
    <3>2. CASE \A i \in E : sockets[i].ends.says # a
      BY <3>2 DEF Ending
    <3> QED BY <3>1, <3>2
  <2>2. Len(streams') = Len(streams)
    BY DEF Ending
  <2> QED BY <1>1, <2>1, <2>2, RepliesStay DEF Flow
<1> QED BY <1>2, <1>3 DEF Flow

\* The shapes that end connections, or none.
LEMMA RestingEnds ==
  ASSUME Core, Resting
  PROVE  Ending({})
<1>1. Flushed({}) = {}
  BY DEF Flushed
<1>2. /\ rings' = rings /\ streams' = streams /\ net'.connections = net.connections
      /\ JoinedStay
  BY DEF Resting
<1>3. \A i \in JoinedIn(sockets') :
        /\ i \in JoinedIn(sockets) /\ sockets'[i].ends = sockets[i].ends
        /\ sockets'[i].edge = sockets[i].edge
  BY <1>2 DEF JoinedStay
<1> QED BY <1>1, <1>2, <1>3 DEF Ending

\* An accept that drops ends nothing.
LEMMA DroppingEnds ==
  ASSUME Core, Dropping
  PROVE  Ending({})
<1>1. Flushed({}) = {}
  BY DEF Flushed
<1>2. \A s \in Slots : rings'[s].bytes = rings[s].bytes \/ rings'[s].attached = 0
  BY DEF Dropping, FreeRing
<1>3. streams' = streams /\ net' = net
  BY DEF Dropping
<1>4. \A i \in JoinedIn(sockets') :
        /\ i \in JoinedIn(sockets) /\ sockets'[i].ends = sockets[i].ends
        /\ sockets'[i].edge = sockets[i].edge
  BY DEF Dropping
<1> QED BY <1>1, <1>2, <1>3, <1>4 DEF Ending

\* Rings and streams where some connections of the host are ended.
RingsEnding(E) ==
  \A s \in Slots : \/ rings'[s].attached = 0
                   \/ s \in Flushed(E) /\ rings'[s].bytes = <<>>
                   \/ s \notin Flushed(E) /\ rings'[s].bytes = rings[s].bytes
StreamsEnding(E) ==
  \A a \in 1..Len(streams) :
    /\ streams'[a].reads = streams[a].reads /\ streams'[a].sent = streams[a].sent
    /\ (\E i \in E : sockets[i].ends.says = a) => streams'[a].got = streams[a].sent
    /\ (\A i \in E : sockets[i].ends.says # a) => streams'[a].got = streams[a].got
    /\ streams[a].reads # 0 /\ net'.connections[streams[a].reads].shut =>
         \/ net.connections[streams[a].reads].shut
         \/ \E i \in E : sockets[i].ends.says = a

\* What end_edge leaves, in the terms of Ending.
LEMMA EdgesEnding ==
  ASSUME Core, NEW E, NEW how, NEW settled, EdgesEnded(E, how, settled), BytesStay(settled),
         \A i \in E : i \in JoinedIn(sockets) /\ sockets[i].edge # 0
  PROVE  /\ RingsEnding(E) /\ StreamsEnding(E) /\ Len(streams') = Len(streams)
         /\ \A i \in E : sockets[i].edge \in 1..Len(net.connections)
<1>1. RingsEnding(E)
  <2> SUFFICES ASSUME NEW s \in Slots
               PROVE  \/ rings'[s].attached = 0
                      \/ s \in Flushed(E) /\ rings'[s].bytes = <<>>
                      \/ s \notin Flushed(E) /\ rings'[s].bytes = rings[s].bytes
    BY DEF RingsEnding
  <2>1. /\ rings'[s].attached = settled[s].attached
        /\ s \in Flushed(E) => rings'[s].bytes = <<>>
        /\ s \notin Flushed(E) => rings'[s].bytes = settled[s].bytes
    BY DEF EdgesEnded
  <2>2. settled[s].bytes = rings[s].bytes \/ settled[s].attached = 0
    BY DEF BytesStay, FreeRing
  <2> QED BY <2>1, <2>2
<1>2. /\ CarriedAre(sockets, carries, streams) /\ EventsAre(sockets, streams, Pending, net.connections)
      /\ Len(streams) \in Nat /\ DOMAIN streams = 1..Len(streams) /\ Len(net.connections) \in Nat
  BY CoreParts DEF StreamsAre
<1>3. ASSUME NEW i \in E
      PROVE  /\ streams[sockets[i].ends.says].reads = sockets[i].edge
             /\ sockets[i].ends.says \in 1..Len(streams)
             /\ sockets[i].edge \in 1..Len(net.connections)
  <2>1. i \in JoinedIn(sockets) /\ sockets[i].edge # 0
    OBVIOUS
  <2>2. streams[sockets[i].ends.says].reads = sockets[i].edge
    BY <1>2, <2>1 DEF CarriedAre
  <2>3. sockets[i].ends.says \in 1..Len(streams)
    BY <2>1, EndIs
  <2>4. sockets[i].edge \in 1..Len(net.connections)
    BY <2>1, EdgeIsConnection
  <2> QED BY <2>2, <2>3, <2>4
<1>4. ASSUME NEW a \in 1..Len(streams), streams[a].reads # 0,
             net'.connections[streams[a].reads].shut, ~net.connections[streams[a].reads].shut
      PROVE  \E i \in E : sockets[i].ends.says = a
  <2>1. PICK c : c = streams[a].reads
    OBVIOUS
  <2>2. c \in 1..Len(net.connections)
    <3>1. c \in 0..Len(net.connections)
      BY <1>2, <2>1 DEF EventsAre
    <3> QED BY <3>1, <1>2, <1>4, <2>1
  <2>3. \E i \in E : sockets[i].edge = c
    <3>1. (\A i \in E : sockets[i].edge # c) => net'.connections[c] = net.connections[c]
      BY <2>2 DEF EdgesEnded
    <3> QED BY <3>1, <1>4, <2>1
  <2>4. PICK i \in E : sockets[i].edge = c
    BY <2>3
  <2>5. /\ streams[sockets[i].ends.says].reads = c
        /\ sockets[i].ends.says \in 1..Len(streams)
    BY <1>3, <2>4
  <2>6. sockets[i].ends.says = a
    BY <1>2, <1>4, <2>1, <2>5 DEF EventsAre
  <2> QED BY <2>6
<1>5. StreamsEnding(E)
  BY <1>4 DEF StreamsEnding, EdgesEnded, StreamsKept
<1>6. Len(streams') = Len(streams)
  BY DEF EdgesEnded
<1> QED BY <1>1, <1>3, <1>5, <1>6

\* The sockets that go with a table end theirs.
LEMMA TablingEnds ==
  ASSUME Core, Tabling
  PROVE  \E E : Ending(E)
<1>1. PICK p \in Procs : Tabled(p)
  BY DEF Tabling
<1>2. PICK gone : gone = GoneAt(files, sockets, files', p)
  OBVIOUS
<1>3. PICK E : E = {i \in gone : sockets[i].edge # 0}
  OBVIOUS
<1>4. PICK settled : EdgesEnded(E, "close", settled) /\ BytesStay(settled)
  BY <1>1, <1>2, <1>3 DEF Tabled
<1>5. Retabled(files, sockets, files', sockets', p)
  BY <1>1 DEF Tabled
<1>6. EventsAre(sockets, streams, Pending, net.connections)
  BY CoreParts
<1>7. \A i \in E : i \in JoinedIn(sockets) /\ sockets[i].edge # 0
  <2> SUFFICES ASSUME NEW i \in E PROVE i \in JoinedIn(sockets) /\ sockets[i].edge # 0
    OBVIOUS
  <2>1. i \in LiveIn(sockets) /\ sockets[i].edge # 0
    BY <1>2, <1>3 DEF GoneAt
  <2>2. sockets[i].state = "Connected"
    BY <1>6, <2>1 DEF EventsAre
  <2> QED BY <2>1, <2>2 DEF LiveIn, JoinedIn
<1>8. /\ RingsEnding(E) /\ StreamsEnding(E) /\ Len(streams') = Len(streams)
  BY <1>4, <1>7, EdgesEnding
<1>9. /\ JoinedIn(sockets') = JoinedIn(sockets) \ gone
      /\ \A i \in JoinedIn(sockets') : sockets'[i].ends = sockets[i].ends /\ sockets'[i].edge = sockets[i].edge
  BY <1>2, <1>5, RetabledJoined
<1>10. ASSUME NEW i \in JoinedIn(sockets'), sockets[i].edge # 0
       PROVE  /\ net'.connections[sockets[i].edge].incoming = net.connections[sockets[i].edge].incoming
              /\ net'.connections[sockets[i].edge].sent = net.connections[sockets[i].edge].sent
  <2>1. i \in JoinedIn(sockets) /\ i \notin gone
    BY <1>9
  <2>2. \A j \in E : sockets[j].edge # sockets[i].edge
    <3> SUFFICES ASSUME NEW j \in E, sockets[j].edge = sockets[i].edge PROVE FALSE
      OBVIOUS
    <3>1. Apart(j, i)
      BY <1>7, <2>1, ApartIs
    <3>2. j = i
      BY <3>1, <1>7 DEF Apart
    <3> QED BY <3>2, <2>1, <1>3
  <2>3. sockets[i].edge \in 1..Len(net.connections)
    BY <2>1, <1>10, EdgeIsConnection
  <2>4. net'.connections[sockets[i].edge] = net.connections[sockets[i].edge]
    BY <1>4, <2>2, <2>3 DEF EdgesEnded
  <2> QED BY <2>4
<1>11. Ending(E)
  BY <1>7, <1>8, <1>9, <1>10 DEF Ending, RingsEnding, StreamsEnding
<1> QED BY <1>11

\* A shutdown ends the connection it half-closes.
LEMMA ShuttingEnds ==
  ASSUME Core, Shutting
  PROVE  \E E : Ending(E)
<1>1. PICK i \in JoinedIn(sockets), rd \in BOOLEAN, wr \in BOOLEAN, E \in SUBSET Ids :
        /\ Shuts(i, rd, wr)
        /\ \A j \in E : j = i /\ sockets[j].edge # 0
        /\ \E settled : EdgesEnded(E, "shutdown", settled) /\ BytesStay(settled)
  BY DEF Shutting
<1>2. PICK settled : EdgesEnded(E, "shutdown", settled) /\ BytesStay(settled)
  BY <1>1
<1>3. \A j \in E : j \in JoinedIn(sockets) /\ sockets[j].edge # 0
  BY <1>1
<1>4. RingsEnding(E) /\ StreamsEnding(E) /\ Len(streams') = Len(streams)
  BY <1>2, <1>3, EdgesEnding
<1>5. ASSUME NEW j \in JoinedIn(sockets')
      PROVE  /\ j \in JoinedIn(sockets)
             /\ sockets'[j].ends.receive = sockets[j].ends.receive
             /\ sockets'[j].ends.transmit = sockets[j].ends.transmit
             /\ sockets'[j].ends.hears = sockets[j].ends.hears
             /\ sockets'[j].ends.says = sockets[j].ends.says
             /\ sockets'[j].edge = sockets[j].edge
  BY <1>1, <1>5 DEF Shuts, JoinedIn
<1>6. ASSUME NEW j \in JoinedIn(sockets'), sockets[j].edge # 0
      PROVE  /\ net'.connections[sockets[j].edge].incoming = net.connections[sockets[j].edge].incoming
             /\ net'.connections[sockets[j].edge].sent = net.connections[sockets[j].edge].sent
  <2>1. sockets[j].edge \in 1..Len(net.connections)
    BY <1>5, <1>6, EdgeIsConnection
  <2> QED BY <1>2, <2>1 DEF EdgesEnded
<1>7. Ending(E)
  BY <1>3, <1>4, <1>5, <1>6 DEF Ending, RingsEnding, StreamsEnding
<1> QED BY <1>7

\* A flush hands over all that is queued, as an end does.
LEMMA FlushEnds ==
  ASSUME Core, FlushEdges, net'.connections = net.connections
  PROVE  Ending(Sending)
<1>1. /\ sockets' = sockets /\ SocketsAre(sockets) /\ StreamsAre(streams)
      /\ DOMAIN streams = 1..Len(streams)
  BY CoreParts DEF FlushEdges, StreamsAre
<1>2. \A i \in Sending : i \in JoinedIn(sockets) /\ sockets[i].edge # 0
  BY <1>1, SetsAre DEF Sending, Edges
<1>3. \A s \in Slots : /\ s \in Flushed(Sending) => rings'[s].bytes = <<>>
                       /\ s \notin Flushed(Sending) => rings'[s].bytes = rings[s].bytes
  <2> SUFFICES ASSUME NEW s \in Slots
               PROVE  /\ s \in Flushed(Sending) => rings'[s].bytes = <<>>
                      /\ s \notin Flushed(Sending) => rings'[s].bytes = rings[s].bytes
    OBVIOUS
  <2>1. PICK r : r = rings[s]
    OBVIOUS
  <2>2. rings'[s] = IF s \in Flushed(Sending) THEN Emptied(r) ELSE r
    BY <2>1 DEF FlushEdges
  <2>3. r \in RingRecords
    BY <2>1, CoreParts DEF RingsAre
  <2>4. Emptied(r).bytes = <<>>
    BY <2>3 DEF Emptied, RingRecords
  <2> QED BY <2>1, <2>2, <2>4
<1>4. ASSUME NEW a \in 1..Len(streams)
      PROVE  /\ streams'[a].reads = streams[a].reads /\ streams'[a].sent = streams[a].sent
             /\ (\E i \in Sending : sockets[i].ends.says = a) => streams'[a].got = streams[a].sent
             /\ (\A i \in Sending : sockets[i].ends.says # a) => streams'[a].got = streams[a].got
  <2>1. streams[a] \in Streams
    BY <1>1 DEF StreamsAre
  <2>2. streams'[a] = IF \E i \in Sending : sockets[i].ends.says = a
                      THEN [streams[a] EXCEPT !.got = streams[a].sent] ELSE streams[a]
    BY <1>1 DEF FlushEdges
  <2> QED BY <2>1, <2>2 DEF Streams
<1>5. Len(streams') = Len(streams)
  BY FlushIs
<1> QED BY <1>1, <1>2, <1>3, <1>4, <1>5 DEF Ending

\* Bytes of the host move over the edge in their order.
LEMMA DrainingFlow ==
  ASSUME Core, Core', Flow, Draining
  PROVE  Flow'
<1>1. PICK i \in JoinedIn(sockets), q \in RingRecords :
    LET s == sockets[i].ends.receive IN
    /\ sockets' = sockets /\ sockets[i].edge # 0
    /\ DrainedTo(i, sockets[i].edge, q, net')
    /\ rings'[s].bytes = q.bytes \/ rings'[s] = FreeRing
    /\ \A t \in Slots : t # s => rings'[t] = rings[t]
    /\ Len(streams') = Len(streams)
    /\ \A a \in 1..Len(streams) :
         /\ streams'[a].sent = streams[a].sent /\ streams'[a].got = streams[a].got
         /\ streams'[a].reads = streams[a].reads
  BY DEF Draining
<1>2. PICK e : e = sockets[i].ends
  OBVIOUS
<1>3. PICK s, k : s = e.receive /\ k = e.hears
  OBVIOUS
<1>4. s \in Slots /\ k \in 1..Len(streams)
  BY <1>2, <1>3, EndIs
<1>5. k = carries[s] /\ k # 0
  BY <1>2, <1>3, <1>4, CoreParts DEF CarriedAre
<1>6. PICK c : c = sockets[i].edge
  OBVIOUS
<1>7. c \in 1..Len(net.connections) /\ c # 0
  BY <1>1, <1>6, EdgeIsConnection
<1>8. /\ \A d \in 1..Len(net.connections) :
           /\ d # c => net'.connections[d] = net.connections[d]
           /\ net'.connections[d].shut = net.connections[d].shut
           /\ net'.connections[d].sent = net.connections[d].sent
      /\ q.bytes \o net'.connections[c].incoming = rings[s].bytes \o net.connections[c].incoming
  BY <1>1, <1>2, <1>3, <1>6 DEF DrainedTo
<1>9. rings'[s].bytes = q.bytes
  <2>1. AttachedAre(sockets', rings')
    BY CoreStreams
  <2>2. i \in JoinedIn(sockets') /\ sockets'[i].ends.receive = s
    BY <1>1, <1>2, <1>3
  <2>3. rings'[s] # FreeRing
    BY <2>1, <2>2, <1>4, FreeIsUnnamed
  <2> QED BY <2>3, <1>1, <1>2, <1>3
<1>10. OneMoves(s, k)
  BY <1>1, <1>2, <1>3, <1>4, <1>5 DEF OneMoves
<1>11. ASSUME NEW j \in JoinedIn(sockets)
       PROVE  /\ sockets[j].ends.says # k
              /\ sockets[j].ends.hears = k => j = i
              /\ sockets[j].edge = c => j = i
  <2>1. Apart(j, i)
    BY ApartIs
  <2> QED BY <2>1, <1>1, <1>2, <1>3, <1>6 DEF Apart
<1>12. MovesHere(s, k)
  BY <1>1, <1>11 DEF MovesHere
<1>13. MovesThere(k)
  <2> SUFFICES ASSUME NEW j \in JoinedIn(sockets), sockets[j].edge # 0
               PROVE  IF sockets[j].ends.hears = k
                      THEN HeardThere(sockets, rings, streams, net.connections, j)
                             => HeardThere(sockets, rings', streams', net'.connections, j)
                      ELSE /\ net'.connections[sockets[j].edge].incoming
                                = net.connections[sockets[j].edge].incoming
                           /\ net'.connections[sockets[j].edge].sent = net.connections[sockets[j].edge].sent
    BY DEF MovesThere
  <2>1. CASE sockets[j].ends.hears = k
    <3>1. j = i
      BY <1>11, <2>1
    <3>2. net'.connections[c].sent = net.connections[c].sent
      BY <1>7, <1>8
    <3>3. streams'[k].got = streams[k].got
      BY <1>1, <1>4
    <3>4. rings'[s].bytes \o net'.connections[c].incoming = rings[s].bytes \o net.connections[c].incoming
      BY <1>8, <1>9
    <3> QED BY <2>1, <3>1, <3>2, <3>3, <3>4, <1>2, <1>3, <1>6 DEF HeardThere
  <2>2. CASE sockets[j].ends.hears # k
    <3>1. sockets[j].edge # c
      BY <1>2, <1>3, <1>11, <2>2
    <3>2. sockets[j].edge \in 1..Len(net.connections)
      BY EdgeIsConnection
    <3> QED BY <2>2, <3>1, <3>2, <1>8
  <2> QED BY <2>1, <2>2
<1>14. JoinedStay
  BY <1>1 DEF JoinedStay, JoinedIn
<1>15. WholeAre(sockets', rings', streams', net'.connections)
  BY <1>10, <1>12, <1>13, <1>14, OneMovesWhole DEF Flow
<1>16. RepliedAre(streams', net'.connections)
  <2>1. StreamsAre(streams) /\ StreamsAre(streams') /\ Len(net.connections) \in Nat
    BY CoreParts, CoreStreams
  <2>2. ASSUME NEW a \in 1..Len(streams)
        PROVE  /\ streams'[a].reads = streams[a].reads
               /\ streams[a].reads # 0 /\ net'.connections[streams[a].reads].shut =>
                    \/ streams'[a].got = streams'[a].sent
                    \/ /\ net.connections[streams[a].reads].shut
                       /\ streams'[a].got = streams[a].got /\ streams'[a].sent = streams[a].sent
    <3>1. streams[a].reads \in 0..Len(net.connections)
      BY <2>1, CoreParts DEF EventsAre, StreamsAre
    <3>2. streams[a].reads # 0 => streams[a].reads \in 1..Len(net.connections)
      BY <2>1, <3>1
    <3> QED BY <1>1, <1>8, <3>2
  <2> QED BY <1>1, <2>1, <2>2, RepliesStay DEF Flow
<1> QED BY <1>15, <1>16 DEF Flow

\* Nothing and then the first n bytes is a run.
LEMMA NothingBefore ==
  ASSUME NEW n \in Nat
  PROVE  Run(<<>> \o Numbers(0, n), 0, n)
<1>1. PICK z : z = Numbers(0, n)
  OBVIOUS
<1>2. z \in Seq(Nat)
  BY <1>1, NumbersIs
<1>3. <<>> \o z = z
  BY <1>2
<1>4. n - 0 = n /\ 0 <= n
  OBVIOUS
<1> QED BY <1>1, <1>3, <1>4 DEF Run

\* New rings are empty, and a new connection's host kept what its peer sent.
LEMMA WiringFlow ==
  ASSUME Core, Core', Flow, Wiring
  PROVE  Flow'
<1>1. PICK a \in Ids, others \in SUBSET Ids, conn \in Nat, n \in Nat :
        /\ WiredTo(a, others, conn) /\ Laid(n, conn)
        /\ conn # 0 => \E x \in DOMAIN Pending :
                         Pending[x].kind = "open" /\ Pending[x].conn = conn
  BY DEF Wiring
<1>2. net' = net
  BY DEF Wiring
<1>3. /\ Len(streams) \in Nat /\ DOMAIN streams = 1..Len(streams)
      /\ EventsAre(sockets, streams, Pending, net.connections)
      /\ AttachedAre(sockets, rings) /\ StreamsAre(streams') /\ NetIs(net)
  BY CoreParts, CoreStreams DEF StreamsAre
<1>4. /\ Up \in Slots /\ Down \in Slots /\ rings[Up] = FreeRing /\ rings[Down] = FreeRing
      /\ \A s \in Slots : s # Up /\ s # Down => rings'[s] = rings[s]
      /\ rings'[Up].bytes = <<>> /\ rings'[Down].bytes = <<>>
      /\ Len(streams') = Len(streams) + 2
      /\ \A b \in 1..Len(streams) : streams'[b] = streams[b]
  BY <1>1 DEF Laid
<1>5. /\ streams'[UpStream].got = 0 /\ streams'[UpStream].sent = 0 /\ streams'[UpStream].reads = conn
      /\ streams'[DownStream].got = 0 /\ streams'[DownStream].sent = 0
      /\ streams'[DownStream].reads = 0
  BY <1>1 DEF Laid, Stream
<1>6. Run(<<>>, 0, 0)
  BY RunEmpty
<1>7. WholeAre(sockets', rings', streams', net'.connections)
  <2> SUFFICES ASSUME NEW i \in JoinedIn(sockets')
               PROVE  /\ SaidWhole(sockets', rings', streams', i)
                      /\ sockets'[i].edge = 0 => HeardHere(sockets', rings', streams', i)
                      /\ sockets'[i].edge # 0 =>
                           HeardThere(sockets', rings', streams', net'.connections, i)
    BY DEF WholeAre
  <2>1. CASE i \in JoinedIn(sockets)
    <3>1. PICK e : e = sockets[i].ends
      OBVIOUS
    <3>2. sockets'[i].ends = e /\ sockets'[i].edge = sockets[i].edge
      BY <1>1, <2>1, <3>1 DEF WiredTo
    <3>3. /\ e.receive \in Slots /\ e.transmit \in Slots
          /\ e.hears \in 1..Len(streams) /\ e.says \in 1..Len(streams)
      BY <2>1, <3>1, EndIs
    <3>4. e.receive \notin {Up, Down} /\ e.transmit \notin {Up, Down}
      BY <1>3, <1>4, <2>1, <3>1, FreeIsUnnamed
    <3>5. /\ rings'[e.receive] = rings[e.receive] /\ rings'[e.transmit] = rings[e.transmit]
          /\ streams'[e.hears] = streams[e.hears] /\ streams'[e.says] = streams[e.says]
      BY <1>4, <3>3, <3>4
    <3>6. /\ SaidWhole(sockets, rings, streams, i)
          /\ sockets[i].edge = 0 => HeardHere(sockets, rings, streams, i)
          /\ sockets[i].edge # 0 => HeardThere(sockets, rings, streams, net.connections, i)
      BY <2>1 DEF Flow, WholeAre
    <3> QED BY <1>2, <3>1, <3>2, <3>5, <3>6 DEF SaidWhole, HeardHere, HeardThere
  <2>2. CASE i = a
    <3>1. /\ sockets'[i].edge = conn
          /\ sockets'[i].ends.receive = Down /\ sockets'[i].ends.transmit = Up
          /\ sockets'[i].ends.hears = DownStream /\ sockets'[i].ends.says = UpStream
      BY <1>1, <2>2 DEF WiredTo
    <3>2. SaidWhole(sockets', rings', streams', i)
      BY <1>4, <1>5, <1>6, <3>1 DEF SaidWhole
    <3>3. HeardHere(sockets', rings', streams', i)
      BY <1>4, <1>5, <1>6, <3>1 DEF HeardHere
    <3>4. ASSUME conn # 0 PROVE HeardThere(sockets', rings', streams', net'.connections, i)
      <4>1. PICK x \in DOMAIN Pending : Pending[x].kind = "open" /\ Pending[x].conn = conn
        BY <1>1, <3>4
      <4>2. net.connections[conn].incoming = Numbers(0, net.connections[conn].sent)
        BY <1>3, <4>1 DEF EventsAre
      <4>3. net.connections[conn].sent \in Nat
        <5>1. conn \in 1..Len(net.connections)
          BY <1>3, <4>1 DEF EventsAre
        <5>2. net.connections[conn] \in Connections
          BY <1>3, <5>1, ConnectionsAre
        <5> QED BY <5>2 DEF Connections
      <4>4. Run(<<>> \o Numbers(0, net.connections[conn].sent), 0, net.connections[conn].sent)
        BY <4>3, NothingBefore
      <4> QED BY <1>2, <1>4, <1>5, <3>1, <4>2, <4>4 DEF HeardThere
    <3> QED BY <3>1, <3>2, <3>3, <3>4
  <2>3. CASE i \in others
    <3>1. /\ sockets'[i].edge = 0
          /\ sockets'[i].ends.receive = Up /\ sockets'[i].ends.transmit = Down
          /\ sockets'[i].ends.hears = UpStream /\ sockets'[i].ends.says = DownStream
      BY <1>1, <2>3 DEF WiredTo
    <3>2. SaidWhole(sockets', rings', streams', i)
      BY <1>4, <1>5, <1>6, <3>1 DEF SaidWhole
    <3>3. HeardHere(sockets', rings', streams', i)
      BY <1>4, <1>5, <1>6, <3>1 DEF HeardHere
    <3> QED BY <3>1, <3>2, <3>3
  <2>4. JoinedIn(sockets') = JoinedIn(sockets) \cup {a} \cup others
    BY <1>1 DEF WiredTo
  <2> QED BY <2>1, <2>2, <2>3, <2>4
<1>8. RepliedAre(streams', net'.connections)
  <2> SUFFICES ASSUME NEW b \in 1..Len(streams'), streams'[b].reads # 0,
                      net.connections[streams'[b].reads].shut
               PROVE  streams'[b].got = streams'[b].sent
    BY <1>2, <1>3 DEF RepliedAre, StreamsAre
  <2>1. CASE b \in 1..Len(streams)
    BY <1>3, <1>4, <2>1 DEF Flow, RepliedAre
  <2>2. CASE b = UpStream
    BY <1>5, <2>2
  <2>3. CASE b = DownStream
    BY <1>5, <2>3
  <2>4. b \in 1..Len(streams) \/ b = UpStream \/ b = DownStream
    BY <1>3, <1>4 DEF UpStream, DownStream
  <2> QED BY <2>1, <2>2, <2>3, <2>4
<1> QED BY <1>7, <1>8 DEF Flow

\* Only the host's side of the connections changes, and every stream that
\* is heard from there stays one run.
LEMMA HostFlow ==
  ASSUME Core, Core', Flow, HostStep, streams' = streams,
         \A d \in 1..Len(net.connections) : net'.connections[d].shut = net.connections[d].shut,
         \A i \in JoinedIn(sockets) :
           sockets[i].edge # 0 /\ HeardThere(sockets, rings, streams, net.connections, i)
             => HeardThere(sockets, rings, streams, net'.connections, i)
  PROVE  Flow'
<1>1. sockets' = sockets /\ rings' = rings
  BY DEF HostStep
<1>2. WholeAre(sockets, rings, streams, net'.connections)
  BY DEF Flow, WholeAre
<1>3. StreamsAre(streams) /\ StreamsAre(streams') /\ Len(net.connections) \in Nat
      /\ DOMAIN streams = 1..Len(streams)
      /\ EventsAre(sockets, streams, Pending, net.connections)
  BY CoreParts, CoreStreams DEF StreamsAre
<1>4. ASSUME NEW a \in 1..Len(streams), streams[a].reads # 0,
             net'.connections[streams[a].reads].shut
      PROVE  net.connections[streams[a].reads].shut
  <2>1. streams[a].reads \in 0..Len(net.connections)
    BY <1>3 DEF EventsAre
  <2>2. streams[a].reads \in 1..Len(net.connections)
    BY <2>1, <1>3, <1>4
  <2> QED BY <2>2, <1>4
<1>5. RepliedAre(streams', net'.connections)
  BY <1>3, <1>4, RepliesStay DEF Flow
<1> QED BY <1>1, <1>2, <1>5 DEF Flow

\* What the peer sends is the next of what waits at the host.
LEMMA PeerSendsFlow ==
  ASSUME Core, Flow, NEW c \in DOMAIN net.connections, NEW length \in Lengths, PeerSends(c, length)
  PROVE  Flow'
<1>1. /\ Core'
      /\ \A d \in 1..Len(net.connections) : d # c => net'.connections[d] = net.connections[d]
      /\ ReadOn(net.connections[c], length, net'.connections[c])
  BY PeerSendsHolds
<1>2. HostStep /\ streams' = streams /\ length \in Nat
  BY SocketsAssumption DEF PeerSends
<1>3. \A d \in 1..Len(net.connections) : net'.connections[d].shut = net.connections[d].shut
  BY <1>1 DEF ReadOn
<1>4. ASSUME NEW i \in JoinedIn(sockets), sockets[i].edge # 0,
             HeardThere(sockets, rings, streams, net.connections, i)
      PROVE  HeardThere(sockets, rings, streams, net'.connections, i)
  <2>1. PICK e : e = sockets[i].ends
    OBVIOUS
  <2>2. PICK b : b = rings[e.receive].bytes
    OBVIOUS
  <2>3. b \in Seq(Nat)
    <3>1. rings[e.receive] \in RingRecords
      BY <2>1, EndIs
    <3> QED BY <2>2, <3>1 DEF RingRecords
  <2>4. sockets[i].edge \in 1..Len(net.connections)
    BY <1>4, EdgeIsConnection
  <2>5. CASE sockets[i].edge = c
    <3>1. PICK x, y : x = net.connections[c] /\ y = net'.connections[c]
      OBVIOUS
    <3>2. x \in Connections
      BY <2>4, <2>5, <3>1, CoreParts, ConnectionsAre
    <3>3. x.sent \in Nat /\ x.incoming \in Seq(Nat)
      BY <3>2 DEF Connections
    <3>4. x.present
      <4>1. i \in LiveIn(sockets)
        BY DEF JoinedIn, LiveIn
      <4> QED BY <1>4, <2>5, <3>1, <4>1, CoreParts DEF EventsAre
    <3>5. y.sent = x.sent + length /\ y.incoming = x.incoming \o Numbers(x.sent, length)
      BY <1>1, <3>1, <3>4 DEF ReadOn
    <3>6. PICK u, v : u = x.incoming /\ v = Numbers(x.sent, length)
      OBVIOUS
    <3>7. u \in Seq(Nat) /\ v \in Seq(Nat)
      BY <1>2, <3>3, <3>6, NumbersIs
    <3>8. (b \o u) \o v = b \o (u \o v)
      BY <2>3, <3>7, Regroup
    <3>9. PICK g : g = streams[e.hears].got
      OBVIOUS
    <3>10. g \in Nat
      <4>1. e.hears \in 1..Len(streams)
        BY <2>1, EndIs
      <4> QED BY <3>9, <4>1, StreamNumbers
    <3>11. Run(b \o u, g, x.sent)
      BY <1>4, <2>1, <2>2, <2>5, <3>1, <3>6, <3>9 DEF HeardThere
    <3>12. PICK w : w = b \o u
      OBVIOUS
    <3>13. Run(w, g, x.sent)
      BY <3>11, <3>12
    <3>14. Run(w \o Numbers(x.sent, length), g, x.sent + length)
      BY <1>2, <3>3, <3>10, <3>13, RunGrows
    <3>15. Run(b \o y.incoming, g, y.sent)
      BY <3>5, <3>6, <3>8, <3>12, <3>14
    <3> QED BY <2>1, <2>2, <2>5, <3>1, <3>9, <3>15 DEF HeardThere
  <2>6. CASE sockets[i].edge # c
    <3>1. net'.connections[sockets[i].edge] = net.connections[sockets[i].edge]
      BY <1>1, <2>4, <2>6
    <3> QED BY <1>4, <3>1 DEF HeardThere
  <2> QED BY <2>5, <2>6
<1> QED BY <1>1, <1>2, <1>3, <1>4, HostFlow

\* A peer that connects or finishes moves no byte.
LEMMA PeerRestsFlow ==
  ASSUME Core, Core', Flow, HostStep, streams' = streams,
         \A d \in 1..Len(net.connections) :
           /\ net'.connections[d].incoming = net.connections[d].incoming
           /\ net'.connections[d].sent = net.connections[d].sent
           /\ net'.connections[d].shut = net.connections[d].shut
  PROVE  Flow'
<1>1. ASSUME NEW i \in JoinedIn(sockets), sockets[i].edge # 0,
             HeardThere(sockets, rings, streams, net.connections, i)
      PROVE  HeardThere(sockets, rings, streams, net'.connections, i)
  <2>1. sockets[i].edge \in 1..Len(net.connections)
    BY <1>1, EdgeIsConnection
  <2> QED BY <1>1, <2>1 DEF HeardThere
<1> QED BY <1>1, HostFlow

\* The host's threads keep every stream whole.
LEMMA HostsFlow ==
  ASSUME Core, Flow, Host
  PROVE  Flow'
<1>1. ASSUME NEW port \in Mapped, PeerConnects(port) PROVE Flow'
  <2>1. /\ Core' /\ \A d \in 1..Len(net.connections) : net'.connections[d] = net.connections[d]
    BY <1>1, PeerConnectsHolds
  <2>2. HostStep /\ streams' = streams
    BY <1>1 DEF PeerConnects
  <2> QED BY <2>1, <2>2, PeerRestsFlow
<1>2. ASSUME NEW c \in DOMAIN net.connections, PeerFinishes(c) PROVE Flow'
  <2>1. /\ Core'
        /\ \A d \in 1..Len(net.connections) :
             /\ net'.connections[d].incoming = net.connections[d].incoming
             /\ net'.connections[d].sent = net.connections[d].sent
             /\ net'.connections[d].shut = net.connections[d].shut
    BY <1>2, PeerFinishesHolds
  <2>2. HostStep /\ streams' = streams
    BY <1>2 DEF PeerFinishes
  <2> QED BY <2>1, <2>2, PeerRestsFlow
<1>3. ASSUME NEW c \in DOMAIN net.connections, NEW length \in Lengths, PeerSends(c, length)
      PROVE  Flow'
  BY <1>3, PeerSendsFlow
<1> QED BY <1>1, <1>2, <1>3 DEF Host

\* Every shape keeps the streams whole and the replies sent.
LEMMA MovesFlow ==
  ASSUME Core, Core', Flow, Moves
  PROVE  Flow'
<1>1. CASE Resting
  BY <1>1, RestingEnds, EndingFlow
<1>2. CASE Dropping
  BY <1>2, DroppingEnds, EndingFlow
<1>3. CASE Tabling
  <2>1. PICK E : Ending(E)
    BY <1>3, TablingEnds
  <2> QED BY <2>1, EndingFlow
<1>4. CASE Wiring
  BY <1>4, WiringFlow
<1>5. CASE Shutting
  <2>1. PICK E : Ending(E)
    BY <1>5, ShuttingEnds
  <2> QED BY <2>1, EndingFlow
<1>6. CASE Puts
  BY <1>6, PutsFlow
<1>7. CASE Takes
  BY <1>7, TakesFlow
<1>8. CASE Draining
  BY <1>8, DrainingFlow
<1>9. CASE Flush \/ Pump
  <2>1. FlushEdges
    BY <1>9 DEF Flush, Pump
  <2>2. net'.connections = net.connections
    <3>1. NetIs(net)
      BY CoreParts
    <3> QED BY <1>9, <3>1 DEF Flush, Pump, NetIs
  <2> QED BY <2>1, <2>2, FlushEnds, EndingFlow
<1>10. CASE Host
  BY <1>10, HostsFlow
<1> QED BY <1>1, <1>2, <1>3, <1>4, <1>5, <1>6, <1>7, <1>8, <1>9, <1>10 DEF Moves

\* The inductive invariant, with the streams.
FlowInv == Inv /\ Flow

\* There is no stream at first.
LEMMA FlowInit ==
  ASSUME Init
  PROVE  FlowInv
<1>1. Inv
  BY InitHolds
<1>2. JoinedIn(sockets) = {}
  BY DEF Init, JoinedIn
<1>3. DOMAIN streams = {}
  BY DEF Init
<1> QED BY <1>1, <1>2, <1>3 DEF FlowInv, Flow, WholeAre, RepliedAre

\* Every step keeps the invariant with the streams.
LEMMA FlowNext ==
  ASSUME FlowInv, [Next]_vars
  PROVE  FlowInv'
<1>1. Inv /\ Core /\ Flow
  BY DEF FlowInv, Inv
<1>2. Core' /\ Moves
  BY <1>1, CoreStays
<1>3. Inv'
  BY <1>1, NextHolds
<1>4. Flow'
  BY <1>1, <1>2, MovesFlow
<1> QED BY <1>3, <1>4 DEF FlowInv

\* The bytes of every connection are one run, whatever the sockets do.
THEOREM FlowHolds == Spec => []FlowInv
<1>1. Init => FlowInv
  BY FlowInit
<1>2. FlowInv /\ [Next]_vars => FlowInv'
  BY FlowNext
<1> QED BY <1>1, <1>2, PTL DEF Spec

\* The invariant says that the streams are whole.
LEMMA WholeIs ==
  ASSUME Core, Flow
  PROVE  StreamsStayWhole
<1>1. Connected = JoinedIn(sockets)
  BY CoreParts, SetsAre
<1>2. CarriedAre(sockets, carries, streams)
  BY CoreParts
<1> SUFFICES ASSUME NEW i \in JoinedIn(sockets)
    PROVE  LET e == sockets[i].ends
               heard == streams[e.hears]
               said  == streams[e.says]
               host  == net.connections[sockets[i].edge]
           IN /\ carries[e.receive] = e.hears /\ carries[e.transmit] = e.says
              /\ IF sockets[i].edge = 0
                 THEN rings[e.receive].bytes = Numbers(heard.got, heard.sent - heard.got)
                 ELSE rings[e.receive].bytes \o host.incoming
                        = Numbers(heard.got, host.sent - heard.got)
              /\ rings[e.transmit].bytes = Numbers(said.got, said.sent - said.got)
  BY <1>1 DEF StreamsStayWhole
<1>3. carries[sockets[i].ends.receive] = sockets[i].ends.hears
      /\ carries[sockets[i].ends.transmit] = sockets[i].ends.says
  BY <1>2 DEF CarriedAre
<1>4. /\ SaidWhole(sockets, rings, streams, i)
      /\ sockets[i].edge = 0 => HeardHere(sockets, rings, streams, i)
      /\ sockets[i].edge # 0 => HeardThere(sockets, rings, streams, net.connections, i)
  BY DEF Flow, WholeAre
<1> QED BY <1>3, <1>4 DEF SaidWhole, HeardHere, HeardThere, Run

(* For any processes, descriptors, sockets, rings and lengths, whatever    *)
(* was closed, shut down, forked or reused before and however the pump,    *)
(* its batch and the host's threads fall between the calls: what a         *)
(* connection's ring holds, with what waits at the host, is what was sent  *)
(* and not yet taken, in its order and each byte once; and the rings it    *)
(* names carry its own two streams.                                        *)
THEOREM StreamsAreWhole == Spec => []StreamsStayWhole
<1>1. FlowInv => StreamsStayWhole
  BY WholeIs DEF FlowInv, Inv
<1> QED BY <1>1, FlowHolds, PTL

(* For any processes, descriptors, sockets and rings: once the guest has   *)
(* closed or half-closed a connection of the host, the peer has been sent  *)
(* everything the guest wrote before, since end_edge flushes the ring      *)
(* before it tells the host and the ring carries nothing after.            *)
THEOREM EveryReplyArrives == Spec => []RepliesArrive
<1>1. FlowInv => RepliesArrive
  BY DEF FlowInv, Flow, RepliedAre, RepliesArrive
<1> QED BY <1>1, FlowHolds, PTL

---------------------------------------------------------------------------
(* A hangup is final.                                                      *)

\* No end that is gone comes back on the rings of the connection i.
NoneReturns(i) ==
  LET e == sockets[i].ends
  IN /\ rings[e.receive].writers = 0 /\ e.hears \notin skewed => rings'[e.receive].writers = 0
     /\ rings[e.transmit].readers = 0 /\ e.says \notin skewed => rings'[e.transmit].readers = 0

\* Where nobody holds an end, no table gets one that names old sockets only.
LEMMA GoneFromTable ==
  ASSUME Core, NEW S, Count(files, sockets, S) = 0, NEW p \in Procs,
         Retabled(files, sockets, files', sockets', p)
  PROVE  Cardinality(TableOn(files[p], S)) = 0 /\ Cardinality(TableOn(files'[p], S)) = 0
<1>1. On(files, S) = {}
  <2>1. PICK A, B : A = On(files, S) /\ B = S \cap WaitingIn(sockets)
    OBVIOUS
  <2>2. IsFiniteSet(A) /\ Cardinality(A) \in Nat /\ Cardinality(B) \in Nat
    BY <2>1, OnFinite, WaitingFinite
  <2>3. Cardinality(A) + Cardinality(B) = 0
    BY <2>1 DEF Count
  <2>4. Cardinality(A) = 0
    BY <2>2, <2>3
  <2> QED BY <2>1, <2>2, <2>4, FS_EmptySet
<1>2. \A q \in Procs, fd \in Fds : files[q][fd] # NoFile => files[q][fd].socket \notin S
  <2> SUFFICES ASSUME NEW q \in Procs, NEW fd \in Fds, files[q][fd] # NoFile,
                      files[q][fd].socket \in S
               PROVE  FALSE
    OBVIOUS
  <2>1. PICK d : d = <<q, fd>>
    OBVIOUS
  <2>2. d \in Procs \X Fds /\ d[1] = q /\ d[2] = fd
    BY <2>1
  <2>3. d \in On(files, S)
    BY <2>2 DEF On
  <2> QED BY <1>1, <2>3
<1>3. TableOn(files[p], S) = {}
  BY <1>2 DEF TableOn
<1>4. \A fd \in Fds : files'[p][fd] # NoFile =>
        \E q \in Procs, e \in Fds : files[q][e] # NoFile /\ files[q][e].socket = files'[p][fd].socket
  BY DEF Retabled
<1>5. TableOn(files'[p], S) = {}
  BY <1>2, <1>4 DEF TableOn
<1>6. Cardinality({}) = 0
  BY FS_EmptySet
<1> QED BY <1>3, <1>5, <1>6

\* Descriptors are copied, never made anew: no end comes back.
LEMMA TablingFinal ==
  ASSUME Core, Tabling, NEW i \in JoinedIn(sockets)
  PROVE  NoneReturns(i)
<1>1. PICK p \in Procs : Tabled(p)
  BY DEF Tabling
<1>2. /\ Retabled(files, sockets, files', sockets', p)
      /\ RingsRetabled(rings, rings', files, sockets, files', p)
  BY <1>1 DEF Tabled
<1>3. PICK e : e = sockets[i].ends
  OBVIOUS
<1>4. e.receive \in Slots /\ e.transmit \in Slots
  BY <1>3, EndIs
<1>5. /\ carries[e.receive] = e.hears /\ e.hears # 0
      /\ carries[e.transmit] = e.says /\ e.says # 0
  BY <1>3, CoreParts DEF CarriedAre
<1>6. CountsAre(files, sockets, rings, streams, carries, skewed)
  BY CoreParts
<1>7. Adjusted(0, 0, 0) = 0
  BY DEF Adjusted
<1>8. ASSUME rings[e.receive].writers = 0, e.hears \notin skewed
      PROVE  rings'[e.receive].writers = 0
  <2>1. PICK S : S = Saying(sockets, e.receive)
    OBVIOUS
  <2>2. 0 = Count(files, sockets, S) + One(streams[carries[e.receive]].writes # 0)
    BY <1>4, <1>5, <1>6, <1>8, <2>1 DEF CountsAre
  <2>3. Count(files, sockets, S) \in Nat
    BY CountNat
  <2>4. Count(files, sockets, S) = 0
    BY <2>2, <2>3 DEF One
  <2>5. Cardinality(TableOn(files[p], S)) = 0 /\ Cardinality(TableOn(files'[p], S)) = 0
    BY <1>2, <2>4, GoneFromTable
  <2> QED BY <1>2, <1>4, <1>7, <1>8, <2>1, <2>5 DEF RingsRetabled
<1>9. ASSUME rings[e.transmit].readers = 0, e.says \notin skewed
      PROVE  rings'[e.transmit].readers = 0
  <2>1. PICK S : S = Hearing(sockets, e.transmit)
    OBVIOUS
  <2>2. 0 = Count(files, sockets, S) + One(streams[carries[e.transmit]].reads # 0)
    BY <1>4, <1>5, <1>6, <1>9, <2>1 DEF CountsAre
  <2>3. Count(files, sockets, S) \in Nat
    BY CountNat
  <2>4. Count(files, sockets, S) = 0
    BY <2>2, <2>3 DEF One
  <2>5. Cardinality(TableOn(files[p], S)) = 0 /\ Cardinality(TableOn(files'[p], S)) = 0
    BY <1>2, <2>4, GoneFromTable
  <2> QED BY <1>2, <1>4, <1>7, <1>9, <2>1, <2>5 DEF RingsRetabled
<1> QED BY <1>3, <1>8, <1>9 DEF NoneReturns

\* Ends that nobody opens again: none is where none was.
EndsFall(s) ==
  /\ rings[s].writers = 0 => rings'[s].writers = 0
  /\ rings[s].readers = 0 => rings'[s].readers = 0

\* No other step raises a count of a ring in use.
LEMMA OthersFall ==
  ASSUME Core, Moves, ~Tabling, NEW i \in JoinedIn(sockets),
         NEW s, s \in {sockets[i].ends.receive, sockets[i].ends.transmit}
  PROVE  EndsFall(s)
<1>1. s \in Slots
  BY EndIs
<1>2. CASE Resting \/ Host
  BY <1>2 DEF Resting, Host, PeerConnects, PeerSends, PeerFinishes, HostStep, EndsFall
<1>3. CASE Dropping
  BY <1>1, <1>3 DEF Dropping, EndsFall
<1>4. CASE Wiring
  <2>1. /\ Up \in Slots /\ Down \in Slots /\ rings[Up] = FreeRing /\ rings[Down] = FreeRing
        /\ s # Up /\ s # Down => rings'[s] = rings[s]
    BY <1>1, <1>4 DEF Wiring, Laid
  <2>2. s # Up /\ s # Down
    BY <2>1, CoreParts, FreeIsUnnamed
  <2> QED BY <2>1, <2>2 DEF EndsFall
<1>5. CASE Shutting
  <2>1. PICK j \in JoinedIn(sockets), rd \in BOOLEAN, wr \in BOOLEAN : ShutTo(sockets[j].ends, rd, wr)
    BY <1>5 DEF Shutting
  <2>2. SaturatingSub(0, 0) = 0 /\ SaturatingSub(0, 1) = 0
    BY DEF SaturatingSub
  <2> QED BY <1>1, <2>1, <2>2 DEF ShutTo, EndsFall
<1>6. CASE Puts \/ Takes
  BY <1>1, <1>6 DEF Puts, Takes, RingsStay, EndsFall
<1>7. CASE Draining
  <2>1. PICK j \in JoinedIn(sockets) :
          LET r == sockets[j].ends.receive IN
          /\ rings'[r].readers = rings[r].readers
          /\ rings'[r].writers \in {rings[r].writers, SaturatingSub(rings[r].writers, 1)}
          /\ \A t \in Slots : t # r => rings'[t] = rings[t]
    BY <1>7 DEF Draining
  <2>2. SaturatingSub(0, 1) = 0
    BY DEF SaturatingSub
  <2> QED BY <1>1, <2>1, <2>2 DEF EndsFall
<1>8. CASE Flush \/ Pump
  <2>1. RingsStay
    BY <1>8, FlushIs DEF Flush, Pump
  <2> QED BY <1>1, <2>1 DEF RingsStay, EndsFall
<1> QED BY <1>2, <1>3, <1>4, <1>5, <1>6, <1>7, <1>8 DEF Moves

\* No step brings an end back.
LEMMA HangupStays ==
  ASSUME Inv, [Next]_vars, NEW i \in JoinedIn(sockets)
  PROVE  NoneReturns(i)
<1>1. Core /\ Moves
  BY CoreStays DEF Inv
<1>2. CASE Tabling
  BY <1>1, <1>2, TablingFinal
<1>3. CASE ~Tabling
  BY <1>1, <1>3, OthersFall DEF EndsFall, NoneReturns
<1> QED BY <1>2, <1>3

\* What HangupIsFinal says of a step.
Final ==
  \A i \in Connected :
    LET e == sockets[i].ends
    IN  (sockets'[i] # NoSocket /\ sockets'[i].ends.hears = e.hears) =>
          /\ rings[e.receive].writers = 0 /\ e.hears \notin skewed =>
               rings'[e.receive].writers = 0
          /\ rings[e.transmit].readers = 0 /\ e.says \notin skewed =>
               rings'[e.transmit].readers = 0

(* For any processes, descriptors, sockets and rings: a connected socket   *)
(* that saw the last writer or the last reader at the other end go never   *)
(* sees one again, but for the streams that README.md's steps leave        *)
(* miscounted. A slot in use is not laid anew because Ring::attached       *)
(* counts who names it, and a table gets copies of descriptors somebody    *)
(* had.                                                                    *)
THEOREM HangupsAreFinal == Spec => HangupIsFinal
<1>1. Inv /\ [Next]_vars => [Final]_vars
  <2> SUFFICES ASSUME Inv, [Next]_vars PROVE Final
    OBVIOUS
  <2>1. Connected = JoinedIn(sockets)
    BY CoreParts, SetsAre DEF Inv
  <2> QED BY <2>1, HangupStays DEF Final, NoneReturns
<1>2. [][Final]_vars => HangupIsFinal
  BY DEF HangupIsFinal, Final
<1> QED BY <1>1, <1>2, CoreHolds, PTL DEF Spec
=============================================================================
