----------------------------- MODULE CarrierRecv -----------------------------
(***************************************************************************)
(* The receiving half of bridge_carrier, which puts what the carriers of   *)
(* other servers send into the receive channel of its own bridge.  One     *)
(* thread reads the connections; the server empties the channel at the     *)
(* same time.  A package that finds the channel full waits in a buffer of  *)
(* its client, and the next packages of this client behind it.             *)
(*                                                                         *)
(* A package is two cells of the stream, so that a read can end inside it. *)
(* The channel is the queue of packages that Ring implements.              *)
(***************************************************************************)
EXTENDS Integers, Sequences

CONSTANTS
  Client,         \* connections that come in
  MaxPkg,         \* BRIDGE_PACK_LEN
  MaxClientBuff,  \* MAX_CLIENT_BUFF_SIZE
  CacheLen,       \* cells that main_buff and back_buff take
  RecvRoom,       \* bytes that the receive channel takes
  VerifyTime,     \* seconds a client has to verify itself
  LastSecond,     \* bound of the clock
  Plans           \* what the peers that connect are going to send

\* main_buff takes more than a package: a megabyte against 100K.
ASSUME RecvConstantsOK ==
  /\ Client # {} /\ MaxPkg \in Nat \ {0} /\ MaxClientBuff \in Nat \ {0}
  /\ CacheLen \in Nat /\ CacheLen > 2 /\ RecvRoom \in Nat
  /\ VerifyTime \in Nat /\ LastSecond \in Nat

\* CR_MSG, INNER_PROTO but VERIFY_REQ, and a VERIFY_REQ with another key: the
\* client stays as it is.
Inner == {"cr_msg", "ping", "wrong_key"}
Kind == {"verify", "data", "broken"} \cup Inner
Numbered(kind, seq, size) == [kind |-> kind, seq |-> seq, size |-> size]
Pkg == [kind : Kind, seq : Nat, size : 1 .. MaxPkg]
Cell(p, last) == [pkg |-> p, last |-> last]

\* A peer numbers its packages as it sends them, so that of cells two apart
\* the first is of an earlier package.
Rising(q) == \A i, j \in 1 .. Len(q) : i + 2 <= j => q[i].pkg.seq < q[j].pkg.seq
ASSUME PlansOK ==
  \A plan \in Plans : DOMAIN plan \subseteq Client /\ \A c \in DOMAIN plan :
    plan[c] \in Seq([pkg : Pkg, last : BOOLEAN]) /\ Rising(plan[c])

VARIABLES
  clock,    \* time(NULL)
  peer,     \* [Client -> [at, todo, stream]]: the other carrier, the cells it
            \*  has still to send and those in the sockets
  client,   \* [Client -> client_info_t]
  turn,     \* where the thread is: [at, client, pkg]
  channel,  \* the receive channel: [pkgs, used]
  out       \* history: [Client -> what was put into the channel, by number]

recvVars == <<clock, peer, client, turn, channel, out>>

NoPkg == Numbered("broken", 0, 1)
Loop == [at |-> "loop", client |-> CHOOSE c \in Client : TRUE, pkg |-> NoPkg]
NoRecvBuffer == [pkgs |-> <<>>, tail |-> 0, len |-> 0]
NewClient(at, t) == [at |-> at, verify |-> FALSE, time |-> t, cache |-> <<>>,
                 recv_buffer |-> NoRecvBuffer, handled |-> 0, dropped |-> 0]

\* plan gives the cells that each peer that connects is going to send.
RecvInit(plan) ==
  /\ clock = 0
  /\ peer = [c \in Client |-> IF c \in DOMAIN plan
                               THEN [at |-> "up", todo |-> plan[c], stream |-> <<>>]
                               ELSE [at |-> "none", todo |-> <<>>, stream |-> <<>>]]
  /\ client = [c \in Client |-> NewClient("none", 0)]
  /\ turn = Loop
  /\ channel = [pkgs |-> <<>>, used |-> 0]
  /\ out = [c \in Client |-> <<>>]

-----------------------------------------------------------------------------
(* The peer, the server and time. *)

PeerSends(c) ==
  /\ peer[c].at = "up" /\ peer[c].todo # <<>>
  /\ peer' = [peer EXCEPT ![c].todo = Tail(@), ![c].stream = Append(@, Head(peer[c].todo))]
  /\ UNCHANGED <<clock, client, turn, channel, out>>

\* It closes after any byte; a reset also loses what was not read yet.
PeerCloses(c) ==
  /\ peer[c].at = "up"
  /\ \/ peer' = [peer EXCEPT ![c].at = "closed", ![c].todo = <<>>]
     \/ peer' = [peer EXCEPT ![c] = [at |-> "reset", todo |-> <<>>, stream |-> <<>>]]
  /\ UNCHANGED <<clock, client, turn, channel, out>>

ServerReads ==
  /\ channel.pkgs # <<>>
  /\ channel' = [pkgs |-> Tail(channel.pkgs), used |-> channel.used - Head(channel.pkgs).size]
  /\ UNCHANGED <<clock, peer, client, turn, out>>

Second ==
  /\ clock < LastSecond /\ clock' = clock + 1
  /\ UNCHANGED <<peer, client, turn, channel, out>>

-----------------------------------------------------------------------------
(* The main loop. *)

Free(c) == client' = [client EXCEPT ![c].at = "gone"]
Goes(at) == turn' = [turn EXCEPT !.at = at]

Accept(c) ==
  /\ turn.at = "loop" /\ client[c].at = "none" /\ peer[c].at # "none"
  /\ client' = [client EXCEPT ![c] = NewClient("open", clock)]
  /\ UNCHANGED <<clock, peer, turn, channel, out>>

\* EPOLLIN: read_client_socket.
Readable(c) ==
  /\ turn.at = "loop" /\ client[c].at = "open"
  /\ peer[c].stream # <<>> \/ peer[c].at # "up"
  /\ turn' = [turn EXCEPT !.at = "recv", !.client = c]
  /\ UNCHANGED <<clock, peer, client, channel, out>>

\* check_client_info frees the clients that took too long.
Late(c) ==
  client[c].at = "open" /\ ~client[c].verify /\ clock - client[c].time > VerifyTime
check_client_info ==
  /\ turn.at = "loop" /\ \E c \in Client : Late(c)
  /\ client' = [c \in Client |-> IF Late(c) THEN [client[c] EXCEPT !.at = "gone"] ELSE client[c]]
  /\ UNCHANGED <<clock, peer, turn, channel, out>>

\* The carrier dies and is started again; the channel is shared memory.
RecvRestart ==
  /\ turn' = Loop
  /\ client' = [c \in Client |-> IF client[c].at = "open" THEN [client[c] EXCEPT !.at = "gone"]
                                                         ELSE client[c]]
  /\ UNCHANGED <<clock, peer, channel, out>>

-----------------------------------------------------------------------------
(* read_client_socket, a recv and a package at a time. *)

\* recv takes what there is up to the end of the buffer; at the end of the
\* stream the client is freed, with what its recv_buffer holds.
Recv(c) ==
  LET n == IF Len(peer[c].stream) < CacheLen - Len(client[c].cache)
             THEN Len(peer[c].stream) ELSE CacheLen - Len(client[c].cache)
  IN
  /\ turn.at = "recv" /\ turn.client = c
  /\ \/ /\ peer[c].stream # <<>>
        /\ client' = [client EXCEPT ![c].cache = @ \o SubSeq(peer[c].stream, 1, n)]
        /\ peer' = [peer EXCEPT ![c].stream = SubSeq(@, n + 1, Len(@))]
        /\ Goes("unpack")
     \/ /\ peer[c].stream = <<>>
        /\ IF peer[c].at = "up" THEN UNCHANGED client ELSE Free(c)
        /\ Goes("loop") /\ UNCHANGED peer
  /\ UNCHANGED <<clock, channel, out>>

\* What is left of a package goes to the front of the other buffer.
Whole(q) == Len(q) >= 2
UnpackEnds(c) ==
  /\ turn.at = "unpack" /\ turn.client = c /\ ~Whole(client[c].cache)
  /\ Goes("recv")
  /\ UNCHANGED <<clock, peer, client, channel, out>>

Unpacked(cl) == [cl EXCEPT !.cache = Tail(Tail(@))]
Verified(cl) == [cl EXCEPT !.verify = TRUE]
Handled(cl) == [cl EXCEPT !.handled = @ + 1]
Dropped(cl) == [cl EXCEPT !.dropped = @ + 1]
WithBuffer(cl, b) == [cl EXCEPT !.recv_buffer = b]

\* A checksum that does not fit, or data of a client that is not verified,
\* ends the connection.
Unpack(c) ==
  LET p == Head(client[c].cache).pkg
      rest == Unpacked(client[c])
  IN
  /\ turn.at = "unpack" /\ turn.client = c /\ Whole(client[c].cache)
  /\ \/ /\ p.kind = "verify" /\ client' = [client EXCEPT ![c] = Verified(rest)] /\ UNCHANGED turn
     \/ /\ p.kind \in Inner /\ client' = [client EXCEPT ![c] = rest] /\ UNCHANGED turn
     \/ /\ p.kind = "broken" \/ (p.kind = "data" /\ ~client[c].verify)
        /\ Free(c) /\ Goes("loop")
     \/ /\ p.kind = "data" /\ client[c].verify
        /\ client' = [client EXCEPT ![c] = Handled(rest)]
        /\ turn' = [turn EXCEPT !.pkg = p,
                      !.at = IF rest.recv_buffer.pkgs # <<>> THEN "flush" ELSE "store"]
  /\ UNCHANGED <<clock, peer, channel, out>>

-----------------------------------------------------------------------------
(* recv_client_pkg. *)

\* append_recv_channel.
HasRoom(p) == channel.used + p.size <= RecvRoom
append_recv_channel(c, p) ==
  /\ HasRoom(p)
  /\ channel' = [pkgs |-> Append(channel.pkgs, p), used |-> channel.used + p.size]
  /\ out' = [out EXCEPT ![c] = Append(@, p.seq)]

\* Mutant of Drained: what was posted stays in the buffer.
KeptWhenDrained(b) == b
Drained(b) == [pkgs |-> Tail(b.pkgs), tail |-> b.tail - Head(b.pkgs).size, len |-> b.len]

\* flush_recving_buff tries the front package again and again: the -3 of a
\* full channel is neither of the codes that end its loop.  It ends when
\* there is nothing left, or when 20 ms are over.
flush_recving_buff(c) ==
  /\ turn.at = "flush" /\ turn.client = c
  /\ \/ /\ client[c].recv_buffer.pkgs # <<>>
        /\ append_recv_channel(c, Head(client[c].recv_buffer.pkgs))
        /\ client' = [client EXCEPT ![c] = WithBuffer(@, Drained(@.recv_buffer))]
        /\ UNCHANGED turn
     \/ Goes("store") /\ UNCHANGED <<client, channel, out>>
  /\ UNCHANGED <<clock, peer>>

\* expand_recv_buff.
Space(b) == b.len - b.tail
Expanded(b) == IF b.len < MaxClientBuff THEN [b EXCEPT !.len = @ + 2 * MaxPkg] ELSE b
RoomIn(b, p) == IF Space(b) < p.size THEN Expanded(b) ELSE b
PutIn(b, p) == [pkgs |-> Append(b.pkgs, p), tail |-> b.tail + p.size, len |-> b.len]

\* A package that the buffer cannot take is dropped, and counted.
Keep(c, p) ==
  LET b == RoomIn(client[c].recv_buffer, p) IN
  IF Space(b) >= p.size
    THEN client' = [client EXCEPT ![c] = WithBuffer(@, PutIn(b, p))]
    ELSE client' = [client EXCEPT ![c] = Dropped(@)]

\* Mutant of Deliver: a package may overtake those in the buffer.
DeliverFirst(c) ==
  /\ turn.at = "store" /\ turn.client = c
  /\ IF HasRoom(turn.pkg)
       THEN append_recv_channel(c, turn.pkg) /\ UNCHANGED client
       ELSE Keep(c, turn.pkg) /\ UNCHANGED <<channel, out>>
  /\ Goes("unpack") /\ UNCHANGED <<clock, peer>>

Deliver(c) ==
  /\ turn.at = "store" /\ turn.client = c
  /\ IF client[c].recv_buffer.pkgs = <<>> /\ HasRoom(turn.pkg)
       THEN append_recv_channel(c, turn.pkg) /\ UNCHANGED client
       ELSE Keep(c, turn.pkg) /\ UNCHANGED <<channel, out>>
  /\ Goes("unpack") /\ UNCHANGED <<clock, peer>>

-----------------------------------------------------------------------------
Thread(c) ==
  \/ Accept(c) \/ Readable(c) \/ Recv(c) \/ UnpackEnds(c) \/ Unpack(c)
  \/ flush_recving_buff(c) \/ Deliver(c)
Receiving ==
  \/ \E c \in Client : PeerSends(c) \/ PeerCloses(c) \/ Thread(c)
  \/ ServerReads \/ Second \/ check_client_info
RecvNext == Receiving \/ RecvRestart
RecvSpec == (\E plan \in Plans : RecvInit(plan)) /\ [][RecvNext]_recvVars

-----------------------------------------------------------------------------
\* Per connection, packages enter the channel in the order they were sent
\* and none twice, whether they went through recv_buffer, waited there while
\* the server made room, or found it; and only those of a client that has
\* verified itself.
InTurn ==
  \A c \in Client :
    /\ \A i, j \in 1 .. Len(out[c]) : i < j => out[c][i] < out[c][j]
    /\ out[c] # <<>> => client[c].verify

\* The packages that conn_traffic_t counts as handled are in the channel, in
\* recv_buffer, in hand or counted as dropped: none is lost in between while
\* the connection lives.
InHand(c) == IF turn.client = c /\ turn.at \in {"flush", "store"} THEN 1 ELSE 0
Accounted ==
  \A c \in Client :
    client[c].at = "open" =>
      client[c].handled = Len(out[c]) + Len(client[c].recv_buffer.pkgs) + client[c].dropped
                          + InHand(c)
=============================================================================
