------------------------------ MODULE TcpServ ------------------------------
(***************************************************************************)
(* servers/comm/tcp_serv.go: the listener of conn_serv.  Three kinds of    *)
(* goroutine share it:                                                     *)
(*                                                                         *)
(*   tcp_server   accepts, closes, dispatches what main sends              *)
(*   client.run   one per connection: reads and parses, then sends         *)
(*   main         the server's main loop: Recv, Send, Close                *)
(*                                                                         *)
(* They meet in channels (bounded, a push to a full one blocks) and in the *)
(* fields stat and snd_queue of a client.  The stream of a connection is a *)
(* sequence of cells: a package is two of them, its head and its data, so  *)
(* that a read can end inside a package.  A client key is the connection:  *)
(* two connections of one slot are taken to be made in different           *)
(* milliseconds (generate_client_key).                                     *)
(***************************************************************************)
EXTENDS Integers, Sequences, FiniteSets, SequencesExt

CONSTANTS
  Conn,        \* connections that will ever be made
  MaxConn,     \* len(client_list)
  RecvCap,     \* SERV_RECV_QUEUE
  SndCap,      \* SERV_SND_QUEUE
  ClientCap,   \* SND_QUEUE_LEN
  BatchCap,    \* MAX_PKG_PER_RECV
  NetCap,      \* cells a socket takes before a write times out
  MaxPkgLen,   \* MAX_PKG_LEN
  CacheBase,   \* CLIENT_RW_CACHE_BASE, in units of data length
  ShrinkFactor \* CLIENT_RW_CACHE_SHRINK_FACTOR

ASSUME TcpConstants ==
  /\ {MaxConn, RecvCap, SndCap, ClientCap, BatchCap, NetCap, MaxPkgLen, CacheBase,
      ShrinkFactor} \subseteq Nat \ {0}

VARIABLES
  pserv,        \* valid_conn # 0; enc_type "none", "gen" (DES, AES: the server
                \* makes the key) or "rsa"
  client_list,  \* slot -> connection
  curr_conn,
  key_map,      \* keys of client_key -> index
  close_ch,     \* slots of closing clients
  recv_queue,   \* queue_data: clients and tcp_server -> main
  snd_queue,    \* queue_data: main -> tcp_server
  exit_ch,
  serv,         \* tcp_server: where it is, packages left, the one it appends
  cl,           \* the tcp_client of a connection
  batch,        \* the pkgs of the last Recv that main has not handled
  net,          \* the sockets: state of the peer, cells to and from the server
  marred        \* history: what a connection's streams suffered

servVars == <<pserv, client_list, curr_conn, key_map, close_ch, snd_queue, exit_ch, serv>>
tcpVars == <<servVars, recv_queue, cl, batch, net, marred>>

NeedValid == pserv.valid_conn
EncType == pserv.enc_type

None == "none"
ASSUME NullKey == None \notin Conn
Slot == 1 .. MaxConn
Junk == [from |-> None, id |-> 0, len |-> 1, enc |-> None]
Zero == [op |-> None, data |-> Junk, part |-> "zero"]     \* a cell no one wrote
HeadLen == 1
Slack == 1         \* what the resize of snd_cache adds to GetPkgLen

\* queue_data
Item(c, op, data, info) == [key |-> c, op |-> op, data |-> data, info |-> info]
NoItem == Item(None, None, Junk, None)

NewClient == [stat |-> "normal", server_close |-> FALSE, valid |-> FALSE,
              enc |-> IF EncType = "gen" THEN "gen" ELSE None,
              recv_cache |-> <<>>, off |-> 0, snd_cache |-> <<>>, cap |-> CacheBase,
              snd_queue |-> <<>>, pc |-> "read", left |-> 0, item |-> NoItem]
Gone == [NewClient EXCEPT !.stat = "none", !.pc = "done"]

\* StartTcpServ
TcpInit(valid_conn, enc_type) ==
  /\ pserv = [valid_conn |-> valid_conn, enc_type |-> enc_type]
  /\ client_list = [s \in Slot |-> None] /\ curr_conn = 0 /\ key_map = {}
  /\ close_ch = <<>> /\ recv_queue = <<>> /\ snd_queue = <<>> /\ exit_ch = FALSE
  /\ serv = [pc |-> "accept", left |-> 0, item |-> NoItem]
  /\ cl = [c \in Conn |-> Gone] /\ batch = <<>>
  /\ net = [c \in Conn |-> [peer |-> "idle", up |-> <<>>, down |-> <<>>]]
  /\ marred = [c \in Conn |-> {}]

IndexOf(c) == CHOOSE s \in Slot : client_list[s] = c
Mar(c, what) == marred' = [marred EXCEPT ![c] = @ \cup what]

\* The cells of a package, and what UnPackPkg makes of the cells of a cache.
\* Cells out of step are read as whatever they happen to say.
Pkg(op, data) == <<[op |-> op, data |-> data, part |-> "head"],
                   [op |-> op, data |-> data, part |-> "data"]>>
Ready(op, data) == [ret |-> "pkg", op |-> op, data |-> data]
NotReady == [ret |-> "not ready", op |-> None, data |-> Junk]
Illegal == [ret |-> "illegal", op |-> None, data |-> Junk]
UnPack(raw) ==
  CASE raw = <<>> -> {NotReady}
    [] raw # <<>> /\ raw[1].part # "head" ->
         {NotReady, Illegal} \cup (IF Len(raw) > 1 THEN {Ready("normal", Junk)} ELSE {})
    [] raw # <<>> /\ raw[1].part = "head" /\ Len(raw) = 1 -> {NotReady}
    [] OTHER -> {Ready(raw[1].op, IF raw[2] = [raw[1] EXCEPT !.part = "data"]
                                    THEN raw[1].data ELSE Junk)}

-----------------------------------------------------------------------------
(* The pool of queue_data.  Recv gives an object back while main's package *)
(* still points to its buffer; whoever takes the object next overwrites    *)
(* what main has not handled yet.                                          *)

Reusable == {i \in 1 .. Len(batch) : batch[i].pooled}
GetBuffer(data) ==
  \/ UNCHANGED <<batch, marred>>
  \/ \E i \in Reusable :
       /\ batch' = [batch EXCEPT ![i].data = data, ![i].pooled = FALSE]
       /\ Mar(batch[i].key, {"reused"})

-----------------------------------------------------------------------------
(* tcp_server *)

\* A connection waits in the backlog: refused when the list is full.
Accept(c) ==
  /\ serv.pc = "accept" /\ ~exit_ch /\ net[c].peer = "pending"
  /\ serv' = [serv EXCEPT !.pc = "close"]
  /\ IF curr_conn >= MaxConn
       THEN /\ net' = [net EXCEPT ![c].peer = "refused"]
            /\ UNCHANGED <<client_list, curr_conn, key_map, cl>>
       ELSE LET s == CHOOSE s \in Slot : /\ client_list[s] = None
                                         /\ \A t \in 1 .. s - 1 : client_list[t] # None
            IN  /\ net' = [net EXCEPT ![c].peer = "open"]
                /\ client_list' = [client_list EXCEPT ![s] = c]
                /\ curr_conn' = curr_conn + 1
                /\ key_map' = key_map \cup {c}
                /\ cl' = [cl EXCEPT ![c] = NewClient]
  /\ UNCHANGED <<pserv, close_ch, recv_queue, snd_queue, exit_ch, batch, marred>>

\* Mutant of AcceptTimeout: it goes on to the next accept.
AcceptTimeoutAgain == serv.pc = "accept" /\ ~exit_ch /\ UNCHANGED tcpVars

AcceptTimeout ==
  /\ serv.pc = "accept" /\ ~exit_ch
  /\ serv' = [serv EXCEPT !.pc = "close"]
  /\ UNCHANGED <<pserv, client_list, curr_conn, key_map, close_ch, recv_queue, snd_queue, exit_ch,
                 cl, batch, net, marred>>

ServerStops ==
  /\ serv.pc = "accept" /\ exit_ch
  /\ serv' = [serv EXCEPT !.pc = "exited"]
  /\ UNCHANGED <<pserv, client_list, curr_conn, key_map, close_ch, recv_queue, snd_queue, exit_ch,
                 cl, batch, net, marred>>

\* A client the server closed itself is not reported to main.
TellsAlways(c) == TRUE
TellsMain(c) == ~cl[c].server_close

\* close_clients takes one closing client: main is told unless the server
\* itself closed it, which waits while recv_queue is full.
CloseClient ==
  /\ serv.pc = "close" /\ close_ch # <<>>
  /\ LET s == Head(close_ch)
         c == client_list[s]
     IN  /\ IF TellsMain(c)
              THEN /\ Len(recv_queue) < RecvCap
                   /\ recv_queue' = Append(recv_queue, Item(c, "normal", Junk, "close"))
              ELSE UNCHANGED recv_queue
         /\ net' = [net EXCEPT ![c].peer = "closed"]
         /\ cl' = [cl EXCEPT ![c].snd_cache = <<>>, ![c].recv_cache = <<>>]
         /\ key_map' = key_map \ {c}
         /\ client_list' = [client_list EXCEPT ![s] = None]
  /\ curr_conn' = curr_conn - 1 /\ close_ch' = Tail(close_ch)
  /\ UNCHANGED <<pserv, snd_queue, exit_ch, serv, batch, marred>>

CloseDone ==
  /\ serv.pc = "close" /\ close_ch = <<>>
  /\ serv' = [serv EXCEPT !.pc = "dispatch", !.left = Len(snd_queue)]
  /\ UNCHANGED <<pserv, client_list, curr_conn, key_map, close_ch, recv_queue, snd_queue, exit_ch,
                 cl, batch, net, marred>>

\* dispatch_send_pkg takes one package: dropped when its client is gone,
\* closing, or has no room (the check of append_send_data).
Dispatch ==
  /\ serv.pc = "dispatch" /\ serv.left > 0
  /\ LET p == Head(snd_queue)
         c == p.key
         drop == \/ c \notin key_map
                 \/ cl[c].stat = "closing"
                 \/ Len(cl[c].snd_queue) >= ClientCap
     IN  serv' = [pc |-> IF drop THEN "dispatch" ELSE "append", left |-> serv.left - 1,
                  item |-> IF drop THEN NoItem ELSE p]
  /\ snd_queue' = Tail(snd_queue)
  /\ UNCHANGED <<pserv, client_list, curr_conn, key_map, close_ch, recv_queue, exit_ch,
                 cl, batch, net, marred>>

\* ... and its push, which waits for room if the client filled the queue.
DispatchAppend ==
  /\ serv.pc = "append" /\ Len(cl[serv.item.key].snd_queue) < ClientCap
  /\ cl' = [cl EXCEPT ![serv.item.key].snd_queue = Append(@, serv.item)]
  /\ serv' = [serv EXCEPT !.pc = "dispatch", !.item = NoItem]
  /\ UNCHANGED <<pserv, client_list, curr_conn, key_map, close_ch, recv_queue, snd_queue, exit_ch,
                 batch, net, marred>>

DispatchDone ==
  /\ serv.pc = "dispatch" /\ serv.left = 0
  /\ serv' = [serv EXCEPT !.pc = "accept"]
  /\ UNCHANGED <<pserv, client_list, curr_conn, key_map, close_ch, recv_queue, snd_queue, exit_ch,
                 cl, batch, net, marred>>

-----------------------------------------------------------------------------
(* client.run: read, parse *)

\* Mutant of Closing: run goes on.
ClosingRunsOn(c, by_server) ==
  /\ cl' = [cl EXCEPT ![c].stat = "closing", ![c].server_close = by_server, ![c].pc = "read"]
  /\ close_ch' = Append(close_ch, IndexOf(c))

\* stat becomes CLOSING, the slot goes to close_ch and run ends.
Closing(c, by_server) ==
  /\ cl' = [cl EXCEPT ![c].stat = "closing", ![c].server_close = by_server,
                      ![c].pc = "done"]
  /\ close_ch' = Append(close_ch, IndexOf(c))

\* conn.Read returns n cells; read appends them and parses.
Read(c, n) ==
  /\ cl[c].pc = "read" /\ n <= Len(net[c].up)
  /\ cl' = [cl EXCEPT ![c].recv_cache = @ \o SubSeq(net[c].up, 1, n), ![c].off = 0,
                      ![c].pc = "parse"]
  /\ net' = [net EXCEPT ![c].up = SubSeq(@, n + 1, Len(@))]
  /\ UNCHANGED <<servVars, recv_queue, batch, marred>>

ReadTimeout(c) ==
  /\ cl[c].pc = "read" /\ net[c].up = <<>> /\ net[c].peer = "open"
  /\ cl' = [cl EXCEPT ![c].pc = "send"]
  /\ UNCHANGED <<servVars, recv_queue, batch, net, marred>>

ReadClosed(c) ==
  /\ cl[c].pc = "read" /\ net[c].up = <<>> /\ net[c].peer = "left"
  /\ Closing(c, FALSE)
  /\ UNCHANGED <<pserv, client_list, curr_conn, key_map, recv_queue, snd_queue, exit_ch, serv,
                 batch, net, marred>>

\* How decrypt of data can end.  The unpadding checks nothing: data of another
\* key is an error (no whole blocks), a panic, or no error and noise, which
\* still tells here by its enc of which key it is.
decrypt(c, data) ==
  IF EncType = "rsa" /\ cl[c].enc = None THEN {"error"}
  ELSE IF EncType = "none" \/ data.enc = cl[c].enc THEN {"ok"}
  ELSE {"ok", "error", "panic"}
CanEncrypt(c) == EncType = "rsa" => cl[c].enc # None

\* handle_spec_pkg: the client after it, and the answer (None: no answer).
Answer(op, enc) == [op |-> op, data |-> [from |-> "server", id |-> 0, len |-> 1, enc |-> enc]]
NoAnswer == [op |-> None, data |-> Junk]
handle_spec_pkg(me, op, data) ==
  CASE op = "echo" -> [me |-> me, ans |-> [op |-> op, data |-> data]]
    [] op = "valid" /\ NeedValid /\ data.enc # "pass" -> [me |-> me, ans |-> NoAnswer]
    [] op = "valid" /\ ~(NeedValid /\ data.enc # "pass") ->
         [me |-> [me EXCEPT !.valid = TRUE], ans |-> Answer(op, me.enc)]
    [] op = "nego" /\ (EncType # "rsa" \/ data.enc # "nego") ->
         [me |-> me, ans |-> Answer(op, "fail")]
    [] op = "nego" /\ ~(EncType # "rsa" \/ data.enc # "nego") ->
         [me |-> [me EXCEPT !.enc = "nego"], ans |-> Answer(op, "ok")]
    [] OTHER -> [me |-> me, ans |-> NoAnswer]

\* The cache once raw, what is left from off on, holds no whole package:
\* raw goes to the front of recv_cache, whose length stays what it was.
KeepRest(cache, off) ==
  LET raw == SubSeq(cache, off + 1, Len(cache))
  IN  IF off = 0 THEN cache ELSE raw \o SubSeq(cache, Len(raw) + 1, Len(cache))

\* What is left when the next package is taken from the cache; a cache that
\* is used up is emptied.
TakenKept(me, raw) == [me EXCEPT !.off = IF Len(raw) = 2 THEN 0 ELSE @ + 2]
Taken(me, raw) ==
  IF Len(raw) = 2 THEN [me EXCEPT !.recv_cache = <<>>, !.off = 0]
                  ELSE [me EXCEPT !.off = @ + 2]

Fits(u) == u.ret = "pkg" /\ u.data.len <= MaxPkgLen
Admitted(c, u) == Fits(u) /\ u.op = "normal" /\ (NeedValid => cl[c].valid)

\* One turn of the loop of flush_recv_cache.  A panic is recovered in read: the
\* cache keeps what was parsed, and the next read starts at its front again.
Parse(c) ==
  /\ cl[c].pc = "parse"
  /\ LET me == cl[c]
         raw == SubSeq(me.recv_cache, me.off + 1, Len(me.recv_cache))
         next == Taken(me, raw)
     IN  \E u \in UnPack(raw) :
       \/ /\ u.ret = "not ready"
          /\ cl' = [cl EXCEPT ![c].recv_cache = KeepRest(me.recv_cache, me.off),
                              ![c].off = 0, ![c].pc = "read"]
          /\ Mar(c, IF me.off > 0 /\ raw # <<>> THEN {"cut"} ELSE {})
          /\ UNCHANGED <<close_ch, recv_queue, batch>>
       \/ /\ \/ u.ret = "illegal"
             \/ Fits(u) /\ u.op = "normal" /\ ~Admitted(c, u)
             \/ Admitted(c, u) /\ "error" \in decrypt(c, u.data)
          /\ Closing(c, FALSE)
          /\ UNCHANGED <<recv_queue, batch, marred>>
       \/ /\ u.ret = "pkg" /\ ~Fits(u)
          /\ cl' = [cl EXCEPT ![c] = next]
          /\ UNCHANGED <<close_ch, recv_queue, batch, marred>>
       \/ /\ Fits(u) /\ u.op # "normal"
          /\ LET h == handle_spec_pkg(next, u.op, u.data)
                 drop == h.ans = NoAnswer \/ Len(me.snd_queue) >= ClientCap
             IN  cl' = [cl EXCEPT ![c] = [h.me EXCEPT
                          !.pc = IF drop THEN "parse" ELSE "append",
                          !.item = IF drop THEN NoItem
                                   ELSE Item(c, h.ans.op, h.ans.data, "normal")]]
          /\ UNCHANGED <<close_ch, recv_queue, batch, marred>>
       \/ /\ Admitted(c, u) /\ "panic" \in decrypt(c, u.data)
          /\ cl' = [cl EXCEPT ![c].off = 0, ![c].pc = "send"]
          /\ Mar(c, {"panicked"})
          /\ UNCHANGED <<close_ch, recv_queue, batch>>
       \/ /\ Admitted(c, u) /\ "ok" \in decrypt(c, u.data)
          /\ Len(recv_queue) < RecvCap
          /\ GetBuffer(u.data)
          /\ recv_queue' = Append(recv_queue, Item(c, "normal", u.data, "normal"))
          /\ cl' = [cl EXCEPT ![c] = next]
          /\ UNCHANGED close_ch
  /\ UNCHANGED <<pserv, client_list, curr_conn, key_map, snd_queue, exit_ch, serv, net>>

\* append_send_data of the client's own goroutine: the push after the check.
AppendOwn(c) ==
  /\ cl[c].pc = "append" /\ Len(cl[c].snd_queue) < ClientCap
  /\ cl' = [cl EXCEPT ![c].snd_queue = Append(@, cl[c].item), ![c].item = NoItem,
                      ![c].pc = "parse"]
  /\ UNCHANGED <<servVars, recv_queue, batch, net, marred>>

-----------------------------------------------------------------------------
(* client.run: send *)

\* What a write of all of the cache puts on the wire.
WrittenTwice(cache) == cache \o cache
Written(cache) == cache

\* flush_send_cache of cache by client me: all of it, the part the socket
\* takes before the timeout (the cache keeps all of it), or an error.
\* done and part are what me is afterwards.
Flush(c, cache, done, part) ==
  LET room == NetCap - Len(net[c].down)
      n == IF room < 0 THEN 0 ELSE room
  IN  \/ /\ net[c].peer = "open" /\ Len(cache) <= room
         /\ net' = [net EXCEPT ![c].down = @ \o Written(cache)]
         /\ cl' = [cl EXCEPT ![c] = [done EXCEPT !.snd_cache = <<>>]]
         /\ UNCHANGED <<marred, close_ch>>
      \/ /\ net[c].peer = "open" /\ n < Len(cache)
         /\ net' = [net EXCEPT ![c].down = @ \o SubSeq(cache, 1, n)]
         /\ cl' = [cl EXCEPT ![c] = [part EXCEPT !.snd_cache = cache]]
         /\ Mar(c, IF n > 0 THEN {"torn"} ELSE {})
         /\ UNCHANGED close_ch
      \/ /\ net[c].peer = "left"
         /\ Closing(c, FALSE)
         /\ UNCHANGED <<net, marred>>

\* The start of send: what an earlier turn left in the cache goes first.
SendFirst(c) ==
  /\ cl[c].pc = "send"
  /\ LET me == cl[c]
         go == [me EXCEPT !.pc = IF me.snd_queue = <<>> THEN "read" ELSE "out",
                          !.left = Len(me.snd_queue)]
     IN  IF me.snd_cache = <<>>
           THEN cl' = [cl EXCEPT ![c] = go] /\ UNCHANGED <<net, marred, close_ch>>
           ELSE Flush(c, me.snd_cache, go, [me EXCEPT !.pc = "read"])
  /\ UNCHANGED <<pserv, client_list, curr_conn, key_map, recv_queue, snd_queue, exit_ch, serv, batch>>

\* What goes into the package: normal data is encrypted with the client's key.
Unencrypted(me, p) == p.data
Encrypted(me, p) == IF p.op = "normal" THEN [p.data EXCEPT !.enc = me.enc] ELSE p.data

\* One turn of the loop of send.
SendPkg(c) ==
  /\ cl[c].pc = "out" /\ cl[c].left > 0
  /\ LET p == Head(cl[c].snd_queue)
         me == [cl[c] EXCEPT !.snd_queue = Tail(@), !.left = @ - 1]
         cap == IF me.cap < p.data.len THEN p.data.len + HeadLen + Slack ELSE me.cap
     IN  \/ /\ p.info = "close"
            /\ Closing(c, TRUE)
            /\ UNCHANGED <<net, marred>>
         \/ /\ p.info # "close" /\ p.op = "normal" /\ ~CanEncrypt(c)
            /\ cl' = [cl EXCEPT ![c] = me]
            /\ UNCHANGED <<net, marred, close_ch>>
         \/ /\ p.info # "close" /\ (p.op = "normal" => CanEncrypt(c))
            /\ cap < p.data.len + HeadLen              \* PackPkg: -2, break
            /\ cl' = [cl EXCEPT ![c] = [me EXCEPT !.left = 0]]
            /\ UNCHANGED <<net, marred, close_ch>>
         \/ /\ p.info # "close" /\ (p.op = "normal" => CanEncrypt(c))
            /\ cap >= p.data.len + HeadLen
            /\ Flush(c, Pkg(p.op, Encrypted(me, p)), [me EXCEPT !.cap = cap],
                     [me EXCEPT !.cap = cap, !.left = 0])
  /\ UNCHANGED <<pserv, client_list, curr_conn, key_map, recv_queue, snd_queue, exit_ch, serv, batch>>

\* The end of send: an empty cache that grew is halved, and the new one is
\* made with its whole length in use.
SendEnd(c) ==
  /\ cl[c].pc = "out" /\ cl[c].left = 0
  /\ LET me == cl[c]
         half == IF me.cap \div 2 < CacheBase THEN CacheBase ELSE me.cap \div 2
         shrink == me.snd_cache = <<>> /\ me.cap > ShrinkFactor * CacheBase
     IN  cl' = [cl EXCEPT ![c] = [me EXCEPT
                  !.pc = "read",
                  !.cap = IF shrink THEN half ELSE @,
                  !.snd_cache = IF shrink THEN <<Zero>> ELSE @]]
  /\ UNCHANGED <<servVars, recv_queue, batch, net, marred>>

-----------------------------------------------------------------------------
(* The interface main uses *)

\* Recv: up to BatchCap packages; each queue_data goes back to the pool.
Recv ==
  /\ batch = <<>> /\ recv_queue # <<>>
  /\ LET n == IF Len(recv_queue) < BatchCap THEN Len(recv_queue) ELSE BatchCap
     IN  /\ batch' = [i \in 1 .. n |-> [key |-> recv_queue[i].key, info |-> recv_queue[i].info,
                                        data |-> recv_queue[i].data, pooled |-> TRUE]]
         /\ recv_queue' = SubSeq(recv_queue, n + 1, Len(recv_queue))
  /\ UNCHANGED <<servVars, cl, net, marred>>

\* Send of data to key c; info "close" asks to close the connection.
Send(c, data, info) ==
  /\ IF Len(snd_queue) >= SndCap \/ data.len >= MaxPkgLen
       THEN UNCHANGED <<snd_queue, batch, marred>>
       ELSE /\ GetBuffer(data)
            /\ snd_queue' = Append(snd_queue, Item(c, "normal", data, info))
  /\ UNCHANGED <<pserv, client_list, curr_conn, key_map, close_ch, recv_queue, exit_ch, serv, cl, net>>

Close ==
  /\ ~exit_ch
  /\ exit_ch' = TRUE
  /\ UNCHANGED <<pserv, client_list, curr_conn, key_map, close_ch, recv_queue, snd_queue, serv, cl,
                 batch, net, marred>>

TcpServer ==
  \/ \E c \in Conn : Accept(c)
  \/ AcceptTimeout \/ ServerStops \/ CloseClient \/ CloseDone
  \/ Dispatch \/ DispatchAppend \/ DispatchDone
Run(c) ==
  \/ \E n \in 1 .. Len(net[c].up) : Read(c, n)
  \/ ReadTimeout(c) \/ ReadClosed(c) \/ Parse(c) \/ AppendOwn(c)
  \/ SendFirst(c) \/ SendPkg(c) \/ SendEnd(c)
=============================================================================
