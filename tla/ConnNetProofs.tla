--------------------------- MODULE ConnNetProofs ---------------------------
(***************************************************************************)
(* What holds of the front of conn_serv in every state, whatever the       *)
(* number of connections, the capacities of the queues and the plans of    *)
(* the clients:                                                            *)
(*                                                                         *)
(*   Slots   the slots, the key map and close_ch agree                     *)
(*   Ends    the end of a connection is told last and at most once         *)
(*                                                                         *)
(* what both ends of a connection know of its key (AlwaysKeys),            *)
(* and of the package format they share: what PackPkg makes, UnPackPkg     *)
(* gives back from any stream it starts (RoundTrip), and no part of it is  *)
(* taken for a package (Prefix, Predicted).                                *)
(***************************************************************************)
EXTENDS ConnNet, NetPkg, TLAPS, FiniteSetTheorems, WellFoundedInduction, SequenceTheorems,
        FunctionTheorems

-----------------------------------------------------------------------------
(* Types. *)

Encs == {None, "gen", "nego", "pass", "ok", "fail"} \cup {o[2] : o \in OtherOps}
Ops == {None, "normal", "valid", "nego", "echo"} \cup {o[1] : o \in OtherOps}
Datas == [from : Conn \cup {None, "server"}, id : Int, len : Nat, enc : Encs]
Cells == [op : Ops, data : Datas, part : {"head", "data", "zero"}]
Items == [key : Conn, op : Ops, data : Datas, info : {"normal", "close"}]
Packages == [key : Conn, info : {"normal", "close"}, data : Datas, pooled : BOOLEAN]
ClientType ==
  [stat : {"none", "normal", "closing"}, server_close : BOOLEAN, valid : BOOLEAN, enc : Encs,
   recv_cache : Seq(Cells), off : Nat, snd_cache : Seq(Cells), cap : Nat, snd_queue : Seq(Items),
   pc : {"read", "parse", "append", "send", "out", "done"}, left : Nat,
   item : Items \cup {NoItem}]
ServType ==
  [pc : {"accept", "close", "dispatch", "append", "exited"}, left : Nat, item : Items \cup {NoItem}]
PeerType ==
  [peer : {"idle", "pending", "refused", "open", "left", "closed"}, up : Seq(Cells), down : Seq(Cells)]
CliType ==
  [method : {"interface", "command", "simple", "press", "other", "absent"},
   enc_type : {"unknown", "none", "gen", "rsa"}, enc_key : Encs, enc_block : Encs,
   asks : Nat, sent : Nat, main : {"start", "wait", "valid", "loop", "lost", "done", "exited"},
   reads : BOOLEAN, got : Seq(Datas)]
MainType == [handled : Seq(Datas), answers : Seq(Nat), reported : Nat, closes : BOOLEAN]

QueuesTyped ==
  /\ client_list \in [Slot -> Conn \cup {None}] /\ curr_conn \in Int /\ key_map \in SUBSET Conn
  /\ close_ch \in Seq(Slot) /\ recv_queue \in Seq(Items) /\ snd_queue \in Seq(Items)
  /\ exit_ch \in BOOLEAN /\ batch \in Seq(Packages)
ServTyped ==
  /\ serv \in ServType
  /\ serv.pc = "append" => serv.item \in Items
  /\ serv.pc \in {"dispatch", "append"} => serv.left <= Len(snd_queue)
Own(me, c) ==
  /\ me.pc = "append" => me.item \in Items /\ me.item.key = c /\ me.item.op # "normal"
  /\ me.pc = "out" => me.left <= Len(me.snd_queue)
PservTyped == pserv \in [valid_conn : BOOLEAN, enc_type : {"none", "gen", "rsa"}]
ClientsTyped == cl \in [Conn -> ClientType] /\ \A c \in Conn : Own(cl[c], c)
NetTyped == net \in [Conn -> PeerType]
MarredTyped == marred \in [Conn -> SUBSET {"reused", "cut", "torn", "panicked"}]
CliTyped == cli \in [Conn -> CliType]
MainTyped == main \in [Conn -> MainType]
Typed ==
  /\ PservTyped /\ QueuesTyped /\ ServTyped /\ ClientsTyped /\ NetTyped /\ MarredTyped
  /\ CliTyped /\ MainTyped

LEMMA Null ==
  /\ Junk \in Datas /\ NoItem \notin Items /\ NoItem.key = None
  /\ Zero \in Cells
BY NullKey DEF Junk, NoItem, Item, Items, Datas, Encs, Ops, Cells, Zero, None

LEMMA ItemIs ==
  ASSUME NEW c \in Conn, NEW op \in Ops, NEW data \in Datas, NEW info \in {"normal", "close"}
  PROVE  /\ Item(c, op, data, info) \in Items
         /\ Item(c, op, data, info).key = c /\ Item(c, op, data, info).op = op
         /\ Item(c, op, data, info).data = data /\ Item(c, op, data, info).info = info
BY DEF Item, Items

LEMMA PkgIs ==
  ASSUME NEW op \in Ops, NEW data \in Datas
  PROVE  /\ Pkg(op, data) \in Seq(Cells) /\ Len(Pkg(op, data)) = 2
         /\ Pkg(op, data)[1] = [op |-> op, data |-> data, part |-> "head"]
         /\ Pkg(op, data)[2] = [op |-> op, data |-> data, part |-> "data"]
BY DEF Pkg, Cells

LEMMA Cut ==
  ASSUME NEW S, NEW q \in Seq(S), NEW n \in Nat
  PROVE  /\ SubSeq(q, n + 1, Len(q)) \in Seq(S)
         /\ n <= Len(q) => SubSeq(q, 1, n) \in Seq(S)
OBVIOUS

LEMMA LenIs ==
  ASSUME NEW S, NEW q \in Seq(S)
  PROVE  /\ Len(q) \in Nat /\ (q # <<>> => Len(q) > 0)
         /\ q # <<>> /\ Len(q) # 1 => Len(q) >= 2
<1>1. Len(q) \in Nat /\ (q # <<>> => Len(q) # 0)
  OBVIOUS
<1> DEFINE n == Len(q)
<1>2. n \in Nat /\ (q # <<>> => n # 0)
  BY <1>1
<1> HIDE DEF n
<1>3. n \in Nat /\ (n # 0 => n > 0) /\ (n # 0 /\ n # 1 => n >= 2)
  BY <1>2
<1> QED
  BY <1>2, <1>3 DEF n

LEMMA UnPackIs ==
  ASSUME NEW raw \in Seq(Cells), NEW u \in UnPack(raw)
  PROVE  /\ u.ret \in {"pkg", "not ready", "illegal"} /\ u.op \in Ops /\ u.data \in Datas
         /\ u.ret = "pkg" => Len(raw) >= 2
<1>8. /\ Len(raw) \in Nat /\ (raw # <<>> => Len(raw) > 0)
      /\ raw # <<>> /\ Len(raw) # 1 => Len(raw) >= 2
  BY LenIs
<1>0. None \in Ops /\ "normal" \in Ops /\ Junk \in Datas
  BY Null DEF Ops
<1>1. NotReady.ret = "not ready" /\ NotReady.op = None /\ NotReady.data = Junk
  BY DEF NotReady
<1>2. Illegal.ret = "illegal" /\ Illegal.op = None /\ Illegal.data = Junk
  BY DEF Illegal
<1>3. \A op, data : /\ Ready(op, data).ret = "pkg" /\ Ready(op, data).op = op
                    /\ Ready(op, data).data = data
  BY DEF Ready
<1>4. CASE raw = <<>>
  BY <1>0, <1>1, <1>4 DEF UnPack
<1>5. CASE raw # <<>> /\ raw[1].part # "head"
  <2>1. \/ u = NotReady \/ u = Illegal
        \/ u = Ready("normal", Junk) /\ Len(raw) > 1
    BY <1>5 DEF UnPack
  <2>2. Len(raw) > 1 => Len(raw) >= 2
    BY <1>8
  <2>3. CASE u = NotReady \/ u = Illegal
    BY <1>0, <1>1, <1>2, <2>3
  <2>4. CASE u = Ready("normal", Junk) /\ Len(raw) > 1
    <3>1. u.ret = "pkg" /\ u.op = "normal" /\ u.data = Junk
      BY <1>3, <2>4
    <3>2. Len(raw) >= 2
      BY <2>2, <2>4
    <3> QED
      BY <1>0, <3>1, <3>2
  <2> QED
    BY <2>1, <2>3, <2>4
<1>6. CASE raw # <<>> /\ raw[1].part = "head" /\ Len(raw) = 1
  BY <1>0, <1>1, <1>6 DEF UnPack
<1>7. CASE raw # <<>> /\ raw[1].part = "head" /\ Len(raw) # 1
  <2>1. Len(raw) \in Nat /\ Len(raw) >= 2
    BY <1>7, <1>8, Zenon
  <2>2. raw[1] \in Cells
    BY <2>1, ElementOfSeq
  <2>3. u = Ready(raw[1].op, IF raw[2] = [raw[1] EXCEPT !.part = "data"] THEN raw[1].data ELSE Junk)
    BY <1>7 DEF UnPack
  <2>4. raw[1].op \in Ops /\ raw[1].data \in Datas
    BY <2>2 DEF Cells
  <2>5. u.ret = "pkg" /\ u.op = raw[1].op
        /\ u.data = IF raw[2] = [raw[1] EXCEPT !.part = "data"] THEN raw[1].data ELSE Junk
    BY <1>3, <2>3
  <2> QED
    BY <1>0, <2>1, <2>4, <2>5
<1> QED
  BY <1>4, <1>5, <1>6, <1>7

LEMMA Consts ==
  /\ MaxConn \in Nat /\ RecvCap \in Nat /\ SndCap \in Nat /\ ClientCap \in Nat
  /\ BatchCap \in Nat /\ NetCap \in Nat /\ MaxPkgLen \in Nat /\ CacheBase \in Nat
  /\ MaxConn > 0 /\ BatchCap > 0 /\ MaxPkgLen > 0 /\ ShrinkFactor \in Nat
BY TcpConstants

LEMMA NewClientTyped ==
  ASSUME pserv.enc_type \in {"none", "gen", "rsa"}
  PROVE  NewClient \in ClientType /\ Gone \in ClientType
<1>1. (IF EncType = "gen" THEN "gen" ELSE None) \in Encs
  BY DEF Encs
<1> DEFINE enc == IF EncType = "gen" THEN "gen" ELSE None
<1> HIDE DEF enc
<1>2. [stat |-> "normal", server_close |-> FALSE, valid |-> FALSE, enc |-> enc,
       recv_cache |-> <<>>, off |-> 0, snd_cache |-> <<>>, cap |-> CacheBase,
       snd_queue |-> <<>>, pc |-> "read", left |-> 0, item |-> NoItem] \in ClientType
  BY <1>1, Consts DEF ClientType, enc
<1>3. NewClient \in ClientType
  BY <1>2 DEF NewClient, enc
<1> QED
  BY <1>3 DEF Gone, ClientType

LEMMA InitTyped == ConnNetInit => Typed
<1> SUFFICES ASSUME NEW s \in Scenarios,
                    TcpInit(s.valid_conn, s.enc_type), GameInit(s.method, s.asks),
                    main = [c \in Conn |-> [handled |-> <<>>, answers |-> s.answers[c], reported |-> 0,
                               closes |-> s.closes[c]]]
             PROVE  Typed
  BY DEF ConnNetInit
<1>1. PservTyped
  BY ScenariosOK DEF TcpInit, PservTyped
<1>2. QueuesTyped
  <2>1. client_list \in [Slot -> Conn \cup {None}]
    BY DEF TcpInit
  <2>2. curr_conn \in Int
    BY DEF TcpInit
  <2>4. key_map \in SUBSET Conn
    BY DEF TcpInit
  <2>5. exit_ch \in BOOLEAN
    BY DEF TcpInit
  <2>3. close_ch \in Seq(Slot) /\ recv_queue \in Seq(Items) /\ snd_queue \in Seq(Items) /\ batch \in Seq(Packages)
    BY DEF TcpInit
  <2> QED
    BY <2>1, <2>2, <2>3, <2>4, <2>5 DEF QueuesTyped
<1>3. ServTyped
  BY DEF TcpInit, ServTyped, ServType
<1>4. ClientsTyped
  BY <1>1, NewClientTyped DEF TcpInit, PservTyped, ClientsTyped, Own, Gone, NewClient
<1>5. NetTyped
  BY DEF TcpInit, PeerType, NetTyped
<1>6. MarredTyped
  BY DEF TcpInit, MarredTyped
<1>7. CliTyped
  BY ScenariosOK DEF GameInit, CliType, Encs, CliTyped
<1>8. MainTyped
  BY ScenariosOK DEF MainType, MainTyped
<1> QED
  BY <1>1, <1>2, <1>3, <1>4, <1>5, <1>6, <1>7, <1>8 DEF Typed

-----------------------------------------------------------------------------
(* Slots. *)

Used == {s \in Slot : client_list[s] # None}
ClosingSlots == {s \in Used : cl[client_list[s]].stat = "closing"}
Listed ==
  /\ key_map = {client_list[s] : s \in Used}
  /\ \A s, t \in Used : client_list[s] = client_list[t] => s = t
  /\ curr_conn = Cardinality(Used)
Stations ==
  \A c \in Conn :
    /\ cl[c].pc = "done" <=> cl[c].stat # "normal"
    /\ cl[c].stat # "none" => net[c].peer \in {"open", "left", "closed"}
    /\ c \in key_map => net[c].peer \in {"open", "left"} /\ cl[c].stat # "none"
    /\ c \notin key_map => cl[c].stat # "normal"
    /\ cli[c].main = "start" => net[c].peer = "idle"
Waiting ==
  /\ \A i, j \in 1 .. Len(close_ch) : close_ch[i] = close_ch[j] => i = j
  /\ \A i \in 1 .. Len(close_ch) : close_ch[i] \in ClosingSlots
  /\ \A s \in ClosingSlots : \E i \in 1 .. Len(close_ch) : close_ch[i] = s
SlotsInv == Listed /\ Stations /\ Waiting


LEMMA IndexIs ==
  ASSUME Typed, Listed, Stations, NEW c \in Conn, cl[c].stat = "normal"
  PROVE  IndexOf(c) \in Used /\ client_list[IndexOf(c)] = c
<1>1. c \in key_map
  BY DEF Stations
<1>2. PICK s \in Used : client_list[s] = c
  BY <1>1 DEF Listed
<1>3. \E t \in Slot : client_list[t] = c
  BY <1>2 DEF Used
<1>4. IndexOf(c) \in Slot /\ client_list[IndexOf(c)] = c
  BY <1>3 DEF IndexOf
<1> QED
  BY <1>4, NullKey DEF Used

LEMMA HeadWaits ==
  ASSUME Typed, Waiting, close_ch # <<>>
  PROVE  /\ Head(close_ch) \in Used /\ client_list[Head(close_ch)] \in Conn
         /\ cl[client_list[Head(close_ch)]].stat = "closing"
<1>1. close_ch \in Seq(Slot) /\ 1 \in 1 .. Len(close_ch) /\ Head(close_ch) = close_ch[1]
  BY DEF Typed, QueuesTyped
<1>2. Head(close_ch) \in ClosingSlots
  BY <1>1 DEF Waiting
<1>3. client_list \in [Slot -> Conn \cup {None}]
  BY DEF Typed, QueuesTyped
<1> QED
  BY <1>2, <1>3 DEF ClosingSlots, Used

LEMMA ClientSet ==
  ASSUME ClientsTyped, NEW c \in Conn, NEW r \in ClientType, Own(r, c), cl' = [cl EXCEPT ![c] = r]
  PROVE  ClientsTyped'
BY DEF ClientsTyped

LEMMA PeerSet ==
  ASSUME NetTyped, NEW c \in Conn, NEW p,
         p \in {"idle", "pending", "refused", "open", "left", "closed"},
         net' = [net EXCEPT ![c].peer = p]
  PROVE  NetTyped'
BY DEF NetTyped, PeerType

\* What an action leaves alone keeps its type.
LEMMA KeptTyped ==
  /\ PservTyped /\ UNCHANGED pserv => PservTyped'
  /\ ServTyped /\ UNCHANGED <<serv, snd_queue>> => ServTyped'
  /\ ClientsTyped /\ UNCHANGED cl => ClientsTyped'
  /\ NetTyped /\ UNCHANGED net => NetTyped'
  /\ MarredTyped /\ UNCHANGED marred => MarredTyped'
  /\ CliTyped /\ UNCHANGED cli => CliTyped'
  /\ MainTyped /\ UNCHANGED main => MainTyped'
  /\ /\ QueuesTyped
     /\ UNCHANGED <<client_list, curr_conn, key_map, close_ch, recv_queue, snd_queue, exit_ch, batch>>
     => QueuesTyped'
BY DEF PservTyped, ServTyped, ClientsTyped, NetTyped, MarredTyped, CliTyped, MainTyped, QueuesTyped

LEMMA AcceptTyped ==
  ASSUME Typed, NEW c \in Conn, Accept(c), UNCHANGED <<cli, main>>
  PROVE  Typed'
<1>1. /\ serv' = [serv EXCEPT !.pc = "close"]
      /\ UNCHANGED <<pserv, close_ch, recv_queue, snd_queue, exit_ch, batch, marred>>
  BY DEF Accept
<1>2. ServTyped'
  BY <1>1 DEF Typed, ServTyped, ServType
<1>3. CASE curr_conn >= MaxConn
  <2>1. net' = [net EXCEPT ![c].peer = "refused"] /\ UNCHANGED <<client_list, curr_conn, key_map, cl>>
    BY <1>3 DEF Accept
  <2> QED
    BY <1>1, <1>2, <2>1, PeerSet, KeptTyped DEF Typed
<1>4. CASE ~(curr_conn >= MaxConn)
  <2> DEFINE s == CHOOSE s \in Slot : /\ client_list[s] = None
                                      /\ \A t \in 1 .. s - 1 : client_list[t] # None
  <2>1. /\ net' = [net EXCEPT ![c].peer = "open"] /\ client_list' = [client_list EXCEPT ![s] = c]
        /\ curr_conn' = curr_conn + 1 /\ key_map' = key_map \cup {c}
        /\ cl' = [cl EXCEPT ![c] = NewClient]
    BY <1>4 DEF Accept
  <2> HIDE DEF s
  <2>2. NewClient \in ClientType /\ Own(NewClient, c)
    BY NewClientTyped DEF NewClient, Own, Typed, PservTyped
  <2>3. ClientsTyped'
    BY <2>1, <2>2, ClientSet DEF Typed
  <2>4. NetTyped'
    BY <2>1, PeerSet DEF Typed
  <2>5. client_list' \in [Slot -> Conn \cup {None}]
    BY <2>1 DEF Typed, QueuesTyped
  <2>6. curr_conn' \in Int
    BY <2>1 DEF Typed, QueuesTyped
  <2>7. key_map' \in SUBSET Conn
    BY <2>1 DEF Typed, QueuesTyped
  <2>8. QueuesTyped'
    BY <1>1, <2>5, <2>6, <2>7 DEF Typed, QueuesTyped
  <2> QED
    BY <1>1, <1>2, <2>3, <2>4, <2>8, KeptTyped DEF Typed
<1> QED
  BY <1>3, <1>4

LEMMA CloseClientTyped ==
  ASSUME Typed, Waiting, CloseClient, UNCHANGED <<cli, main>>
  PROVE  Typed'
<1> DEFINE s == Head(close_ch)
           c == client_list[s]
           me == [cl[c] EXCEPT !.snd_cache = <<>>, !.recv_cache = <<>>]
<1>1. c \in Conn /\ s \in Slot
  BY HeadWaits DEF CloseClient, Used
<1>2. /\ net' = [net EXCEPT ![c].peer = "closed"]
      /\ cl' = [cl EXCEPT ![c].snd_cache = <<>>, ![c].recv_cache = <<>>]
      /\ key_map' = key_map \ {c} /\ client_list' = [client_list EXCEPT ![s] = None]
      /\ curr_conn' = curr_conn - 1 /\ close_ch' = Tail(close_ch)
      /\ \/ recv_queue' = Append(recv_queue, Item(c, "normal", Junk, "close"))
         \/ UNCHANGED recv_queue
      /\ close_ch # <<>>
      /\ UNCHANGED <<pserv, snd_queue, exit_ch, serv, batch, marred>>
  BY DEF CloseClient
<1> HIDE DEF s, c
<1>3. cl[c] \in ClientType /\ Own(cl[c], c)
  BY <1>1 DEF Typed, ClientsTyped
<1>4. me \in ClientType /\ me.pc = cl[c].pc /\ me.item = cl[c].item /\ me.left = cl[c].left
      /\ me.snd_queue = cl[c].snd_queue
  BY <1>3, EmptySeq DEF ClientType
<1>5. Own(me, c)
  BY <1>3, <1>4 DEF Own
<1>6. cl' = [cl EXCEPT ![c] = me]
  BY <1>1, <1>2 DEF Typed, ClientsTyped
<1> HIDE DEF me
<1>7. ClientsTyped'
  BY <1>1, <1>4, <1>5, <1>6, ClientSet DEF Typed
<1>8. NetTyped'
  BY <1>1, <1>2, PeerSet DEF Typed
<1>9. Item(c, "normal", Junk, "close") \in Items
  BY <1>1, ItemIs, Null DEF Ops
<1>10. recv_queue' \in Seq(Items)
  <2>1. recv_queue \in Seq(Items)
    BY DEF Typed, QueuesTyped
  <2>2. recv_queue' = recv_queue \/ recv_queue' = Append(recv_queue, Item(c, "normal", Junk, "close"))
    BY <1>2
  <2> QED
    BY <1>9, <2>1, <2>2, AppendProperties
<1>11. close_ch' \in Seq(Slot)
  BY <1>2 DEF Typed, QueuesTyped
<1>12. client_list' \in [Slot -> Conn \cup {None}]
  BY <1>2 DEF Typed, QueuesTyped
<1>13. curr_conn' \in Int
  BY <1>2 DEF Typed, QueuesTyped
<1>14. key_map' \in SUBSET Conn
  BY <1>2 DEF Typed, QueuesTyped
<1>15. QueuesTyped'
  BY <1>2, <1>10, <1>11, <1>12, <1>13, <1>14 DEF Typed, QueuesTyped
<1> QED
  BY <1>2, <1>7, <1>8, <1>15, KeptTyped DEF Typed


LEMMA ServKept ==
  ASSUME ServTyped, NEW p \in {"accept", "close", "exited"}, serv' = [serv EXCEPT !.pc = p]
  PROVE  ServTyped'
BY DEF ServTyped, ServType

LEMMA TurnTyped ==
  ASSUME Typed, AcceptTimeout \/ ServerStops \/ CloseDone \/ DispatchDone, UNCHANGED <<cli, main>>
  PROVE  Typed'
<1>1. UNCHANGED <<pserv, client_list, curr_conn, key_map, close_ch, recv_queue, snd_queue, exit_ch,
                  cl, batch, net, marred>>
  BY DEF AcceptTimeout, ServerStops, CloseDone, DispatchDone
<1>2. CASE AcceptTimeout \/ ServerStops \/ DispatchDone
  <2>1. \E p \in {"accept", "close", "exited"} : serv' = [serv EXCEPT !.pc = p]
    BY <1>2 DEF AcceptTimeout, ServerStops, DispatchDone
  <2> QED
    BY <1>1, <2>1, ServKept, KeptTyped DEF Typed
<1>3. CASE CloseDone
  <2>1. serv' = [serv EXCEPT !.pc = "dispatch", !.left = Len(snd_queue)]
    BY <1>3 DEF CloseDone
  <2>2. Len(snd_queue) \in Nat
    BY DEF Typed, QueuesTyped
  <2>4. serv' \in ServType /\ serv'.pc = "dispatch" /\ serv'.left = Len(snd_queue)
    BY <2>1, <2>2 DEF Typed, ServTyped, ServType
  <2>5. serv'.left <= Len(snd_queue')
    BY <1>1, <2>2, <2>4
  <2>3. ServTyped'
    BY <2>4, <2>5 DEF ServTyped
  <2> QED
    BY <1>1, <2>3, KeptTyped DEF Typed
<1> QED
  BY <1>2, <1>3

LEMMA SndTail ==
  ASSUME QueuesTyped, snd_queue # <<>>,
         snd_queue' = Tail(snd_queue),
         UNCHANGED <<client_list, curr_conn, key_map, close_ch, recv_queue, exit_ch, batch>>
  PROVE  QueuesTyped' /\ Head(snd_queue) \in Items /\ Len(snd_queue') = Len(snd_queue) - 1
<1>1. snd_queue \in Seq(Items)
  BY DEF QueuesTyped
<1>2. snd_queue' \in Seq(Items) /\ Head(snd_queue) \in Items /\ Len(snd_queue') = Len(snd_queue) - 1
  BY <1>1
<1> QED
  BY <1>2 DEF QueuesTyped

LEMMA DispatchTyped ==
  ASSUME Typed, Dispatch, UNCHANGED <<cli, main>>
  PROVE  Typed' /\ Head(snd_queue) \in Items /\ snd_queue # <<>>
<1>1. /\ serv.pc = "dispatch" /\ serv.left > 0 /\ snd_queue' = Tail(snd_queue)
      /\ UNCHANGED <<pserv, client_list, curr_conn, key_map, close_ch, recv_queue, exit_ch,
                     cl, batch, net, marred>>
      /\ \/ serv' = [pc |-> "dispatch", left |-> serv.left - 1, item |-> NoItem]
         \/ serv' = [pc |-> "append", left |-> serv.left - 1, item |-> Head(snd_queue)]
  BY DEF Dispatch
<1>2. serv.left \in Nat /\ serv.left <= Len(snd_queue) /\ snd_queue \in Seq(Items)
  BY <1>1 DEF Typed, ServTyped, ServType, QueuesTyped
<1>3. snd_queue # <<>>
  BY <1>1, <1>2
<1>4. QueuesTyped' /\ Head(snd_queue) \in Items /\ Len(snd_queue') = Len(snd_queue) - 1
  BY <1>1, <1>3, SndTail DEF Typed
<1>5. serv.left - 1 \in Nat /\ serv.left - 1 <= Len(snd_queue')
  BY <1>1, <1>2, <1>4
<1>6. ServTyped'
  BY <1>1, <1>4, <1>5 DEF ServTyped, ServType
<1> QED
  BY <1>1, <1>3, <1>4, <1>6, KeptTyped DEF Typed

LEMMA DispatchAppendTyped ==
  ASSUME Typed, DispatchAppend, UNCHANGED <<cli, main>>
  PROVE  Typed' /\ serv.item \in Items
<1> DEFINE c == serv.item.key
           me == [cl[c] EXCEPT !.snd_queue = Append(@, serv.item)]
<1>1. /\ serv.pc = "append" /\ serv' = [serv EXCEPT !.pc = "dispatch", !.item = NoItem]
      /\ cl' = [cl EXCEPT ![c].snd_queue = Append(@, serv.item)]
      /\ UNCHANGED <<pserv, client_list, curr_conn, key_map, close_ch, recv_queue, snd_queue, exit_ch,
                     batch, net, marred>>
  BY DEF DispatchAppend
<1>2. serv.item \in Items /\ serv.left <= Len(snd_queue) /\ serv \in ServType
  BY <1>1 DEF Typed, ServTyped
<1>3. c \in Conn
  BY <1>2 DEF Items
<1>4. cl[c] \in ClientType /\ Own(cl[c], c) /\ cl' = [cl EXCEPT ![c] = me]
  BY <1>1, <1>3 DEF Typed, ClientsTyped
<1>5. cl[c].snd_queue \in Seq(Items)
  BY <1>4 DEF ClientType
<1>6. /\ Append(cl[c].snd_queue, serv.item) \in Seq(Items)
      /\ Len(Append(cl[c].snd_queue, serv.item)) = Len(cl[c].snd_queue) + 1
  BY <1>2, <1>5
<1>7. /\ me \in ClientType /\ me.pc = cl[c].pc /\ me.item = cl[c].item /\ me.left = cl[c].left
      /\ me.snd_queue = Append(cl[c].snd_queue, serv.item)
  BY <1>4, <1>6 DEF ClientType
<1>8. Own(me, c)
  <2>1. cl[c].left \in Nat /\ Len(cl[c].snd_queue) \in Nat
    BY <1>4, <1>5 DEF ClientType
  <2> QED
    BY <1>4, <1>6, <1>7, <2>1 DEF Own
<1> HIDE DEF me
<1>9. ClientsTyped'
  BY <1>3, <1>4, <1>7, <1>8, ClientSet DEF Typed
<1>10. ServTyped'
  BY <1>1, <1>2 DEF ServTyped, ServType
<1> QED
  BY <1>1, <1>2, <1>9, <1>10, KeptTyped DEF Typed


-----------------------------------------------------------------------------
(* Types: the clients' goroutines. *)

RunRest == UNCHANGED <<pserv, client_list, curr_conn, key_map, snd_queue, exit_ch, serv, cli, main>>

LEMMA ClosingTyped ==
  ASSUME Typed, SlotsInv, NEW c \in Conn, cl[c].stat = "normal", NEW b \in BOOLEAN, Closing(c, b),
         RunRest, UNCHANGED <<recv_queue, batch, net, marred>>
  PROVE  Typed'
<1> DEFINE me == [cl[c] EXCEPT !.stat = "closing", !.server_close = b, !.pc = "done"]
<1>1. cl[c] \in ClientType /\ cl' = [cl EXCEPT ![c] = me]
  BY DEF Closing, Typed, ClientsTyped
<1>2. me \in ClientType /\ me.pc = "done"
  BY <1>1 DEF ClientType
<1>3. Own(me, c)
  BY <1>2 DEF Own
<1> HIDE DEF me
<1>4. ClientsTyped'
  BY <1>1, <1>2, <1>3, ClientSet DEF Typed
<1>5. IndexOf(c) \in Slot
  BY IndexIs DEF SlotsInv, Used
<1>6. close_ch' \in Seq(Slot)
  BY <1>5 DEF Closing, Typed, QueuesTyped
<1>7. QueuesTyped'
  BY <1>6 DEF RunRest, Typed, QueuesTyped
<1> QED
  BY <1>4, <1>7, KeptTyped DEF RunRest, Typed

LEMMA ReadTyped ==
  ASSUME Typed, NEW c \in Conn, NEW n \in 1 .. Len(net[c].up), Read(c, n), UNCHANGED <<cli, main>>
  PROVE  Typed'
<1> DEFINE up == net[c].up
           me == [cl[c] EXCEPT !.recv_cache = @ \o SubSeq(up, 1, n), !.off = 0, !.pc = "parse"]
           it == [net[c] EXCEPT !.up = SubSeq(@, n + 1, Len(@))]
<1>1. cl[c] \in ClientType /\ net[c] \in PeerType
  BY DEF Typed, ClientsTyped, NetTyped
<1>2. up \in Seq(Cells) /\ cl[c].recv_cache \in Seq(Cells) /\ n \in Nat /\ n <= Len(up)
  BY <1>1 DEF ClientType, PeerType
<1>3. SubSeq(up, 1, n) \in Seq(Cells) /\ SubSeq(up, n + 1, Len(up)) \in Seq(Cells)
  BY <1>2, Cut
<1>4. cl[c].recv_cache \o SubSeq(up, 1, n) \in Seq(Cells)
  BY <1>2, <1>3, ConcatProperties
<1>5. me \in ClientType /\ me.pc = "parse"
  BY <1>1, <1>4 DEF ClientType
<1>6. it \in PeerType
  BY <1>1, <1>3 DEF PeerType
<1>7. cl' = [cl EXCEPT ![c] = me] /\ net' = [net EXCEPT ![c] = it]
  BY DEF Read, Typed, ClientsTyped, NetTyped
<1>8. Own(me, c)
  BY <1>5 DEF Own
<1> HIDE DEF me, it
<1>9. ClientsTyped' /\ NetTyped'
  BY <1>5, <1>6, <1>7, <1>8, ClientSet DEF Typed, NetTyped
<1>10. UNCHANGED <<servVars, recv_queue, batch, marred>>
  BY DEF Read
<1> QED
  BY <1>9, <1>10, KeptTyped DEF servVars, Typed

LEMMA ReadTimeoutTyped ==
  ASSUME Typed, NEW c \in Conn, ReadTimeout(c), UNCHANGED <<cli, main>>
  PROVE  Typed'
<1> DEFINE me == [cl[c] EXCEPT !.pc = "send"]
<1>1. cl[c] \in ClientType /\ cl' = [cl EXCEPT ![c] = me]
  BY DEF ReadTimeout, Typed, ClientsTyped
<1>2. me \in ClientType /\ Own(me, c)
  BY <1>1 DEF ClientType, Own
<1>3. ClientsTyped'
  BY <1>1, <1>2, ClientSet DEF Typed
<1>4. UNCHANGED <<servVars, recv_queue, batch, net, marred>>
  BY DEF ReadTimeout
<1> QED
  BY <1>3, <1>4, KeptTyped DEF servVars, Typed

LEMMA NotDone == ASSUME Stations, NEW c \in Conn, cl[c].pc # "done" PROVE cl[c].stat = "normal"
BY DEF Stations

LEMMA ReadClosedTyped ==
  ASSUME Typed, SlotsInv, NEW c \in Conn, ReadClosed(c), UNCHANGED <<cli, main>>
  PROVE  Typed'
<1>1. cl[c].stat = "normal"
  BY NotDone DEF ReadClosed, SlotsInv
<1> QED
  BY <1>1, ClosingTyped DEF ReadClosed, RunRest

LEMMA AppendOwnTyped ==
  ASSUME Typed, NEW c \in Conn, AppendOwn(c), UNCHANGED <<cli, main>>
  PROVE  Typed'
<1> DEFINE me == [cl[c] EXCEPT !.snd_queue = Append(@, cl[c].item), !.item = NoItem, !.pc = "parse"]
<1>1. cl[c] \in ClientType /\ cl' = [cl EXCEPT ![c] = me] /\ Own(cl[c], c) /\ cl[c].pc = "append"
  BY DEF AppendOwn, Typed, ClientsTyped
<1>2. cl[c].snd_queue \in Seq(Items) /\ cl[c].item \in Items
  BY <1>1 DEF Own, ClientType
<1>3. Append(cl[c].snd_queue, cl[c].item) \in Seq(Items)
  BY <1>2
<1>4. me \in ClientType /\ me.pc = "parse"
  BY <1>1, <1>3 DEF ClientType
<1>5. Own(me, c)
  BY <1>4 DEF Own
<1> HIDE DEF me
<1>6. ClientsTyped'
  BY <1>1, <1>4, <1>5, ClientSet DEF Typed
<1>7. UNCHANGED <<servVars, recv_queue, batch, net, marred>>
  BY DEF AppendOwn
<1> QED
  BY <1>6, <1>7, KeptTyped DEF servVars, Typed

LEMMA SendEndTyped ==
  ASSUME Typed, NEW c \in Conn, SendEnd(c), UNCHANGED <<cli, main>>
  PROVE  Typed'
<1>1. cl[c] \in ClientType
  BY DEF Typed, ClientsTyped
<1>2. cl[c].cap \in Nat /\ cl[c].cap \div 2 \in Nat /\ cl[c].snd_cache \in Seq(Cells) /\ <<Zero>> \in Seq(Cells)
  BY <1>1, Null DEF ClientType
<1>3. PICK cap \in Nat, cache \in Seq(Cells) :
        cl' = [cl EXCEPT ![c] = [cl[c] EXCEPT !.pc = "read", !.cap = cap, !.snd_cache = cache]]
  <2> DEFINE me == cl[c]
             half == IF me.cap \div 2 < CacheBase THEN CacheBase ELSE me.cap \div 2
             shrink == me.snd_cache = <<>> /\ me.cap > ShrinkFactor * CacheBase
  <2>1. half \in Nat
    BY <1>2, Consts
  <2>2. cl' = [cl EXCEPT ![c] = [cl[c] EXCEPT !.pc = "read", !.cap = IF shrink THEN half ELSE @,
                                   !.snd_cache = IF shrink THEN <<Zero>> ELSE @]]
    BY DEF SendEnd
  <2>3. (IF shrink THEN half ELSE me.cap) \in Nat /\ (IF shrink THEN <<Zero>> ELSE me.snd_cache) \in Seq(Cells)
    BY <1>2, <2>1
  <2> HIDE DEF half, shrink
  <2> QED
    BY <2>2, <2>3
<1> DEFINE me == [cl[c] EXCEPT !.pc = "read", !.cap = cap, !.snd_cache = cache]
<1>4. me \in ClientType /\ Own(me, c)
  BY <1>1 DEF ClientType, Own
<1>5. ClientsTyped'
  BY <1>3, <1>4, ClientSet DEF Typed
<1>6. UNCHANGED <<servVars, recv_queue, batch, net, marred>>
  BY DEF SendEnd
<1> QED
  BY <1>5, <1>6, KeptTyped DEF servVars, Typed


\* Who takes an object from the pool changes the data main has yet to read,
\* and nothing else of the batch.
LEMMA GetBufferIs ==
  ASSUME batch \in Seq(Packages), MarredTyped, NEW data \in Datas, GetBuffer(data)
  PROVE  /\ batch' \in Seq(Packages) /\ Len(batch') = Len(batch) /\ MarredTyped'
         /\ \A i \in 1 .. Len(batch) :
              /\ batch'[i].key = batch[i].key /\ batch'[i].info = batch[i].info
              /\ batch'[i].data = batch[i].data \/ "reused" \in marred'[batch[i].key]
         /\ \A c \in Conn : marred[c] \subseteq marred'[c] /\ marred'[c] \subseteq marred[c] \cup {"reused"}
<1>1. CASE UNCHANGED <<batch, marred>>
  BY <1>1 DEF MarredTyped
<1>2. CASE ~UNCHANGED <<batch, marred>>
  <2>1. PICK i \in 1 .. Len(batch) :
          /\ batch' = [batch EXCEPT ![i].data = data, ![i].pooled = FALSE]
          /\ marred' = [marred EXCEPT ![batch[i].key] = @ \cup {"reused"}]
    BY <1>2 DEF GetBuffer, Reusable, Mar
  <2> DEFINE b == [batch[i] EXCEPT !.data = data, !.pooled = FALSE]
  <2>2. batch[i] \in Packages /\ batch' = [batch EXCEPT ![i] = b]
    <3>1. batch[i] \in Packages
      BY ElementOfSeq
    <3>2. batch \in [1 .. Len(batch) -> Packages]
      BY LenProperties
    <3> QED
      BY <2>1, <3>1, <3>2
  <2>3. b \in Packages /\ b.key = batch[i].key /\ b.info = batch[i].info /\ b.key \in Conn
    BY <2>2 DEF Packages
  <2> HIDE DEF b
  <2>4. /\ batch' \in Seq(Packages) /\ Len(batch') = Len(batch)
        /\ \A j \in 1 .. Len(batch) : batch'[j] = IF j = i THEN b ELSE batch[j]
    BY <2>2, <2>3, ExceptSeq
  <2>5. marred' \in [Conn -> SUBSET {"reused", "cut", "torn", "panicked"}]
    BY <2>1, <2>3 DEF MarredTyped
  <2>6. "reused" \in marred'[batch[i].key]
    BY <2>1, <2>3 DEF MarredTyped
  <2>7. \A c \in Conn : marred[c] \subseteq marred'[c] /\ marred'[c] \subseteq marred[c] \cup {"reused"}
    BY <2>1, <2>3 DEF MarredTyped
  <2> QED
    BY <2>3, <2>4, <2>5, <2>6, <2>7 DEF MarredTyped
<1> QED
  BY <1>1, <1>2

LEMMA MarIs ==
  ASSUME MarredTyped, NEW c \in Conn, NEW what \in SUBSET {"reused", "cut", "torn", "panicked"}, Mar(c, what)
  PROVE  /\ MarredTyped' /\ marred'[c] = marred[c] \cup what
         /\ \A d \in Conn : d # c => marred'[d] = marred[d]
BY DEF Mar, MarredTyped

LEMMA SpecIs ==
  ASSUME NEW me \in ClientType, NEW op \in Ops, NEW data \in Datas, op # "normal",
         NEW h, h = handle_spec_pkg(me, op, data)
  PROVE  /\ \E v \in BOOLEAN, e \in {me.enc, "nego"} : h.me = [me EXCEPT !.valid = v, !.enc = e]
         /\ h.ans.op \in Ops /\ h.ans.op # "normal" /\ h.ans.data \in Datas
<1>1. \A o \in Ops, e \in Encs : /\ Answer(o, e).op = o /\ Answer(o, e).data \in Datas
  BY DEF Answer, Datas
<1>2. NoAnswer.op \in Ops /\ NoAnswer.op # "normal" /\ NoAnswer.data \in Datas
  BY Null DEF NoAnswer, Ops, None
<1>3. me.enc \in Encs /\ "fail" \in Encs /\ "ok" \in Encs /\ me.valid \in BOOLEAN
      /\ [me EXCEPT !.valid = me.valid, !.enc = me.enc] = me
      /\ [me EXCEPT !.valid = TRUE, !.enc = me.enc] = [me EXCEPT !.valid = TRUE]
      /\ [me EXCEPT !.valid = me.valid, !.enc = "nego"] = [me EXCEPT !.enc = "nego"]
  BY DEF ClientType, Encs
<1>4. \/ h = [me |-> me, ans |-> [op |-> op, data |-> data]]
      \/ h = [me |-> me, ans |-> NoAnswer]
      \/ h = [me |-> [me EXCEPT !.valid = TRUE], ans |-> Answer(op, me.enc)]
      \/ h = [me |-> me, ans |-> Answer(op, "fail")]
      \/ h = [me |-> [me EXCEPT !.enc = "nego"], ans |-> Answer(op, "ok")]
  BY DEF handle_spec_pkg
<1>5. /\ h.me = me \/ h.me = [me EXCEPT !.valid = TRUE] \/ h.me = [me EXCEPT !.enc = "nego"]
      /\ \/ h.ans = [op |-> op, data |-> data]
         \/ h.ans = NoAnswer
         \/ \E e \in Encs : h.ans = Answer(op, e)
  <2> DEFINE a1 == [op |-> op, data |-> data]
             m1 == [me EXCEPT !.valid = TRUE]
             m2 == [me EXCEPT !.enc = "nego"]
  <2>1. \/ h = [me |-> me, ans |-> a1]
        \/ h = [me |-> me, ans |-> NoAnswer]
        \/ h = [me |-> m1, ans |-> Answer(op, me.enc)]
        \/ h = [me |-> me, ans |-> Answer(op, "fail")]
        \/ h = [me |-> m2, ans |-> Answer(op, "ok")]
    BY <1>4
  <2>2. me.enc \in Encs /\ "fail" \in Encs /\ "ok" \in Encs
    BY <1>3
  <2> HIDE DEF a1, m1, m2
  <2>3. /\ h.me = me \/ h.me = m1 \/ h.me = m2
        /\ h.ans = a1 \/ h.ans = NoAnswer \/ \E e \in Encs : h.ans = Answer(op, e)
    BY <2>1, <2>2
  <2> QED
    BY <2>3 DEF a1, m1, m2
<1>6. h.ans.op \in Ops /\ h.ans.op # "normal" /\ h.ans.data \in Datas
  BY <1>1, <1>2, <1>5
<1> QED
  BY <1>3, <1>5, <1>6, Zenon

LEMMA TakenIs ==
  ASSUME NEW me \in ClientType, NEW raw \in Seq(Cells)
  PROVE  /\ Taken(me, raw) \in ClientType /\ Taken(me, raw).pc = me.pc
         /\ \/ Taken(me, raw) = [me EXCEPT !.recv_cache = <<>>, !.off = 0]
            \/ Taken(me, raw) = [me EXCEPT !.off = me.off + 2]
<1>1. \/ Taken(me, raw) = [me EXCEPT !.recv_cache = <<>>, !.off = 0]
      \/ Taken(me, raw) = [me EXCEPT !.off = me.off + 2]
  BY DEF Taken
<1>2. me.off + 2 \in Nat /\ 0 \in Nat /\ <<>> \in Seq(Cells)
  BY DEF ClientType
<1>3. CASE Taken(me, raw) = [me EXCEPT !.recv_cache = <<>>, !.off = 0]
  BY <1>2, <1>3 DEF ClientType
<1>4. CASE Taken(me, raw) = [me EXCEPT !.off = me.off + 2]
  BY <1>2, <1>4 DEF ClientType
<1> QED
  BY <1>1, <1>3, <1>4

LEMMA KeepRestTyped ==
  ASSUME NEW cache \in Seq(Cells), NEW off \in Nat
  PROVE  KeepRest(cache, off) \in Seq(Cells)
<1> DEFINE raw == SubSeq(cache, off + 1, Len(cache))
<1>1. raw \in Seq(Cells)
  BY Cut
<1>2. Len(raw) \in Nat
  BY <1>1
<1>3. SubSeq(cache, Len(raw) + 1, Len(cache)) \in Seq(Cells)
  BY <1>2, Cut
<1>4. raw \o SubSeq(cache, Len(raw) + 1, Len(cache)) \in Seq(Cells)
  BY <1>1, <1>3, ConcatProperties
<1> QED
  BY <1>4 DEF KeepRest

LEMMA ParseTyped ==
  ASSUME Typed, SlotsInv, NEW c \in Conn, Parse(c), UNCHANGED <<cli, main>>
  PROVE  Typed'
<1> DEFINE me == cl[c]
           raw == SubSeq(me.recv_cache, me.off + 1, Len(me.recv_cache))
           next == Taken(me, raw)
<1>1. me \in ClientType /\ me.pc = "parse" /\ cl \in [Conn -> ClientType]
  BY DEF Parse, Typed, ClientsTyped
<1>2. me.recv_cache \in Seq(Cells) /\ me.off \in Nat /\ raw \in Seq(Cells)
  BY <1>1, Cut DEF ClientType
<1>3. next \in ClientType /\ next.pc = "parse"
  BY <1>1, <1>2, TakenIs
<1>4. UNCHANGED <<pserv, client_list, curr_conn, key_map, snd_queue, exit_ch, serv, net>>
  BY DEF Parse
<1>5. cl[c].stat = "normal"
  BY NotDone, <1>1 DEF SlotsInv
<1>6. \A r \in ClientType : r.pc \in {"parse", "read", "send"} => Own(r, c)
  BY DEF Own
<1> HIDE DEF raw, next
<1>7. PICK u \in UnPack(raw) :
       \/ /\ u.ret = "not ready"
          /\ cl' = [cl EXCEPT ![c].recv_cache = KeepRest(me.recv_cache, me.off),
                              ![c].off = 0, ![c].pc = "read"]
          /\ Mar(c, IF me.off > 0 /\ raw # <<>> THEN {"cut"} ELSE {})
          /\ UNCHANGED <<close_ch, recv_queue, batch>>
       \/ /\ Closing(c, FALSE)
          /\ UNCHANGED <<recv_queue, batch, marred>>
       \/ /\ cl' = [cl EXCEPT ![c].off = 0, ![c].pc = "send"]
          /\ Mar(c, {"panicked"})
          /\ UNCHANGED <<close_ch, recv_queue, batch>>
       \/ /\ u.ret = "pkg" /\ ~Fits(u)
          /\ cl' = [cl EXCEPT ![c] = next]
          /\ UNCHANGED <<close_ch, recv_queue, batch, marred>>
       \/ /\ Fits(u) /\ u.op # "normal"
          /\ LET h == handle_spec_pkg(next, u.op, u.data)
                 drop == h.ans = NoAnswer \/ Len(me.snd_queue) >= ClientCap
             IN  cl' = [cl EXCEPT ![c] = [h.me EXCEPT
                          !.pc = IF drop THEN "parse" ELSE "append",
                          !.item = IF drop THEN NoItem
                                   ELSE Item(c, h.ans.op, h.ans.data, "normal")]]
          /\ UNCHANGED <<close_ch, recv_queue, batch, marred>>
       \/ /\ Len(recv_queue) < RecvCap
          /\ GetBuffer(u.data)
          /\ recv_queue' = Append(recv_queue, Item(c, "normal", u.data, "normal"))
          /\ cl' = [cl EXCEPT ![c] = next]
          /\ UNCHANGED close_ch
  BY Zenon DEF Parse, raw, next
<1>8. u.op \in Ops /\ u.data \in Datas
  BY <1>2, UnPackIs
<1>9. CASE /\ u.ret = "not ready"
           /\ cl' = [cl EXCEPT ![c].recv_cache = KeepRest(me.recv_cache, me.off),
                               ![c].off = 0, ![c].pc = "read"]
           /\ Mar(c, IF me.off > 0 /\ raw # <<>> THEN {"cut"} ELSE {})
           /\ UNCHANGED <<close_ch, recv_queue, batch>>
  <2> DEFINE it == [me EXCEPT !.recv_cache = KeepRest(me.recv_cache, me.off), !.off = 0, !.pc = "read"]
  <2>1. KeepRest(me.recv_cache, me.off) \in Seq(Cells)
    BY <1>2, KeepRestTyped
  <2>2. it \in ClientType /\ it.pc = "read" /\ cl' = [cl EXCEPT ![c] = it]
    BY <1>1, <1>9, <2>1 DEF ClientType
  <2> HIDE DEF it
  <2>3. ClientsTyped'
    BY <1>6, <2>2, ClientSet DEF Typed
  <2>4. MarredTyped'
    BY <1>9, MarIs DEF Typed
  <2> QED
    BY <1>4, <1>9, <2>3, <2>4, KeptTyped DEF Typed
<1>10. CASE Closing(c, FALSE) /\ UNCHANGED <<recv_queue, batch, marred>>
  BY <1>4, <1>5, <1>10, ClosingTyped DEF RunRest
<1>11. CASE /\ cl' = [cl EXCEPT ![c] = next]
            /\ UNCHANGED <<close_ch, recv_queue, batch, marred>>
  <2>1. ClientsTyped'
    BY <1>3, <1>6, <1>11, ClientSet DEF Typed
  <2> QED
    BY <1>4, <1>11, <2>1, KeptTyped DEF Typed
<1>12. CASE /\ Fits(u) /\ u.op # "normal"
            /\ LET h == handle_spec_pkg(next, u.op, u.data)
                   drop == h.ans = NoAnswer \/ Len(me.snd_queue) >= ClientCap
               IN  cl' = [cl EXCEPT ![c] = [h.me EXCEPT
                            !.pc = IF drop THEN "parse" ELSE "append",
                            !.item = IF drop THEN NoItem
                                     ELSE Item(c, h.ans.op, h.ans.data, "normal")]]
            /\ UNCHANGED <<close_ch, recv_queue, batch, marred>>
  <2> DEFINE h == handle_spec_pkg(next, u.op, u.data)
             drop == h.ans = NoAnswer \/ Len(me.snd_queue) >= ClientCap
             it == Item(c, h.ans.op, h.ans.data, "normal")
             one == [h.me EXCEPT !.pc = "parse", !.item = NoItem]
             two == [h.me EXCEPT !.pc = "append", !.item = it]
  <2>1. cl' = [cl EXCEPT ![c] = one] \/ cl' = [cl EXCEPT ![c] = two]
    BY <1>12
  <2>2. /\ \E v \in BOOLEAN, e \in {next.enc, "nego"} : h.me = [next EXCEPT !.valid = v, !.enc = e]
        /\ h.ans.op \in Ops /\ h.ans.op # "normal" /\ h.ans.data \in Datas
    BY <1>3, <1>8, <1>12, SpecIs, Zenon
  <2>3. it \in Items /\ it.key = c /\ it.op # "normal"
    BY <2>2, ItemIs
  <2> HIDE DEF h, it
  <2>4. h.me \in ClientType
    BY <1>3, <2>2 DEF ClientType, Encs
  <2>5. one \in ClientType /\ one.pc = "parse"
    BY <2>4 DEF ClientType
  <2>6. two \in ClientType /\ two.pc = "append" /\ two.item = it
    BY <2>3, <2>4 DEF ClientType
  <2>7. Own(one, c) /\ Own(two, c)
    BY <2>3, <2>5, <2>6 DEF Own
  <2> HIDE DEF one, two
  <2>8. ClientsTyped'
    BY <2>1, <2>5, <2>6, <2>7, ClientSet DEF Typed
  <2> QED
    BY <1>4, <1>12, <2>8, KeptTyped DEF Typed
<1>13. CASE /\ GetBuffer(u.data)
            /\ recv_queue' = Append(recv_queue, Item(c, "normal", u.data, "normal"))
            /\ cl' = [cl EXCEPT ![c] = next]
            /\ UNCHANGED close_ch
  <2>1. ClientsTyped'
    BY <1>3, <1>6, <1>13, ClientSet DEF Typed
  <2>2. batch' \in Seq(Packages) /\ MarredTyped'
    BY <1>8, <1>13, GetBufferIs DEF Typed, QueuesTyped
  <2>3. Item(c, "normal", u.data, "normal") \in Items
    BY <1>8, ItemIs DEF Ops
  <2>4. recv_queue' \in Seq(Items)
    BY <1>13, <2>3, AppendProperties DEF Typed, QueuesTyped
  <2>5. QueuesTyped'
    BY <1>4, <1>13, <2>2, <2>4 DEF Typed, QueuesTyped
  <2> QED
    BY <1>4, <2>1, <2>2, <2>5, KeptTyped DEF Typed
<1>14. CASE /\ cl' = [cl EXCEPT ![c].off = 0, ![c].pc = "send"]
            /\ Mar(c, {"panicked"})
            /\ UNCHANGED <<close_ch, recv_queue, batch>>
  <2> DEFINE it == [me EXCEPT !.off = 0, !.pc = "send"]
  <2>1. it \in ClientType /\ it.pc = "send" /\ cl' = [cl EXCEPT ![c] = it]
    BY <1>1, <1>14 DEF ClientType
  <2> HIDE DEF it
  <2>2. ClientsTyped'
    BY <1>6, <2>1, ClientSet DEF Typed
  <2>3. MarredTyped'
    BY <1>14, MarIs DEF Typed
  <2> QED
    BY <1>4, <1>14, <2>2, <2>3, KeptTyped DEF Typed
<1> QED
  BY <1>7, <1>9, <1>10, <1>11, <1>12, <1>13, <1>14


FlushRest ==
  UNCHANGED <<pserv, client_list, curr_conn, key_map, recv_queue, snd_queue, exit_ch, serv, batch,
              cli, main>>

\* The outcomes of a flush: n cells of the cache on the wire, or the end.
LEMMA FlushIs ==
  ASSUME Typed, NEW c \in Conn, NEW cache \in Seq(Cells), NEW done, NEW part,
         Flush(c, cache, done, part)
  PROVE  \/ /\ net' = [net EXCEPT ![c].down = @ \o cache]
            /\ cl' = [cl EXCEPT ![c] = [done EXCEPT !.snd_cache = <<>>]]
            /\ UNCHANGED marred
            /\ UNCHANGED close_ch /\ net[c].peer = "open"
         \/ \E n \in Nat :
            /\ n <= Len(cache)
            /\ net' = [net EXCEPT ![c].down = @ \o SubSeq(cache, 1, n)]
            /\ cl' = [cl EXCEPT ![c] = [part EXCEPT !.snd_cache = cache]]
            /\ Mar(c, IF n > 0 THEN {"torn"} ELSE {})
            /\ UNCHANGED close_ch /\ net[c].peer = "open"
         \/ Closing(c, FALSE) /\ UNCHANGED <<net, marred>>
<1> DEFINE room == NetCap - Len(net[c].down)
           n == IF room < 0 THEN 0 ELSE room
<1>1. net[c].down \in Seq(Cells)
  BY DEF Typed, NetTyped, PeerType
<1>2. room \in Int
  BY <1>1, Consts
<1>3. n \in Nat
  BY <1>2
<1>4. Len(cache) \in Nat
  OBVIOUS
<1>5. n < Len(cache) => n <= Len(cache)
  BY <1>3, <1>4
<1> HIDE DEF room
<1>6. \/ /\ net' = [net EXCEPT ![c].down = @ \o cache]
         /\ cl' = [cl EXCEPT ![c] = [done EXCEPT !.snd_cache = <<>>]]
         /\ UNCHANGED marred
         /\ UNCHANGED close_ch /\ net[c].peer = "open"
      \/ /\ n < Len(cache)
         /\ net' = [net EXCEPT ![c].down = @ \o SubSeq(cache, 1, n)]
         /\ cl' = [cl EXCEPT ![c] = [part EXCEPT !.snd_cache = cache]]
         /\ Mar(c, IF n > 0 THEN {"torn"} ELSE {})
         /\ UNCHANGED close_ch /\ net[c].peer = "open"
      \/ Closing(c, FALSE) /\ UNCHANGED <<net, marred>>
  BY DEF Flush, Written, room
<1> HIDE DEF n
<1> QED
  BY <1>3, <1>5, <1>6

LEMMA DownSet ==
  ASSUME NetTyped, NEW c \in Conn, NEW cells \in Seq(Cells), net' = [net EXCEPT ![c].down = @ \o cells]
  PROVE  NetTyped'
<1>1. net[c] \in PeerType /\ net[c].down \in Seq(Cells)
  BY DEF NetTyped, PeerType
<1>2. net[c].down \o cells \in Seq(Cells)
  BY <1>1, ConcatProperties
<1>3. [net[c] EXCEPT !.down = net[c].down \o cells] \in PeerType
  BY <1>1, <1>2 DEF PeerType
<1> QED
  BY <1>3 DEF NetTyped

LEMMA FlushTyped ==
  ASSUME Typed, SlotsInv, NEW c \in Conn, cl[c].stat = "normal", NEW cache \in Seq(Cells),
         NEW done \in ClientType, NEW part \in ClientType, Own(done, c), Own(part, c),
         Flush(c, cache, done, part), FlushRest
  PROVE  Typed'
<1> DEFINE done1 == [done EXCEPT !.snd_cache = <<>>]
           part1 == [part EXCEPT !.snd_cache = cache]
<1>1. /\ done1 \in ClientType /\ done1.pc = done.pc /\ done1.item = done.item
      /\ done1.left = done.left /\ done1.snd_queue = done.snd_queue
  BY EmptySeq DEF ClientType
<1>2. /\ part1 \in ClientType /\ part1.pc = part.pc /\ part1.item = part.item
      /\ part1.left = part.left /\ part1.snd_queue = part.snd_queue
  BY DEF ClientType
<1>3. Own(done1, c) /\ Own(part1, c)
  BY <1>1, <1>2 DEF Own
<1> HIDE DEF done1, part1
<1>4. CASE /\ net' = [net EXCEPT ![c].down = @ \o cache]
           /\ cl' = [cl EXCEPT ![c] = done1]
           /\ UNCHANGED marred
           /\ UNCHANGED close_ch
  <2>1. NetTyped'
    BY <1>4, DownSet DEF Typed
  <2>2. ClientsTyped'
    BY <1>1, <1>3, <1>4, ClientSet DEF Typed
  <2>3. MarredTyped'
    BY <1>4 DEF Typed, MarredTyped
  <2> QED
    BY <1>4, <2>1, <2>2, <2>3, KeptTyped DEF FlushRest, Typed
<1>5. ASSUME NEW n \in Nat, n <= Len(cache),
             net' = [net EXCEPT ![c].down = @ \o SubSeq(cache, 1, n)],
             cl' = [cl EXCEPT ![c] = part1],
             Mar(c, IF n > 0 THEN {"torn"} ELSE {}),
             UNCHANGED close_ch
      PROVE  Typed'
  <2>1. SubSeq(cache, 1, n) \in Seq(Cells)
    BY <1>5, Cut
  <2>2. NetTyped'
    BY <1>5, <2>1, DownSet DEF Typed
  <2>3. ClientsTyped'
    BY <1>2, <1>3, <1>5, ClientSet DEF Typed
  <2>4. MarredTyped'
    BY <1>5, MarIs DEF Typed
  <2> QED
    BY <1>5, <2>2, <2>3, <2>4, KeptTyped DEF FlushRest, Typed
<1>6. CASE Closing(c, FALSE) /\ UNCHANGED <<net, marred>>
  BY <1>6, ClosingTyped DEF FlushRest, RunRest
<1> QED
  BY <1>4, <1>5, <1>6, FlushIs DEF done1, part1

LEMMA SendFirstTyped ==
  ASSUME Typed, SlotsInv, NEW c \in Conn, SendFirst(c), UNCHANGED <<cli, main>>
  PROVE  Typed'
<1> DEFINE me == cl[c]
           go == [me EXCEPT !.pc = IF me.snd_queue = <<>> THEN "read" ELSE "out",
                            !.left = Len(me.snd_queue)]
           back == [me EXCEPT !.pc = "read"]
<1>1. me \in ClientType /\ me.snd_cache \in Seq(Cells) /\ me.snd_queue \in Seq(Items) /\ me.pc = "send"
  BY DEF SendFirst, Typed, ClientsTyped, ClientType
<1>2. cl[c].stat = "normal"
  BY NotDone, <1>1 DEF SlotsInv
<1>3. Len(me.snd_queue) \in Nat
  BY <1>1
<1>4. /\ go \in ClientType /\ go.pc \in {"read", "out"} /\ go.left = Len(me.snd_queue)
      /\ go.snd_queue = me.snd_queue
  BY <1>1, <1>3 DEF ClientType
<1>5. go.left <= Len(go.snd_queue)
  BY <1>3, <1>4
<1>6. back \in ClientType /\ back.pc = "read"
  BY <1>1 DEF ClientType
<1>7. Own(go, c) /\ Own(back, c)
  BY <1>4, <1>5, <1>6 DEF Own
<1>8. /\ IF me.snd_cache = <<>>
           THEN cl' = [cl EXCEPT ![c] = go] /\ UNCHANGED <<net, marred, close_ch>>
           ELSE Flush(c, me.snd_cache, go, back)
      /\ FlushRest
  BY DEF SendFirst, FlushRest
<1> HIDE DEF go, back
<1>9. CASE cl' = [cl EXCEPT ![c] = go] /\ UNCHANGED <<net, marred, close_ch>>
  <2>1. ClientsTyped'
    BY <1>4, <1>7, <1>9, ClientSet DEF Typed
  <2> QED
    BY <1>8, <1>9, <2>1, KeptTyped DEF Typed, FlushRest
<1>10. CASE Flush(c, me.snd_cache, go, back)
  BY <1>1, <1>2, <1>4, <1>6, <1>7, <1>8, <1>10, FlushTyped
<1> QED
  BY <1>8, <1>9, <1>10

\* send takes p from the queue: it asks to close, is skipped, or is flushed.
Kept(me, c, cap, left) == [me EXCEPT !.snd_queue = Tail(me.snd_queue), !.left = left, !.cap = cap]
LEMMA SendPkgIs ==
  ASSUME Typed, NEW c \in Conn, SendPkg(c)
  PROVE  LET me == cl[c]
             p == Head(me.snd_queue)
         IN  /\ me.snd_queue # <<>> /\ me.pc = "out" /\ me.left > 0
             /\ me.snd_queue \in Seq(Items) /\ p \in Items
             /\ \/ p.info = "close" /\ Closing(c, TRUE) /\ UNCHANGED <<net, marred>>
                \/ \E left \in {0, me.left - 1} :
                     /\ cl' = [cl EXCEPT ![c] = Kept(me, c, me.cap, left)]
                     /\ p.info # "close" /\ UNCHANGED <<net, marred, close_ch>>
                \/ \E cap \in Nat :
                     /\ p.info # "close" /\ (p.op = "normal" => CanEncrypt(c))
                     /\ Flush(c, Pkg(p.op, Encrypted(me, p)), Kept(me, c, cap, me.left - 1),
                              Kept(me, c, cap, 0))
<1> DEFINE p == Head(cl[c].snd_queue)
           me == [cl[c] EXCEPT !.snd_queue = Tail(@), !.left = @ - 1]
           cap == IF me.cap < p.data.len THEN p.data.len + HeadLen + Slack ELSE me.cap
<1>1. cl[c] \in ClientType /\ Own(cl[c], c) /\ cl[c].pc = "out" /\ cl[c].left > 0
  BY DEF SendPkg, Typed, ClientsTyped
<1>2. cl[c].snd_queue \in Seq(Items) /\ cl[c].left \in Nat /\ cl[c].cap \in Nat
  BY <1>1 DEF ClientType
<1>3. cl[c].left <= Len(cl[c].snd_queue)
  BY <1>1 DEF Own
<1>4. cl[c].snd_queue # <<>>
  BY <1>1, <1>2, <1>3
<1>5. p \in Items
  BY <1>2, <1>4
<1>6. p.data.len \in Nat
  BY <1>5 DEF Items, Datas
<1>7. me.cap = cl[c].cap /\ me.enc = cl[c].enc /\ me.left = cl[c].left - 1
  BY <1>1 DEF ClientType
<1>8. cap \in Nat
  BY <1>2, <1>6, <1>7 DEF HeadLen, Slack
<1>9. \A x, y : /\ [me EXCEPT !.cap = x] = Kept(cl[c], c, x, cl[c].left - 1)
                /\ [me EXCEPT !.cap = x, !.left = y] = Kept(cl[c], c, x, y)
                /\ [me EXCEPT !.left = y] = Kept(cl[c], c, cl[c].cap, y)
  BY <1>1 DEF Kept, ClientType
<1>10. me = Kept(cl[c], c, cl[c].cap, cl[c].left - 1)
  BY <1>1 DEF Kept, ClientType
<1>11. Encrypted(me, p) = Encrypted(cl[c], p)
  BY <1>7 DEF Encrypted
<1>12. \/ /\ p.info = "close"
          /\ Closing(c, TRUE)
          /\ UNCHANGED <<net, marred>>
       \/ /\ p.info # "close" /\ p.op = "normal" /\ ~CanEncrypt(c)
          /\ cl' = [cl EXCEPT ![c] = me]
          /\ UNCHANGED <<net, marred, close_ch>>
       \/ /\ p.info # "close" /\ (p.op = "normal" => CanEncrypt(c))
          /\ cap < p.data.len + HeadLen
          /\ cl' = [cl EXCEPT ![c] = [me EXCEPT !.left = 0]]
          /\ UNCHANGED <<net, marred, close_ch>>
       \/ /\ p.info # "close" /\ (p.op = "normal" => CanEncrypt(c))
          /\ cap >= p.data.len + HeadLen
          /\ Flush(c, Pkg(p.op, Encrypted(me, p)), [me EXCEPT !.cap = cap],
                   [me EXCEPT !.cap = cap, !.left = 0])
  BY DEF SendPkg
<1> HIDE DEF p, me, cap
<1>13. CASE p.info = "close" /\ Closing(c, TRUE) /\ UNCHANGED <<net, marred>>
  BY <1>1, <1>2, <1>4, <1>5, <1>13 DEF p
<1>14. CASE /\ p.info # "close" /\ cl' = [cl EXCEPT ![c] = me] /\ UNCHANGED <<net, marred, close_ch>>
  BY <1>1, <1>2, <1>4, <1>5, <1>10, <1>14 DEF p
<1>15. CASE /\ p.info # "close" /\ cl' = [cl EXCEPT ![c] = [me EXCEPT !.left = 0]]
            /\ UNCHANGED <<net, marred, close_ch>>
  BY <1>1, <1>2, <1>4, <1>5, <1>9, <1>15 DEF p
<1>16. CASE /\ p.info # "close" /\ (p.op = "normal" => CanEncrypt(c))
            /\ Flush(c, Pkg(p.op, Encrypted(me, p)), [me EXCEPT !.cap = cap],
                     [me EXCEPT !.cap = cap, !.left = 0])
  <2>1. [me EXCEPT !.cap = cap] = Kept(cl[c], c, cap, cl[c].left - 1)
    BY <1>9
  <2>2. [me EXCEPT !.cap = cap, !.left = 0] = Kept(cl[c], c, cap, 0)
    BY <1>9
  <2>3. Flush(c, Pkg(p.op, Encrypted(cl[c], p)), Kept(cl[c], c, cap, cl[c].left - 1), Kept(cl[c], c, cap, 0))
    BY <1>11, <1>16, <2>1, <2>2
  <2> QED
    BY <1>1, <1>2, <1>4, <1>5, <1>8, <1>16, <2>3 DEF p
<1> QED
  BY <1>12, <1>13, <1>14, <1>15, <1>16

LEMMA KeptIs ==
  ASSUME NEW me \in ClientType, NEW c \in Conn, NEW cap \in Nat, NEW left \in {0, me.left - 1},
         me.snd_queue # <<>>, me.pc = "out", me.left > 0, Own(me, c)
  PROVE  Kept(me, c, cap, left) \in ClientType /\ Own(Kept(me, c, cap, left), c)
<1>1. me.left \in Nat /\ me.snd_queue \in Seq(Items) /\ me.left <= Len(me.snd_queue)
  BY DEF ClientType, Own
<1>2. Tail(me.snd_queue) \in Seq(Items) /\ Len(Tail(me.snd_queue)) = Len(me.snd_queue) - 1
  BY <1>1
<1>3. left \in Nat /\ left <= Len(Tail(me.snd_queue))
  BY <1>1, <1>2
<1>4. /\ Kept(me, c, cap, left) \in ClientType /\ Kept(me, c, cap, left).pc = "out"
      /\ Kept(me, c, cap, left).left = left /\ Kept(me, c, cap, left).snd_queue = Tail(me.snd_queue)
  BY <1>2, <1>3 DEF Kept, ClientType
<1> QED
  BY <1>3, <1>4 DEF Own

LEMMA EncryptedIs ==
  ASSUME NEW me \in ClientType, NEW p \in Items
  PROVE  /\ Encrypted(me, p) \in Datas /\ p.op \in Ops
         /\ Encrypted(me, p).from = p.data.from /\ Encrypted(me, p).id = p.data.id
         /\ p.op = "normal" => Encrypted(me, p).enc = me.enc
         /\ p.op # "normal" => Encrypted(me, p) = p.data
BY DEF Encrypted, ClientType, Items, Datas

LEMMA SendPkgTyped ==
  ASSUME Typed, SlotsInv, NEW c \in Conn, SendPkg(c), UNCHANGED <<cli, main>>
  PROVE  Typed'
<1> DEFINE me == cl[c]
           p == Head(me.snd_queue)
<1>1. me \in ClientType /\ Own(me, c)
  BY DEF Typed, ClientsTyped
<1>2. /\ me.snd_queue # <<>> /\ me.pc = "out" /\ me.left > 0 /\ p \in Items
      /\ \/ Closing(c, TRUE) /\ UNCHANGED <<net, marred>>
         \/ \E left \in {0, me.left - 1} :
              /\ cl' = [cl EXCEPT ![c] = Kept(me, c, me.cap, left)]
              /\ UNCHANGED <<net, marred, close_ch>>
         \/ \E cap \in Nat :
              Flush(c, Pkg(p.op, Encrypted(me, p)), Kept(me, c, cap, me.left - 1), Kept(me, c, cap, 0))
  BY SendPkgIs
<1>3. FlushRest
  BY DEF SendPkg, FlushRest
<1>4. cl[c].stat = "normal"
  BY NotDone, <1>2 DEF SlotsInv
<1>5. CASE Closing(c, TRUE) /\ UNCHANGED <<net, marred>>
  BY <1>3, <1>4, <1>5, ClosingTyped DEF FlushRest, RunRest
<1>6. ASSUME NEW left \in {0, me.left - 1}, cl' = [cl EXCEPT ![c] = Kept(me, c, me.cap, left)],
             UNCHANGED <<net, marred, close_ch>>
      PROVE  Typed'
  <2>1. me.cap \in Nat
    BY <1>1 DEF ClientType
  <2>2. Kept(me, c, me.cap, left) \in ClientType /\ Own(Kept(me, c, me.cap, left), c)
    BY <1>1, <1>2, <2>1, KeptIs
  <2>3. ClientsTyped'
    BY <1>6, <2>2, ClientSet DEF Typed
  <2> QED
    BY <1>3, <1>6, <2>3, KeptTyped DEF FlushRest, Typed
<1>7. ASSUME NEW cap \in Nat,
             Flush(c, Pkg(p.op, Encrypted(me, p)), Kept(me, c, cap, me.left - 1), Kept(me, c, cap, 0))
      PROVE  Typed'
  <2>1. /\ Kept(me, c, cap, me.left - 1) \in ClientType /\ Own(Kept(me, c, cap, me.left - 1), c)
        /\ Kept(me, c, cap, 0) \in ClientType /\ Own(Kept(me, c, cap, 0), c)
    BY <1>1, <1>2, KeptIs
  <2>2. Pkg(p.op, Encrypted(me, p)) \in Seq(Cells)
    BY <1>1, <1>2, EncryptedIs, PkgIs
  <2> QED
    BY <1>3, <1>4, <1>7, <2>1, <2>2, FlushTyped
<1> QED
  BY <1>2, <1>5, <1>6, <1>7


-----------------------------------------------------------------------------
(* Types: main and the clients. *)

LEMMA RecvTyped ==
  ASSUME Typed, ReadClients
  PROVE  /\ Typed'
         /\ \E n \in Nat :
              /\ n <= Len(recv_queue) /\ Len(batch') = n /\ Len(recv_queue') = Len(recv_queue) - n
              /\ \A i \in 1 .. n : /\ batch'[i].key = recv_queue[i].key
                                   /\ batch'[i].info = recv_queue[i].info
                                   /\ batch'[i].data = recv_queue[i].data
              /\ \A i \in 1 .. Len(recv_queue) - n : recv_queue'[i] = recv_queue[i + n]
<1> DEFINE n == IF Len(recv_queue) < BatchCap THEN Len(recv_queue) ELSE BatchCap
<1>1. recv_queue \in Seq(Items) /\ Len(recv_queue) \in Nat
  BY DEF Typed, QueuesTyped
<1>2. n \in Nat /\ n <= Len(recv_queue)
  BY <1>1, Consts
<1>3. /\ batch' = [i \in 1 .. n |-> [key |-> recv_queue[i].key, info |-> recv_queue[i].info,
                                     data |-> recv_queue[i].data, pooled |-> TRUE]]
      /\ recv_queue' = SubSeq(recv_queue, n + 1, Len(recv_queue))
      /\ UNCHANGED <<servVars, cl, net, marred, cli, main>>
  BY DEF ReadClients, Recv
<1> HIDE DEF n
<1>4. \A i \in 1 .. n : recv_queue[i] \in Items
  BY <1>1, <1>2
<1>5. \A i \in 1 .. n :
        [key |-> recv_queue[i].key, info |-> recv_queue[i].info,
         data |-> recv_queue[i].data, pooled |-> TRUE] \in Packages
  BY <1>4 DEF Items, Packages
<1>6. batch' \in Seq(Packages) /\ Len(batch') = n
  BY <1>2, <1>3, <1>5
<1>7. \A i \in 1 .. n : /\ batch'[i].key = recv_queue[i].key
                        /\ batch'[i].info = recv_queue[i].info
                        /\ batch'[i].data = recv_queue[i].data
  BY <1>3
<1>8. recv_queue' \in Seq(Items)
  BY <1>1, <1>2, <1>3, Cut
<1>9. /\ Len(recv_queue') = Len(recv_queue) - n
      /\ \A i \in 1 .. Len(recv_queue) - n : recv_queue'[i] = recv_queue[i + n]
  BY <1>1, <1>2, <1>3
<1>10. QueuesTyped'
  BY <1>3, <1>6, <1>8 DEF servVars, Typed, QueuesTyped
<1>11. Typed'
  BY <1>3, <1>10, KeptTyped DEF servVars, Typed
<1> QED
  BY <1>2, <1>6, <1>7, <1>9, <1>11

LEMMA MainSet ==
  ASSUME MainTyped, NEW c \in Conn, NEW r \in MainType, main' = [main EXCEPT ![c] = r]
  PROVE  MainTyped'
BY DEF MainTyped

LEMMA HandleTyped ==
  ASSUME Typed, HandleClientPkg
  PROVE  /\ Typed' /\ batch # <<>> /\ batch' = Tail(batch) /\ batch \in Seq(Packages)
         /\ Head(batch) \in Packages
         /\ \E h \in Seq(Datas), r \in Nat :
              /\ main' = [main EXCEPT ![Head(batch).key] = [@ EXCEPT !.reported = r, !.handled = h]]
              /\ IF Head(batch).info = "close"
                   THEN /\ r = main[Head(batch).key].reported + 1
                        /\ h = main[Head(batch).key].handled
                   ELSE /\ r = main[Head(batch).key].reported
                        /\ h = Append(main[Head(batch).key].handled, Head(batch).data)
<1> DEFINE b == Head(batch)
           me == main[b.key]
           r == IF b.info = "close" THEN me.reported + 1 ELSE me.reported
           h == IF b.info = "normal" THEN Append(me.handled, b.data) ELSE me.handled
<1>1. batch # <<>> /\ batch' = Tail(batch) /\ batch \in Seq(Packages)
  BY DEF HandleClientPkg, Typed, QueuesTyped
<1>2. b \in Packages /\ batch' \in Seq(Packages)
  BY <1>1
<1>3. b.key \in Conn /\ b.data \in Datas /\ b.info \in {"normal", "close"}
  BY <1>2 DEF Packages
<1>4. me \in MainType /\ me.handled \in Seq(Datas) /\ me.reported \in Nat
  BY <1>3 DEF Typed, MainTyped, MainType
<1>5. r \in Nat /\ h \in Seq(Datas)
  BY <1>3, <1>4
<1>6. main' = [main EXCEPT ![b.key].reported = r, ![b.key].handled = h]
  BY DEF HandleClientPkg
<1>7. IF b.info = "close" THEN r = me.reported + 1 /\ h = me.handled
                          ELSE r = me.reported /\ h = Append(me.handled, b.data)
  BY <1>3
<1> HIDE DEF b, r, h
<1>8. main' = [main EXCEPT ![b.key] = [@ EXCEPT !.reported = r, !.handled = h]]
  BY <1>3, <1>6 DEF Typed, MainTyped
<1>9. [me EXCEPT !.reported = r, !.handled = h] \in MainType
  BY <1>4, <1>5 DEF MainType
<1>10. MainTyped'
  BY <1>3, <1>8, <1>9, MainSet DEF Typed
<1>11. UNCHANGED <<servVars, recv_queue, cl, net, marred, cli>>
  BY DEF HandleClientPkg
<1>12. QueuesTyped'
  BY <1>1, <1>2, <1>11 DEF servVars, Typed, QueuesTyped
<1>13. Typed'
  BY <1>10, <1>11, <1>12, KeptTyped DEF servVars, Typed
<1> QED
  BY <1>1, <1>2, <1>5, <1>7, <1>8, <1>13, Zenon DEF b

LEMMA SendTyped ==
  ASSUME Typed, NEW c \in Conn, NEW data \in Datas, NEW info \in {"normal", "close"}, Send(c, data, info)
  PROVE  /\ PservTyped' /\ QueuesTyped' /\ ServTyped' /\ ClientsTyped' /\ NetTyped' /\ MarredTyped'
         /\ snd_queue' = snd_queue \/ snd_queue' = Append(snd_queue, Item(c, "normal", data, info))
         /\ UNCHANGED <<batch, marred>> \/ GetBuffer(data)
<1>1. UNCHANGED <<pserv, client_list, curr_conn, key_map, close_ch, recv_queue, exit_ch, serv, cl, net>>
  BY DEF Send
<1>2. Item(c, "normal", data, info) \in Items
  BY ItemIs DEF Ops
<1>3. CASE UNCHANGED <<snd_queue, batch, marred>>
  BY <1>1, <1>3, KeptTyped DEF Typed
<1>4. CASE GetBuffer(data) /\ snd_queue' = Append(snd_queue, Item(c, "normal", data, info))
  <2>1. batch' \in Seq(Packages) /\ MarredTyped'
    BY <1>4, GetBufferIs DEF Typed, QueuesTyped
  <2>2. snd_queue \in Seq(Items)
    BY DEF Typed, QueuesTyped
  <2>3. snd_queue' \in Seq(Items) /\ Len(snd_queue') = Len(snd_queue) + 1
    BY <1>2, <1>4, <2>2, AppendProperties
  <2>4. QueuesTyped'
    BY <1>1, <2>1, <2>3 DEF Typed, QueuesTyped
  <2>5. serv \in ServType /\ (serv.pc \in {"dispatch", "append"} => serv.left <= Len(snd_queue))
    BY DEF Typed, ServTyped
  <2>6. serv.left \in Nat /\ Len(snd_queue) \in Nat
    BY <2>2, <2>5 DEF ServType
  <2>7. serv.left <= Len(snd_queue) => serv.left <= Len(snd_queue')
    BY <2>3, <2>6
  <2>8. ServTyped'
    BY <1>1, <2>5, <2>7 DEF Typed, ServTyped
  <2> QED
    BY <1>1, <1>4, <2>1, <2>4, <2>8, KeptTyped DEF Typed
<1> QED
  BY <1>3, <1>4 DEF Send

LEMMA SendToTyped ==
  ASSUME Typed, NEW c \in Conn, SendToClient(c)
  PROVE  /\ Typed' /\ main[c].answers \in Seq(Nat) /\ main[c].answers # <<>>
         /\ [from |-> c, id |-> -Len(main[c].answers), len |-> Head(main[c].answers), enc |-> None] \in Datas
<1> DEFINE it == [main[c] EXCEPT !.answers = Tail(@)]
           data == [from |-> c, id |-> -Len(main[c].answers), len |-> Head(main[c].answers), enc |-> None]
<1>1. main[c] \in MainType /\ main[c].answers \in Seq(Nat) /\ main[c].answers # <<>>
  BY DEF SendToClient, Typed, MainTyped, MainType
<1>2. /\ Head(main[c].answers) \in Nat /\ Tail(main[c].answers) \in Seq(Nat)
      /\ -Len(main[c].answers) \in Int
  BY <1>1
<1>3. data \in Datas
  BY <1>2 DEF Datas, Encs
<1>4. it \in MainType /\ main' = [main EXCEPT ![c] = it]
  BY <1>1, <1>2 DEF SendToClient, Typed, MainTyped, MainType
<1>5. MainTyped'
  BY <1>4, MainSet DEF Typed
<1>6. Send(c, data, "normal") /\ UNCHANGED cli
  BY DEF SendToClient
<1> QED
  BY <1>1, <1>3, <1>5, <1>6, SendTyped, KeptTyped DEF Typed

LEMMA ClosesTyped ==
  ASSUME Typed, NEW c \in Conn, MainCloses(c)
  PROVE  Typed' /\ [Junk EXCEPT !.len = 0] \in Datas
<1> DEFINE it == [main[c] EXCEPT !.closes = FALSE]
<1>1. it \in MainType /\ main' = [main EXCEPT ![c] = it]
  BY DEF MainCloses, Typed, MainTyped, MainType
<1>2. MainTyped'
  BY <1>1, MainSet DEF Typed
<1>3. [Junk EXCEPT !.len = 0] \in Datas
  BY Null DEF Datas
<1>4. Send(c, [Junk EXCEPT !.len = 0], "close") /\ UNCHANGED cli
  BY DEF MainCloses
<1> QED
  BY <1>2, <1>3, <1>4, SendTyped, KeptTyped DEF Typed

LEMMA ExitTyped == ASSUME Typed, ServerExit PROVE Typed'
<1>1. exit_ch' \in BOOLEAN /\ UNCHANGED <<pserv, client_list, curr_conn, key_map, close_ch, recv_queue,
        snd_queue, serv, cl, batch, net, marred, cli, main>>
  BY DEF ServerExit, Close
<1>2. QueuesTyped'
  BY <1>1 DEF Typed, QueuesTyped
<1> QED
  BY <1>1, <1>2, KeptTyped DEF Typed


LEMMA RequestIs ==
  ASSUME NEW c \in Conn, NEW i \in Int, NEW enc \in Encs
  PROVE  /\ Request(c, i, enc) \in Datas /\ Request(c, i, enc).from = c /\ Request(c, i, enc).id = i
         /\ Request(c, i, enc).enc = enc /\ Request(c, i, enc).len = 1
BY DEF Request, Datas

LEMMA FirstsAre ==
  ASSUME Typed, NEW c \in Conn
  PROVE  /\ cli[c] \in CliType /\ cli[c].sent + 1 \in Nat
         /\ Valid(c) \in Seq(Cells) /\ Plain(c) \in Seq(Cells)
         /\ Pkg("nego", Request(c, 0, "nego")) \in Seq(Cells)
<1>1. cli[c] \in CliType
  BY DEF Typed, CliTyped
<1>2. cli[c].sent + 1 \in Nat
  BY <1>1 DEF CliType
<1>3. None \in Encs /\ "pass" \in Encs /\ "nego" \in Encs
  BY DEF Encs
<1>4. "valid" \in Ops /\ "normal" \in Ops /\ "nego" \in Ops
  BY DEF Ops
<1>5. Request(c, 0, "pass") \in Datas /\ Request(c, cli[c].sent + 1, None) \in Datas
      /\ Request(c, 0, "nego") \in Datas
  BY <1>2, <1>3, RequestIs
<1> QED
  BY <1>1, <1>2, <1>4, <1>5, PkgIs DEF Valid, Plain

LEMMA CliSet ==
  ASSUME CliTyped, NEW c \in Conn, NEW r \in CliType, cli' = [cli EXCEPT ![c] = r]
  PROVE  CliTyped'
BY DEF CliTyped

LEMMA UpSet ==
  ASSUME NetTyped, NEW c \in Conn, NEW cells \in Seq(Cells), net' = [net EXCEPT ![c].up = @ \o cells]
  PROVE  NetTyped'
<1>1. net[c] \in PeerType /\ net[c].up \in Seq(Cells)
  BY DEF NetTyped, PeerType
<1>2. net[c].up \o cells \in Seq(Cells)
  BY <1>1, ConcatProperties
<1>3. [net[c] EXCEPT !.up = net[c].up \o cells] \in PeerType
  BY <1>1, <1>2 DEF PeerType
<1> QED
  BY <1>3 DEF NetTyped

LEMMA ClientRest ==
  ASSUME Typed, UNCHANGED cliRest, UNCHANGED main, CliTyped', NetTyped'
  PROVE  Typed'
BY KeptTyped DEF cliRest, servVars, Typed

LEMMA ConnectTyped ==
  ASSUME Typed, NEW c \in Conn, Connect(c), UNCHANGED main
  PROVE  Typed'
<1>1. PICK up, m, n :
        /\ up \in {<<>>, Plain(c), Valid(c)} /\ m \in {"wait", "valid", "loop"} /\ n \in {0, 1}
        /\ net' = [net EXCEPT ![c].peer = "pending", ![c].up = up]
        /\ cli' = [cli EXCEPT ![c].main = m, ![c].sent = n]
  BY DEF Connect
<1>2. up \in Seq(Cells)
  <2>1. Plain(c) \in Seq(Cells) /\ Valid(c) \in Seq(Cells)
    BY FirstsAre
  <2>2. <<>> \in Seq(Cells)
    BY EmptySeq
  <2> QED
    BY <1>1, <2>1, <2>2
<1>3. [net[c] EXCEPT !.peer = "pending", !.up = up] \in PeerType
  BY <1>2 DEF Typed, NetTyped, PeerType
<1>4. NetTyped'
  BY <1>1, <1>3 DEF Typed, NetTyped
<1>5. n \in Nat
  BY <1>1
<1>6. [cli[c] EXCEPT !.main = m, !.sent = n] \in CliType
  BY <1>1, <1>5, ZenonT(30) DEF Typed, CliTyped, CliType
<1>7. CliTyped'
  BY <1>1, <1>6 DEF Typed, CliTyped
<1> QED
  BY <1>4, <1>7, ClientRest DEF Connect

LEMMA ConnectFailsTyped ==
  ASSUME Typed, NEW c \in Conn, ConnectFails(c) \/ GameClosed(c), UNCHANGED main
  PROVE  Typed'
<1>1. \E m \in {"lost", "exited"} : cli' = [cli EXCEPT ![c].main = m]
  BY DEF ConnectFails, GameClosed
<1>2. \A m \in {"lost", "exited"} : [cli[c] EXCEPT !.main = m] \in CliType
  BY DEF Typed, CliTyped, CliType
<1>3. CliTyped'
  BY <1>1, <1>2 DEF Typed, CliTyped
<1>4. UNCHANGED cliRest /\ UNCHANGED net
  BY DEF ConnectFails, GameClosed
<1> QED
  BY <1>3, <1>4, ClientRest, KeptTyped DEF Typed

LEMMA GameSendTyped ==
  ASSUME Typed, NEW c \in Conn, GameSend(c), UNCHANGED main
  PROVE  Typed'
<1> DEFINE i == IF CanAsk(c) THEN cli[c].sent + 1 ELSE cli[c].sent
           m == IF Method(c) = "command" THEN "wait" ELSE cli[c].main
           p == Pkg("normal", Request(c, i, AskKey(c)))
           it == [cli[c] EXCEPT !.asks = @ - 1, !.sent = i, !.main = m]
<1>1. cli[c] \in CliType
  BY DEF Typed, CliTyped
<1>2. i \in Nat /\ i \in Int
  BY <1>1 DEF CliType
<1>3. m \in {"start", "wait", "valid", "loop", "lost", "done", "exited"}
  BY <1>1 DEF CliType
<1>4. cli[c].asks > 0 /\ cli[c].asks \in Nat
  BY <1>1 DEF GameSend, CliType
<1>5. AskKey(c) \in Encs
  BY <1>1 DEF AskKey, CliType, Encs
<1>6. p \in Seq(Cells)
  <2>1. Request(c, i, AskKey(c)) \in Datas /\ "normal" \in Ops
    BY <1>2, <1>5, RequestIs DEF Ops
  <2> QED
    BY <2>1, PkgIs
<1>7. /\ \/ net' = [net EXCEPT ![c].up = @ \o p]
         \/ UNCHANGED net
      /\ cli' = [cli EXCEPT ![c].asks = @ - 1, ![c].sent = i, ![c].main = m]
      /\ UNCHANGED cliRest
  BY DEF GameSend
<1> HIDE DEF i, m, p
<1>8. NetTyped'
  BY <1>6, <1>7, UpSet, KeptTyped DEF Typed
<1>9. cli[c].asks - 1 \in Nat
  BY <1>4
<1>10. it \in CliType /\ cli' = [cli EXCEPT ![c] = it]
  BY <1>1, <1>2, <1>3, <1>7, <1>9 DEF Typed, CliTyped, CliType
<1>11. CliTyped'
  BY <1>10, CliSet DEF Typed
<1> QED
  BY <1>7, <1>8, <1>11, ClientRest

LEMMA OtherSendTyped ==
  ASSUME Typed, NEW c \in Conn, OtherSend(c), UNCHANGED main
  PROVE  Typed'
<1>1. PICK o \in OtherOps :
       LET sent == cli[c].sent + (IF o[1] = "normal" THEN 1 ELSE 0)
       IN  /\ net' = [net EXCEPT ![c].up = @ \o Pkg(o[1], Request(c, sent, o[2]))]
           /\ cli' = [cli EXCEPT ![c].asks = @ - 1, ![c].sent = sent]
  BY DEF OtherSend
<1> DEFINE sent == cli[c].sent + (IF o[1] = "normal" THEN 1 ELSE 0)
           p == Pkg(o[1], Request(c, sent, o[2]))
           it == [cli[c] EXCEPT !.asks = @ - 1, !.sent = sent]
<1>2. cli[c] \in CliType /\ cli[c].asks > 0
  BY DEF OtherSend, Typed, CliTyped
<1>3. cli[c].sent \in Nat /\ cli[c].asks - 1 \in Nat
  BY <1>2 DEF CliType
<1>4. sent \in Nat /\ sent \in Int
  BY <1>3
<1>5. o[1] \in Ops /\ o[2] \in Encs
  BY DEF Ops, Encs
<1>6. p \in Seq(Cells)
  <2>1. Request(c, sent, o[2]) \in Datas
    BY <1>4, <1>5, RequestIs
  <2> QED
    BY <1>5, <2>1, PkgIs
<1>7. net' = [net EXCEPT ![c].up = @ \o p] /\ cli' = [cli EXCEPT ![c].asks = @ - 1, ![c].sent = sent]
  BY <1>1
<1> HIDE DEF p, sent
<1>8. NetTyped'
  BY <1>6, <1>7, UpSet DEF Typed
<1>9. it \in CliType /\ cli' = [cli EXCEPT ![c] = it]
  BY <1>2, <1>3, <1>4, <1>7 DEF Typed, CliTyped, CliType
<1>10. CliTyped'
  BY <1>9, CliSet DEF Typed
<1> QED
  BY <1>8, <1>10, ClientRest DEF OtherSend

LEMMA ExitedTyped ==
  ASSUME Typed, NEW c \in Conn, GameExit(c), UNCHANGED main
  PROVE  Typed'
<1>1. PICK up \in {net[c].up, <<>>} :
       net' = [net EXCEPT ![c].up = up, ![c].peer = IF @ \in {"pending", "open"} THEN "left" ELSE @]
  BY DEF GameExit
<1>2. net[c] \in PeerType /\ up \in Seq(Cells)
  <2>1. net[c] \in PeerType /\ net[c].up \in Seq(Cells)
    BY DEF Typed, NetTyped, PeerType
  <2>2. <<>> \in Seq(Cells)
    BY EmptySeq
  <2> QED
    BY <1>1, <2>1, <2>2
<1>3. [net[c] EXCEPT !.up = up, !.peer = IF @ \in {"pending", "open"} THEN "left" ELSE @] \in PeerType
  BY <1>2 DEF PeerType
<1>4. NetTyped'
  BY <1>1, <1>3 DEF Typed, NetTyped
<1>5. cli' = [cli EXCEPT ![c].main = "exited"] /\ UNCHANGED cliRest
  BY DEF GameExit
<1>6. [cli[c] EXCEPT !.main = "exited"] \in CliType
  BY DEF Typed, CliTyped, CliType
<1>7. CliTyped'
  BY <1>5, <1>6 DEF Typed, CliTyped
<1> QED
  BY <1>4, <1>5, <1>7, ClientRest


\* What a client that looked at u is, and what it sends.
LEMMA GameRecvIs ==
  ASSUME Typed, NEW c \in Conn, NEW u, u.op \in Ops, u.data \in Datas, NEW r, r = GameRecv(c, u)
  PROVE  /\ r.me \in CliType /\ r.out \in {<<>>, Pkg("nego", Request(c, 0, "nego"))}
         /\ r.me.method = cli[c].method /\ r.me.sent = cli[c].sent /\ r.me.main \in {cli[c].main, "done"}
         /\ \/ r.me.got = cli[c].got
            \/ r.me.got = Append(cli[c].got, u.data) /\ u.ret = "pkg" /\ u.op = "normal" /\ CanAsk(c)
         /\ \/ /\ r.me.enc_type = cli[c].enc_type /\ r.me.enc_key = cli[c].enc_key
               /\ r.me.enc_block = cli[c].enc_block
            \/ /\ u.ret = "pkg" /\ u.op # "normal" /\ r = RecvConnSpecPkg(c, u)
<1> DEFINE me == cli[c]
<1>1. me \in CliType
  BY DEF Typed, CliTyped
<1> HIDE DEF me
<1>2. \A out : [me |-> me, out |-> out].me = me /\ [me |-> me, out |-> out].out = out
  OBVIOUS
<1>3. CASE u.ret = "illegal"
  <2>1. r = [me |-> me, out |-> <<>>]
    BY <1>3 DEF GameRecv, me
  <2> QED
    BY <1>1, <2>1 DEF me
<1>7. CASE u.ret = "panic"
  <2> DEFINE dead == [me EXCEPT !.main = "done"]
  <2>1. r = [me |-> dead, out |-> <<>>]
    BY <1>7 DEF GameRecv, me
  <2>2. /\ dead \in CliType /\ dead.method = me.method /\ dead.sent = me.sent /\ dead.main = "done"
        /\ dead.got = me.got /\ dead.enc_type = me.enc_type /\ dead.enc_key = me.enc_key
        /\ dead.enc_block = me.enc_block
    BY <1>1 DEF CliType
  <2> HIDE DEF dead
  <2> QED
    BY <2>1, <2>2 DEF me
<1>4. CASE u.ret = "pkg" /\ u.op # "normal"
  <2>1. r = RecvConnSpecPkg(c, u)
    BY <1>4 DEF GameRecv
  <2> DEFINE none == [me EXCEPT !.enc_type = "none"]
             gen == [me EXCEPT !.enc_type = "gen", !.enc_key = u.data.enc, !.enc_block = u.data.enc]
             rsa == [me EXCEPT !.enc_type = "rsa", !.enc_key = "nego"]
             took == [me EXCEPT !.enc_block = me.enc_key]
             nego == Pkg("nego", Request(c, 0, "nego"))
  <2>2. u.data.enc \in Encs /\ "nego" \in Encs /\ me.enc_key \in Encs
    BY <1>1 DEF Datas, Encs, CliType
  <2>3. none \in CliType /\ gen \in CliType /\ rsa \in CliType /\ took \in CliType
    BY <1>1, <2>2 DEF CliType
  <2>4. \A m \in {me, none, gen, rsa, took} :
          /\ m \in CliType /\ m.method = me.method /\ m.sent = me.sent /\ m.main = me.main /\ m.got = me.got
    <3>1. none.method = me.method /\ none.sent = me.sent /\ none.main = me.main /\ none.got = me.got
      BY <1>1 DEF CliType
    <3>2. gen.method = me.method /\ gen.sent = me.sent /\ gen.main = me.main /\ gen.got = me.got
      BY <1>1 DEF CliType
    <3>3. rsa.method = me.method /\ rsa.sent = me.sent /\ rsa.main = me.main /\ rsa.got = me.got
      BY <1>1 DEF CliType
    <3>4. took.method = me.method /\ took.sent = me.sent /\ took.main = me.main /\ took.got = me.got
      BY <1>1 DEF CliType
    <3> HIDE DEF none, gen, rsa, took
    <3> QED
      BY <1>1, <2>3, <3>1, <3>2, <3>3, <3>4
  <2>5. \/ r = [me |-> none, out |-> <<>>] \/ r = [me |-> gen, out |-> <<>>]
        \/ r = [me |-> rsa, out |-> nego] \/ r = [me |-> took, out |-> <<>>]
        \/ r = [me |-> me, out |-> <<>>]
    BY <2>1 DEF RecvConnSpecPkg, me
  <2> HIDE DEF none, gen, rsa, took
  <2>6. r.me \in {me, none, gen, rsa, took} /\ r.out \in {<<>>, nego}
    BY <2>5
  <2> QED
    BY <1>4, <2>1, <2>4, <2>6 DEF me
<1>5. CASE \/ u.ret = "error"
           \/ u.ret = "not ready" /\ me.enc_type # "none"
           \/ u.ret = "pkg" /\ u.op = "normal" /\ ~CanAsk(c)
  <2> DEFINE deaf == [me EXCEPT !.reads = FALSE]
  <2>1. r = [me |-> deaf, out |-> <<>>]
    BY <1>5 DEF GameRecv, me
  <2>2. /\ deaf \in CliType /\ deaf.method = me.method /\ deaf.sent = me.sent /\ deaf.main = me.main
        /\ deaf.got = me.got /\ deaf.enc_type = me.enc_type /\ deaf.enc_key = me.enc_key
        /\ deaf.enc_block = me.enc_block
    BY <1>1 DEF CliType
  <2> HIDE DEF deaf
  <2> QED
    BY <2>1, <2>2 DEF me
<1>6. CASE /\ u.ret \notin {"illegal", "error", "panic"} /\ ~(u.ret = "pkg" /\ u.op # "normal")
           /\ ~(u.ret = "not ready" /\ me.enc_type # "none")
           /\ ~(u.ret = "pkg" /\ u.op = "normal" /\ ~CanAsk(c))
  <2> DEFINE got == IF u.ret = "pkg" THEN Append(me.got, u.data) ELSE me.got
             m == IF Method(c) = "command" THEN "done" ELSE me.main
             read == [me EXCEPT !.got = got, !.main = m]
  <2>1. r = [me |-> read, out |-> <<>>]
    BY <1>6 DEF GameRecv, me
  <2>2. me.got \in Seq(Datas) /\ m \in {me.main, "done"}
    BY <1>1 DEF CliType
  <2>3. got \in Seq(Datas)
    BY <2>2
  <2>4. \/ got = me.got
        \/ got = Append(me.got, u.data) /\ u.ret = "pkg" /\ u.op = "normal" /\ CanAsk(c)
    <3>1. CASE u.ret = "pkg"
      <4>1. u.op = "normal" /\ CanAsk(c)
        BY <1>6, <3>1
      <4> QED
        BY <3>1, <4>1
    <3>2. CASE u.ret # "pkg"
      BY <3>2
    <3> QED
      BY <3>1, <3>2
  <2> HIDE DEF got, m
  <2>5. /\ read \in CliType /\ read.method = me.method /\ read.sent = me.sent /\ read.main = m
        /\ read.got = got /\ read.enc_type = me.enc_type /\ read.enc_key = me.enc_key
        /\ read.enc_block = me.enc_block
    BY <1>1, <2>2, <2>3 DEF CliType
  <2> HIDE DEF read
  <2>6. r.me = read /\ r.out = <<>>
    BY <2>1
  <2> QED
    BY <2>2, <2>4, <2>5, <2>6 DEF me
<1> QED
  BY <1>3, <1>4, <1>5, <1>6, <1>7

LEMMA OneShotIs ==
  ASSUME Typed, NEW c \in Conn, NEW u, u.op \in Ops, u.data \in Datas, NEW r, r = OneShotRecv(c, u)
  PROVE  /\ r.me \in CliType /\ r.out \in {<<>>, Plain(c)}
         /\ r.out = <<>> => r.me.sent = cli[c].sent
         /\ r.out # <<>> => r.me.sent = cli[c].sent + 1 /\ r.me.got = cli[c].got
         /\ r.me.method = cli[c].method /\ r.me.main \in {"wait", "done"}
         /\ \/ r.me.got = cli[c].got
            \/ r.me.got = Append(cli[c].got, u.data) /\ u.ret = "pkg" /\ u.op = "normal"
         /\ r.me.enc_type = cli[c].enc_type /\ r.me.enc_key = cli[c].enc_key
         /\ r.me.enc_block = cli[c].enc_block
<1> DEFINE me == cli[c]
           got == IF u.ret = "pkg" /\ u.op = "normal" THEN Append(me.got, u.data) ELSE me.got
           last == [me EXCEPT !.got = got, !.main = "done"]
           on == [me EXCEPT !.main = "wait", !.sent = me.sent + 1]
<1>1. me \in CliType /\ me.got \in Seq(Datas) /\ me.sent + 1 \in Nat
  BY FirstsAre DEF Typed, CliTyped, CliType
<1>2. got \in Seq(Datas)
  BY <1>1
<1>3. \/ r = [me |-> on, out |-> Plain(c)]
      \/ r = [me |-> last, out |-> <<>>]
  BY DEF OneShotRecv
<1>4. \/ got = me.got
      \/ got = Append(me.got, u.data) /\ u.ret = "pkg" /\ u.op = "normal"
  <2>1. CASE u.ret = "pkg" /\ u.op = "normal"
    BY <2>1
  <2>2. CASE ~(u.ret = "pkg" /\ u.op = "normal")
    BY <2>2
  <2> QED
    BY <2>1, <2>2
<1> HIDE DEF got
<1>5. /\ last \in CliType /\ last.method = me.method /\ last.sent = me.sent /\ last.main = "done"
      /\ last.got = got /\ last.enc_type = me.enc_type /\ last.enc_block = me.enc_block
      /\ last.enc_key = me.enc_key
  BY <1>1, <1>2 DEF CliType
<1>6. /\ on \in CliType /\ on.method = me.method /\ on.sent = me.sent + 1 /\ on.main = "wait"
      /\ on.got = me.got /\ on.enc_type = me.enc_type /\ on.enc_block = me.enc_block
      /\ on.enc_key = me.enc_key
  BY <1>1 DEF CliType
<1>7. Plain(c) # <<>>
  BY FirstsAre DEF Plain, Pkg
<1> HIDE DEF last, on, me
<1>8. CASE r = [me |-> on, out |-> Plain(c)]
  BY <1>6, <1>7, <1>8 DEF me
<1>9. CASE r = [me |-> last, out |-> <<>>]
  BY <1>4, <1>5, <1>9 DEF me
<1> QED
  BY <1>3, <1>8, <1>9

\* What client c makes of the package it reads.
ReadAs(c, n, u) ==
  /\ u.op \in Ops /\ u.data \in Datas
  /\ \E v \in UnPack(SubSeq(net[c].down, 1, n)) :
       u.op = v.op /\ u.data = v.data /\ (u.ret = "pkg" => v.ret = "pkg")

LEMMA RecvIs ==
  ASSUME Typed, NEW c \in Conn, NEW n \in 1 .. Len(net[c].down), RecvPkg(c, n)
  PROVE  \E u :
           /\ ReadAs(c, n, u)
           /\ LET r == IF IsGame(c) THEN GameRecv(c, u) ELSE OneShotRecv(c, u)
              IN  /\ cli' = [cli EXCEPT ![c] = r.me]
                  /\ net' = [net EXCEPT ![c].down = SubSeq(@, n + 1, Len(@)), ![c].up = @ \o r.out]
<1> DEFINE raw == SubSeq(net[c].down, 1, n)
<1>1. raw \in Seq(Cells)
  <2>1. net[c].down \in Seq(Cells) /\ n \in Nat /\ n <= Len(net[c].down)
    BY DEF Typed, NetTyped, PeerType
  <2> QED
    BY <2>1, Cut
<1>0. PICK v \in UnPack(raw) : \E u \in Decrypted(c, v) :
       LET r == IF IsGame(c) THEN GameRecv(c, u) ELSE OneShotRecv(c, u)
       IN  /\ cli' = [cli EXCEPT ![c] = r.me]
           /\ net' = [net EXCEPT ![c].down = SubSeq(@, n + 1, Len(@)), ![c].up = @ \o r.out]
  BY DEF RecvPkg
<1>2. PICK u \in Decrypted(c, v) :
       LET r == IF IsGame(c) THEN GameRecv(c, u) ELSE OneShotRecv(c, u)
       IN  /\ cli' = [cli EXCEPT ![c] = r.me]
           /\ net' = [net EXCEPT ![c].down = SubSeq(@, n + 1, Len(@)), ![c].up = @ \o r.out]
  BY <1>0
<1>3. u.op = v.op /\ u.data = v.data /\ (u.ret = "pkg" => v.ret = "pkg")
  BY DEF Decrypted
<1>4. v.op \in Ops /\ v.data \in Datas
  <2> HIDE DEF raw
  <2> QED
    BY <1>1, UnPackIs
<1>5. ReadAs(c, n, u)
  BY <1>3, <1>4 DEF ReadAs
<1> QED
  BY <1>2, <1>5

LEMMA RecvPkgTyped ==
  ASSUME Typed, NEW c \in Conn, NEW n \in 1 .. Len(net[c].down), RecvPkg(c, n), UNCHANGED main
  PROVE  Typed'
<1>1. net[c] \in PeerType /\ net[c].down \in Seq(Cells) /\ net[c].up \in Seq(Cells) /\ n \in Nat
      /\ n <= Len(net[c].down)
  BY DEF Typed, NetTyped, PeerType
<1>2. SubSeq(net[c].down, 1, n) \in Seq(Cells) /\ SubSeq(net[c].down, n + 1, Len(net[c].down)) \in Seq(Cells)
  BY <1>1, Cut
<1>3. PICK u :
       /\ ReadAs(c, n, u)
       /\ LET r == IF IsGame(c) THEN GameRecv(c, u) ELSE OneShotRecv(c, u)
          IN  /\ cli' = [cli EXCEPT ![c] = r.me]
              /\ net' = [net EXCEPT ![c].down = SubSeq(@, n + 1, Len(@)), ![c].up = @ \o r.out]
  BY RecvIs
<1> DEFINE r == IF IsGame(c) THEN GameRecv(c, u) ELSE OneShotRecv(c, u)
           it == [net[c] EXCEPT !.down = SubSeq(@, n + 1, Len(@)), !.up = @ \o r.out]
<1>4. u.op \in Ops /\ u.data \in Datas
  BY <1>3 DEF ReadAs
<1>5. r.me \in CliType /\ r.out \in {<<>>, Pkg("nego", Request(c, 0, "nego")), Plain(c)}
  BY <1>4, GameRecvIs, OneShotIs
<1>6. r.out \in Seq(Cells)
  <2>1. Plain(c) \in Seq(Cells) /\ Pkg("nego", Request(c, 0, "nego")) \in Seq(Cells)
    BY FirstsAre
  <2>2. <<>> \in Seq(Cells)
    BY EmptySeq
  <2> QED
    BY <1>5, <2>1, <2>2
<1>7. cli' = [cli EXCEPT ![c] = r.me] /\ net' = [net EXCEPT ![c].down = SubSeq(@, n + 1, Len(@)), ![c].up = @ \o r.out]
  BY <1>3
<1> HIDE DEF r
<1>8. net[c].up \o r.out \in Seq(Cells)
  BY <1>1, <1>6, ConcatProperties
<1>9. it \in PeerType /\ net' = [net EXCEPT ![c] = it]
  BY <1>1, <1>2, <1>7, <1>8 DEF PeerType, Typed, NetTyped
<1>10. NetTyped'
  BY <1>9 DEF Typed, NetTyped
<1>11. CliTyped'
  BY <1>5, <1>7, CliSet DEF Typed
<1> QED
  BY <1>10, <1>11, ClientRest DEF RecvPkg


LEMMA NextTyped ==
  ASSUME Typed, SlotsInv, Next
  PROVE  Typed'
<1>1. ASSUME TcpServer, UNCHANGED <<cli, main>> PROVE Typed'
  BY <1>1, AcceptTyped, TurnTyped, CloseClientTyped, DispatchTyped, DispatchAppendTyped DEF TcpServer, SlotsInv
<1>2. ASSUME NEW c \in Conn, Run(c), UNCHANGED <<cli, main>> PROVE Typed'
  BY <1>2, ReadTyped, ReadTimeoutTyped, ReadClosedTyped, ParseTyped, AppendOwnTyped, SendFirstTyped,
     SendPkgTyped, SendEndTyped DEF Run
<1>3. ASSUME NEW c \in Conn, Client(c), UNCHANGED main PROVE Typed'
  BY <1>3, ConnectTyped, ConnectFailsTyped, GameSendTyped, OtherSendTyped, ExitedTyped, RecvPkgTyped DEF Client
<1> QED
  BY <1>1, <1>2, <1>3, SendToTyped, ClosesTyped, RecvTyped, HandleTyped, ExitTyped, Zenon DEF Next

-----------------------------------------------------------------------------
(* Slots: each step. *)

\* A step that lets the list and the states of the connections be.
LEMMA SlotsKept ==
  ASSUME Typed, SlotsInv, UNCHANGED <<client_list, curr_conn, key_map, close_ch>>,
         \A c \in Conn :
           /\ cl'[c].stat = cl[c].stat /\ (cl'[c].pc = "done" <=> cl[c].pc = "done")
           /\ cl[c].stat # "none" => net'[c].peer \in {"open", "left", "closed"}
           /\ c \in key_map => net'[c].peer \in {"open", "left"}
           /\ cli'[c].main = "start" => net'[c].peer = "idle"
  PROVE  SlotsInv'
<1>1. Used' = Used /\ \A s \in Used : client_list[s] \in Conn
  BY DEF Used, Typed, QueuesTyped
<1>2. ClosingSlots' = ClosingSlots
  BY <1>1 DEF ClosingSlots
<1>3. Listed'
  BY <1>1 DEF SlotsInv, Listed
<1>4. Waiting'
  BY <1>2 DEF SlotsInv, Waiting
<1>5. Stations'
  BY DEF SlotsInv, Stations
<1> QED
  BY <1>3, <1>4, <1>5 DEF SlotsInv

\* ... nor the sockets and the clients.
LEMMA SlotsStay ==
  ASSUME Typed, SlotsInv, UNCHANGED <<client_list, curr_conn, key_map, close_ch, cli>>,
         \A c \in Conn :
           /\ cl'[c].stat = cl[c].stat /\ (cl'[c].pc = "done" <=> cl[c].pc = "done")
           /\ net'[c].peer = net[c].peer
  PROVE  SlotsInv'
BY SlotsKept DEF SlotsInv, Stations

\* One client changes, and its state does not.
LEMMA SlotsOne ==
  ASSUME Typed, SlotsInv, UNCHANGED <<client_list, curr_conn, key_map, close_ch, cli>>,
         NEW c \in Conn, NEW r, cl' = [cl EXCEPT ![c] = r], r.stat = cl[c].stat,
         r.pc # "done", cl[c].pc # "done", \A d \in Conn : net'[d].peer = net[d].peer
  PROVE  SlotsInv'
<1>1. \A d \in Conn : cl'[d] = IF d = c THEN r ELSE cl[d]
  BY DEF Typed, ClientsTyped
<1> QED
  BY <1>1, SlotsStay

LEMMA ClosingKeeps ==
  ASSUME Typed, SlotsInv, NEW c \in Conn, cl[c].stat = "normal", NEW b \in BOOLEAN, Closing(c, b),
         UNCHANGED <<client_list, curr_conn, key_map, net, cli>>
  PROVE  /\ SlotsInv' /\ c \in key_map
         /\ cl'[c].stat = "closing" /\ cl'[c].server_close = b /\ \A d \in Conn \ {c} : cl'[d] = cl[d]
<1> DEFINE k == IndexOf(c)
<1>1. k \in Used /\ client_list[k] = c
  BY IndexIs DEF SlotsInv
<1>2. \A d \in Conn : cl'[d] = IF d = c THEN [cl[c] EXCEPT !.stat = "closing", !.server_close = b,
                                                           !.pc = "done"] ELSE cl[d]
  BY DEF Closing, Typed, ClientsTyped
<1>3. /\ cl'[c].stat = "closing" /\ cl'[c].pc = "done" /\ cl'[c].server_close = b
      /\ \A d \in Conn \ {c} : cl'[d] = cl[d]
  BY <1>2 DEF Typed, ClientsTyped, ClientType
<1>4. Used' = Used /\ \A s \in Used : client_list[s] \in Conn
  BY DEF Used, Typed, QueuesTyped
<1>5. \A s \in Used : client_list[s] = c <=> s = k
  BY <1>1 DEF SlotsInv, Listed
<1>6. ClosingSlots' = ClosingSlots \cup {k} /\ k \notin ClosingSlots
  BY <1>1, <1>3, <1>4, <1>5 DEF ClosingSlots
<1>7. close_ch' = Append(close_ch, k) /\ close_ch \in Seq(Slot) /\ k \in Slot
  BY <1>1 DEF Closing, Typed, QueuesTyped, Used
<1>8. Waiting'
  <2>1. /\ Len(close_ch') = Len(close_ch) + 1 /\ close_ch'[Len(close_ch) + 1] = k
        /\ \A i \in 1 .. Len(close_ch) : close_ch'[i] = close_ch[i]
        /\ Len(close_ch) \in Nat
    BY <1>7
  <2>2. \A i \in 1 .. Len(close_ch) : close_ch[i] \in ClosingSlots
    BY DEF SlotsInv, Waiting
  <2>3. \A i \in 1 .. Len(close_ch') : \/ i \in 1 .. Len(close_ch) /\ close_ch'[i] = close_ch[i]
                                       \/ i = Len(close_ch) + 1 /\ close_ch'[i] = k
    BY <2>1
  <2>4. \A i, j \in 1 .. Len(close_ch') : close_ch'[i] = close_ch'[j] => i = j
    BY <1>6, <2>2, <2>3 DEF SlotsInv, Waiting
  <2>5. \A i \in 1 .. Len(close_ch') : close_ch'[i] \in ClosingSlots'
    BY <1>6, <2>2, <2>3
  <2>6. \A s \in ClosingSlots' : \E i \in 1 .. Len(close_ch') : close_ch'[i] = s
    <3> SUFFICES ASSUME NEW s \in ClosingSlots' PROVE \E i \in 1 .. Len(close_ch') : close_ch'[i] = s
      OBVIOUS
    <3>1. CASE s = k
      BY <2>1, <3>1
    <3>2. CASE s # k
      <4>1. PICK i \in 1 .. Len(close_ch) : close_ch[i] = s
        BY <1>6, <3>2 DEF SlotsInv, Waiting
      <4> QED
        BY <2>1, <4>1
    <3> QED
      BY <3>1, <3>2
  <2> QED
    BY <2>4, <2>5, <2>6 DEF Waiting
<1>9. Listed'
  BY <1>4 DEF SlotsInv, Listed
<1>10. c \in key_map
  BY <1>1 DEF SlotsInv, Listed
<1>11. Stations'
  BY <1>3, <1>10 DEF SlotsInv, Stations
<1> QED
  BY <1>3, <1>8, <1>9, <1>10, <1>11 DEF SlotsInv


LEMMA UsedIs ==
  /\ IsFiniteSet(Used) /\ Cardinality(Used) \in Nat /\ Cardinality(Used) <= MaxConn
  /\ Cardinality(Used) # MaxConn => \E s \in Slot : client_list[s] = None
<1>1. IsFiniteSet(Slot) /\ Cardinality(Slot) = MaxConn
  BY Consts, FS_Interval DEF Slot
<1>2. Used \subseteq Slot
  BY DEF Used
<1>3. /\ IsFiniteSet(Used) /\ Cardinality(Used) <= Cardinality(Slot)
      /\ Cardinality(Used) = Cardinality(Slot) => Slot = Used
  BY <1>1, <1>2, FS_Subset
<1>4. Cardinality(Used) \in Nat
  BY <1>3, FS_CardinalityType
<1>5. Cardinality(Used) # MaxConn => \E s \in Slot : client_list[s] = None
  <2>1. ASSUME \A s \in Slot : client_list[s] # None PROVE Used = Slot
    BY <2>1 DEF Used
  <2> QED
    BY <1>1, <2>1
<1> QED
  BY <1>1, <1>3, <1>4, <1>5

\* A set of numbers has a least one.
LEMMA Least ==
  ASSUME NEW T, T \subseteq Nat, T # {}
  PROVE  \E x \in T : \A y \in T : x <= y
<1>1. PICK x \in T : \A y \in T : <<y, x>> \notin OpToRel(<, Nat)
  BY WFMin, NatLessThanWellFounded
<1>2. ASSUME NEW y \in T PROVE x <= y
  <2>1. ~(y < x)
    BY <1>1 DEF OpToRel
  <2> QED
    BY <2>1
<1> QED
  BY <1>2

\* The search for a free slot finds the first one.
LEMMA FirstFree ==
  ASSUME \E s \in Slot : client_list[s] = None,
         NEW k, k = CHOOSE s \in Slot : /\ client_list[s] = None
                                        /\ \A t \in 1 .. s - 1 : client_list[t] # None
  PROVE  k \in Slot /\ client_list[k] = None
<1> DEFINE Free == {s \in Slot : client_list[s] = None}
<1>1. Free \subseteq Nat /\ Free # {}
  BY DEF Slot
<1> HIDE DEF Free
<1>2. PICK s \in Free : \A t \in Free : s <= t
  BY <1>1, Least
<1> USE DEF Free
<1>4. s \in Slot /\ client_list[s] = None
  BY <1>2
<1>5. \A t \in 1 .. s - 1 : t \in Slot /\ ~(s <= t)
  BY <1>4, Consts DEF Slot
<1>6. \A t \in 1 .. s - 1 : client_list[t] # None
  BY <1>2, <1>5
<1> QED
  BY <1>4, <1>6

LEMMA AcceptSlots ==
  ASSUME Typed, SlotsInv, NEW c \in Conn, Accept(c), UNCHANGED <<cli, main>>
  PROVE  SlotsInv'
<1>1. net[c].peer = "pending" /\ UNCHANGED close_ch
  BY DEF Accept
<1>2. c \notin key_map /\ cl[c].stat = "none" /\ cli[c].main # "start"
  BY <1>1 DEF SlotsInv, Stations
<1>3. CASE curr_conn >= MaxConn
  <2>1. net' = [net EXCEPT ![c].peer = "refused"] /\ UNCHANGED <<client_list, curr_conn, key_map, cl>>
    BY <1>3 DEF Accept
  <2>2. \A d \in Conn : net'[d].peer = IF d = c THEN "refused" ELSE net[d].peer
    BY <2>1 DEF Typed, NetTyped, PeerType
  <2> QED
    BY <1>1, <1>2, <2>1, <2>2, SlotsKept DEF SlotsInv, Stations
<1>4. CASE ~(curr_conn >= MaxConn)
  <2> DEFINE s == CHOOSE s \in Slot : /\ client_list[s] = None
                                      /\ \A t \in 1 .. s - 1 : client_list[t] # None
  <2>1. /\ net' = [net EXCEPT ![c].peer = "open"] /\ client_list' = [client_list EXCEPT ![s] = c]
        /\ curr_conn' = curr_conn + 1 /\ key_map' = key_map \cup {c}
        /\ cl' = [cl EXCEPT ![c] = NewClient]
    BY <1>4 DEF Accept
  <2>2. curr_conn = Cardinality(Used)
    BY DEF SlotsInv, Listed
  <2>3. \E t \in Slot : client_list[t] = None
    BY <1>4, <2>2, UsedIs, Consts
  <2>4. s \in Slot /\ client_list[s] = None
    BY <2>3, FirstFree
  <2> HIDE DEF s
  <2>5. /\ \A t \in Slot : client_list'[t] = IF t = s THEN c ELSE client_list[t]
        /\ \A t \in Used : client_list[t] \in Conn
    BY <2>1, <2>4 DEF Typed, QueuesTyped, Used
  <2>6. Used' = Used \cup {s} /\ s \notin Used
    BY <2>4, <2>5, NullKey DEF Used
  <2>7. Cardinality(Used') = Cardinality(Used) + 1
    BY <2>6, UsedIs, FS_AddElement
  <2>8. key_map' = {client_list'[t] : t \in Used'}
    <3>1. key_map = {client_list[t] : t \in Used} /\ s \notin Used
      BY <2>6 DEF SlotsInv, Listed
    <3>2. \A t \in Used : t \in Slot /\ t # s /\ client_list'[t] = client_list[t]
      BY <2>5, <3>1 DEF Used
    <3>3. client_list'[s] = c /\ s \in Used'
      BY <2>4, <2>5, <2>6
    <3>4. {client_list'[t] : t \in Used'} = {client_list[t] : t \in Used} \cup {c}
      BY <2>6, <3>2, <3>3
    <3> QED
      BY <2>1, <3>1, <3>4
  <2>9. \A t \in Used : client_list[t] # c
    BY <1>2 DEF SlotsInv, Listed
  <2>10. \A t, v \in Used' : client_list'[t] = client_list'[v] => t = v
    <3>1. \A t \in Used' : \/ t = s /\ client_list'[t] = c
                           \/ t \in Used /\ t # s /\ client_list'[t] = client_list[t]
      BY <2>5, <2>6 DEF Used
    <3> QED
      BY <2>9, <3>1 DEF SlotsInv, Listed
  <2>11. Listed'
    BY <2>1, <2>2, <2>7, <2>8, <2>10 DEF Listed
  <2>12. \A d \in Conn : /\ cl'[d] = IF d = c THEN NewClient ELSE cl[d]
                         /\ net'[d].peer = IF d = c THEN "open" ELSE net[d].peer
    BY <2>1 DEF Typed, ClientsTyped, NetTyped, PeerType
  <2>13. NewClient.stat = "normal" /\ NewClient.pc = "read"
    BY DEF NewClient
  <2>14. Stations'
    BY <1>2, <2>1, <2>12, <2>13 DEF SlotsInv, Stations
  <2>15. ClosingSlots' = ClosingSlots
    <3>1. \A t \in Used : t \in Slot /\ t # s /\ client_list'[t] = client_list[t]
                          /\ cl'[client_list[t]] = cl[client_list[t]]
      BY <2>5, <2>6, <2>9, <2>12 DEF Used
    <3>2. client_list'[s] = c /\ cl'[c].stat = "normal"
      BY <2>4, <2>5, <2>12, <2>13
    <3> QED
      BY <2>6, <3>1, <3>2 DEF ClosingSlots
  <2>16. Waiting'
    BY <1>1, <2>15 DEF SlotsInv, Waiting
  <2> QED
    BY <2>11, <2>14, <2>16 DEF SlotsInv
<1> QED
  BY <1>3, <1>4

LEMMA CloseClientSlots ==
  ASSUME Typed, SlotsInv, CloseClient, UNCHANGED <<cli, main>>
  PROVE  SlotsInv'
<1> DEFINE s == Head(close_ch)
           c == client_list[s]
<1>1. s \in Used /\ c \in Conn /\ cl[c].stat = "closing" /\ s \in Slot
  BY HeadWaits DEF CloseClient, SlotsInv, Used
<1>2. /\ net' = [net EXCEPT ![c].peer = "closed"]
      /\ cl' = [cl EXCEPT ![c].snd_cache = <<>>, ![c].recv_cache = <<>>]
      /\ key_map' = key_map \ {c} /\ client_list' = [client_list EXCEPT ![s] = None]
      /\ curr_conn' = curr_conn - 1 /\ close_ch' = Tail(close_ch)
      /\ close_ch # <<>>
  BY DEF CloseClient
<1>3. close_ch \in Seq(Slot) /\ s = close_ch[1]
  BY <1>2 DEF Typed, QueuesTyped
<1> HIDE DEF s
<1>4. \A t \in Slot : client_list'[t] = IF t = s THEN None ELSE client_list[t]
  BY <1>1, <1>2 DEF Typed, QueuesTyped
<1>5. Used' = Used \ {s}
  BY <1>4 DEF Used
<1>6. curr_conn' = Cardinality(Used')
  BY <1>1, <1>2, <1>5, UsedIs, FS_RemoveElement DEF SlotsInv, Listed
<1>7. \A t \in Used : client_list[t] = c <=> t = s
  BY <1>1 DEF SlotsInv, Listed
<1> HIDE DEF c
<1>8. \A t \in Used' : t \in Used /\ t # s /\ client_list'[t] = client_list[t] /\ client_list[t] # c
  BY <1>4, <1>5, <1>7 DEF Used
<1>9. Listed'
  <2>1. key_map' = {client_list'[t] : t \in Used'}
    <3>1. \A d \in key_map' : \E t \in Used' : client_list'[t] = d
      <4> SUFFICES ASSUME NEW d \in key_map' PROVE \E t \in Used' : client_list'[t] = d
        OBVIOUS
      <4>1. d # c /\ d \in key_map
        BY <1>2
      <4>2. PICK t \in Used : client_list[t] = d
        BY <4>1 DEF SlotsInv, Listed
      <4>3. t # s
        BY <1>1, <4>1, <4>2, <1>7
      <4> QED
        BY <1>5, <1>8, <4>2, <4>3
    <3>2. \A t \in Used' : client_list'[t] \in key_map'
      BY <1>2, <1>8 DEF SlotsInv, Listed
    <3> QED
      BY <3>1, <3>2
  <2>2. \A t, v \in Used' : client_list'[t] = client_list'[v] => t = v
    BY <1>8 DEF SlotsInv, Listed
  <2> QED
    BY <1>6, <2>1, <2>2 DEF Listed
<1>10. \A d \in Conn : /\ cl'[d].stat = cl[d].stat /\ cl'[d].pc = cl[d].pc
                       /\ net'[d].peer = IF d = c THEN "closed" ELSE net[d].peer
  BY <1>1, <1>2, SMTT(30) DEF Typed, ClientsTyped, ClientType, NetTyped, PeerType
<1>11. c \in key_map /\ c \notin key_map'
  BY <1>1, <1>2, <1>7 DEF SlotsInv, Listed
<1>12. Stations'
  <2>1. cli[c].main # "start"
    BY <1>1, <1>11 DEF SlotsInv, Stations
  <2> QED
    BY <1>1, <1>2, <1>10, <2>1, ZenonT(60) DEF SlotsInv, Stations
<1>13. ClosingSlots' = ClosingSlots \ {s} /\ s \in ClosingSlots
  <2>1. \A t \in Used : client_list[t] \in Conn
    BY DEF Typed, QueuesTyped, Used
  <2> QED
    BY <1>1, <1>5, <1>7, <1>8, <1>10, <2>1 DEF ClosingSlots
<1>14. Waiting'
  <2>1. /\ Len(close_ch') = Len(close_ch) - 1 /\ Len(close_ch) \in Nat /\ Len(close_ch) > 0
        /\ \A i \in 1 .. Len(close_ch) - 1 : close_ch'[i] = close_ch[i + 1]
    BY <1>2, <1>3
  <2>2. \A i \in 1 .. Len(close_ch') : /\ i \in 1 .. Len(close_ch) - 1
                                       /\ i + 1 \in 1 .. Len(close_ch) /\ 1 \in 1 .. Len(close_ch) /\ i + 1 # 1
                                       /\ close_ch'[i] = close_ch[i + 1]
    BY <2>1
  <2>3. \A i, j \in 1 .. Len(close_ch) : close_ch[i] = close_ch[j] => i = j
    BY DEF SlotsInv, Waiting
  <2>4. \A i, j \in 1 .. Len(close_ch') : close_ch'[i] = close_ch'[j] => i = j
    <3> SUFFICES ASSUME NEW i \in 1 .. Len(close_ch'), NEW j \in 1 .. Len(close_ch'),
                        close_ch'[i] = close_ch'[j]
                 PROVE  i = j
      OBVIOUS
    <3>1. i + 1 = j + 1
      BY <2>2, <2>3
    <3> QED
      BY <2>1, <2>2, <3>1
  <2>5. \A i \in 1 .. Len(close_ch') : close_ch'[i] \in ClosingSlots'
    <3> SUFFICES ASSUME NEW i \in 1 .. Len(close_ch') PROVE close_ch'[i] \in ClosingSlots'
      OBVIOUS
    <3>1. close_ch[i + 1] \in ClosingSlots /\ close_ch'[i] = close_ch[i + 1]
      BY <2>2 DEF SlotsInv, Waiting
    <3>2. close_ch[i + 1] # s
      BY <1>3, <2>2, <2>3
    <3> QED
      BY <1>13, <3>1, <3>2
  <2>6. \A t \in ClosingSlots' : \E i \in 1 .. Len(close_ch') : close_ch'[i] = t
    <3> SUFFICES ASSUME NEW t \in ClosingSlots' PROVE \E i \in 1 .. Len(close_ch') : close_ch'[i] = t
      OBVIOUS
    <3>1. PICK i \in 1 .. Len(close_ch) : close_ch[i] = t
      BY <1>13 DEF SlotsInv, Waiting
    <3>2. i # 1
      BY <1>3, <1>13, <3>1
    <3>3. i - 1 \in 1 .. Len(close_ch') /\ (i - 1) + 1 = i
      BY <2>1, <3>2
    <3> QED
      BY <2>2, <3>1, <3>3
  <2> QED
    BY <2>4, <2>5, <2>6 DEF Waiting
<1> QED
  BY <1>9, <1>12, <1>14 DEF SlotsInv


LEMMA ServSlots ==
  ASSUME Typed, SlotsInv, TcpServer, UNCHANGED <<cli, main>>
  PROVE  SlotsInv'
<1>1. CASE AcceptTimeout \/ ServerStops \/ CloseDone \/ DispatchDone \/ Dispatch
  <2>1. UNCHANGED <<client_list, curr_conn, key_map, close_ch, cl, net>>
    BY <1>1 DEF AcceptTimeout, ServerStops, CloseDone, DispatchDone, Dispatch
  <2> QED
    BY <2>1, SlotsStay
<1>2. CASE DispatchAppend
  <2> DEFINE c == serv.item.key
  <2>1. /\ serv.item \in Items /\ cl' = [cl EXCEPT ![c].snd_queue = Append(@, serv.item)]
        /\ UNCHANGED <<client_list, curr_conn, key_map, close_ch, net>>
    BY <1>2, DispatchAppendTyped DEF DispatchAppend
  <2>2. c \in Conn
    BY <2>1 DEF Items
  <2>3. \A d \in Conn : cl'[d].stat = cl[d].stat /\ cl'[d].pc = cl[d].pc
    BY <2>1, <2>2 DEF Typed, ClientsTyped, ClientType
  <2> QED
    BY <2>1, <2>3, SlotsStay
<1> QED
  BY <1>1, <1>2, AcceptSlots, CloseClientSlots DEF TcpServer

LEMMA ParseSlots ==
  ASSUME Typed, SlotsInv, NEW c \in Conn, Parse(c), UNCHANGED <<cli, main>>
  PROVE  SlotsInv'
<1> DEFINE me == cl[c]
           raw == SubSeq(me.recv_cache, me.off + 1, Len(me.recv_cache))
           next == Taken(me, raw)
<1>1. me \in ClientType /\ me.pc = "parse" /\ cl \in [Conn -> ClientType]
  BY DEF Parse, Typed, ClientsTyped
<1>2. me.recv_cache \in Seq(Cells) /\ me.off \in Nat
  BY <1>1 DEF ClientType
<1>3. raw \in Seq(Cells)
  BY <1>2, Cut
<1>4. next \in ClientType /\ next.pc = "parse" /\ next.stat = me.stat
  <2>1. next \in ClientType /\ next.pc = me.pc
    BY <1>1, <1>3, TakenIs
  <2>2. \/ next = [me EXCEPT !.recv_cache = <<>>, !.off = 0]
        \/ next = [me EXCEPT !.off = me.off + 2]
    BY <1>1, <1>3, TakenIs
  <2> HIDE DEF next
  <2> QED
    BY <1>1, <2>1, <2>2 DEF ClientType
<1>5. cl[c].stat = "normal"
  BY NotDone, <1>1 DEF SlotsInv
<1>6. UNCHANGED <<pserv, client_list, curr_conn, key_map, snd_queue, exit_ch, serv, net>>
  BY DEF Parse
<1> HIDE DEF raw, next
<1>7. PICK u \in UnPack(raw) :
       \/ /\ cl' = [cl EXCEPT ![c].recv_cache = KeepRest(me.recv_cache, me.off),
                              ![c].off = 0, ![c].pc = "read"]
          /\ UNCHANGED close_ch
       \/ Closing(c, FALSE)
       \/ cl' = [cl EXCEPT ![c].off = 0, ![c].pc = "send"] /\ UNCHANGED close_ch
       \/ cl' = [cl EXCEPT ![c] = next] /\ UNCHANGED close_ch
       \/ /\ Fits(u) /\ u.op # "normal"
          /\ LET h == handle_spec_pkg(next, u.op, u.data)
                 drop == h.ans = NoAnswer \/ Len(me.snd_queue) >= ClientCap
             IN  cl' = [cl EXCEPT ![c] = [h.me EXCEPT
                          !.pc = IF drop THEN "parse" ELSE "append",
                          !.item = IF drop THEN NoItem
                                   ELSE Item(c, h.ans.op, h.ans.data, "normal")]]
          /\ UNCHANGED close_ch
  BY Zenon DEF Parse, raw, next
<1>8. u.op \in Ops /\ u.data \in Datas
  BY <1>3, UnPackIs
<1>9. CASE /\ cl' = [cl EXCEPT ![c].recv_cache = KeepRest(me.recv_cache, me.off),
                               ![c].off = 0, ![c].pc = "read"]
           /\ UNCHANGED close_ch
  <2> DEFINE it == [me EXCEPT !.recv_cache = KeepRest(me.recv_cache, me.off), !.off = 0, !.pc = "read"]
  <2>1. it.stat = me.stat /\ it.pc = "read" /\ cl' = [cl EXCEPT ![c] = it]
    BY <1>1, <1>9 DEF ClientType
  <2> HIDE DEF it
  <2> QED
    BY <1>1, <1>6, <1>9, <2>1, SlotsOne
<1>10. CASE Closing(c, FALSE)
  BY <1>5, <1>6, <1>10, ClosingKeeps
<1>11. CASE cl' = [cl EXCEPT ![c] = next] /\ UNCHANGED close_ch
  BY <1>1, <1>4, <1>6, <1>11, SlotsOne
<1>12. CASE /\ Fits(u) /\ u.op # "normal"
            /\ LET h == handle_spec_pkg(next, u.op, u.data)
                   drop == h.ans = NoAnswer \/ Len(me.snd_queue) >= ClientCap
               IN  cl' = [cl EXCEPT ![c] = [h.me EXCEPT
                            !.pc = IF drop THEN "parse" ELSE "append",
                            !.item = IF drop THEN NoItem
                                     ELSE Item(c, h.ans.op, h.ans.data, "normal")]]
            /\ UNCHANGED close_ch
  <2> DEFINE h == handle_spec_pkg(next, u.op, u.data)
  <2>7. next \in ClientType /\ u.op # "normal"
    BY <1>4, <1>12
  <2>1. /\ \E v \in BOOLEAN, e \in {next.enc, "nego"} : h.me = [next EXCEPT !.valid = v, !.enc = e]
        /\ h.ans.op \in Ops /\ h.ans.op # "normal" /\ h.ans.data \in Datas
    BY <1>8, <2>7, SpecIs, Zenon
  <2>2. \E p \in {"parse", "append"} : \E it : cl' = [cl EXCEPT ![c] = [h.me EXCEPT !.pc = p, !.item = it]]
    BY <1>12
  <2> HIDE DEF h
  <2>3. h.me \in ClientType /\ h.me.stat = me.stat
    BY <1>4, <2>1 DEF ClientType, Encs
  <2>8. PICK p \in {"parse", "append"} :
           \E it : cl' = [cl EXCEPT ![c] = [h.me EXCEPT !.pc = p, !.item = it]]
    BY <2>2
  <2>4. PICK it : cl' = [cl EXCEPT ![c] = [h.me EXCEPT !.pc = p, !.item = it]]
    BY <2>8
  <2> DEFINE r == [h.me EXCEPT !.pc = p, !.item = it]
  <2>5. r.stat = me.stat /\ r.pc # "done"
    BY <2>3, <2>4 DEF ClientType
  <2>6. cl' = [cl EXCEPT ![c] = r]
    BY <2>4
  <2> HIDE DEF r
  <2> QED
    BY <1>1, <1>6, <1>12, <2>5, <2>6, SlotsOne
<1>13. CASE cl' = [cl EXCEPT ![c].off = 0, ![c].pc = "send"] /\ UNCHANGED close_ch
  <2> DEFINE it == [me EXCEPT !.off = 0, !.pc = "send"]
  <2>1. it.stat = me.stat /\ it.pc = "send" /\ cl' = [cl EXCEPT ![c] = it]
    BY <1>1, <1>13 DEF ClientType
  <2> HIDE DEF it
  <2> QED
    BY <1>1, <1>6, <1>13, <2>1, SlotsOne
<1> QED
  BY <1>7, <1>9, <1>10, <1>11, <1>12, <1>13

LEMMA FlushSlots ==
  ASSUME Typed, SlotsInv, NEW c \in Conn, cl[c].stat = "normal", cl[c].pc # "done",
         NEW cache \in Seq(Cells), NEW done \in ClientType, NEW part \in ClientType,
         done.stat = "normal", part.stat = "normal", done.pc # "done", part.pc # "done",
         Flush(c, cache, done, part), FlushRest
  PROVE  SlotsInv'
<1>1. \A cells, d \in Conn : net' = [net EXCEPT ![c].down = cells] => net'[d].peer = net[d].peer
  BY DEF Typed, NetTyped, PeerType
<1>2. ASSUME NEW r \in ClientType, NEW q, r.stat = "normal", r.pc # "done",
             cl' = [cl EXCEPT ![c] = [r EXCEPT !.snd_cache = q]],
             \E cells : net' = [net EXCEPT ![c].down = cells], UNCHANGED close_ch
      PROVE  SlotsInv'
  <2> DEFINE it == [r EXCEPT !.snd_cache = q]
  <2>1. it.stat = "normal" /\ it.pc # "done" /\ cl' = [cl EXCEPT ![c] = it]
    BY <1>2 DEF ClientType
  <2> HIDE DEF it
  <2>2. \A d \in Conn : net'[d].peer = net[d].peer
    BY <1>1, <1>2
  <2> QED
    BY <1>2, <2>1, <2>2, SlotsOne DEF FlushRest
<1>3. CASE Closing(c, FALSE) /\ UNCHANGED <<net, marred>>
  BY <1>3, ClosingKeeps DEF FlushRest
<1>4. \/ /\ cl' = [cl EXCEPT ![c] = [done EXCEPT !.snd_cache = <<>>]]
         /\ (\E cells : net' = [net EXCEPT ![c].down = cells]) /\ UNCHANGED close_ch
      \/ /\ cl' = [cl EXCEPT ![c] = [part EXCEPT !.snd_cache = cache]]
         /\ (\E cells : net' = [net EXCEPT ![c].down = cells]) /\ UNCHANGED close_ch
      \/ Closing(c, FALSE) /\ UNCHANGED <<net, marred>>
  BY FlushIs
<1> QED
  BY <1>2, <1>3, <1>4

LEMMA RunSlots ==
  ASSUME Typed, SlotsInv, NEW c \in Conn, Run(c), UNCHANGED <<cli, main>>
  PROVE  SlotsInv'
<1>1. cl[c] \in ClientType /\ cl \in [Conn -> ClientType] /\ Own(cl[c], c)
  BY DEF Typed, ClientsTyped
<1>2. ASSUME NEW n \in 1 .. Len(net[c].up), Read(c, n) PROVE SlotsInv'
  <2>1. /\ cl[c].pc = "read" /\ net' = [net EXCEPT ![c].up = SubSeq(@, n + 1, Len(@))]
        /\ cl' = [cl EXCEPT ![c] = [cl[c] EXCEPT !.recv_cache = @ \o SubSeq(net[c].up, 1, n), !.off = 0,
                                                 !.pc = "parse"]]
        /\ UNCHANGED servVars
    BY <1>1, <1>2 DEF Read
  <2> DEFINE r == [cl[c] EXCEPT !.recv_cache = @ \o SubSeq(net[c].up, 1, n), !.off = 0, !.pc = "parse"]
  <2>2. r.stat = cl[c].stat /\ r.pc = "parse"
    BY <1>1 DEF ClientType
  <2>3. \A d \in Conn : net'[d].peer = net[d].peer
    BY <2>1 DEF Typed, NetTyped, PeerType
  <2> HIDE DEF r
  <2> QED
    BY <2>1, <2>2, <2>3, SlotsOne DEF servVars, r
<1>3. ASSUME ReadTimeout(c) PROVE SlotsInv'
  <2>1. /\ cl[c].pc = "read" /\ cl' = [cl EXCEPT ![c] = [cl[c] EXCEPT !.pc = "send"]]
        /\ UNCHANGED <<servVars, net>>
    BY <1>1, <1>3 DEF ReadTimeout
  <2>2. [cl[c] EXCEPT !.pc = "send"].stat = cl[c].stat /\ [cl[c] EXCEPT !.pc = "send"].pc = "send"
    BY <1>1 DEF ClientType
  <2> QED
    BY <2>1, <2>2, SlotsOne DEF servVars
<1>4. ASSUME ReadClosed(c) PROVE SlotsInv'
  <2>1. cl[c].stat = "normal"
    BY <1>4, NotDone DEF ReadClosed, SlotsInv
  <2> QED
    BY <1>4, <2>1, ClosingKeeps DEF ReadClosed
<1>5. ASSUME AppendOwn(c) PROVE SlotsInv'
  <2> DEFINE r == [cl[c] EXCEPT !.snd_queue = Append(@, cl[c].item), !.item = NoItem, !.pc = "parse"]
  <2>1. cl[c].pc = "append" /\ cl' = [cl EXCEPT ![c] = r] /\ UNCHANGED <<servVars, net>>
    BY <1>1, <1>5 DEF AppendOwn
  <2>2. r.stat = cl[c].stat /\ r.pc = "parse"
    BY <1>1 DEF ClientType
  <2> HIDE DEF r
  <2> QED
    BY <2>1, <2>2, SlotsOne DEF servVars
<1>6. ASSUME SendFirst(c) PROVE SlotsInv'
  <2> DEFINE me == cl[c]
             go == [me EXCEPT !.pc = IF me.snd_queue = <<>> THEN "read" ELSE "out",
                              !.left = Len(me.snd_queue)]
             back == [me EXCEPT !.pc = "read"]
  <2>1. me.pc = "send" /\ me.snd_cache \in Seq(Cells) /\ Len(me.snd_queue) \in Nat
    BY <1>1, <1>6 DEF SendFirst, ClientType
  <2>2. me.stat = "normal"
    BY <2>1, NotDone DEF SlotsInv
  <2>3. /\ go \in ClientType /\ go.stat = "normal" /\ go.pc # "done"
        /\ back \in ClientType /\ back.stat = "normal" /\ back.pc # "done"
    BY <1>1, <2>1, <2>2 DEF ClientType
  <2>4. /\ IF me.snd_cache = <<>>
             THEN cl' = [cl EXCEPT ![c] = go] /\ UNCHANGED <<net, marred, close_ch>>
             ELSE Flush(c, me.snd_cache, go, back)
        /\ FlushRest
    BY <1>6 DEF SendFirst, FlushRest
  <2> HIDE DEF go, back
  <2>5. CASE cl' = [cl EXCEPT ![c] = go] /\ UNCHANGED <<net, marred, close_ch>>
    <3>1. UNCHANGED <<client_list, curr_conn, key_map, close_ch, cli, net>>
      BY <2>4, <2>5 DEF FlushRest
    <3>2. go.stat = cl[c].stat /\ go.pc # "done" /\ cl[c].pc # "done" /\ cl' = [cl EXCEPT ![c] = go]
      BY <2>1, <2>2, <2>3, <2>5
    <3> HIDE DEF me
    <3> QED
      BY <3>1, <3>2, SlotsOne
  <2>6. CASE Flush(c, me.snd_cache, go, back)
    <3>1. cl[c].stat = "normal" /\ cl[c].pc # "done" /\ me.snd_cache \in Seq(Cells)
      BY <2>1, <2>2
    <3> HIDE DEF me
    <3> QED
      BY <2>3, <2>4, <2>6, <3>1, FlushSlots
  <2> QED
    BY <2>4, <2>5, <2>6
<1>7. ASSUME SendPkg(c) PROVE SlotsInv'
  <2> DEFINE me == cl[c]
             p == Head(me.snd_queue)
  <2>1. /\ me.snd_queue # <<>> /\ me.pc = "out" /\ me.left > 0 /\ p \in Items
        /\ \/ Closing(c, TRUE) /\ UNCHANGED <<net, marred>>
           \/ \E left \in {0, me.left - 1} :
                /\ cl' = [cl EXCEPT ![c] = Kept(me, c, me.cap, left)]
                /\ UNCHANGED <<net, marred, close_ch>>
           \/ \E cap \in Nat :
                Flush(c, Pkg(p.op, Encrypted(me, p)), Kept(me, c, cap, me.left - 1), Kept(me, c, cap, 0))
    BY <1>7, SendPkgIs
  <2>2. FlushRest
    BY <1>7 DEF SendPkg, FlushRest
  <2>3. me.stat = "normal"
    BY <2>1, NotDone DEF SlotsInv
  <2>4. \A cap, left : Kept(me, c, cap, left).stat = "normal" /\ Kept(me, c, cap, left).pc = "out"
    BY <1>1, <2>1, <2>3, Zenon DEF Kept, ClientType
  <2>5. CASE Closing(c, TRUE) /\ UNCHANGED <<net, marred>>
    BY <2>2, <2>3, <2>5, ClosingKeeps DEF FlushRest
  <2>6. ASSUME NEW left, cl' = [cl EXCEPT ![c] = Kept(me, c, me.cap, left)],
               UNCHANGED <<net, marred, close_ch>>
        PROVE  SlotsInv'
    <3> DEFINE r == Kept(me, c, me.cap, left)
    <3>1. UNCHANGED <<client_list, curr_conn, key_map, close_ch, cli, net>>
      BY <2>2, <2>6 DEF FlushRest
    <3>2. r.stat = cl[c].stat /\ r.pc # "done" /\ cl[c].pc # "done" /\ cl' = [cl EXCEPT ![c] = r]
      BY <2>1, <2>3, <2>4, <2>6
    <3> HIDE DEF me, r
    <3> QED
      BY <3>1, <3>2, SlotsOne
  <2>7. ASSUME NEW cap \in Nat,
               Flush(c, Pkg(p.op, Encrypted(me, p)), Kept(me, c, cap, me.left - 1), Kept(me, c, cap, 0))
        PROVE  SlotsInv'
    <3>1. Kept(me, c, cap, me.left - 1) \in ClientType /\ Kept(me, c, cap, 0) \in ClientType
      BY <1>1, <2>1, KeptIs
    <3>2. Pkg(p.op, Encrypted(me, p)) \in Seq(Cells)
      BY <1>1, <2>1, EncryptedIs, PkgIs
    <3> QED
      BY <2>1, <2>2, <2>3, <2>4, <2>7, <3>1, <3>2, FlushSlots
  <2> QED
    BY <2>1, <2>5, <2>6, <2>7
<1>8. ASSUME SendEnd(c) PROVE SlotsInv'
  <2>1. \E cap, q : cl' = [cl EXCEPT ![c] = [cl[c] EXCEPT !.pc = "read", !.cap = cap, !.snd_cache = q]]
    BY <1>8 DEF SendEnd
  <2>2. PICK cap, q : cl' = [cl EXCEPT ![c] = [cl[c] EXCEPT !.pc = "read", !.cap = cap, !.snd_cache = q]]
    BY <2>1
  <2> DEFINE r == [cl[c] EXCEPT !.pc = "read", !.cap = cap, !.snd_cache = q]
  <2>3. cl[c].pc = "out" /\ UNCHANGED <<servVars, net>> /\ cl' = [cl EXCEPT ![c] = r]
    BY <1>8, <2>2 DEF SendEnd
  <2>4. r.stat = cl[c].stat /\ r.pc = "read"
    BY <1>1 DEF ClientType
  <2> HIDE DEF r
  <2> QED
    BY <2>3, <2>4, SlotsOne DEF servVars
<1> QED
  BY <1>2, <1>3, <1>4, <1>5, <1>6, <1>7, <1>8, ParseSlots DEF Run

LEMMA ClientSlots ==
  ASSUME Typed, SlotsInv, NEW c \in Conn, Client(c), UNCHANGED main
  PROVE  SlotsInv'
<1>1. UNCHANGED <<client_list, curr_conn, key_map, close_ch, cl>>
  BY Zenon DEF Client, Connect, ConnectFails, GameSend, OtherSend, GameExit, GameClosed, RecvPkg, cliRest, servVars
<1>2. cli \in [Conn -> CliType] /\ net \in [Conn -> PeerType]
  BY DEF Typed, CliTyped, NetTyped
<1>3. /\ \A d \in Conn \ {c} : cli'[d] = cli[d] /\ net'[d] = net[d]
      /\ cli'[c].main = "start" => cli[c].main = "start" /\ net'[c].peer = net[c].peer
      /\ \/ net'[c].peer = net[c].peer
         \/ net'[c].peer = "pending" /\ cli[c].main = "start"
         \/ net'[c].peer = "left" /\ net[c].peer \in {"pending", "open"}
  <2>1. CASE Connect(c)
    <3>1. PICK up, m, n :
            /\ up \in {<<>>, Plain(c), Valid(c)} /\ m \in {"wait", "valid", "loop"} /\ n \in {0, 1}
            /\ net' = [net EXCEPT ![c].peer = "pending", ![c].up = up]
            /\ cli' = [cli EXCEPT ![c].main = m, ![c].sent = n]
      BY <2>1 DEF Connect
    <3>2. cli[c].main = "start"
      BY <2>1 DEF Connect
    <3>3. net'[c].peer = "pending" /\ cli'[c].main = m
      BY <1>2, <3>1 DEF PeerType, CliType
    <3> QED
      BY <1>2, <3>1, <3>2, <3>3
  <2>2. CASE ConnectFails(c) \/ GameClosed(c)
    <3>1. PICK m \in {"lost", "exited"} : cli' = [cli EXCEPT ![c].main = m]
      BY <2>2 DEF ConnectFails, GameClosed
    <3>2. UNCHANGED net
      BY <2>2 DEF ConnectFails, GameClosed
    <3>3. cli'[c].main = m
      BY <1>2, <3>1 DEF CliType
    <3> QED
      BY <1>2, <3>1, <3>2, <3>3
  <2>3. CASE GameSend(c)
    <3>1. \/ UNCHANGED net
          \/ \E cells : net' = [net EXCEPT ![c].up = cells]
      BY <2>3 DEF GameSend
    <3>2. PICK i, m : /\ cli' = [cli EXCEPT ![c].asks = @ - 1, ![c].sent = i, ![c].main = m]
                      /\ m = "wait" \/ m = cli[c].main
      BY <2>3 DEF GameSend
    <3>3. cli[c].main = "loop"
      BY <2>3 DEF GameSend
    <3>4. cli'[c].main = m /\ \A d \in Conn \ {c} : cli'[d] = cli[d]
      BY <1>2, <3>2 DEF CliType
    <3>5. net'[c].peer = net[c].peer /\ \A d \in Conn \ {c} : net'[d] = net[d]
      BY <1>2, <3>1 DEF PeerType
    <3> QED
      BY <3>2, <3>3, <3>4, <3>5
  <2>4. CASE OtherSend(c)
    <3>1. \E cells : net' = [net EXCEPT ![c].up = cells]
      BY <2>4 DEF OtherSend
    <3>2. \E n : cli' = [cli EXCEPT ![c].asks = @ - 1, ![c].sent = n]
      BY <2>4 DEF OtherSend
    <3>3. cli'[c].main = cli[c].main /\ \A d \in Conn \ {c} : cli'[d] = cli[d]
      BY <1>2, <3>2 DEF CliType
    <3>4. net'[c].peer = net[c].peer /\ \A d \in Conn \ {c} : net'[d] = net[d]
      BY <1>2, <3>1 DEF PeerType
    <3> QED
      BY <3>3, <3>4
  <2>5. CASE GameExit(c)
    <3>1. PICK up :
           net' = [net EXCEPT ![c].up = up, ![c].peer = IF @ \in {"pending", "open"} THEN "left" ELSE @]
      BY <2>5 DEF GameExit
    <3>2. cli' = [cli EXCEPT ![c].main = "exited"]
      BY <2>5 DEF GameExit
    <3>3. cli'[c].main = "exited" /\ \A d \in Conn \ {c} : cli'[d] = cli[d] /\ net'[d] = net[d]
      BY <1>2, <3>1, <3>2 DEF CliType
    <3>4. net'[c].peer = IF net[c].peer \in {"pending", "open"} THEN "left" ELSE net[c].peer
      BY <1>2, <3>1 DEF PeerType
    <3> QED
      BY <3>3, <3>4
  <2>6. ASSUME NEW n \in 1 .. Len(net[c].down), RecvPkg(c, n)
        PROVE  /\ \A d \in Conn \ {c} : cli'[d] = cli[d] /\ net'[d] = net[d]
               /\ cli'[c].main # "start" /\ net'[c].peer = net[c].peer
    <3>2. PICK u :
           /\ ReadAs(c, n, u)
           /\ LET r == IF IsGame(c) THEN GameRecv(c, u) ELSE OneShotRecv(c, u)
              IN  /\ cli' = [cli EXCEPT ![c] = r.me]
                  /\ net' = [net EXCEPT ![c].down = SubSeq(@, n + 1, Len(@)), ![c].up = @ \o r.out]
      BY <2>6, RecvIs
    <3>3. u.op \in Ops /\ u.data \in Datas
      BY <3>2 DEF ReadAs
    <3> DEFINE r == IF IsGame(c) THEN GameRecv(c, u) ELSE OneShotRecv(c, u)
    <3>4. r.me.main \in {cli[c].main, "wait", "done"}
      BY <3>3, GameRecvIs, OneShotIs
    <3>5. cli[c].main # "start"
      BY <2>6 DEF RecvPkg
    <3> HIDE DEF r
    <3>6. cli' = [cli EXCEPT ![c] = r.me] /\ \E down, up : net' = [net EXCEPT ![c].down = down, ![c].up = up]
      BY <3>2 DEF r
    <3>7. cli'[c].main # "start" /\ \A d \in Conn \ {c} : cli'[d] = cli[d]
      BY <1>2, <3>4, <3>5, <3>6
    <3>8. net'[c].peer = net[c].peer /\ \A d \in Conn \ {c} : net'[d] = net[d]
      BY <1>2, <3>6 DEF PeerType
    <3> QED
      BY <3>7, <3>8
  <2> QED
    BY <2>1, <2>2, <2>3, <2>4, <2>5, <2>6 DEF Client
<1>4. /\ \A d \in Conn : cl[d].stat # "none" => net[d].peer \in {"open", "left", "closed"}
      /\ \A d \in Conn : d \in key_map => net[d].peer \in {"open", "left"}
      /\ \A d \in Conn : cli[d].main = "start" => net[d].peer = "idle"
  BY DEF SlotsInv, Stations
<1>5. \A d \in Conn :
        /\ cl[d].stat # "none" => net'[d].peer \in {"open", "left", "closed"}
        /\ d \in key_map => net'[d].peer \in {"open", "left"}
        /\ cli'[d].main = "start" => net'[d].peer = "idle"
  BY <1>3, <1>4
<1> QED
  BY <1>1, <1>5, SlotsKept

LEMMA NextSlots ==
  ASSUME Typed, SlotsInv, Next
  PROVE  SlotsInv'
<1>1. ASSUME NEW c \in Conn, SendToClient(c) \/ MainCloses(c) PROVE SlotsInv'
  <2>1. UNCHANGED <<client_list, curr_conn, key_map, close_ch, cl, net, cli>>
    BY <1>1 DEF SendToClient, MainCloses, Send
  <2> QED
    BY <2>1, SlotsStay
<1>2. ASSUME ReadClients \/ HandleClientPkg \/ ServerExit PROVE SlotsInv'
  <2>1. UNCHANGED <<client_list, curr_conn, key_map, close_ch, cl, net, cli>>
    BY <1>2 DEF ReadClients, HandleClientPkg, ServerExit, Recv, Close, servVars
  <2> QED
    BY <2>1, SlotsStay
<1> QED
  BY <1>1, <1>2, ServSlots, RunSlots, ClientSlots DEF Next

LEMMA InitSlots == ConnNetInit => SlotsInv
<1> SUFFICES ASSUME NEW s \in Scenarios,
                    TcpInit(s.valid_conn, s.enc_type), GameInit(s.method, s.asks)
             PROVE  SlotsInv
  BY DEF ConnNetInit
<1>1. Used = {}
  BY DEF TcpInit, Used
<1>2. Listed
  BY <1>1, FS_EmptySet DEF TcpInit, Listed
<1>3. ClosingSlots = {} /\ close_ch = <<>>
  BY <1>1 DEF ClosingSlots, TcpInit
<1>4. Waiting
  BY <1>3 DEF Waiting
<1>5. Gone.stat = "none" /\ Gone.pc = "done"
  BY DEF Gone, NewClient
<1>6. Stations
  BY <1>5 DEF Stations, TcpInit
<1> QED
  BY <1>2, <1>4, <1>6 DEF SlotsInv

LEMMA AlwaysSlots == Spec => [](Typed /\ SlotsInv)
<1>1. ConnNetInit => Typed /\ SlotsInv
  BY InitTyped, InitSlots
<1>2. Typed /\ SlotsInv /\ [Next]_vars => (Typed /\ SlotsInv)'
  <2>1. ASSUME Typed, SlotsInv, UNCHANGED vars PROVE (Typed /\ SlotsInv)'
    <3>1. Typed'
      BY <2>1, KeptTyped DEF vars, tcpVars, servVars, Typed
    <3>2. SlotsInv'
      BY <2>1, SlotsStay DEF vars, tcpVars, servVars
    <3> QED
      BY <3>1, <3>2
  <2> QED
    BY <2>1, NextTyped, NextSlots
<1> QED
  BY <1>1, <1>2, PTL DEF Spec

LEMMA SlotsAre == Typed /\ SlotsInv => SlotsMatch
<1> SUFFICES ASSUME Typed, SlotsInv PROVE SlotsMatch
  OBVIOUS
<1>1. Cardinality(key_map) = Cardinality(Used)
  <2> DEFINE f == [s \in Used |-> client_list[s]]
  <2>1. /\ key_map = {client_list[s] : s \in Used}
        /\ \A s, t \in Used : client_list[s] = client_list[t] => s = t
    BY DEF SlotsInv, Listed
  <2>2. f \in [Used -> key_map] /\ \A s \in Used : f[s] = client_list[s]
    BY <2>1
  <2>3. \A k \in key_map : \E s \in Used : client_list[s] = k
    BY <2>1
  <2> HIDE DEF f
  <2>4. \A s, t \in Used : f[s] = f[t] => s = t
    BY <2>1, <2>2
  <2>5. \A k \in key_map : \E s \in Used : f[s] = k
    BY <2>2, <2>3
  <2>6. f \in Bijection(Used, key_map)
    BY <2>2, <2>4, <2>5, Fun_IsBij
  <2> QED
    BY <2>6, UsedIs, FS_Bijection DEF ExistsBijection
<1>2. ToSet(close_ch) = ClosingSlots
  BY DEF SlotsInv, Waiting, ToSet
<1> QED
  BY <1>1, <1>2 DEF SlotsMatch, SlotsInv, Listed, Waiting, Used, ClosingSlots

\* SlotsMatch: no slot is lost or freed twice; the key map and close_ch name the
\* clients that have one.
THEOREM Slots == Spec => []SlotsMatch
BY AlwaysSlots, SlotsAre, PTL

-----------------------------------------------------------------------------
(* The end of a connection.  In a queue of packages the end of c comes     *)
(* behind all else of c; what main has, what it is handling and what waits *)
(* for it are three such queues, one behind the other.                     *)

Free(q, c) == \A i \in 1 .. Len(q) : q[i].key # c
HasEnd(q, c) == \E i \in 1 .. Len(q) : q[i].key = c /\ q[i].info = "close"
EndsLast(q, c) ==
  \A i, j \in 1 .. Len(q) : q[i].key = c /\ q[i].info = "close" /\ q[j].key = c => j <= i
Told(c) == main[c].reported = 1 \/ HasEnd(batch, c) \/ HasEnd(recv_queue, c)
EndsInv ==
  \A c \in Conn :
    /\ EndsLast(batch, c) /\ EndsLast(recv_queue, c)
    /\ HasEnd(batch, c) => Free(recv_queue, c)
    /\ main[c].reported \in {0, 1}
    /\ main[c].reported = 1 => Free(batch, c) /\ Free(recv_queue, c)
    /\ Told(c) => c \notin key_map /\ cl[c].stat = "closing" /\ ~cl[c].server_close

SameEnds(p, q) ==
  Len(p) = Len(q) /\ \A i \in 1 .. Len(q) : p[i].key = q[i].key /\ p[i].info = q[i].info

\* The three facts about a queue are facts about its keys and infos.
LEMMA EndsSame ==
  ASSUME NEW p, NEW q, SameEnds(p, q), NEW c
  PROVE  /\ Free(p, c) = Free(q, c) /\ HasEnd(p, c) = HasEnd(q, c)
         /\ EndsLast(p, c) = EndsLast(q, c)
BY DEF SameEnds, Free, HasEnd, EndsLast

\* A queue with a package behind it.
LEMMA EndsAppend ==
  ASSUME NEW S, NEW q \in Seq(S), NEW x \in S, NEW c
  PROVE  /\ x.key # c => /\ Free(Append(q, x), c) = Free(q, c)
                         /\ HasEnd(Append(q, x), c) = HasEnd(q, c)
                         /\ EndsLast(Append(q, x), c) = EndsLast(q, c)
         /\ ~HasEnd(q, c) => EndsLast(Append(q, x), c)
         /\ x.info # "close" => HasEnd(Append(q, x), c) = HasEnd(q, c)
<1> DEFINE n == Len(q)
           r == Append(q, x)
<1>1. /\ n \in Nat /\ Len(r) = n + 1 /\ r[n + 1] = x
      /\ \A i \in 1 .. n : r[i] = q[i]
  BY AppendProperties
<1>2. /\ 1 .. n + 1 = (1 .. n) \cup {n + 1} /\ n + 1 \notin 1 .. n
      /\ \A i \in 1 .. n + 1 : i <= n + 1
  BY <1>1
<1> HIDE DEF n, r
<1>3. x.key # c => Free(r, c) = Free(q, c)
  BY <1>1, <1>2 DEF Free, n
<1>4. x.key # c \/ x.info # "close" => HasEnd(r, c) = HasEnd(q, c)
  BY <1>1, <1>2 DEF HasEnd, n
<1>5. x.key # c => EndsLast(r, c) = EndsLast(q, c)
  BY <1>1, <1>2 DEF EndsLast, n
<1>6. ASSUME ~HasEnd(q, c) PROVE EndsLast(r, c)
  BY <1>1, <1>2, <1>6 DEF EndsLast, HasEnd, n
<1> QED
  BY <1>3, <1>4, <1>5, <1>6 DEF r

\* A queue cut in two.
LEMMA EndsCut ==
  ASSUME NEW q, Len(q) \in Nat, NEW n \in Nat, n <= Len(q), NEW p, Len(p) = n, NEW r,
         Len(r) = Len(q) - n,
         \A i \in 1 .. n : p[i].key = q[i].key /\ p[i].info = q[i].info,
         \A i \in 1 .. Len(q) - n : r[i] = q[i + n],
         NEW c, EndsLast(q, c)
  PROVE  /\ EndsLast(p, c) /\ EndsLast(r, c) /\ (HasEnd(p, c) => Free(r, c))
         /\ HasEnd(p, c) \/ HasEnd(r, c) => HasEnd(q, c)
         /\ Free(q, c) => Free(p, c) /\ Free(r, c)
<1>1. /\ \A i \in 1 .. Len(p) : i \in 1 .. Len(q) /\ p[i].key = q[i].key /\ p[i].info = q[i].info
      /\ \A i \in 1 .. Len(r) : i + n \in 1 .. Len(q) /\ r[i] = q[i + n]
  OBVIOUS
<1>2. \A i \in 1 .. Len(p), j \in 1 .. Len(r) : ~(j + n <= i)
  OBVIOUS
<1>3. \A i, j \in 1 .. Len(r) : j + n <= i + n => j <= i
  OBVIOUS
<1>4. EndsLast(p, c)
  BY <1>1 DEF EndsLast
<1>5. EndsLast(r, c)
  <2> SUFFICES ASSUME NEW i \in 1 .. Len(r), NEW j \in 1 .. Len(r), r[i].key = c, r[i].info = "close",
                      r[j].key = c
               PROVE  j <= i
    BY DEF EndsLast
  <2>1. j + n <= i + n
    BY <1>1, ZenonT(30) DEF EndsLast
  <2> QED
    BY <1>3, <2>1, ZenonT(30)
<1>6. HasEnd(p, c) => Free(r, c)
  BY <1>1, <1>2, ZenonT(60) DEF EndsLast, HasEnd, Free
<1>7. HasEnd(p, c) \/ HasEnd(r, c) => HasEnd(q, c)
  BY <1>1 DEF HasEnd
<1>8. Free(q, c) => Free(p, c) /\ Free(r, c)
  BY <1>1 DEF Free
<1> QED
  BY <1>4, <1>5, <1>6, <1>7, <1>8

\* A step that leaves the queues their keys, and opens no client again.
LEMMA EndsKept ==
  ASSUME EndsInv, SameEnds(batch', batch), UNCHANGED recv_queue,
         \A c \in Conn : main'[c].reported = main[c].reported,
         \A c \in Conn : /\ cl[c].stat = "closing" =>
                              cl'[c].stat = "closing" /\ cl'[c].server_close = cl[c].server_close
                         /\ cl[c].stat = "closing" /\ c \notin key_map => c \notin key_map'
  PROVE  EndsInv'
<1> SUFFICES ASSUME NEW c \in Conn
             PROVE  /\ EndsLast(batch', c) /\ EndsLast(recv_queue', c)
                    /\ HasEnd(batch', c) => Free(recv_queue', c)
                    /\ main'[c].reported \in {0, 1}
                    /\ main'[c].reported = 1 => Free(batch', c) /\ Free(recv_queue', c)
                    /\ Told(c)' => c \notin key_map' /\ cl'[c].stat = "closing" /\ ~cl'[c].server_close
  BY DEF EndsInv, EndsLast, HasEnd, Free
<1>1. /\ Free(batch', c) = Free(batch, c) /\ HasEnd(batch', c) = HasEnd(batch, c)
      /\ EndsLast(batch', c) = EndsLast(batch, c)
  BY EndsSame
<1>2. Told(c)' = Told(c)
  BY <1>1 DEF Told, HasEnd
<1> QED
  BY <1>1, <1>2 DEF EndsInv

LEMMA AcceptEnds ==
  ASSUME Typed, SlotsInv, EndsInv, NEW c \in Conn, Accept(c), UNCHANGED <<cli, main>>
  PROVE  EndsInv'
<1>1. cl[c].stat = "none"
  BY DEF Accept, SlotsInv, Stations, Typed, ClientsTyped, ClientType
<1>2. UNCHANGED <<batch, recv_queue>>
  BY DEF Accept
<1>3. \A d \in Conn \ {c} : cl'[d] = cl[d] /\ (d \in key_map' => d \in key_map)
  BY DEF Accept, Typed, ClientsTyped
<1>4. SameEnds(batch', batch)
  BY <1>2 DEF SameEnds
<1>5. \A d \in Conn : cl[d].stat = "closing" => d # c
  BY <1>1
<1> QED
  BY <1>2, <1>3, <1>4, <1>5, EndsKept

LEMMA CloseClientEnds ==
  ASSUME Typed, SlotsInv, EndsInv, CloseClient, UNCHANGED <<cli, main>>
  PROVE  EndsInv'
<1> DEFINE s == Head(close_ch)
           c == client_list[s]
           x == Item(c, "normal", Junk, "close")
<1>1. s \in Used /\ c \in Conn /\ cl[c].stat = "closing"
  BY HeadWaits DEF CloseClient, SlotsInv
<1>2. c \in key_map
  BY <1>1 DEF SlotsInv, Listed
<1>3. /\ \/ ~cl[c].server_close /\ recv_queue' = Append(recv_queue, x)
         \/ UNCHANGED recv_queue
      /\ cl' = [cl EXCEPT ![c].snd_cache = <<>>, ![c].recv_cache = <<>>]
      /\ key_map' = key_map \ {c} /\ UNCHANGED batch
  BY DEF CloseClient, TellsMain
<1> HIDE DEF c
<1>4. x \in Items /\ x.key = c
  BY <1>1, Null, ItemIs DEF Ops
<1>5. recv_queue \in Seq(Items)
  BY DEF Typed, QueuesTyped
<1>6. \A d \in Conn : cl'[d].stat = cl[d].stat /\ cl'[d].server_close = cl[d].server_close
  BY <1>1, <1>3 DEF Typed, ClientsTyped, ClientType
<1>7. ~Told(c)
  BY <1>1, <1>2 DEF EndsInv
<1> HIDE DEF x
<1>8. CASE UNCHANGED recv_queue
  <2>1. SameEnds(batch', batch)
    BY <1>3 DEF SameEnds
  <2> QED
    BY <1>3, <1>6, <1>8, <2>1, EndsKept
<1>9. CASE ~cl[c].server_close /\ recv_queue' = Append(recv_queue, x)
  <2> SUFFICES ASSUME NEW d \in Conn
               PROVE  /\ EndsLast(batch', d) /\ EndsLast(recv_queue', d)
                      /\ HasEnd(batch', d) => Free(recv_queue', d)
                      /\ main'[d].reported \in {0, 1}
                      /\ main'[d].reported = 1 => Free(batch', d) /\ Free(recv_queue', d)
                      /\ Told(d)' => d \notin key_map' /\ cl'[d].stat = "closing" /\ ~cl'[d].server_close
    BY DEF EndsInv, EndsLast, HasEnd, Free
  <2>1. /\ EndsLast(batch, d) /\ EndsLast(recv_queue, d)
        /\ HasEnd(batch, d) => Free(recv_queue, d)
        /\ main[d].reported \in {0, 1}
        /\ main[d].reported = 1 => Free(batch, d) /\ Free(recv_queue, d)
        /\ Told(d) => d \notin key_map /\ cl[d].stat = "closing" /\ ~cl[d].server_close
    BY DEF EndsInv
  <2>2. CASE d = c
    <3>1. main[d].reported # 1 /\ ~HasEnd(batch, d) /\ ~HasEnd(recv_queue, d)
      BY <1>7, <2>2 DEF Told
    <3>2. EndsLast(recv_queue', d)
      BY <1>4, <1>5, <1>9, <3>1, EndsAppend
    <3>3. ~HasEnd(batch', d) /\ EndsLast(batch', d)
      BY <1>3, <2>1, <3>1 DEF HasEnd, EndsLast
    <3>4. d \notin key_map' /\ cl'[d].stat = "closing" /\ ~cl'[d].server_close
      BY <1>1, <1>3, <1>6, <1>9, <2>2
    <3> QED
      BY <2>1, <3>1, <3>2, <3>3, <3>4
  <2>3. CASE d # c
    <3>1. x.key # d
      BY <1>4, <2>3
    <3>2. /\ Free(recv_queue', d) = Free(recv_queue, d) /\ HasEnd(recv_queue', d) = HasEnd(recv_queue, d)
          /\ EndsLast(recv_queue', d) = EndsLast(recv_queue, d)
      BY <1>4, <1>5, <1>9, <3>1, EndsAppend
    <3>3. /\ Free(batch', d) = Free(batch, d) /\ HasEnd(batch', d) = HasEnd(batch, d)
          /\ EndsLast(batch', d) = EndsLast(batch, d)
      BY <1>3
    <3>4. Told(d)' = Told(d)
      BY <3>2, <3>3 DEF Told, HasEnd
    <3>5. d \notin key_map => d \notin key_map'
      BY <1>3
    <3> QED
      BY <1>6, <2>1, <3>2, <3>3, <3>4, <3>5
  <2> QED
    BY <2>2, <2>3
<1> QED
  BY <1>3, <1>8, <1>9

LEMMA ServEnds ==
  ASSUME Typed, SlotsInv, EndsInv, TcpServer, UNCHANGED <<cli, main>>
  PROVE  EndsInv'
<1>1. CASE AcceptTimeout \/ ServerStops \/ CloseDone \/ DispatchDone \/ Dispatch
  <2>1. UNCHANGED <<batch, recv_queue, key_map, cl>>
    BY <1>1 DEF AcceptTimeout, ServerStops, CloseDone, DispatchDone, Dispatch
  <2>2. SameEnds(batch', batch)
    BY <2>1 DEF SameEnds
  <2> QED
    BY <2>1, <2>2, EndsKept
<1>2. CASE DispatchAppend
  <2> DEFINE c == serv.item.key
  <2>1. /\ serv.item \in Items /\ cl' = [cl EXCEPT ![c].snd_queue = Append(@, serv.item)]
        /\ UNCHANGED <<batch, recv_queue, key_map>>
    BY <1>2, DispatchAppendTyped DEF DispatchAppend
  <2>2. c \in Conn
    BY <2>1 DEF Items
  <2>3. \A d \in Conn : cl'[d].stat = cl[d].stat /\ cl'[d].server_close = cl[d].server_close
    BY <2>1, <2>2 DEF Typed, ClientsTyped, ClientType
  <2>4. SameEnds(batch', batch)
    BY <2>1 DEF SameEnds
  <2> QED
    BY <2>1, <2>3, <2>4, EndsKept
<1> QED
  BY <1>1, <1>2, AcceptEnds, CloseClientEnds DEF TcpServer

\* A turn of a client: it is not done, and no other client changes.
LEMMA RunIs ==
  ASSUME Typed, SlotsInv, NEW c \in Conn, Run(c)
  PROVE  /\ cl[c].stat = "normal"
         /\ \A d \in Conn \ {c} : cl'[d] = cl[d]
         /\ UNCHANGED <<pserv, client_list, curr_conn, key_map, snd_queue, exit_ch, serv>>
         /\ UNCHANGED <<batch, recv_queue>> \/ Parse(c)
<1>1. cl \in [Conn -> ClientType]
  BY DEF Typed, ClientsTyped
<1>2. ASSUME NEW cache, NEW done, NEW part, Flush(c, cache, done, part)
      PROVE  \A d \in Conn \ {c} : cl'[d] = cl[d]
  <2>1. (\E r : cl' = [cl EXCEPT ![c] = r]) \/ Closing(c, FALSE)
    BY <1>2 DEF Flush
  <2> QED
    BY <1>1, <2>1 DEF Closing
<1>3. ASSUME NEW n, Read(c, n) PROVE \A d \in Conn \ {c} : cl'[d] = cl[d]
  BY <1>1, <1>3 DEF Read
<1>4. ASSUME ReadTimeout(c) \/ ReadClosed(c) \/ AppendOwn(c) \/ SendEnd(c)
      PROVE  \A d \in Conn \ {c} : cl'[d] = cl[d]
  BY <1>1, <1>4 DEF ReadTimeout, ReadClosed, Closing, AppendOwn, SendEnd
<1>5. ASSUME SendFirst(c) PROVE \A d \in Conn \ {c} : cl'[d] = cl[d]
  BY <1>1, <1>2, <1>5 DEF SendFirst
<1>6. ASSUME SendPkg(c) PROVE \A d \in Conn \ {c} : cl'[d] = cl[d]
  <2>1. \/ (\E r : cl' = [cl EXCEPT ![c] = r]) \/ Closing(c, TRUE)
        \/ \E cache, done, part : Flush(c, cache, done, part)
    BY <1>6, SendPkgIs
  <2> QED
    BY <1>1, <1>2, <2>1 DEF Closing
<1>7. ASSUME Parse(c) PROVE \A d \in Conn \ {c} : cl'[d] = cl[d]
  <2>1. (\E r : cl' = [cl EXCEPT ![c] = r]) \/ Closing(c, FALSE)
        \/ \E q, o, p : cl' = [cl EXCEPT ![c].recv_cache = q, ![c].off = o, ![c].pc = p]
    BY <1>7, Zenon DEF Parse
  <2> QED
    BY <1>1, <2>1 DEF Closing
<1>8. cl[c].pc # "done"
  BY Zenon DEF Run, Read, ReadTimeout, ReadClosed, Parse, AppendOwn, SendFirst, SendPkg, SendEnd
<1>9. UNCHANGED <<pserv, client_list, curr_conn, key_map, snd_queue, exit_ch, serv>>
  BY Zenon DEF Run, Read, ReadTimeout, ReadClosed, Parse, AppendOwn, SendFirst, SendPkg, SendEnd, servVars
<1>10. UNCHANGED <<batch, recv_queue>> \/ Parse(c)
  BY Zenon DEF Run, Read, ReadTimeout, ReadClosed, AppendOwn, SendFirst, SendPkg, SendEnd
<1> QED
  BY <1>3, <1>4, <1>5, <1>6, <1>7, <1>8, <1>9, <1>10, NotDone DEF Run, SlotsInv

\* What a turn of the loop of flush_recv_cache gives main.
LEMMA ParseGives ==
  ASSUME Typed, NEW c \in Conn, Parse(c)
  PROVE  \/ UNCHANGED <<batch, recv_queue>>
         \/ \E data \in Datas :
              GetBuffer(data) /\ recv_queue' = Append(recv_queue, Item(c, "normal", data, "normal"))
<1> DEFINE me == cl[c]
           raw == SubSeq(me.recv_cache, me.off + 1, Len(me.recv_cache))
<1>1. raw \in Seq(Cells)
  <2>1. me.recv_cache \in Seq(Cells) /\ me.off \in Nat
    BY DEF Typed, ClientsTyped, ClientType
  <2> QED
    BY <2>1, Cut
<1> HIDE DEF raw
<1>2. \E u \in UnPack(raw) :
        \/ UNCHANGED <<batch, recv_queue>>
        \/ GetBuffer(u.data) /\ recv_queue' = Append(recv_queue, Item(c, "normal", u.data, "normal"))
  BY DEF Parse, raw
<1> QED
  BY <1>1, <1>2, UnPackIs

LEMMA BufferEnds ==
  ASSUME Typed, NEW data \in Datas, GetBuffer(data)
  PROVE  SameEnds(batch', batch)
BY GetBufferIs DEF SameEnds, Typed, QueuesTyped

LEMMA RunEnds ==
  ASSUME Typed, SlotsInv, EndsInv, NEW c \in Conn, Run(c), UNCHANGED <<cli, main>>
  PROVE  EndsInv'
<1>1. /\ cl[c].stat = "normal" /\ \A d \in Conn \ {c} : cl'[d] = cl[d]
      /\ UNCHANGED key_map
  BY RunIs
<1>2. \A d \in Conn : cl[d].stat = "closing" => cl'[d] = cl[d]
  BY <1>1
<1>3. CASE UNCHANGED <<batch, recv_queue>>
  <2>1. SameEnds(batch', batch)
    BY <1>3 DEF SameEnds
  <2> QED
    BY <1>1, <1>2, <1>3, <2>1, EndsKept
<1>4. CASE \E data \in Datas :
             GetBuffer(data) /\ recv_queue' = Append(recv_queue, Item(c, "normal", data, "normal"))
  <2>1. PICK data \in Datas :
          GetBuffer(data) /\ recv_queue' = Append(recv_queue, Item(c, "normal", data, "normal"))
    BY <1>4
  <2> DEFINE x == Item(c, "normal", data, "normal")
  <2>2. x \in Items /\ x.key = c /\ x.info # "close" /\ recv_queue' = Append(recv_queue, x)
    <3>1. "normal" \in Ops /\ "normal" \in {"normal", "close"}
      BY DEF Ops
    <3>2. x \in Items /\ x.key = c /\ x.info = "normal"
      BY <3>1, ItemIs
    <3> QED
      BY <2>1, <3>2
  <2> HIDE DEF x
  <2>3. recv_queue \in Seq(Items)
    BY DEF Typed, QueuesTyped
  <2>4. SameEnds(batch', batch)
    BY <2>1, BufferEnds
  <2>5. ~Told(c)
    BY <1>1 DEF EndsInv
  <2> SUFFICES ASSUME NEW d \in Conn
               PROVE  /\ EndsLast(batch', d) /\ EndsLast(recv_queue', d)
                      /\ HasEnd(batch', d) => Free(recv_queue', d)
                      /\ main'[d].reported \in {0, 1}
                      /\ main'[d].reported = 1 => Free(batch', d) /\ Free(recv_queue', d)
                      /\ Told(d)' => d \notin key_map' /\ cl'[d].stat = "closing" /\ ~cl'[d].server_close
    BY DEF EndsInv, EndsLast, HasEnd, Free
  <2>6. /\ EndsLast(batch, d) /\ EndsLast(recv_queue, d)
        /\ HasEnd(batch, d) => Free(recv_queue, d)
        /\ main[d].reported \in {0, 1}
        /\ main[d].reported = 1 => Free(batch, d) /\ Free(recv_queue, d)
        /\ Told(d) => d \notin key_map /\ cl[d].stat = "closing" /\ ~cl[d].server_close
    BY DEF EndsInv
  <2>7. /\ Free(batch', d) = Free(batch, d) /\ HasEnd(batch', d) = HasEnd(batch, d)
        /\ EndsLast(batch', d) = EndsLast(batch, d)
    BY <2>4, EndsSame
  <2>8. HasEnd(recv_queue', d) = HasEnd(recv_queue, d)
    BY <2>2, <2>3, EndsAppend
  <2>9. Told(d)' = Told(d)
    BY <2>7, <2>8 DEF Told, HasEnd
  <2>10. CASE d = c
    <3>1. main[d].reported # 1 /\ ~HasEnd(batch, d) /\ ~HasEnd(recv_queue, d) /\ ~Told(d)'
      BY <2>5, <2>9, <2>10 DEF Told
    <3>2. EndsLast(recv_queue', d)
      BY <2>2, <2>3, <3>1, EndsAppend
    <3> QED
      BY <2>6, <2>7, <3>1, <3>2
  <2>11. CASE d # c
    <3>1. /\ Free(recv_queue', d) = Free(recv_queue, d)
          /\ EndsLast(recv_queue', d) = EndsLast(recv_queue, d)
      BY <2>2, <2>3, <2>11, EndsAppend
    <3> QED
      BY <1>1, <2>6, <2>7, <2>9, <2>11, <3>1
  <2> QED
    BY <2>10, <2>11
<1> QED
  BY <1>3, <1>4, RunIs, ParseGives

LEMMA MainEnds ==
  ASSUME Typed, SlotsInv, EndsInv, NEW c \in Conn,
         SendToClient(c) \/ MainCloses(c) \/ (Client(c) /\ UNCHANGED main)
  PROVE  EndsInv'
<1>1. UNCHANGED <<recv_queue, key_map, cl>>
  BY Zenon DEF SendToClient, MainCloses, Send, Client, Connect, ConnectFails, GameSend, OtherSend, GameExit,
         GameClosed, RecvPkg, cliRest, servVars
<1>2. \A d \in Conn : main'[d].reported = main[d].reported
  BY ZenonT(30) DEF SendToClient, MainCloses, Typed, MainTyped, MainType
<1>3. SameEnds(batch', batch)
  <2>1. CASE UNCHANGED batch
    BY <2>1 DEF SameEnds
  <2>2. CASE SendToClient(c)
    <3> DEFINE data == [from |-> c, id |-> -Len(main[c].answers), len |-> Head(main[c].answers), enc |-> None]
    <3>1. data \in Datas /\ Send(c, data, "normal")
      BY <2>2, SendToTyped DEF SendToClient
    <3>2. UNCHANGED batch \/ GetBuffer(data)
      BY <3>1, SendTyped
    <3> QED
      BY <2>1, <3>1, <3>2, BufferEnds
  <2>3. CASE MainCloses(c)
    <3> DEFINE data == [Junk EXCEPT !.len = 0]
    <3>1. data \in Datas /\ Send(c, data, "close")
      BY <2>3, ClosesTyped DEF MainCloses
    <3>2. UNCHANGED batch \/ GetBuffer(data)
      BY <3>1, SendTyped
    <3> QED
      BY <2>1, <3>1, <3>2, BufferEnds
  <2>4. CASE Client(c)
    <3>1. UNCHANGED batch
      BY <2>4, Zenon DEF Client, Connect, ConnectFails, GameSend, OtherSend, GameExit, GameClosed, RecvPkg, cliRest
    <3> QED
      BY <2>1, <3>1
  <2> QED
    BY <2>2, <2>3, <2>4
<1> QED
  BY <1>1, <1>2, <1>3, EndsKept

LEMMA RecvEnds ==
  ASSUME Typed, SlotsInv, EndsInv, ReadClients
  PROVE  EndsInv'
<1>1. /\ batch = <<>> /\ UNCHANGED <<key_map, cl, main>>
  BY DEF ReadClients, Recv, servVars
<1>2. PICK n \in Nat :
        /\ n <= Len(recv_queue) /\ Len(batch') = n /\ Len(recv_queue') = Len(recv_queue) - n
        /\ \A i \in 1 .. n : batch'[i].key = recv_queue[i].key /\ batch'[i].info = recv_queue[i].info
        /\ \A i \in 1 .. Len(recv_queue) - n : recv_queue'[i] = recv_queue[i + n]
  BY RecvTyped
<1>3. Len(recv_queue) \in Nat
  BY DEF Typed, QueuesTyped
<1> SUFFICES ASSUME NEW d \in Conn
             PROVE  /\ EndsLast(batch', d) /\ EndsLast(recv_queue', d)
                    /\ HasEnd(batch', d) => Free(recv_queue', d)
                    /\ main'[d].reported \in {0, 1}
                    /\ main'[d].reported = 1 => Free(batch', d) /\ Free(recv_queue', d)
                    /\ Told(d)' => d \notin key_map' /\ cl'[d].stat = "closing" /\ ~cl'[d].server_close
  BY DEF EndsInv, EndsLast, HasEnd, Free
<1>4. /\ EndsLast(recv_queue, d) /\ main[d].reported \in {0, 1}
      /\ main[d].reported = 1 => Free(recv_queue, d)
      /\ Told(d) => d \notin key_map /\ cl[d].stat = "closing" /\ ~cl[d].server_close
  BY DEF EndsInv
<1>5. /\ EndsLast(batch', d) /\ EndsLast(recv_queue', d)
      /\ HasEnd(batch', d) => Free(recv_queue', d)
      /\ HasEnd(batch', d) \/ HasEnd(recv_queue', d) => HasEnd(recv_queue, d)
      /\ Free(recv_queue, d) => Free(batch', d) /\ Free(recv_queue', d)
  BY <1>2, <1>3, <1>4, EndsCut
<1>6. Told(d)' => Told(d)
  BY <1>1, <1>5 DEF Told, HasEnd
<1> QED
  BY <1>1, <1>4, <1>5, <1>6

LEMMA HandleEnds ==
  ASSUME Typed, SlotsInv, EndsInv, HandleClientPkg
  PROVE  EndsInv'
<1> DEFINE b == Head(batch)
           k == b.key
<1>1. /\ batch # <<>> /\ batch' = Tail(batch) /\ batch \in Seq(Packages)
      /\ UNCHANGED <<key_map, cl, recv_queue>>
  BY HandleTyped, Zenon DEF HandleClientPkg, servVars
<1>2. b \in Packages /\ k \in Conn /\ b.info \in {"normal", "close"}
  BY HandleTyped, Zenon DEF Packages
<1>3. /\ Len(batch) \in Nat /\ 1 <= Len(batch) /\ Len(batch') = Len(batch) - 1 /\ batch[1] = b
      /\ \A i \in 1 .. Len(batch) - 1 : batch'[i] = batch[i + 1]
  BY <1>1
<1> HIDE DEF b
<1>4. \A d \in Conn : main'[d].reported = IF d = k /\ b.info = "close" THEN main[d].reported + 1
                                                                       ELSE main[d].reported
  BY <1>2 DEF HandleClientPkg, b, Typed, MainTyped, MainType
<1> DEFINE p == <<b>>
<1>5. /\ Len(p) = 1 /\ p[1] = b
  OBVIOUS
<1> HIDE DEF p
<1> SUFFICES ASSUME NEW d \in Conn
             PROVE  /\ EndsLast(batch', d) /\ EndsLast(recv_queue', d)
                    /\ HasEnd(batch', d) => Free(recv_queue', d)
                    /\ main'[d].reported \in {0, 1}
                    /\ main'[d].reported = 1 => Free(batch', d) /\ Free(recv_queue', d)
                    /\ Told(d)' => d \notin key_map' /\ cl'[d].stat = "closing" /\ ~cl'[d].server_close
  BY DEF EndsInv, EndsLast, HasEnd, Free
<1>6. /\ EndsLast(batch, d) /\ EndsLast(recv_queue, d)
      /\ HasEnd(batch, d) => Free(recv_queue, d)
      /\ main[d].reported \in {0, 1}
      /\ main[d].reported = 1 => Free(batch, d) /\ Free(recv_queue, d)
      /\ Told(d) => d \notin key_map /\ cl[d].stat = "closing" /\ ~cl[d].server_close
  BY DEF EndsInv
<1> DEFINE n == 1
<1>7. /\ n \in Nat /\ n <= Len(batch) /\ Len(p) = n /\ Len(batch') = Len(batch) - n
      /\ \A i \in 1 .. n : p[i].key = batch[i].key /\ p[i].info = batch[i].info
      /\ \A i \in 1 .. Len(batch) - n : batch'[i] = batch[i + n]
  BY <1>3, <1>5
<1> HIDE DEF n
<1>8. /\ EndsLast(batch', d) /\ (HasEnd(p, d) => Free(batch', d))
      /\ HasEnd(p, d) \/ HasEnd(batch', d) => HasEnd(batch, d)
      /\ Free(batch, d) => Free(p, d) /\ Free(batch', d)
  BY <1>3, <1>6, <1>7, EndsCut
<1>9. CASE d = k /\ b.info = "close"
  <2>1. HasEnd(p, d)
    BY <1>5, <1>9 DEF HasEnd
  <2>2. ~Free(p, d)
    BY <1>5, <1>9 DEF Free
  <2>3. main[d].reported = 0 /\ main'[d].reported = 1
    BY <1>4, <1>6, <1>8, <1>9, <2>2
  <2>4. Told(d) /\ Free(batch', d) /\ Free(recv_queue, d)
    BY <1>6, <1>8, <2>1 DEF Told
  <2> QED
    BY <1>1, <1>6, <1>8, <2>3, <2>4
<1>10. CASE ~(d = k /\ b.info = "close")
  <2>1. main'[d].reported = main[d].reported
    BY <1>4, <1>10
  <2>2. Told(d)' => Told(d)
    BY <1>1, <1>8, <2>1 DEF Told, HasEnd
  <2> QED
    BY <1>1, <1>6, <1>8, <2>1, <2>2
<1> QED
  BY <1>9, <1>10

LEMMA NextEnds ==
  ASSUME Typed, SlotsInv, EndsInv, Next
  PROVE  EndsInv'
<1>1. ASSUME ServerExit PROVE EndsInv'
  <2>1. UNCHANGED <<batch, recv_queue, key_map, cl, main>>
    BY <1>1 DEF ServerExit, Close
  <2>2. SameEnds(batch', batch)
    BY <2>1 DEF SameEnds
  <2> QED
    BY <2>1, <2>2, EndsKept
<1> QED
  BY <1>1, ServEnds, RunEnds, MainEnds, RecvEnds, HandleEnds DEF Next

LEMMA InitEnds == ConnNetInit => EndsInv
<1> SUFFICES ASSUME ConnNetInit PROVE EndsInv
  OBVIOUS
<1>1. batch = <<>> /\ recv_queue = <<>> /\ \A c \in Conn : main[c].reported = 0
  BY DEF ConnNetInit, TcpInit
<1> QED
  BY <1>1 DEF EndsInv, EndsLast, HasEnd, Free, Told

LEMMA AlwaysEnds == Spec => [](Typed /\ SlotsInv /\ EndsInv)
<1>1. EndsInv /\ UNCHANGED vars => EndsInv'
  <2> SUFFICES ASSUME EndsInv, UNCHANGED vars PROVE EndsInv'
    OBVIOUS
  <2>1. UNCHANGED <<batch, recv_queue, key_map, cl, main>>
    BY DEF vars, tcpVars, servVars
  <2>2. SameEnds(batch', batch)
    BY <2>1 DEF SameEnds
  <2> QED
    BY <2>1, <2>2, EndsKept
<1>2. Typed /\ SlotsInv /\ EndsInv /\ [Next]_vars => EndsInv'
  BY <1>1, NextEnds
<1> QED
  BY <1>2, InitEnds, AlwaysSlots, PTL DEF Spec

\* What main has before it is what it is handling and then what waits.
LEMMA EndsAre == Typed /\ EndsInv => CloseLast
<1> SUFFICES ASSUME Typed, EndsInv, NEW c \in Conn
             PROVE  LET q == batch \o recv_queue
                        mine == {i \in 1 .. Len(q) : q[i].key = c}
                        told == {i \in mine : q[i].info = "close"}
                    IN  /\ \A i \in told : ~cl[c].server_close /\ \A j \in mine : j <= i
                        /\ main[c].reported <= 1 /\ (main[c].reported = 1 => mine = {})
  BY DEF CloseLast
<1> DEFINE q == batch \o recv_queue
           n == Len(batch)
           m == Len(recv_queue)
<1>1. /\ EndsLast(batch, c) /\ EndsLast(recv_queue, c)
      /\ HasEnd(batch, c) => Free(recv_queue, c)
      /\ main[c].reported \in {0, 1}
      /\ main[c].reported = 1 => Free(batch, c) /\ Free(recv_queue, c)
      /\ Told(c) => ~cl[c].server_close
  BY DEF EndsInv
<1>2. /\ n \in Nat /\ m \in Nat /\ Len(q) = n + m
      /\ \A i \in 1 .. n : q[i] = batch[i]
      /\ \A i \in n + 1 .. n + m : q[i] = recv_queue[i - n]
  BY DEF Typed, QueuesTyped
<1> HIDE DEF q, n, m
<1>3. \A i \in 1 .. n + m : i \in 1 .. n \/ (i \in n + 1 .. n + m /\ i - n \in 1 .. m)
  BY <1>2
<1>4. \A i \in 1 .. n, j \in n + 1 .. n + m : i <= j
  BY <1>2
<1>5. \A i, j \in n + 1 .. n + m : j - n <= i - n => j <= i
  BY <1>2
<1>6. ASSUME NEW i \in 1 .. n + m, q[i].key = c, q[i].info = "close"
      PROVE  ~cl[c].server_close /\ \A j \in 1 .. n + m : q[j].key = c => j <= i
  <2>1. CASE i \in 1 .. n
    <3>1. HasEnd(batch, c)
      BY <1>2, <1>6, <2>1 DEF HasEnd, n
    <3>2. Free(recv_queue, c) /\ ~cl[c].server_close
      BY <1>1, <3>1 DEF Told
    <3>3. \A j \in 1 .. n : q[j].key = c => j <= i
      BY <1>1, <1>2, <1>6, <2>1 DEF EndsLast, n
    <3>4. \A j \in n + 1 .. n + m : j - n \in 1 .. m => q[j].key # c
      BY <1>2, <3>2 DEF Free, m
    <3> QED
      BY <1>3, <3>2, <3>3, <3>4
  <2>2. CASE i \in n + 1 .. n + m /\ i - n \in 1 .. m
    <3>1. HasEnd(recv_queue, c)
      BY <1>2, <1>6, <2>2 DEF HasEnd, m
    <3>2. ~cl[c].server_close
      BY <1>1, <3>1 DEF Told
    <3>3. ASSUME NEW j \in 1 .. n + m, q[j].key = c PROVE j <= i
      <4>1. CASE j \in 1 .. n
        BY <1>4, <2>2, <4>1
      <4>2. CASE j \in n + 1 .. n + m /\ j - n \in 1 .. m
        <5>1. j - n <= i - n
          BY <1>1, <1>2, <1>6, <2>2, <3>3, <4>2 DEF EndsLast, m
        <5> QED
          BY <1>5, <2>2, <4>2, <5>1
      <4> QED
        BY <1>3, <4>1, <4>2
    <3> QED
      BY <3>2, <3>3
  <2> QED
    BY <1>3, <1>6, <2>1, <2>2
<1>7. ASSUME main[c].reported = 1 PROVE \A i \in 1 .. n + m : q[i].key # c
  BY <1>1, <1>2, <1>3, <1>7 DEF Free, n, m
<1>8. main[c].reported <= 1
  BY <1>1
<1> QED
  BY <1>2, <1>6, <1>7, <1>8 DEF q

\* CloseLast: the end of a connection is told last and at most once, and
\* never when the server itself closed it.
THEOREM Ends == Spec => []CloseLast
BY AlwaysEnds, EndsAre, PTL

-----------------------------------------------------------------------------
(* Keys.  The key of a client changes at most once, from none to the one   *)
(* the game client made; what was encrypted was so with the key the client *)
(* has now, and a game client encrypts with that key or not at all.        *)

Going(c) == ToSet(net[c].down) \cup ToSet(cl[c].snd_cache)
Coming(c) == ToSet(net[c].up) \cup ToSet(cl[c].recv_cache)
Lined(c) == ToSet(cl[c].snd_queue) \cup {cl[c].item}
Posted(c) == {x \in ToSet(snd_queue) \cup {serv.item} : x.key = c}
Given(c) == {x \in ToSet(batch) \cup ToSet(recv_queue) : x.key = c /\ x.info = "normal"}

KeyIs(c, e) == e = cl[c].enc /\ (EncType = "rsa" => cl[c].enc # None)
KeyHeld(c, d) == KeyIs(c, d.enc)
AnswerKeyed(c, x) ==
  /\ x.op = "valid" /\ EncType = "gen" => x.data.enc = "gen"
  /\ x.op = "nego" /\ x.data.enc = "ok" => cl[c].enc = "nego"
Paired(q) ==
  \A i \in 1 .. Len(q) :
    q[i].part = "head" => i < Len(q) /\ q[i + 1] = [q[i] EXCEPT !.part = "data"]

ServKeys ==
  \A c \in Conn :
    /\ EncType = "none" => cl[c].enc = None
    /\ EncType = "gen" => cl[c].enc = "gen"
    /\ EncType = "rsa" => cl[c].enc \in {None, "nego"}
    /\ cl[c].stat = "none" => cl[c].enc # "nego"
WireKeys ==
  \A c \in Conn :
    /\ \A x \in Going(c) : (x.op = "normal" => KeyHeld(c, x.data)) /\ AnswerKeyed(c, x)
    /\ \A x \in Lined(c) : AnswerKeyed(c, x)
    /\ \A x \in Posted(c) : x.op = "normal"
PairsAt(c) == Paired(cl[c].snd_cache) /\ ("torn" \notin marred[c] => Paired(net[c].down))
WirePairs == \A c \in Conn : PairsAt(c)
\* What a game client sends, unless a write of the server was cut short.
ComingKeys ==
  \A c \in Conn : IsGame(c) /\ "torn" \notin marred[c] =>
    \A x \in Coming(c) : x.op = "normal" => KeyHeld(c, x.data)
GameAt(c) ==
  LET me == cli[c]
  IN  /\ EncType = "none" => /\ me.enc_type \in {"unknown", "none"}
                             /\ me.enc_key = None /\ me.enc_block = None
      /\ EncType = "gen" /\ "torn" \notin marred[c] =>
           \/ me.enc_type = "unknown" /\ me.enc_key = None /\ me.enc_block = None
           \/ me.enc_type = "gen" /\ me.enc_key = "gen" /\ me.enc_block = "gen"
      /\ EncType = "rsa" =>
           \/ me.enc_type = "unknown" /\ me.enc_key = None /\ me.enc_block = None
           \/ me.enc_type = "rsa" /\ me.enc_key = "nego" /\ me.enc_block \in {None, "nego"}
      /\ "torn" \notin marred[c] =>
           /\ CanAsk(c) => KeyIs(c, AskKey(c))
           /\ me.got # <<>> => CanAsk(c)
           /\ \A d \in ToSet(me.got) : d = Junk \/ d.enc = AskKey(c)
GameKeys == \A c \in Conn : IsGame(c) => GameAt(c)
KeysInv == ServKeys /\ WireKeys /\ WirePairs /\ GameKeys /\ ComingKeys

\* The members of sequences.
LEMMA Members ==
  ASSUME NEW S, NEW q \in Seq(S)
  PROVE  /\ \A y : y \in ToSet(q) <=> \E i \in 1 .. Len(q) : y = q[i]
         /\ ToSet(q) \subseteq S
         /\ \A i \in 1 .. Len(q) : q[i] \in ToSet(q)
BY DEF ToSet

LEMMA MembersEmpty == ToSet(<<>>) = {}
BY DEF ToSet

LEMMA MembersAppend ==
  ASSUME NEW S, NEW q \in Seq(S), NEW x \in S
  PROVE  ToSet(Append(q, x)) = ToSet(q) \cup {x}
<1> DEFINE n == Len(q)
           r == Append(q, x)
<1>1. /\ n \in Nat /\ Len(r) = n + 1 /\ r[n + 1] = x /\ r \in Seq(S)
      /\ \A i \in 1 .. n : r[i] = q[i]
  BY AppendProperties
<1>2. 1 .. n + 1 = (1 .. n) \cup {n + 1}
  BY <1>1
<1>3. \A y : y \in ToSet(r) <=> \E i \in 1 .. Len(r) : y = r[i]
  BY <1>1, Members
<1>4. \A y : y \in ToSet(q) <=> \E i \in 1 .. Len(q) : y = q[i]
  BY Members
<1> HIDE DEF n, r
<1>5. \A y : y \in ToSet(r) <=> y \in ToSet(q) \/ y = x
  BY <1>1, <1>2, <1>3, <1>4 DEF n
<1> QED
  BY <1>5 DEF r

LEMMA MembersConcat ==
  ASSUME NEW S, NEW p \in Seq(S), NEW q \in Seq(S)
  PROVE  ToSet(p \o q) = ToSet(p) \cup ToSet(q)
<1> DEFINE n == Len(p)
           m == Len(q)
           r == p \o q
<1>1. /\ n \in Nat /\ m \in Nat /\ Len(r) = n + m /\ r \in Seq(S)
      /\ \A i \in 1 .. n : r[i] = p[i]
      /\ \A i \in n + 1 .. n + m : r[i] = q[i - n]
  BY ConcatProperties
<1>2. /\ \A i \in 1 .. n + m : i \in 1 .. n \/ (i \in n + 1 .. n + m /\ i - n \in 1 .. m)
      /\ \A i \in 1 .. n : i \in 1 .. n + m
      /\ \A i \in 1 .. m : i + n \in 1 .. n + m /\ i + n \in n + 1 .. n + m /\ (i + n) - n = i
  BY <1>1
<1>3. /\ \A y : y \in ToSet(r) <=> \E i \in 1 .. Len(r) : y = r[i]
      /\ \A y : y \in ToSet(p) <=> \E i \in 1 .. Len(p) : y = p[i]
      /\ \A y : y \in ToSet(q) <=> \E i \in 1 .. Len(q) : y = q[i]
  BY <1>1, Members
<1> HIDE DEF n, m, r
<1>4. \A y : y \in ToSet(r) => y \in ToSet(p) \/ y \in ToSet(q)
  <2> SUFFICES ASSUME NEW i \in 1 .. n + m PROVE r[i] \in ToSet(p) \/ r[i] \in ToSet(q)
    BY <1>1, <1>3
  <2>1. CASE i \in 1 .. n
    BY <1>1, <1>3, <2>1 DEF n
  <2>2. CASE i \in n + 1 .. n + m /\ i - n \in 1 .. m
    BY <1>1, <1>3, <2>2 DEF m
  <2> QED
    BY <1>2, <2>1, <2>2
<1>5. \A y : y \in ToSet(p) => y \in ToSet(r)
  BY <1>1, <1>2, <1>3 DEF n
<1>6. \A y : y \in ToSet(q) => y \in ToSet(r)
  <2> SUFFICES ASSUME NEW i \in 1 .. m PROVE q[i] \in ToSet(r)
    BY <1>3 DEF m
  <2>1. r[i + n] = q[i] /\ i + n \in 1 .. Len(r)
    BY <1>1, <1>2
  <2> QED
    BY <1>3, <2>1
<1> QED
  BY <1>4, <1>5, <1>6 DEF r

LEMMA MembersCut ==
  ASSUME NEW S, NEW q \in Seq(S), NEW n \in Nat
  PROVE  /\ ToSet(SubSeq(q, n + 1, Len(q))) \subseteq ToSet(q)
         /\ n <= Len(q) => ToSet(SubSeq(q, 1, n)) \subseteq ToSet(q)
<1>1. ASSUME NEW a \in 1 .. Len(q) + 1, NEW b \in 0 .. Len(q)
      PROVE  ToSet(SubSeq(q, a, b)) \subseteq ToSet(q)
  <2> DEFINE r == SubSeq(q, a, b)
  <2>1. r \in Seq(S) /\ Len(r) = IF a <= b THEN b - a + 1 ELSE 0
    BY <1>1
  <2>2. \A i \in 1 .. Len(r) : r[i] = q[a + i - 1] /\ a + i - 1 \in 1 .. Len(q)
    BY <1>1, <2>1
  <2> HIDE DEF r
  <2>3. \A y : y \in ToSet(r) <=> \E i \in 1 .. Len(r) : y = r[i]
    BY <2>1, Members
  <2>4. \A i \in 1 .. Len(q) : q[i] \in ToSet(q)
    BY Members
  <2> QED
    BY <2>2, <2>3, <2>4 DEF r
<1>2. Len(q) \in Nat
  OBVIOUS
<1>3. n <= Len(q) => ToSet(SubSeq(q, 1, n)) \subseteq ToSet(q)
  BY <1>1, <1>2
<1>4. CASE n <= Len(q)
  <2>1. n + 1 \in 1 .. Len(q) + 1 /\ Len(q) \in 0 .. Len(q)
    BY <1>2, <1>4
  <2> QED
    BY <1>1, <1>3, <2>1
<1>5. CASE ~(n <= Len(q))
  <2>1. SubSeq(q, n + 1, Len(q)) = <<>>
    BY <1>2, <1>5
  <2> QED
    BY <1>5, <2>1, MembersEmpty
<1> QED
  BY <1>4, <1>5

LEMMA MembersTail ==
  ASSUME NEW S, NEW q \in Seq(S), q # <<>>
  PROVE  ToSet(Tail(q)) \subseteq ToSet(q) /\ Head(q) \in ToSet(q)
<1>1. Len(q) \in Nat /\ Len(q) > 0
  BY LenIs
<1>2. Head(q) = q[1] /\ 1 \in 1 .. Len(q)
  BY <1>1
<1>3. Tail(q) = SubSeq(q, 1 + 1, Len(q))
  BY <1>1
<1> QED
  BY <1>2, <1>3, Members, MembersCut

\* What a step does to the packages of c on their way: they move on, are
\* dropped, or are made; and its key is set at most once.
Moved(c) ==
  /\ \A x \in Going(c)' :
       \/ x \in Going(c) \/ x = Zero
       \/ \E p \in Lined(c) \cap Items : /\ p.op = "normal" => CanEncrypt(c)
                                         /\ x.op = p.op /\ x.data = Encrypted(cl[c], p)
  /\ \A x \in Lined(c)' :
       \/ x \in Lined(c) \/ x \in Posted(c) \/ x = NoItem
       \/ /\ x.op # "normal" /\ (x.op = "valid" => x.data.enc = cl[c].enc)
          /\ x.op = "nego" /\ x.data.enc = "ok" => cl'[c].enc = "nego"
  /\ Coming(c)' \subseteq Coming(c)
  /\ \/ cl'[c].enc = cl[c].enc
     \/ EncType = "rsa" /\ cl'[c].enc = "nego" /\ cl[c].stat = "normal"
  /\ cl'[c].stat = "none" => cl[c].stat = "none"

Same(me, it) ==
  /\ it.enc = me.enc /\ it.recv_cache = me.recv_cache /\ it.snd_cache = me.snd_cache
  /\ it.snd_queue = me.snd_queue /\ it.item = me.item
  /\ it.stat = "none" => me.stat = "none"

LEMMA SameMoves ==
  ASSUME NEW c \in Conn, Same(cl[c], cl'[c]), net'[c].up = net[c].up, net'[c].down = net[c].down
  PROVE  Moved(c)
<1>1. Going(c)' = Going(c) /\ Lined(c)' = Lined(c) /\ Coming(c)' = Coming(c)
  BY DEF Same, Going, Lined, Coming
<1> QED
  BY <1>1 DEF Same, Moved

LEMMA CellsTyped ==
  ASSUME Typed, NEW c \in Conn
  PROVE  /\ cl \in [Conn -> ClientType] /\ net \in [Conn -> PeerType]
         /\ cl[c] \in ClientType /\ net[c] \in PeerType /\ Own(cl[c], c)
         /\ net[c].up \in Seq(Cells) /\ net[c].down \in Seq(Cells)
         /\ cl[c].recv_cache \in Seq(Cells) /\ cl[c].snd_cache \in Seq(Cells)
         /\ cl[c].snd_queue \in Seq(Items)
         /\ pserv.enc_type \in {"none", "gen", "rsa"}
BY DEF Typed, PservTyped, ClientsTyped, NetTyped, ClientType, PeerType

LEMMA AcceptMoves ==
  ASSUME Typed, SlotsInv, ServKeys, NEW c \in Conn, Accept(c), NEW d \in Conn
  PROVE  Moved(d)
<1>1. cl[c].stat = "none"
  BY DEF Accept, SlotsInv, Stations, Typed, ClientsTyped, ClientType
<1>2. \A e \in Conn : net'[e].up = net[e].up /\ net'[e].down = net[e].down
  <2>1. \E p : net' = [net EXCEPT ![c].peer = p]
    BY DEF Accept
  <2> QED
    BY <2>1, CellsTyped DEF PeerType
<1>3. \A e \in Conn \ {c} : cl'[e] = cl[e]
  BY CellsTyped DEF Accept
<1>4. cl'[c] = cl[c] \/ cl'[c] = NewClient
  BY CellsTyped DEF Accept
<1>5. CASE cl'[d] = cl[d]
  BY <1>2, <1>5, SameMoves DEF Same
<1>6. CASE d = c /\ cl'[c] = NewClient
  <2>1. /\ cl'[c].enc = (IF EncType = "gen" THEN "gen" ELSE None) /\ cl'[c].stat = "normal"
        /\ cl'[c].recv_cache = <<>> /\ cl'[c].snd_cache = <<>> /\ cl'[c].snd_queue = <<>>
        /\ cl'[c].item = NoItem
    BY <1>6 DEF NewClient
  <2>2. cl'[c].enc = cl[c].enc
    BY <1>1, <2>1, CellsTyped DEF ServKeys, EncType
  <2>3. ToSet(<<>>) = {}
    BY MembersEmpty
  <2>4. Going(c)' \subseteq Going(c) /\ Coming(c)' \subseteq Coming(c) /\ Lined(c)' = {NoItem}
    BY <1>2, <2>1, <2>3 DEF Going, Coming, Lined
  <2> QED
    BY <1>6, <2>1, <2>2, <2>4 DEF Moved
<1> QED
  BY <1>3, <1>4, <1>5, <1>6

LEMMA CloseClientMoves ==
  ASSUME Typed, SlotsInv, CloseClient, NEW d \in Conn
  PROVE  Moved(d)
<1> DEFINE c == client_list[Head(close_ch)]
<1>1. c \in Conn
  BY HeadWaits DEF CloseClient, SlotsInv
<1>2. /\ net' = [net EXCEPT ![c].peer = "closed"]
      /\ cl' = [cl EXCEPT ![c].snd_cache = <<>>, ![c].recv_cache = <<>>]
  BY DEF CloseClient
<1> HIDE DEF c
<1>3. net'[d].up = net[d].up /\ net'[d].down = net[d].down
  BY <1>1, <1>2, CellsTyped DEF PeerType
<1>4. CASE d # c
  <2>1. cl'[d] = cl[d]
    BY <1>1, <1>2, <1>4, CellsTyped
  <2> QED
    BY <1>3, <2>1, SameMoves DEF Same
<1>5. CASE d = c
  <2>1. /\ cl'[d].enc = cl[d].enc /\ cl'[d].stat = cl[d].stat
        /\ cl'[d].recv_cache = <<>> /\ cl'[d].snd_cache = <<>> /\ cl'[d].snd_queue = cl[d].snd_queue
        /\ cl'[d].item = cl[d].item
    BY <1>1, <1>2, <1>5, CellsTyped DEF ClientType
  <2>2. ToSet(<<>>) = {}
    BY MembersEmpty
  <2>3. Going(d)' \subseteq Going(d) /\ Coming(d)' \subseteq Coming(d) /\ Lined(d)' = Lined(d)
    BY <1>3, <2>1, <2>2 DEF Going, Coming, Lined
  <2> QED
    BY <2>1, <2>3 DEF Moved
<1> QED
  BY <1>4, <1>5

LEMMA DispatchAppendMoves ==
  ASSUME Typed, DispatchAppend, UNCHANGED <<cli, main>>, NEW d \in Conn
  PROVE  Moved(d)
<1> DEFINE c == serv.item.key
<1>1. serv.item \in Items /\ UNCHANGED net /\ cl' = [cl EXCEPT ![c].snd_queue = Append(@, serv.item)]
  BY DispatchAppendTyped DEF DispatchAppend
<1>2. c \in Conn
  BY <1>1 DEF Items
<1>3. CASE d # c
  <2>1. cl'[d] = cl[d]
    BY <1>1, <1>2, <1>3, CellsTyped
  <2> QED
    BY <1>1, <2>1, SameMoves DEF Same
<1>4. CASE d = c
  <2>1. /\ cl'[d].enc = cl[d].enc /\ cl'[d].stat = cl[d].stat
        /\ cl'[d].recv_cache = cl[d].recv_cache /\ cl'[d].snd_cache = cl[d].snd_cache
        /\ cl'[d].snd_queue = Append(cl[d].snd_queue, serv.item) /\ cl'[d].item = cl[d].item
    <3> DEFINE q == Append(cl[c].snd_queue, serv.item)
    <3>1. cl' = [cl EXCEPT ![c].snd_queue = q]
      BY <1>1
    <3> HIDE DEF q
    <3>2. cl'[c] = [cl[c] EXCEPT !.snd_queue = q] /\ cl[c] \in ClientType
      BY <1>2, <3>1, CellsTyped
    <3> QED
      BY <1>4, <3>2 DEF ClientType, q
  <2>2. ToSet(cl'[d].snd_queue) = ToSet(cl[d].snd_queue) \cup {serv.item}
    <3>1. cl[d].snd_queue \in Seq(Items) /\ serv.item \in Items
      BY <1>1, CellsTyped
    <3>2. ToSet(Append(cl[d].snd_queue, serv.item)) = ToSet(cl[d].snd_queue) \cup {serv.item}
      BY <3>1, MembersAppend
    <3> QED
      BY <2>1, <3>2
  <2>3. serv.item \in Posted(d)
    BY <1>4 DEF Posted
  <2>4. Going(d)' = Going(d) /\ Coming(d)' = Coming(d) /\ Lined(d)' = Lined(d) \cup {serv.item}
    BY <1>1, <2>1, <2>2 DEF Going, Coming, Lined
  <2> QED
    BY <2>1, <2>3, <2>4 DEF Moved
<1> QED
  BY <1>3, <1>4

LEMMA ServMoves ==
  ASSUME Typed, SlotsInv, ServKeys, TcpServer, UNCHANGED <<cli, main>>, NEW d \in Conn
  PROVE  Moved(d)
<1>1. CASE AcceptTimeout \/ ServerStops \/ CloseDone \/ DispatchDone \/ Dispatch
  <2>1. UNCHANGED <<cl, net>>
    BY <1>1 DEF AcceptTimeout, ServerStops, CloseDone, DispatchDone, Dispatch
  <2> QED
    BY <2>1, SameMoves DEF Same
<1> QED
  BY <1>1, AcceptMoves, CloseClientMoves, DispatchAppendMoves DEF TcpServer

\* The answers of handle_spec_pkg, and when it sets the key.
LEMMA SpecKeys ==
  ASSUME NEW me \in ClientType, NEW op, NEW data, NEW h, h = handle_spec_pkg(me, op, data)
  PROVE  /\ h.me.enc = me.enc \/ (EncType = "rsa" /\ h.me.enc = "nego")
         /\ h.ans.op = "valid" => h.ans.data.enc = me.enc
         /\ h.ans.op = "nego" /\ h.ans.data.enc = "ok" => h.me.enc = "nego"
         /\ h.me.recv_cache = me.recv_cache /\ h.me.snd_cache = me.snd_cache
         /\ h.me.snd_queue = me.snd_queue /\ h.me.stat = me.stat
<1>1. Answer(op, me.enc).data.enc = me.enc /\ Answer(op, me.enc).op = op
  BY DEF Answer
<1>2. \A e : Answer(op, e).op = op /\ Answer(op, e).data.enc = e
  BY DEF Answer
<1>3. NoAnswer.op # "valid" /\ NoAnswer.op # "nego"
  BY DEF NoAnswer, None
<1>4. CASE op = "echo" /\ h = [me |-> me, ans |-> [op |-> op, data |-> data]]
  BY <1>4
<1>5. CASE h = [me |-> me, ans |-> NoAnswer]
  BY <1>3, <1>5
<1>6. CASE op = "valid" /\ h = [me |-> [me EXCEPT !.valid = TRUE], ans |-> Answer(op, me.enc)]
  BY <1>1, <1>6 DEF ClientType
<1>7. CASE op = "nego" /\ h = [me |-> me, ans |-> Answer(op, "fail")]
  BY <1>2, <1>7
<1>8. CASE op = "nego" /\ EncType = "rsa" /\ h = [me |-> [me EXCEPT !.enc = "nego"], ans |-> Answer(op, "ok")]
  BY <1>2, <1>8 DEF ClientType
<1>9. \/ op = "echo" /\ h = [me |-> me, ans |-> [op |-> op, data |-> data]]
      \/ h = [me |-> me, ans |-> NoAnswer]
      \/ op = "valid" /\ h = [me |-> [me EXCEPT !.valid = TRUE], ans |-> Answer(op, me.enc)]
      \/ op = "nego" /\ h = [me |-> me, ans |-> Answer(op, "fail")]
      \/ op = "nego" /\ EncType = "rsa" /\ h = [me |-> [me EXCEPT !.enc = "nego"], ans |-> Answer(op, "ok")]
  BY DEF handle_spec_pkg
<1> QED
  BY <1>4, <1>5, <1>6, <1>7, <1>8, <1>9

LEMMA ClosingSame ==
  ASSUME Typed, NEW c \in Conn, NEW b, Closing(c, b)
  PROVE  /\ Same(cl[c], cl'[c]) /\ \A d \in Conn \ {c} : cl'[d] = cl[d]
BY CellsTyped DEF Closing, Same, ClientType

\* The cells a flush sends are those of the cache.
Leaves(c, it, cache) ==
  /\ it.enc = cl[c].enc /\ it.recv_cache = cl[c].recv_cache /\ it.item = cl[c].item
  /\ it.stat = cl[c].stat /\ ToSet(it.snd_queue) \subseteq ToSet(cl[c].snd_queue)
  /\ it.snd_cache \in {<<>>, cache}
Sendable(c, x) ==
  \/ x \in Going(c)
  \/ \E p \in Lined(c) \cap Items : /\ p.op = "normal" => CanEncrypt(c)
                                    /\ x.op = p.op /\ x.data = Encrypted(cl[c], p)

LEMMA FlushMoves ==
  ASSUME Typed, NEW c \in Conn, NEW cache \in Seq(Cells), NEW done, NEW part,
         Flush(c, cache, done, part),
         Leaves(c, [done EXCEPT !.snd_cache = <<>>], cache),
         Leaves(c, [part EXCEPT !.snd_cache = cache], cache),
         \A x \in ToSet(cache) : Sendable(c, x)
  PROVE  Moved(c) /\ net'[c].up = net[c].up /\ \A d \in Conn \ {c} : net'[d] = net[d]
<1>1. ASSUME NEW it, Leaves(c, it, cache), cl'[c] = it,
             NEW some, ToSet(some) \subseteq ToSet(cache), some \in Seq(Cells),
             net' = [net EXCEPT ![c].down = @ \o some]
      PROVE  Moved(c) /\ net'[c].up = net[c].up /\ \A d \in Conn \ {c} : net'[d] = net[d]
  <2>1. net'[c].down = net[c].down \o some /\ net'[c].up = net[c].up
    BY <1>1, CellsTyped DEF PeerType
  <2>2. ToSet(net'[c].down) = ToSet(net[c].down) \cup ToSet(some)
    BY <1>1, <2>1, CellsTyped, MembersConcat
  <2>3. ToSet(it.snd_cache) \subseteq ToSet(cache)
    BY <1>1, MembersEmpty DEF Leaves
  <2>4. \A x \in Going(c)' : x \in Going(c) \/ x \in ToSet(cache)
    BY <1>1, <2>2, <2>3 DEF Going
  <2>5. Lined(c)' \subseteq Lined(c) /\ Coming(c)' \subseteq Coming(c)
    BY <1>1, <2>1 DEF Lined, Coming, Leaves
  <2>6. cl'[c].enc = cl[c].enc /\ cl'[c].stat = cl[c].stat
    BY <1>1 DEF Leaves
  <2>7. \A d \in Conn \ {c} : net'[d] = net[d]
    BY <1>1, CellsTyped
  <2> QED
    BY <2>1, <2>4, <2>5, <2>6, <2>7 DEF Moved, Sendable
<1>2. CASE /\ net' = [net EXCEPT ![c].down = @ \o cache]
           /\ cl' = [cl EXCEPT ![c] = [done EXCEPT !.snd_cache = <<>>]]
  <2> DEFINE it == [done EXCEPT !.snd_cache = <<>>]
  <2>1. Leaves(c, it, cache)
    OBVIOUS
  <2> HIDE DEF it
  <2>2. cl'[c] = it
    BY <1>2, CellsTyped DEF it
  <2> QED
    BY <1>1, <1>2, <2>1, <2>2
<1>3. CASE \E n \in Nat :
             /\ n <= Len(cache)
             /\ net' = [net EXCEPT ![c].down = @ \o SubSeq(cache, 1, n)]
             /\ cl' = [cl EXCEPT ![c] = [part EXCEPT !.snd_cache = cache]]
  <2>1. PICK n \in Nat :
             /\ n <= Len(cache)
             /\ net' = [net EXCEPT ![c].down = @ \o SubSeq(cache, 1, n)]
             /\ cl' = [cl EXCEPT ![c] = [part EXCEPT !.snd_cache = cache]]
    BY <1>3
  <2> DEFINE it == [part EXCEPT !.snd_cache = cache]
             some == SubSeq(cache, 1, n)
  <2>2. Leaves(c, it, cache)
    OBVIOUS
  <2>3. some \in Seq(Cells) /\ ToSet(some) \subseteq ToSet(cache)
    BY <2>1, Cut, MembersCut
  <2>4. net' = [net EXCEPT ![c].down = @ \o some]
    BY <2>1
  <2> HIDE DEF it, some
  <2>5. cl'[c] = it
    BY <2>1, CellsTyped DEF it
  <2> QED
    BY <1>1, <2>2, <2>3, <2>4, <2>5
<1>4. CASE Closing(c, FALSE) /\ UNCHANGED <<net, marred>>
  BY <1>4, ClosingSame, SameMoves
<1>5. \/ /\ net' = [net EXCEPT ![c].down = @ \o cache]
         /\ cl' = [cl EXCEPT ![c] = [done EXCEPT !.snd_cache = <<>>]]
      \/ \E n \in Nat :
             /\ n <= Len(cache)
             /\ net' = [net EXCEPT ![c].down = @ \o SubSeq(cache, 1, n)]
             /\ cl' = [cl EXCEPT ![c] = [part EXCEPT !.snd_cache = cache]]
      \/ Closing(c, FALSE) /\ UNCHANGED <<net, marred>>
  <2>1. \/ /\ net' = [net EXCEPT ![c].down = @ \o cache]
           /\ cl' = [cl EXCEPT ![c] = [done EXCEPT !.snd_cache = <<>>]]
           /\ UNCHANGED marred
           /\ UNCHANGED close_ch /\ net[c].peer = "open"
        \/ \E n \in Nat :
            /\ n <= Len(cache)
            /\ net' = [net EXCEPT ![c].down = @ \o SubSeq(cache, 1, n)]
            /\ cl' = [cl EXCEPT ![c] = [part EXCEPT !.snd_cache = cache]]
            /\ Mar(c, IF n > 0 THEN {"torn"} ELSE {})
            /\ UNCHANGED close_ch /\ net[c].peer = "open"
        \/ Closing(c, FALSE) /\ UNCHANGED <<net, marred>>
    BY FlushIs
  <2> QED
    BY <2>1, Zenon
<1> QED
  BY <1>2, <1>3, <1>4, <1>5

LEMMA SendFirstMoves ==
  ASSUME Typed, NEW c \in Conn, SendFirst(c)
  PROVE  Moved(c) /\ net'[c].up = net[c].up /\ \A d \in Conn \ {c} : net'[d] = net[d]
<1> DEFINE me == cl[c]
           go == [me EXCEPT !.pc = IF me.snd_queue = <<>> THEN "read" ELSE "out",
                            !.left = Len(me.snd_queue)]
           back == [me EXCEPT !.pc = "read"]
<1>1. \/ cl' = [cl EXCEPT ![c] = go] /\ UNCHANGED <<net, marred, close_ch>>
      \/ Flush(c, me.snd_cache, go, back)
  BY DEF SendFirst
<1>2. me \in ClientType
  BY CellsTyped
<1>3. \A it : it = go \/ it = [go EXCEPT !.snd_cache = <<>>] \/ it = [back EXCEPT !.snd_cache = me.snd_cache] =>
         /\ it.enc = me.enc /\ it.recv_cache = me.recv_cache /\ it.item = me.item
         /\ it.stat = me.stat /\ it.snd_queue = me.snd_queue
  BY <1>2 DEF ClientType
<1>4. /\ [go EXCEPT !.snd_cache = <<>>].snd_cache = <<>>
      /\ [back EXCEPT !.snd_cache = me.snd_cache].snd_cache = me.snd_cache
      /\ go.snd_cache = me.snd_cache
  BY <1>2 DEF ClientType
<1> HIDE DEF go, back
<1>5. CASE cl' = [cl EXCEPT ![c] = go] /\ UNCHANGED <<net, marred, close_ch>>
  <2>1. cl'[c] = go
    BY <1>5, CellsTyped
  <2> QED
    BY <1>3, <1>4, <1>5, <2>1, SameMoves DEF Same
<1>6. CASE Flush(c, me.snd_cache, go, back)
  <2>1. \A x \in ToSet(me.snd_cache) : x \in Going(c)
    BY DEF Going
  <2>4. \A x \in ToSet(me.snd_cache) : Sendable(c, x)
    BY <2>1 DEF Sendable
  <2>2. me.snd_cache \in Seq(Cells)
    BY CellsTyped
  <2>3. /\ Leaves(c, [go EXCEPT !.snd_cache = <<>>], me.snd_cache)
        /\ Leaves(c, [back EXCEPT !.snd_cache = me.snd_cache], me.snd_cache)
    BY <1>3, <1>4 DEF Leaves
  <2> QED
    BY <1>6, <2>2, <2>3, <2>4, FlushMoves
<1> QED
  BY <1>1, <1>5, <1>6

LEMMA SendPkgMoves ==
  ASSUME Typed, NEW c \in Conn, SendPkg(c)
  PROVE  Moved(c) /\ net'[c].up = net[c].up /\ \A d \in Conn \ {c} : net'[d] = net[d]
<1> DEFINE me == cl[c]
           p == Head(me.snd_queue)
<1>1. /\ me.snd_queue # <<>> /\ me.snd_queue \in Seq(Items) /\ p \in Items
      /\ \/ Closing(c, TRUE) /\ UNCHANGED <<net, marred>>
         \/ \E left \in {0, me.left - 1} :
              /\ cl' = [cl EXCEPT ![c] = Kept(me, c, me.cap, left)]
              /\ UNCHANGED <<net, marred, close_ch>>
         \/ \E cap \in Nat :
              /\ p.op = "normal" => CanEncrypt(c)
              /\ Flush(c, Pkg(p.op, Encrypted(me, p)), Kept(me, c, cap, me.left - 1), Kept(me, c, cap, 0))
  BY SendPkgIs
<1>2. me \in ClientType
  BY CellsTyped
<1>3. ToSet(Tail(me.snd_queue)) \subseteq ToSet(me.snd_queue) /\ p \in ToSet(me.snd_queue)
  BY <1>1, MembersTail
<1>4. \A cap, left, cache, it :
        it = Kept(me, c, cap, left) \/ it = [Kept(me, c, cap, left) EXCEPT !.snd_cache = cache] =>
         /\ it.enc = me.enc /\ it.recv_cache = me.recv_cache /\ it.item = me.item
         /\ it.stat = me.stat /\ it.snd_queue = Tail(me.snd_queue)
  BY <1>2 DEF ClientType, Kept
<1>5. \A cap, left, cache : /\ [Kept(me, c, cap, left) EXCEPT !.snd_cache = cache].snd_cache = cache
                            /\ Kept(me, c, cap, left).snd_cache = me.snd_cache
  BY <1>2 DEF ClientType, Kept
<1>6. CASE Closing(c, TRUE) /\ UNCHANGED <<net, marred>>
  BY <1>6, ClosingSame, SameMoves
<1>7. ASSUME NEW left, cl' = [cl EXCEPT ![c] = Kept(me, c, me.cap, left)], UNCHANGED net
      PROVE  Moved(c)
  <2>1. cl'[c] = Kept(me, c, me.cap, left)
    BY <1>7, CellsTyped
  <2>2. /\ cl'[c].enc = me.enc /\ cl'[c].recv_cache = me.recv_cache /\ cl'[c].item = me.item
        /\ cl'[c].stat = me.stat /\ cl'[c].snd_queue = Tail(me.snd_queue)
        /\ cl'[c].snd_cache = me.snd_cache
    BY <1>4, <1>5, <2>1
  <2>3. Going(c)' = Going(c) /\ Coming(c)' = Coming(c) /\ Lined(c)' \subseteq Lined(c)
    BY <1>3, <1>7, <2>2 DEF Going, Coming, Lined
  <2> QED
    BY <2>2, <2>3 DEF Moved
<1>8. ASSUME NEW cap \in Nat, p.op = "normal" => CanEncrypt(c),
             Flush(c, Pkg(p.op, Encrypted(me, p)), Kept(me, c, cap, me.left - 1), Kept(me, c, cap, 0))
      PROVE  Moved(c) /\ net'[c].up = net[c].up /\ \A d \in Conn \ {c} : net'[d] = net[d]
  <2> DEFINE cache == Pkg(p.op, Encrypted(me, p))
             done == Kept(me, c, cap, me.left - 1)
             part == Kept(me, c, cap, 0)
  <2>1. cache \in Seq(Cells)
    BY <1>1, <1>2, EncryptedIs, PkgIs
  <2>2. p \in Lined(c) \cap Items
    BY <1>1, <1>3 DEF Lined
  <2>3. \A x \in ToSet(cache) : x.op = p.op /\ x.data = Encrypted(me, p)
    BY DEF Pkg, ToSet
  <2>4. ASSUME NEW left, NEW q, q \in {<<>>, cache}
        PROVE  Leaves(c, [Kept(me, c, cap, left) EXCEPT !.snd_cache = q], cache)
    <3> DEFINE it == [Kept(me, c, cap, left) EXCEPT !.snd_cache = q]
    <3>1. /\ it.enc = me.enc /\ it.recv_cache = me.recv_cache /\ it.item = me.item
          /\ it.stat = me.stat /\ it.snd_queue = Tail(me.snd_queue) /\ it.snd_cache = q
      BY <1>2 DEF Kept, ClientType
    <3> HIDE DEF it
    <3>2. Leaves(c, it, cache)
      BY <1>3, <2>4, <3>1 DEF Leaves
    <3> QED
      BY <3>2 DEF it
  <2>5. /\ Leaves(c, [done EXCEPT !.snd_cache = <<>>], cache)
        /\ Leaves(c, [part EXCEPT !.snd_cache = cache], cache)
    BY <2>4
  <2>6. \A x \in ToSet(cache) : Sendable(c, x)
    BY <1>8, <2>2, <2>3 DEF Sendable
  <2>7. Flush(c, cache, done, part)
    BY <1>8
  <2> HIDE DEF cache, done, part
  <2> QED
    BY <2>1, <2>5, <2>6, <2>7, FlushMoves
<1>9. \A d \in Conn : UNCHANGED net => net'[d] = net[d]
  OBVIOUS
<1> QED
  BY <1>1, <1>6, <1>7, <1>8, <1>9

LEMMA ReadMoves ==
  ASSUME Typed, NEW c \in Conn, NEW n \in 1 .. Len(net[c].up), Read(c, n)
  PROVE  Moved(c) /\ \A d \in Conn \ {c} : net'[d] = net[d]
<1>1. /\ net' = [net EXCEPT ![c].up = SubSeq(@, n + 1, Len(@))]
      /\ cl' = [cl EXCEPT ![c].recv_cache = @ \o SubSeq(net[c].up, 1, n), ![c].off = 0, ![c].pc = "parse"]
  BY DEF Read
<1> DEFINE some == SubSeq(net[c].up, 1, n)
           rest == SubSeq(net[c].up, n + 1, Len(net[c].up))
<1>2. n \in Nat /\ n <= Len(net[c].up) /\ net[c].up \in Seq(Cells)
  BY CellsTyped
<1>3. /\ ToSet(some) \subseteq ToSet(net[c].up) /\ ToSet(rest) \subseteq ToSet(net[c].up)
      /\ some \in Seq(Cells)
  BY <1>2, Cut, MembersCut
<1>4. net'[c].up = rest /\ net'[c].down = net[c].down /\ \A d \in Conn \ {c} : net'[d] = net[d]
  BY <1>1, CellsTyped DEF PeerType
<1>5. /\ cl'[c].enc = cl[c].enc /\ cl'[c].stat = cl[c].stat /\ cl'[c].snd_cache = cl[c].snd_cache
      /\ cl'[c].snd_queue = cl[c].snd_queue /\ cl'[c].item = cl[c].item
      /\ cl'[c].recv_cache = cl[c].recv_cache \o some
  BY <1>1, CellsTyped DEF ClientType
<1> HIDE DEF some, rest
<1>6. ToSet(cl'[c].recv_cache) = ToSet(cl[c].recv_cache) \cup ToSet(some)
  BY <1>3, <1>5, CellsTyped, MembersConcat
<1>7. Going(c)' = Going(c) /\ Lined(c)' = Lined(c) /\ Coming(c)' \subseteq Coming(c)
  BY <1>3, <1>4, <1>5, <1>6 DEF Going, Lined, Coming
<1> QED
  BY <1>4, <1>5, <1>7 DEF Moved

LEMMA AppendOwnMoves ==
  ASSUME Typed, NEW c \in Conn, AppendOwn(c)
  PROVE  Moved(c)
<1>1. /\ cl' = [cl EXCEPT ![c].snd_queue = Append(@, cl[c].item), ![c].item = NoItem, ![c].pc = "parse"]
      /\ UNCHANGED net /\ cl[c].pc = "append"
  BY DEF AppendOwn
<1>2. cl[c].item \in Items
  BY <1>1, CellsTyped DEF Own
<1>3. /\ cl'[c].enc = cl[c].enc /\ cl'[c].stat = cl[c].stat /\ cl'[c].snd_cache = cl[c].snd_cache
      /\ cl'[c].snd_queue = Append(cl[c].snd_queue, cl[c].item) /\ cl'[c].item = NoItem
      /\ cl'[c].recv_cache = cl[c].recv_cache
  BY <1>1, CellsTyped DEF ClientType
<1>4. ToSet(cl'[c].snd_queue) = ToSet(cl[c].snd_queue) \cup {cl[c].item}
  BY <1>2, <1>3, CellsTyped, MembersAppend
<1>5. /\ Going(c)' = Going(c) /\ Coming(c)' = Coming(c)
      /\ \A x \in Lined(c)' : x \in Lined(c) \/ x = NoItem
  BY <1>1, <1>3, <1>4 DEF Going, Lined, Coming
<1> QED
  BY <1>3, <1>5 DEF Moved

LEMMA SendEndMoves ==
  ASSUME Typed, NEW c \in Conn, SendEnd(c)
  PROVE  Moved(c)
<1>1. UNCHANGED net /\ \E cap, q : /\ q \in {cl[c].snd_cache, <<Zero>>}
                                   /\ cl' = [cl EXCEPT ![c] = [cl[c] EXCEPT
                                               !.pc = "read", !.cap = cap, !.snd_cache = q]]
  BY DEF SendEnd
<1>2. PICK cap, q : /\ q \in {cl[c].snd_cache, <<Zero>>}
                    /\ cl' = [cl EXCEPT ![c] = [cl[c] EXCEPT !.pc = "read", !.cap = cap, !.snd_cache = q]]
  BY <1>1
<1>3. /\ cl'[c].enc = cl[c].enc /\ cl'[c].stat = cl[c].stat /\ cl'[c].snd_cache = q
      /\ cl'[c].snd_queue = cl[c].snd_queue /\ cl'[c].item = cl[c].item
      /\ cl'[c].recv_cache = cl[c].recv_cache
  BY <1>2, CellsTyped DEF ClientType
<1>4. ToSet(<<Zero>>) = {Zero}
  BY DEF ToSet
<1>5. /\ \A x \in Going(c)' : x \in Going(c) \/ x = Zero
      /\ Coming(c)' = Coming(c) /\ Lined(c)' = Lined(c)
  BY <1>1, <1>2, <1>3, <1>4 DEF Going, Lined, Coming
<1> QED
  BY <1>3, <1>5 DEF Moved

LEMMA KeepRestMembers ==
  ASSUME NEW cache \in Seq(Cells), NEW off \in Nat
  PROVE  ToSet(KeepRest(cache, off)) \subseteq ToSet(cache)
<1> DEFINE raw == SubSeq(cache, off + 1, Len(cache))
           rest == SubSeq(cache, Len(raw) + 1, Len(cache))
<1>1. raw \in Seq(Cells) /\ ToSet(raw) \subseteq ToSet(cache)
  BY Cut, MembersCut
<1> HIDE DEF raw
<1>2. Len(raw) \in Nat
  BY <1>1
<1>3. rest \in Seq(Cells) /\ ToSet(rest) \subseteq ToSet(cache)
  BY <1>2, Cut, MembersCut
<1> HIDE DEF rest
<1>4. ToSet(raw \o rest) = ToSet(raw) \cup ToSet(rest)
  BY <1>1, <1>3, MembersConcat
<1>5. KeepRest(cache, off) = IF off = 0 THEN cache ELSE raw \o rest
  BY DEF KeepRest, raw, rest
<1> QED
  BY <1>1, <1>3, <1>4, <1>5

LEMMA ParseMoves ==
  ASSUME Typed, SlotsInv, NEW c \in Conn, Parse(c)
  PROVE  Moved(c)
<1> DEFINE me == cl[c]
           raw == SubSeq(me.recv_cache, me.off + 1, Len(me.recv_cache))
           next == Taken(me, raw)
<1>1. me \in ClientType /\ cl \in [Conn -> ClientType] /\ me.recv_cache \in Seq(Cells) /\ me.off \in Nat
  BY CellsTyped DEF ClientType
<1>2. raw \in Seq(Cells)
  BY <1>1, Cut
<1>3. UNCHANGED net /\ me.stat = "normal"
  BY NotDone DEF Parse, SlotsInv
<1>4. /\ next \in ClientType /\ next.enc = me.enc /\ next.recv_cache \in {<<>>, me.recv_cache}
      /\ next.snd_cache = me.snd_cache /\ next.snd_queue = me.snd_queue /\ next.item = me.item
      /\ next.stat = me.stat
  <2>1. \/ next = [me EXCEPT !.recv_cache = <<>>, !.off = 0]
        \/ next = [me EXCEPT !.off = me.off + 2]
    BY <1>1, <1>2, TakenIs
  <2>2. next \in ClientType
    BY <1>1, <1>2, TakenIs
  <2> HIDE DEF next
  <2> QED
    BY <1>1, <2>1, <2>2 DEF ClientType
<1> HIDE DEF raw, next
<1>5. PICK u \in UnPack(raw) :
       \/ cl' = [cl EXCEPT ![c].recv_cache = KeepRest(me.recv_cache, me.off), ![c].off = 0, ![c].pc = "read"]
       \/ Closing(c, FALSE)
       \/ cl' = [cl EXCEPT ![c].off = 0, ![c].pc = "send"]
       \/ cl' = [cl EXCEPT ![c] = next]
       \/ LET h == handle_spec_pkg(next, u.op, u.data)
              drop == h.ans = NoAnswer \/ Len(me.snd_queue) >= ClientCap
          IN  /\ cl' = [cl EXCEPT ![c] = [h.me EXCEPT
                          !.pc = IF drop THEN "parse" ELSE "append",
                          !.item = IF drop THEN NoItem
                                   ELSE Item(c, h.ans.op, h.ans.data, "normal")]]
              /\ u.op # "normal"
  BY Zenon DEF Parse, raw, next
<1>6. ToSet(<<>>) = {}
  BY MembersEmpty
<1>7. CASE cl' = [cl EXCEPT ![c].recv_cache = KeepRest(me.recv_cache, me.off), ![c].off = 0, ![c].pc = "read"]
  <2>1. /\ cl'[c].enc = me.enc /\ cl'[c].stat = me.stat /\ cl'[c].snd_cache = me.snd_cache
        /\ cl'[c].snd_queue = me.snd_queue /\ cl'[c].item = me.item
        /\ cl'[c].recv_cache = KeepRest(me.recv_cache, me.off)
    BY <1>1, <1>7 DEF ClientType
  <2>2. ToSet(cl'[c].recv_cache) \subseteq ToSet(me.recv_cache)
    BY <1>1, <2>1, KeepRestMembers
  <2>3. Going(c)' = Going(c) /\ Coming(c)' \subseteq Coming(c) /\ Lined(c)' = Lined(c)
    BY <1>3, <2>1, <2>2 DEF Going, Lined, Coming
  <2> QED
    BY <2>1, <2>3 DEF Moved
<1>8. CASE Closing(c, FALSE)
  BY <1>3, <1>8, ClosingSame, SameMoves
<1>9. CASE cl' = [cl EXCEPT ![c] = next]
  <2>1. cl'[c] = next
    BY <1>1, <1>9
  <2>2. Going(c)' = Going(c) /\ Coming(c)' \subseteq Coming(c) /\ Lined(c)' = Lined(c)
    BY <1>3, <1>4, <1>6, <2>1 DEF Going, Lined, Coming
  <2> QED
    BY <1>4, <2>1, <2>2 DEF Moved
<1>10. CASE LET h == handle_spec_pkg(next, u.op, u.data)
                drop == h.ans = NoAnswer \/ Len(me.snd_queue) >= ClientCap
            IN  /\ cl' = [cl EXCEPT ![c] = [h.me EXCEPT
                          !.pc = IF drop THEN "parse" ELSE "append",
                          !.item = IF drop THEN NoItem
                                   ELSE Item(c, h.ans.op, h.ans.data, "normal")]]
                /\ u.op # "normal"
  <2> DEFINE h == handle_spec_pkg(next, u.op, u.data)
             it == Item(c, h.ans.op, h.ans.data, "normal")
  <2>1. \E p, x : x \in {NoItem, it} /\ cl' = [cl EXCEPT ![c] = [h.me EXCEPT !.pc = p, !.item = x]]
    BY <1>10
  <2>2. u.op \in Ops /\ u.data \in Datas /\ u.op # "normal"
    BY <1>2, <1>10, UnPackIs
  <2>3. /\ \E v \in BOOLEAN, e \in {next.enc, "nego"} : h.me = [next EXCEPT !.valid = v, !.enc = e]
        /\ h.ans.op \in Ops /\ h.ans.op # "normal" /\ h.ans.data \in Datas
    BY <1>4, <2>2, SpecIs, Zenon
  <2>4. /\ h.me.enc = next.enc \/ (EncType = "rsa" /\ h.me.enc = "nego")
        /\ h.ans.op = "valid" => h.ans.data.enc = next.enc
        /\ h.ans.op = "nego" /\ h.ans.data.enc = "ok" => h.me.enc = "nego"
        /\ h.me.recv_cache = next.recv_cache /\ h.me.snd_cache = next.snd_cache
        /\ h.me.snd_queue = next.snd_queue /\ h.me.stat = next.stat
    BY <1>4, SpecKeys
  <2>5. it.op = h.ans.op /\ it.data = h.ans.data
    BY DEF Item
  <2> HIDE DEF h, it
  <2>6. h.me \in ClientType
    BY <1>4, <2>3, ZenonT(60) DEF ClientType, Encs
  <2>7. PICK p, x : x \in {NoItem, it} /\ cl' = [cl EXCEPT ![c] = [h.me EXCEPT !.pc = p, !.item = x]]
    BY <2>1
  <2>8. /\ cl'[c].enc = h.me.enc /\ cl'[c].stat = h.me.stat /\ cl'[c].snd_cache = h.me.snd_cache
        /\ cl'[c].snd_queue = h.me.snd_queue /\ cl'[c].item = x /\ cl'[c].recv_cache = h.me.recv_cache
    BY <1>1, <2>6, <2>7 DEF ClientType
  <2>9. Going(c)' = Going(c) /\ Coming(c)' \subseteq Coming(c)
    BY <1>3, <1>4, <1>6, <2>4, <2>8 DEF Going, Coming
  <2>10. \A y \in Lined(c)' : y \in Lined(c) \/ y = NoItem \/ y = it
    BY <1>4, <2>4, <2>7, <2>8 DEF Lined
  <2>11. /\ it.op # "normal" /\ (it.op = "valid" => it.data.enc = cl[c].enc)
         /\ it.op = "nego" /\ it.data.enc = "ok" => cl'[c].enc = "nego"
    BY <1>4, <2>3, <2>4, <2>5, <2>8
  <2> QED
    BY <1>3, <1>4, <2>4, <2>8, <2>9, <2>10, <2>11 DEF Moved
<1>11. CASE cl' = [cl EXCEPT ![c].off = 0, ![c].pc = "send"]
  <2>1. Same(me, cl'[c])
    BY <1>1, <1>11 DEF Same, ClientType
  <2> QED
    BY <1>3, <2>1, SameMoves
<1> QED
  BY <1>5, <1>7, <1>8, <1>9, <1>10, <1>11

LEMMA RunMoves ==
  ASSUME Typed, SlotsInv, NEW c \in Conn, Run(c), NEW d \in Conn
  PROVE  Moved(d)
<1>1. Moved(c) /\ \A e \in Conn \ {c} : net'[e] = net[e]
  <2>1. CASE ReadTimeout(c) \/ ReadClosed(c)
    <3>1. UNCHANGED net
      BY <2>1 DEF ReadTimeout, ReadClosed
    <3>2. CASE ReadTimeout(c)
      <4>1. cl' = [cl EXCEPT ![c].pc = "send"]
        BY <3>2 DEF ReadTimeout
      <4>2. Same(cl[c], cl'[c])
        BY <4>1, CellsTyped DEF Same, ClientType
      <4> QED
        BY <3>1, <4>2, SameMoves
    <3>3. CASE ReadClosed(c)
      <4>1. Closing(c, FALSE)
        BY <3>3 DEF ReadClosed
      <4> QED
        BY <3>1, <4>1, ClosingSame, SameMoves
    <3> QED
      BY <2>1, <3>1, <3>2, <3>3
  <2>2. CASE Parse(c) \/ AppendOwn(c) \/ SendEnd(c)
    <3>1. UNCHANGED net
      BY <2>2, Zenon DEF Parse, AppendOwn, SendEnd
    <3> QED
      BY <2>2, <3>1, ParseMoves, AppendOwnMoves, SendEndMoves
  <2> QED
    BY <2>1, <2>2, ReadMoves, SendFirstMoves, SendPkgMoves DEF Run
<1>2. \A e \in Conn \ {c} : cl'[e] = cl[e]
  BY RunIs
<1>3. CASE d # c
  BY <1>1, <1>2, <1>3, SameMoves DEF Same
<1> QED
  BY <1>1, <1>3

\* What a package in the queue of tcp_server comes from: main, which then
\* has handled something of its client.
LEMMA SentPosted ==
  ASSUME Typed, NEW c \in Conn, SendToClient(c) \/ MainCloses(c), NEW d \in Conn,
         NEW x \in Posted(d)'
  PROVE  x \in Posted(d) \/ (x.op = "normal" /\ main[d].handled # <<>>)
<1>1. PICK data \in Datas, info \in {"normal", "close"} : Send(c, data, info)
  BY SendToTyped, ClosesTyped DEF SendToClient, MainCloses
<1>2. main[c].handled # <<>>
  BY DEF SendToClient, MainCloses
<1> DEFINE it == Item(c, "normal", data, info)
<1>3. snd_queue' = snd_queue \/ snd_queue' = Append(snd_queue, it)
  BY <1>1, SendTyped
<1>4. UNCHANGED serv
  BY <1>1 DEF Send
<1>5. it \in Items /\ it.key = c /\ it.op = "normal"
  BY ItemIs DEF Ops
<1>6. snd_queue \in Seq(Items)
  BY DEF Typed, QueuesTyped
<1> HIDE DEF it
<1>7. ToSet(snd_queue') \subseteq ToSet(snd_queue) \cup {it}
  BY <1>3, <1>5, <1>6, MembersAppend
<1>8. x.key = d /\ (x \in ToSet(snd_queue) \cup {serv.item} \/ x = it)
  BY <1>4, <1>7 DEF Posted
<1> QED
  BY <1>2, <1>5, <1>8 DEF Posted

LEMMA ServPosted ==
  ASSUME Typed, TcpServer, UNCHANGED <<cli, main>>, NEW d \in Conn
  PROVE  Posted(d)' \subseteq Posted(d)
<1>1. NoItem.key # d
  BY Null, NullKey
<1>2. serv \in ServType /\ snd_queue \in Seq(Items)
  BY DEF Typed, QueuesTyped, ServTyped
<1>3. CASE Dispatch
  <2>1. snd_queue # <<>>
    BY <1>3, DispatchTyped
  <2>2. snd_queue' = Tail(snd_queue) /\ serv'.item \in {NoItem, Head(snd_queue)}
    BY <1>3 DEF Dispatch
  <2>3. ToSet(snd_queue') \subseteq ToSet(snd_queue) /\ Head(snd_queue) \in ToSet(snd_queue)
    BY <1>2, <2>1, <2>2, MembersTail
  <2> QED
    BY <1>1, <2>2, <2>3 DEF Posted
<1>4. CASE DispatchAppend
  <2>1. UNCHANGED snd_queue /\ serv'.item = NoItem
    BY <1>2, <1>4 DEF DispatchAppend, ServType
  <2> QED
    BY <1>1, <2>1 DEF Posted
<1>5. ASSUME UNCHANGED snd_queue, serv'.item = serv.item PROVE Posted(d)' = Posted(d)
  BY <1>5 DEF Posted
<1>6. CASE \/ \E c \in Conn : Accept(c)
           \/ AcceptTimeout \/ ServerStops \/ CloseClient \/ CloseDone \/ DispatchDone
  <2>1. UNCHANGED snd_queue /\ serv'.item = serv.item
    BY <1>2, <1>6 DEF Accept, AcceptTimeout, ServerStops, CloseClient, CloseDone, DispatchDone, ServType
  <2> QED
    BY <1>5, <2>1
<1> QED
  BY <1>3, <1>4, <1>6 DEF TcpServer

LEMMA NextPosted ==
  ASSUME Typed, SlotsInv, Next, NEW d \in Conn, NEW x \in Posted(d)'
  PROVE  x \in Posted(d) \/ (x.op = "normal" /\ main[d].handled # <<>>)
<1>1. CASE UNCHANGED <<snd_queue, serv>>
  BY <1>1 DEF Posted
<1>2. CASE \E c \in Conn : Run(c) \/ Client(c)
  <2>1. UNCHANGED <<snd_queue, serv>>
    BY <1>2, RunIs, Zenon DEF Client, Connect, ConnectFails, GameSend, OtherSend, GameExit, GameClosed,
       RecvPkg, cliRest, servVars
  <2> QED
    BY <1>1, <2>1
<1>3. CASE ReadClients \/ HandleClientPkg \/ ServerExit
  <2>1. UNCHANGED <<snd_queue, serv>>
    BY <1>3 DEF ReadClients, Recv, HandleClientPkg, ServerExit, Close, servVars
  <2> QED
    BY <1>1, <2>1
<1> QED
  BY <1>2, <1>3, SentPosted, ServPosted DEF Next

\* What a whole package at the front of a cache is.
FirstPaired(raw) == raw[1].part = "head" /\ Len(raw) # 1 => raw[2] = [raw[1] EXCEPT !.part = "data"]

LEMMA PairedFirst ==
  ASSUME NEW q \in Seq(Cells), NEW n \in 1 .. Len(q), Paired(q)
  PROVE  FirstPaired(SubSeq(q, 1, n))
<1> DEFINE r == SubSeq(q, 1, n)
           k == 1
<1>1. k \in 1 .. Len(q) /\ r[k] = q[k] /\ Len(r) = n /\ k + 1 = 2
  OBVIOUS
<1>2. n # 1 => 2 \in 1 .. n
  OBVIOUS
<1>3. \A i \in 1 .. n : r[i] = q[i]
  OBVIOUS
<1> HIDE DEF r, k
<1>4. q[k].part = "head" => q[k + 1] = [q[k] EXCEPT !.part = "data"]
  BY <1>1 DEF Paired
<1>5. n # 1 => r[2] = q[2]
  BY <1>2, <1>3
<1> QED
  BY <1>1, <1>4, <1>5 DEF FirstPaired, r, k

LEMMA UnPackGives ==
  ASSUME NEW raw \in Seq(Cells), NEW u \in UnPack(raw), u.ret = "pkg"
  PROVE  /\ raw # <<>> /\ raw[1] \in ToSet(raw)
         /\ \/ u.op = "normal" /\ u.data = Junk
            \/ /\ u.op = raw[1].op
               /\ u.data = raw[1].data \/ u.data = Junk
               /\ FirstPaired(raw) => u.data = raw[1].data
<1>0. NotReady.ret # "pkg" /\ Illegal.ret # "pkg"
  BY DEF NotReady, Illegal
<1>1. CASE raw = <<>>
  BY <1>0, <1>1 DEF UnPack
<1>2. CASE raw # <<>> /\ raw[1].part # "head"
  <2>1. u \in {NotReady, Illegal, Ready("normal", Junk)}
    BY <1>2 DEF UnPack
  <2>2. u = Ready("normal", Junk)
    BY <1>0, <2>1
  <2> DEFINE n == 1
  <2>3. n \in 1 .. Len(raw)
    BY <1>2, LenIs
  <2> HIDE DEF n
  <2>4. raw[n] \in ToSet(raw)
    BY <2>3, Members
  <2>5. u.op = "normal" /\ u.data = Junk
    BY <2>2 DEF Ready
  <2> QED
    BY <1>2, <2>4, <2>5 DEF n
<1>3. CASE raw # <<>> /\ raw[1].part = "head" /\ Len(raw) = 1
  BY <1>0, <1>3 DEF UnPack
<1>4. CASE raw # <<>> /\ raw[1].part = "head" /\ Len(raw) # 1
  <2>1. u = Ready(raw[1].op, IF raw[2] = [raw[1] EXCEPT !.part = "data"] THEN raw[1].data ELSE Junk)
    BY <1>4 DEF UnPack
  <2> DEFINE n == 1
  <2>2. n \in 1 .. Len(raw)
    BY <1>4, LenIs
  <2> HIDE DEF n
  <2>3. raw[n] \in ToSet(raw)
    BY <2>2, Members
  <2> QED
    BY <1>4, <2>1, <2>3 DEF Ready, n, FirstPaired
<1> QED
  BY <1>1, <1>2, <1>3, <1>4

\* What the run of c puts in the queue of main: data of a package it takes.
Heard(c, data) ==
  /\ cl[c].pc = "parse"
  /\ \E u \in UnPack(SubSeq(cl[c].recv_cache, cl[c].off + 1, Len(cl[c].recv_cache))) :
       Admitted(c, u) /\ u.data = data

LEMMA ParseHears ==
  ASSUME Typed, NEW c \in Conn, Parse(c)
  PROVE  \/ UNCHANGED <<batch, recv_queue>>
         \/ \E data \in Datas :
              /\ GetBuffer(data) /\ recv_queue' = Append(recv_queue, Item(c, "normal", data, "normal"))
              /\ Heard(c, data)
<1> DEFINE raw == SubSeq(cl[c].recv_cache, cl[c].off + 1, Len(cl[c].recv_cache))
<1>1. raw \in Seq(Cells)
  BY CellsTyped, Cut DEF ClientType
<1>2. \/ UNCHANGED <<batch, recv_queue>>
      \/ \E u \in UnPack(raw) :
           /\ cl[c].pc = "parse" /\ Admitted(c, u) /\ GetBuffer(u.data)
           /\ recv_queue' = Append(recv_queue, Item(c, "normal", u.data, "normal"))
  BY DEF Parse, raw
<1>3. ASSUME NEW u \in UnPack(raw), cl[c].pc = "parse", Admitted(c, u)
      PROVE  Heard(c, u.data)
  BY <1>3 DEF Heard, raw
<1> HIDE DEF raw
<1>4. \A u \in UnPack(raw) : u.data \in Datas
  BY <1>1, UnPackIs
<1> QED
  BY <1>2, <1>3, <1>4

LEMMA SendIs ==
  ASSUME Typed, NEW c \in Conn, SendToClient(c) \/ MainCloses(c)
  PROVE  /\ UNCHANGED <<batch, marred>> \/ \E data \in Datas : GetBuffer(data)
         /\ UNCHANGED <<recv_queue, cl, net, cli, pserv>>
         /\ \A d \in Conn : main'[d].handled = main[d].handled
<1>1. PICK data \in Datas, info \in {"normal", "close"} : Send(c, data, info)
  BY SendToTyped, ClosesTyped DEF SendToClient, MainCloses
<1>2. UNCHANGED <<batch, marred>> \/ GetBuffer(data)
  BY <1>1, SendTyped
<1>3. UNCHANGED <<recv_queue, cl, net, pserv, cli>>
  BY <1>1 DEF Send, SendToClient, MainCloses
<1>4. \/ main' = [main EXCEPT ![c].answers = Tail(@)]
      \/ main' = [main EXCEPT ![c].closes = FALSE]
  BY DEF SendToClient, MainCloses
<1>5. ASSUME NEW d \in Conn PROVE main'[d].handled = main[d].handled
  <2>1. main \in [Conn -> MainType] /\ main[c] \in MainType
    BY DEF Typed, MainTyped
  <2>2. \/ main'[d] = main[d] \/ main'[d] = [main[d] EXCEPT !.answers = Tail(@)]
        \/ main'[d] = [main[d] EXCEPT !.closes = FALSE]
    BY <1>4, <2>1
  <2> QED
    BY <2>1, <2>2 DEF MainType
<1> QED
  BY <1>2, <1>3, <1>5

\* What happened to a connection is not forgotten.
LEMMA MarGrows ==
  ASSUME Typed, NEW c \in Conn, NEW what \in SUBSET {"reused", "cut", "torn", "panicked"}, Mar(c, what),
         NEW d \in Conn
  PROVE  marred[d] \subseteq marred'[d]
BY MarIs DEF Typed

LEMMA FlushMars ==
  ASSUME Typed, NEW c \in Conn, NEW cache \in Seq(Cells), NEW done, NEW part,
         Flush(c, cache, done, part), NEW d \in Conn
  PROVE  marred[d] \subseteq marred'[d]
<1>2. \A n \in Nat : (IF n > 0 THEN {"torn"} ELSE {}) \in SUBSET {"reused", "cut", "torn", "panicked"}
  OBVIOUS
<1>3. (\E n \in Nat : Mar(c, IF n > 0 THEN {"torn"} ELSE {})) \/ UNCHANGED marred
  BY FlushIs
<1> QED
  BY <1>2, <1>3, MarGrows

LEMMA ParseMars ==
  ASSUME Typed, NEW c \in Conn, Parse(c), NEW d \in Conn
  PROVE  marred[d] \subseteq marred'[d]
<1>1. \/ Mar(c, {"cut"}) \/ Mar(c, {"panicked"}) \/ Mar(c, {}) \/ UNCHANGED marred
      \/ \E data \in Datas : GetBuffer(data)
  <2> DEFINE raw == SubSeq(cl[c].recv_cache, cl[c].off + 1, Len(cl[c].recv_cache))
  <2>1. raw \in Seq(Cells)
    BY CellsTyped, Cut DEF ClientType
  <2>2. \/ Mar(c, {"cut"}) \/ Mar(c, {"panicked"}) \/ Mar(c, {}) \/ UNCHANGED marred
        \/ \E u \in UnPack(raw) : GetBuffer(u.data)
    BY DEF Parse, raw
  <2> HIDE DEF raw
  <2> QED
    BY <2>1, <2>2, UnPackIs
<1>2. /\ {"cut"} \in SUBSET {"reused", "cut", "torn", "panicked"}
      /\ {"panicked"} \in SUBSET {"reused", "cut", "torn", "panicked"}
      /\ {} \in SUBSET {"reused", "cut", "torn", "panicked"}
  OBVIOUS
<1>3. CASE \E data \in Datas : GetBuffer(data)
  BY <1>3, GetBufferIs DEF Typed, QueuesTyped
<1> QED
  BY <1>1, <1>2, <1>3, MarGrows

LEMMA NextMars ==
  ASSUME Typed, SlotsInv, Next, NEW d \in Conn
  PROVE  marred[d] \subseteq marred'[d]
<1>1. CASE TcpServer
  <2>1. UNCHANGED marred
    BY <1>1 DEF TcpServer, Accept, AcceptTimeout, ServerStops, CloseClient, CloseDone, Dispatch,
       DispatchAppend, DispatchDone
  <2> QED
    BY <2>1
<1>2. ASSUME NEW c \in Conn, Run(c) PROVE marred[d] \subseteq marred'[d]
  <2>1. CASE (\E n \in 1 .. Len(net[c].up) : Read(c, n)) \/ ReadTimeout(c) \/ ReadClosed(c)
             \/ AppendOwn(c) \/ SendEnd(c)
    <3>1. UNCHANGED marred
      BY <2>1, Zenon DEF Read, ReadTimeout, ReadClosed, AppendOwn, SendEnd
    <3> QED
      BY <3>1
  <2>2. CASE SendFirst(c)
    <3>1. UNCHANGED marred \/ \E done, part : Flush(c, cl[c].snd_cache, done, part)
      BY <2>2 DEF SendFirst
    <3>2. cl[c].snd_cache \in Seq(Cells)
      BY CellsTyped
    <3> QED
      BY <3>1, <3>2, FlushMars
  <2>3. CASE SendPkg(c)
    <3>1. /\ Head(cl[c].snd_queue) \in Items
          /\ \/ UNCHANGED marred
             \/ \E done, part :
                  Flush(c, Pkg(Head(cl[c].snd_queue).op, Encrypted(cl[c], Head(cl[c].snd_queue))), done, part)
      BY <2>3, SendPkgIs
    <3>2. Pkg(Head(cl[c].snd_queue).op, Encrypted(cl[c], Head(cl[c].snd_queue))) \in Seq(Cells)
      BY <3>1, CellsTyped, EncryptedIs, PkgIs
    <3> QED
      BY <3>1, <3>2, FlushMars
  <2> QED
    BY <1>2, <2>1, <2>2, <2>3, ParseMars DEF Run
<1>3. CASE \E c \in Conn : Client(c)
  <2>1. UNCHANGED marred
    BY <1>3, Zenon DEF Client, Connect, ConnectFails, GameSend, OtherSend, GameExit, GameClosed,
       RecvPkg, cliRest
  <2> QED
    BY <2>1
<1>4. CASE \E c \in Conn : SendToClient(c) \/ MainCloses(c)
  <2>1. UNCHANGED <<batch, marred>> \/ \E data \in Datas : GetBuffer(data)
    BY <1>4, SendIs
  <2> QED
    BY <2>1, GetBufferIs DEF Typed, QueuesTyped
<1>5. CASE ReadClients \/ HandleClientPkg \/ ServerExit
  <2>1. UNCHANGED marred
    BY <1>5 DEF ReadClients, Recv, HandleClientPkg, ServerExit, Close
  <2> QED
    BY <2>1
<1> QED
  BY <1>1, <1>2, <1>3, <1>4, <1>5 DEF Next

\* What a step does to the packages of c before main: they move on, or one
\* is made of data that the run of c read.
Handed(c) ==
  /\ \A x \in Given(c)' :
       \/ \E y \in Given(c) : y.data = x.data \/ "reused" \in marred'[c]
       \/ Heard(c, x.data)
  /\ \A d \in ToSet(main'[c].handled) : d \in ToSet(main[c].handled) \/ \E y \in Given(c) : y.data = d

LEMMA StillHanded ==
  ASSUME NEW c \in Conn, UNCHANGED <<batch, recv_queue>>, main'[c].handled = main[c].handled
  PROVE  Handed(c)
BY DEF Handed, Given

LEMMA BufferHanded ==
  ASSUME Typed, NEW data \in Datas, GetBuffer(data), NEW c \in Conn,
         NEW x \in ToSet(batch'), x.key = c, x.info = "normal"
  PROVE  \E y \in ToSet(batch) : /\ y.key = c /\ y.info = "normal"
                                 /\ y.data = x.data \/ "reused" \in marred'[c]
<1>1. batch \in Seq(Packages) /\ MarredTyped
  BY DEF Typed, QueuesTyped
<1>2. /\ batch' \in Seq(Packages) /\ Len(batch') = Len(batch)
      /\ \A i \in 1 .. Len(batch) :
           /\ batch'[i].key = batch[i].key /\ batch'[i].info = batch[i].info
           /\ batch'[i].data = batch[i].data \/ "reused" \in marred'[batch[i].key]
  BY <1>1, GetBufferIs
<1>3. PICK i \in 1 .. Len(batch') : x = batch'[i]
  BY <1>2, Members
<1>4. batch[i] \in ToSet(batch)
  BY <1>1, <1>2, Members
<1> QED
  BY <1>2, <1>3, <1>4

LEMMA ParseHanded ==
  ASSUME Typed, NEW c \in Conn, Parse(c), UNCHANGED main, NEW d \in Conn
  PROVE  Handed(d)
<1>1. CASE UNCHANGED <<batch, recv_queue>>
  BY <1>1, StillHanded
<1>2. ASSUME NEW data \in Datas, GetBuffer(data),
             recv_queue' = Append(recv_queue, Item(c, "normal", data, "normal")),
             Heard(c, data)
      PROVE  Handed(d)
  <2> DEFINE it == Item(c, "normal", data, "normal")
  <2>0. "normal" \in Ops /\ "normal" \in {"normal", "close"}
    BY DEF Ops
  <2>1. it \in Items /\ it.key = c /\ it.data = data
    BY <1>2, <2>0, ItemIs
  <2> HIDE DEF it
  <2>2. recv_queue \in Seq(Items) /\ recv_queue' = Append(recv_queue, it)
    BY <1>2 DEF Typed, QueuesTyped, it
  <2>3. ToSet(recv_queue') = ToSet(recv_queue) \cup {it}
    BY <2>1, <2>2, MembersAppend
  <2>4. ASSUME NEW x \in Given(d)'
        PROVE  \/ \E y \in Given(d) : y.data = x.data \/ "reused" \in marred'[d]
               \/ x = it /\ d = c
    <3>1. x.key = d /\ x.info = "normal" /\ (x \in ToSet(batch') \/ x \in ToSet(recv_queue) \/ x = it)
      BY <2>3, <2>4 DEF Given
    <3>2. CASE x \in ToSet(batch')
      BY <1>2, <3>1, <3>2, BufferHanded DEF Given
    <3>3. CASE x \in ToSet(recv_queue)
      BY <3>1, <3>3 DEF Given
    <3> QED
      BY <2>1, <3>1, <3>2, <3>3
  <2>5. main'[d].handled = main[d].handled
    OBVIOUS
  <2> QED
    BY <1>2, <2>1, <2>4, <2>5 DEF Handed
<1> QED
  BY <1>1, <1>2, ParseHears

LEMMA CloseClientHanded ==
  ASSUME Typed, SlotsInv, CloseClient, UNCHANGED main, NEW d \in Conn
  PROVE  Handed(d)
<1> DEFINE c == client_list[Head(close_ch)]
           it == Item(c, "normal", Junk, "close")
<1>1. c \in Conn
  BY HeadWaits DEF CloseClient, SlotsInv
<1>2. UNCHANGED batch /\ (UNCHANGED recv_queue \/ recv_queue' = Append(recv_queue, it))
  BY DEF CloseClient
<1>3. it \in Items /\ it.info = "close"
  BY <1>1, ItemIs, Null DEF Ops
<1> HIDE DEF it
<1>4. recv_queue \in Seq(Items)
  BY DEF Typed, QueuesTyped
<1>5. ToSet(recv_queue') \subseteq ToSet(recv_queue) \cup {it}
  BY <1>2, <1>3, <1>4, MembersAppend
<1>6. Given(d)' \subseteq Given(d)
  BY <1>2, <1>3, <1>5 DEF Given
<1> QED
  BY <1>6 DEF Handed

LEMMA RecvHanded ==
  ASSUME Typed, ReadClients, NEW d \in Conn
  PROVE  Handed(d)
<1>1. PICK n \in Nat :
              /\ n <= Len(recv_queue) /\ Len(batch') = n /\ Len(recv_queue') = Len(recv_queue) - n
              /\ \A i \in 1 .. n : /\ batch'[i].key = recv_queue[i].key
                                   /\ batch'[i].info = recv_queue[i].info
                                   /\ batch'[i].data = recv_queue[i].data
              /\ \A i \in 1 .. Len(recv_queue) - n : recv_queue'[i] = recv_queue[i + n]
  BY RecvTyped
<1>2. recv_queue \in Seq(Items) /\ recv_queue' \in Seq(Items) /\ batch' \in Seq(Packages)
  BY RecvTyped DEF Typed, QueuesTyped
<1>3. Len(recv_queue) \in Nat
  BY <1>2
<1>4. \A i \in 1 .. n : i \in 1 .. Len(recv_queue)
  BY <1>1, <1>3
<1>5. \A i \in 1 .. Len(recv_queue) - n : i + n \in 1 .. Len(recv_queue)
  BY <1>1, <1>3
<1>6. \A i \in 1 .. Len(recv_queue) : recv_queue[i] \in ToSet(recv_queue)
  BY <1>2, Members
<1>7. ASSUME NEW x \in ToSet(batch')
      PROVE  \E y \in ToSet(recv_queue) : y.key = x.key /\ y.info = x.info /\ y.data = x.data
  <2>1. PICK i \in 1 .. n : x = batch'[i]
    BY <1>1, <1>2, <1>7, Members
  <2> QED
    BY <1>1, <1>4, <1>6, <2>1
<1>8. ASSUME NEW x \in ToSet(recv_queue') PROVE x \in ToSet(recv_queue)
  <2>1. PICK i \in 1 .. Len(recv_queue') : x = recv_queue'[i]
    BY <1>2, <1>8, Members
  <2> QED
    BY <1>1, <1>5, <1>6, <2>1
<1>9. \A x \in Given(d)' : \E y \in Given(d) : y.data = x.data
  BY <1>7, <1>8 DEF Given
<1>10. UNCHANGED main
  BY DEF ReadClients
<1> QED
  BY <1>9, <1>10 DEF Handed

LEMMA HandleHanded ==
  ASSUME Typed, HandleClientPkg, NEW d \in Conn
  PROVE  Handed(d)
<1> DEFINE b == Head(batch)
<1>1. batch # <<>> /\ batch' = Tail(batch) /\ batch \in Seq(Packages) /\ b \in Packages
  BY HandleTyped, Zenon
<1>2. ToSet(batch') \subseteq ToSet(batch) /\ b \in ToSet(batch)
  BY <1>1, MembersTail
<1>3. UNCHANGED recv_queue
  BY DEF HandleClientPkg
<1>4. Given(d)' \subseteq Given(d)
  BY <1>2, <1>3 DEF Given
<1>5. \E h \in Seq(Datas), r \in Nat :
              /\ main' = [main EXCEPT ![Head(batch).key] = [@ EXCEPT !.reported = r, !.handled = h]]
              /\ IF Head(batch).info = "close"
                   THEN /\ r = main[Head(batch).key].reported + 1
                        /\ h = main[Head(batch).key].handled
                   ELSE /\ r = main[Head(batch).key].reported
                        /\ h = Append(main[Head(batch).key].handled, Head(batch).data)
  BY HandleTyped, Zenon
<1>6. PICK h, r :
              /\ main' = [main EXCEPT ![b.key] = [@ EXCEPT !.reported = r, !.handled = h]]
              /\ IF b.info = "close" THEN h = main[b.key].handled
                                     ELSE h = Append(main[b.key].handled, b.data)
  BY <1>5, Zenon
<1> HIDE DEF b
<1>7. b.key \in Conn /\ b.info \in {"normal", "close"} /\ b.data \in Datas
  BY <1>1 DEF Packages
<1>8. /\ main'[b.key].handled = h /\ \A e \in Conn \ {b.key} : main'[e] = main[e]
      /\ main[d].handled \in Seq(Datas)
  BY <1>6, <1>7 DEF Typed, MainTyped, MainType
<1>9. CASE d # b.key
  BY <1>4, <1>8, <1>9 DEF Handed
<1>10. CASE d = b.key /\ b.info = "close"
  BY <1>4, <1>6, <1>8, <1>10 DEF Handed
<1>11. CASE d = b.key /\ b.info = "normal"
  <2>1. main'[d].handled = Append(main[d].handled, b.data)
    BY <1>6, <1>8, <1>11
  <2>2. ToSet(main'[d].handled) = ToSet(main[d].handled) \cup {b.data}
    BY <1>7, <1>8, <2>1, MembersAppend
  <2>3. b \in Given(d)
    BY <1>2, <1>11 DEF Given
  <2> QED
    BY <1>4, <2>2, <2>3 DEF Handed
<1> QED
  BY <1>7, <1>9, <1>10, <1>11

LEMMA NextHanded ==
  ASSUME Typed, SlotsInv, Next, NEW d \in Conn
  PROVE  Handed(d)
<1>1. CASE TcpServer /\ UNCHANGED <<cli, main>>
  <2>1. CloseClient \/ UNCHANGED <<batch, recv_queue>>
    BY <1>1 DEF TcpServer, Accept, AcceptTimeout, ServerStops, CloseDone, Dispatch,
       DispatchAppend, DispatchDone
  <2> QED
    BY <1>1, <2>1, CloseClientHanded, StillHanded
<1>2. ASSUME NEW c \in Conn, Run(c), UNCHANGED <<cli, main>> PROVE Handed(d)
  BY <1>2, RunIs, ParseHanded, StillHanded
<1>3. CASE \E c \in Conn : Client(c) /\ UNCHANGED main
  <2>1. UNCHANGED <<batch, recv_queue, main>>
    BY <1>3, Zenon DEF Client, Connect, ConnectFails, GameSend, OtherSend, GameExit, GameClosed,
       RecvPkg, cliRest
  <2> QED
    BY <2>1, StillHanded
<1>4. ASSUME NEW c \in Conn, SendToClient(c) \/ MainCloses(c) PROVE Handed(d)
  <2>1. /\ UNCHANGED <<batch, marred>> \/ \E data \in Datas : GetBuffer(data)
        /\ UNCHANGED recv_queue /\ main'[d].handled = main[d].handled
    BY <1>4, SendIs
  <2>2. CASE UNCHANGED <<batch, marred>>
    BY <2>1, <2>2, StillHanded
  <2>3. CASE \E data \in Datas : GetBuffer(data)
    <3>1. \A x \in Given(d)' : \E y \in Given(d) : y.data = x.data \/ "reused" \in marred'[d]
      BY <2>1, <2>3, BufferHanded DEF Given
    <3> QED
      BY <2>1, <3>1 DEF Handed
  <2> QED
    BY <2>1, <2>2, <2>3
<1>5. CASE ServerExit
  BY <1>5, StillHanded DEF ServerExit, Close
<1> QED
  BY <1>1, <1>2, <1>3, <1>4, <1>5, RecvHanded, HandleHanded DEF Next

\* Heads are followed by their data.
LEMMA PairedPkg ==
  /\ Paired(<<>>) /\ Paired(<<Zero>>)
  /\ \A op, data : Paired(Pkg(op, data))
<1>1. Paired(<<>>)
  BY DEF Paired
<1>2. Paired(<<Zero>>)
  <2>1. Len(<<Zero>>) = 1 /\ \A i \in 1 .. 1 : i = 1
    OBVIOUS
  <2>2. <<Zero>>[1].part # "head"
    BY DEF Zero
  <2> QED
    BY <2>1, <2>2 DEF Paired
<1>3. ASSUME NEW op, NEW data PROVE Paired(Pkg(op, data))
  <2> DEFINE q == Pkg(op, data)
  <2>1. /\ Len(q) = 2 /\ q[1] = [op |-> op, data |-> data, part |-> "head"]
        /\ q[2] = [op |-> op, data |-> data, part |-> "data"]
    BY DEF Pkg
  <2>2. q[2].part # "head" /\ q[2] = [q[1] EXCEPT !.part = "data"]
    BY <2>1
  <2> HIDE DEF q
  <2>3. \A i \in 1 .. Len(q) : i = 1 \/ i = 2
    BY <2>1
  <2>4. ASSUME NEW i \in 1 .. Len(q), q[i].part = "head"
        PROVE  i < Len(q) /\ q[i + 1] = [q[i] EXCEPT !.part = "data"]
    <3>1. i = 1
      BY <2>2, <2>3, <2>4
    <3>2. i < Len(q) /\ i + 1 = 2
      BY <2>1, <3>1
    <3> QED
      BY <2>2, <3>1, <3>2
  <2> QED
    BY <2>4 DEF Paired, q
<1> QED
  BY <1>1, <1>2, <1>3

LEMMA PairedConcat ==
  ASSUME NEW p \in Seq(Cells), NEW q \in Seq(Cells), Paired(p), Paired(q)
  PROVE  Paired(p \o q)
<1> DEFINE n == Len(p)
           m == Len(q)
           r == p \o q
<1>1. /\ n \in Nat /\ m \in Nat /\ Len(r) = n + m
      /\ \A i \in 1 .. n : r[i] = p[i]
      /\ \A i \in n + 1 .. n + m : r[i] = q[i - n]
  BY ConcatProperties
<1>2. \A i \in 1 .. n : p[i].part = "head" => i < n /\ p[i + 1] = [p[i] EXCEPT !.part = "data"]
  BY DEF Paired
<1>3. \A i \in 1 .. m : q[i].part = "head" => i < m /\ q[i + 1] = [q[i] EXCEPT !.part = "data"]
  BY DEF Paired
<1> HIDE DEF n, m, r
<1>4. ASSUME NEW i \in 1 .. n + m, r[i].part = "head"
      PROVE  i < n + m /\ r[i + 1] = [r[i] EXCEPT !.part = "data"]
  <2>1. CASE i \in 1 .. n
    <3>1. r[i] = p[i]
      BY <1>1, <2>1
    <3>2. i < n /\ p[i + 1] = [p[i] EXCEPT !.part = "data"]
      BY <1>2, <1>4, <2>1, <3>1
    <3>3. i + 1 \in 1 .. n /\ i < n + m
      BY <1>1, <2>1, <3>2
    <3>4. r[i + 1] = p[i + 1]
      BY <1>1, <3>3
    <3> QED
      BY <3>1, <3>2, <3>3, <3>4
  <2>2. CASE i \in n + 1 .. n + m
    <3> DEFINE j == i - n
    <3>1. j \in 1 .. m /\ r[i] = q[j]
      BY <1>1, <2>2
    <3> HIDE DEF j
    <3>2. j < m /\ q[j + 1] = [q[j] EXCEPT !.part = "data"]
      BY <1>3, <1>4, <3>1
    <3>3. i + 1 \in n + 1 .. n + m /\ i < n + m /\ (i + 1) - n = j + 1
      BY <1>1, <2>2, <3>2 DEF j
    <3>4. r[i + 1] = q[j + 1]
      BY <1>1, <3>3
    <3> QED
      BY <3>1, <3>2, <3>3, <3>4
  <2> QED
    BY <1>1, <2>1, <2>2
<1> QED
  BY <1>1, <1>4 DEF Paired, r

LEMMA PairedCut ==
  ASSUME NEW q \in Seq(Cells), NEW n \in 0 .. Len(q), Paired(q)
  PROVE  Paired(SubSeq(q, n + 1, Len(q)))
<1> DEFINE r == SubSeq(q, n + 1, Len(q))
<1>1. Len(q) \in Nat /\ Len(r) = Len(q) - n
  OBVIOUS
<1>2. \A i \in 1 .. Len(q) - n : r[i] = q[i + n] /\ i + n \in 1 .. Len(q)
  OBVIOUS
<1>3. \A i \in 1 .. Len(q) : q[i].part = "head" => i < Len(q) /\ q[i + 1] = [q[i] EXCEPT !.part = "data"]
  BY DEF Paired
<1> HIDE DEF r
<1>4. ASSUME NEW i \in 1 .. Len(q) - n, r[i].part = "head"
      PROVE  i < Len(q) - n /\ r[i + 1] = [r[i] EXCEPT !.part = "data"]
  <2>1. r[i] = q[i + n] /\ i + n \in 1 .. Len(q)
    BY <1>2
  <2>2. i + n < Len(q) /\ q[i + n + 1] = [q[i + n] EXCEPT !.part = "data"]
    BY <1>3, <1>4, <2>1
  <2>3. i < Len(q) - n /\ i + 1 \in 1 .. Len(q) - n /\ (i + 1) + n = i + n + 1
    BY <1>1, <2>2
  <2>4. r[i + 1] = q[i + n + 1]
    BY <1>2, <2>3
  <2> QED
    BY <2>1, <2>2, <2>3, <2>4
<1> QED
  BY <1>1, <1>4 DEF Paired, r

\* The cells to c stay pairs.
LEMMA StillPairs ==
  ASSUME NEW c \in Conn, PairsAt(c), marred[c] \subseteq marred'[c], net'[c].down = net[c].down,
         cl'[c].snd_cache \in {cl[c].snd_cache, <<>>, <<Zero>>}
  PROVE  PairsAt(c)'
BY PairedPkg DEF PairsAt

LEMMA FlushPairs ==
  ASSUME Typed, NEW c \in Conn, PairsAt(c), NEW cache \in Seq(Cells), Paired(cache),
         NEW done \in ClientType, NEW part \in ClientType, Flush(c, cache, done, part)
  PROVE  PairsAt(c)'
<1>0. \A d \in Conn : marred[d] \subseteq marred'[d]
  BY FlushMars
<1>1. CASE /\ net' = [net EXCEPT ![c].down = @ \o cache]
           /\ cl' = [cl EXCEPT ![c] = [done EXCEPT !.snd_cache = <<>>]]
  <2>1. net'[c].down = net[c].down \o cache /\ cl'[c].snd_cache = <<>>
    BY <1>1, CellsTyped DEF PeerType, ClientType
  <2>2. Paired(net[c].down) => Paired(net'[c].down)
    BY <2>1, CellsTyped, PairedConcat
  <2> QED
    BY <1>0, <2>1, <2>2, PairedPkg DEF PairsAt
<1>2. ASSUME NEW n \in Nat, n <= Len(cache),
             net' = [net EXCEPT ![c].down = @ \o SubSeq(cache, 1, n)],
             cl' = [cl EXCEPT ![c] = [part EXCEPT !.snd_cache = cache]],
             Mar(c, IF n > 0 THEN {"torn"} ELSE {})
      PROVE  PairsAt(c)'
  <2>1. net'[c].down = net[c].down \o SubSeq(cache, 1, n) /\ cl'[c].snd_cache = cache
    BY <1>2, CellsTyped DEF PeerType, ClientType
  <2>2. CASE n > 0
    <3>1. Mar(c, {"torn"})
      BY <1>2, <2>2
    <3>2. "torn" \in marred'[c]
      BY <3>1, MarIs DEF Typed
    <3> QED
      BY <2>1, <3>2 DEF PairsAt
  <2>3. CASE n = 0
    <3>1. SubSeq(cache, 1, n) = <<>>
      BY <2>3
    <3>2. net'[c].down = net[c].down
      BY <2>1, <3>1, CellsTyped, ConcatEmptySeq
    <3> QED
      BY <1>0, <2>1, <3>2 DEF PairsAt
  <2> QED
    BY <2>2, <2>3
<1>3. CASE Closing(c, FALSE) /\ UNCHANGED <<net, marred>>
  <2>1. cl'[c].snd_cache = cl[c].snd_cache
    BY <1>3, ClosingSame DEF Same
  <2> QED
    BY <1>0, <1>3, <2>1, StillPairs
<1>4. \/ /\ net' = [net EXCEPT ![c].down = @ \o cache]
         /\ cl' = [cl EXCEPT ![c] = [done EXCEPT !.snd_cache = <<>>]]
      \/ \E n \in Nat :
            /\ n <= Len(cache)
            /\ net' = [net EXCEPT ![c].down = @ \o SubSeq(cache, 1, n)]
            /\ cl' = [cl EXCEPT ![c] = [part EXCEPT !.snd_cache = cache]]
            /\ Mar(c, IF n > 0 THEN {"torn"} ELSE {})
      \/ Closing(c, FALSE) /\ UNCHANGED <<net, marred>>
  <2>1. \/ /\ net' = [net EXCEPT ![c].down = @ \o cache]
           /\ cl' = [cl EXCEPT ![c] = [done EXCEPT !.snd_cache = <<>>]]
           /\ UNCHANGED marred
           /\ UNCHANGED close_ch /\ net[c].peer = "open"
        \/ \E n \in Nat :
            /\ n <= Len(cache)
            /\ net' = [net EXCEPT ![c].down = @ \o SubSeq(cache, 1, n)]
            /\ cl' = [cl EXCEPT ![c] = [part EXCEPT !.snd_cache = cache]]
            /\ Mar(c, IF n > 0 THEN {"torn"} ELSE {})
            /\ UNCHANGED close_ch /\ net[c].peer = "open"
        \/ Closing(c, FALSE) /\ UNCHANGED <<net, marred>>
    BY FlushIs
  <2> QED
    BY <2>1, Zenon
<1> QED
  BY <1>1, <1>2, <1>3, <1>4

LEMMA ParseCaches ==
  ASSUME Typed, NEW c \in Conn, Parse(c)
  PROVE  cl'[c].snd_cache = cl[c].snd_cache /\ cl'[c].snd_queue = cl[c].snd_queue
<1> DEFINE me == cl[c]
           raw == SubSeq(me.recv_cache, me.off + 1, Len(me.recv_cache))
           next == Taken(me, raw)
<1>1. me \in ClientType /\ cl \in [Conn -> ClientType] /\ me.recv_cache \in Seq(Cells) /\ me.off \in Nat
  BY CellsTyped DEF ClientType
<1>2. raw \in Seq(Cells)
  BY <1>1, Cut
<1>3. next \in ClientType /\ next.snd_cache = me.snd_cache /\ next.snd_queue = me.snd_queue
  <2>1. \/ next = [me EXCEPT !.recv_cache = <<>>, !.off = 0]
        \/ next = [me EXCEPT !.off = me.off + 2]
    BY <1>1, <1>2, TakenIs
  <2>2. next \in ClientType
    BY <1>1, <1>2, TakenIs
  <2> HIDE DEF next
  <2> QED
    BY <1>1, <2>1, <2>2 DEF ClientType
<1>4. \/ \E q : cl' = [cl EXCEPT ![c].recv_cache = q, ![c].off = 0, ![c].pc = "read"]
      \/ Closing(c, FALSE)
      \/ cl' = [cl EXCEPT ![c].off = 0, ![c].pc = "send"]
      \/ cl' = [cl EXCEPT ![c] = next]
      \/ \E u \in UnPack(raw) : \E p, x :
           cl' = [cl EXCEPT ![c] = [handle_spec_pkg(next, u.op, u.data).me EXCEPT !.pc = p, !.item = x]]
  BY Zenon DEF Parse, raw, next
<1> HIDE DEF raw, next
<1>5. CASE \E q : cl' = [cl EXCEPT ![c].recv_cache = q, ![c].off = 0, ![c].pc = "read"]
  BY <1>1, <1>5 DEF ClientType
<1>6. CASE Closing(c, FALSE)
  BY <1>6, ClosingSame DEF Same
<1>7. CASE cl' = [cl EXCEPT ![c] = next]
  BY <1>1, <1>3, <1>7
<1>8. ASSUME NEW u \in UnPack(raw), NEW p, NEW x,
             cl' = [cl EXCEPT ![c] = [handle_spec_pkg(next, u.op, u.data).me EXCEPT !.pc = p, !.item = x]]
      PROVE  cl'[c].snd_cache = cl[c].snd_cache /\ cl'[c].snd_queue = cl[c].snd_queue
  <2> DEFINE h == handle_spec_pkg(next, u.op, u.data)
  <2>1. h.me.snd_cache = next.snd_cache /\ h.me.snd_queue = next.snd_queue
    BY <1>3, SpecKeys
  <2>2. h.me = next \/ h.me = [next EXCEPT !.valid = TRUE] \/ h.me = [next EXCEPT !.enc = "nego"]
    BY DEF handle_spec_pkg
  <2>3. cl' = [cl EXCEPT ![c] = [h.me EXCEPT !.pc = p, !.item = x]]
    BY <1>8
  <2> HIDE DEF h
  <2>4. h.me \in ClientType
    BY <1>3, <2>2 DEF ClientType, Encs
  <2> QED
    BY <1>1, <1>3, <2>1, <2>3, <2>4 DEF ClientType
<1>9. CASE cl' = [cl EXCEPT ![c].off = 0, ![c].pc = "send"]
  BY <1>1, <1>9 DEF ClientType
<1> QED
  BY <1>4, <1>5, <1>6, <1>7, <1>8, <1>9, Zenon

LEMMA ServPairs ==
  ASSUME Typed, SlotsInv, TcpServer, UNCHANGED <<cli, main>>, NEW d \in Conn, PairsAt(d)
  PROVE  PairsAt(d)'
<1>1. UNCHANGED marred
  BY DEF TcpServer, Accept, AcceptTimeout, ServerStops, CloseClient, CloseDone, Dispatch,
     DispatchAppend, DispatchDone
<1>2. CASE \E c \in Conn : Accept(c)
  <2>1. PICK c \in Conn : Accept(c)
    BY <1>2
  <2>2. \E p : net' = [net EXCEPT ![c].peer = p]
    BY <2>1 DEF Accept
  <2>3. net'[d].down = net[d].down
    BY <2>2, CellsTyped DEF PeerType
  <2>4. UNCHANGED cl \/ cl' = [cl EXCEPT ![c] = NewClient]
    BY <2>1 DEF Accept
  <2>5. cl'[d].snd_cache = cl[d].snd_cache \/ cl'[d].snd_cache = <<>>
    BY <2>4, CellsTyped DEF NewClient
  <2> QED
    BY <1>1, <2>3, <2>5, StillPairs
<1>3. CASE CloseClient
  <2>1. \E c \in Conn : /\ net' = [net EXCEPT ![c].peer = "closed"]
                        /\ cl' = [cl EXCEPT ![c].snd_cache = <<>>, ![c].recv_cache = <<>>]
    BY <1>3, HeadWaits DEF CloseClient, SlotsInv
  <2>2. net'[d].down = net[d].down
    BY <2>1, CellsTyped DEF PeerType
  <2>3. cl'[d].snd_cache = cl[d].snd_cache \/ cl'[d].snd_cache = <<>>
    BY <2>1, CellsTyped DEF ClientType
  <2> QED
    BY <1>1, <2>2, <2>3, StillPairs
<1>4. CASE DispatchAppend
  <2>1. UNCHANGED net /\ cl' = [cl EXCEPT ![serv.item.key].snd_queue = Append(@, serv.item)]
    BY <1>4 DEF DispatchAppend
  <2>2. serv.item.key \in Conn
    BY <1>4, DispatchAppendTyped DEF Items
  <2>3. cl'[d].snd_cache = cl[d].snd_cache
    BY <2>1, <2>2, CellsTyped DEF ClientType
  <2> QED
    BY <1>1, <2>1, <2>3, StillPairs
<1>5. CASE AcceptTimeout \/ ServerStops \/ CloseDone \/ DispatchDone \/ Dispatch
  <2>1. UNCHANGED <<cl, net>>
    BY <1>5 DEF AcceptTimeout, ServerStops, CloseDone, DispatchDone, Dispatch
  <2> QED
    BY <1>1, <2>1, StillPairs
<1> QED
  BY <1>2, <1>3, <1>4, <1>5 DEF TcpServer

LEMMA SendPairs ==
  ASSUME Typed, NEW c \in Conn, PairsAt(c), SendFirst(c) \/ SendPkg(c),
         \A d \in Conn : marred[d] \subseteq marred'[d]
  PROVE  PairsAt(c)'
<1> DEFINE me == cl[c]
<1>1. me \in ClientType
  BY CellsTyped
<1>2. CASE SendFirst(c)
  <2> DEFINE go == [me EXCEPT !.pc = IF me.snd_queue = <<>> THEN "read" ELSE "out",
                              !.left = Len(me.snd_queue)]
             back == [me EXCEPT !.pc = "read"]
  <2>1. \/ cl' = [cl EXCEPT ![c] = go] /\ UNCHANGED <<net, marred, close_ch>>
        \/ Flush(c, me.snd_cache, go, back)
    BY <1>2 DEF SendFirst
  <2>2. go \in ClientType /\ back \in ClientType /\ go.snd_cache = me.snd_cache
    BY <1>1, LenIs DEF ClientType
  <2> HIDE DEF go, back
  <2>3. CASE cl' = [cl EXCEPT ![c] = go] /\ UNCHANGED <<net, marred, close_ch>>
    <3>1. cl'[c].snd_cache = me.snd_cache
      BY <2>2, <2>3, CellsTyped
    <3> QED
      BY <2>3, <3>1, StillPairs
  <2>4. CASE Flush(c, me.snd_cache, go, back)
    <3>1. Paired(me.snd_cache) /\ me.snd_cache \in Seq(Cells)
      BY CellsTyped DEF PairsAt
    <3> QED
      BY <2>2, <2>4, <3>1, FlushPairs
  <2> QED
    BY <2>1, <2>3, <2>4
<1>3. CASE SendPkg(c)
  <2> DEFINE p == Head(me.snd_queue)
  <2>1. /\ me.snd_queue # <<>> /\ me.pc = "out" /\ me.left > 0
        /\ me.snd_queue \in Seq(Items) /\ p \in Items
        /\ \/ Closing(c, TRUE) /\ UNCHANGED <<net, marred>>
           \/ \E left \in {0, me.left - 1} :
                /\ cl' = [cl EXCEPT ![c] = Kept(me, c, me.cap, left)]
                /\ UNCHANGED <<net, marred, close_ch>>
           \/ \E cap \in Nat :
                Flush(c, Pkg(p.op, Encrypted(me, p)), Kept(me, c, cap, me.left - 1),
                      Kept(me, c, cap, 0))
    BY <1>3, SendPkgIs
  <2>2. CASE Closing(c, TRUE) /\ UNCHANGED <<net, marred>>
    <3>1. cl'[c].snd_cache = cl[c].snd_cache
      BY <2>2, ClosingSame DEF Same
    <3> QED
      BY <2>2, <3>1, StillPairs
  <2>3. ASSUME NEW left, cl' = [cl EXCEPT ![c] = Kept(me, c, me.cap, left)], UNCHANGED <<net, marred>>
        PROVE  PairsAt(c)'
    <3>1. cl'[c] = Kept(me, c, me.cap, left)
      BY <2>3, CellsTyped
    <3>2. cl'[c].snd_cache = cl[c].snd_cache
      BY <1>1, <3>1 DEF Kept, ClientType
    <3> QED
      BY <2>3, <3>2, StillPairs
  <2>4. ASSUME NEW cap \in Nat,
               Flush(c, Pkg(p.op, Encrypted(me, p)), Kept(me, c, cap, me.left - 1), Kept(me, c, cap, 0))
        PROVE  PairsAt(c)'
    <3>1. Pkg(p.op, Encrypted(me, p)) \in Seq(Cells) /\ Paired(Pkg(p.op, Encrypted(me, p)))
      BY <1>1, <2>1, EncryptedIs, PkgIs, PairedPkg
    <3>2. Kept(me, c, cap, me.left - 1) \in ClientType /\ Kept(me, c, cap, 0) \in ClientType
      <4>1. Own(me, c)
        BY CellsTyped
      <4> QED
        BY <1>1, <2>1, <2>4, <4>1, KeptIs
    <3> QED
      BY <2>4, <3>1, <3>2, FlushPairs
  <2> QED
    BY <2>1, <2>2, <2>3, <2>4
<1> QED
  BY <1>2, <1>3

LEMMA RunPairs ==
  ASSUME Typed, SlotsInv, NEW c \in Conn, Run(c), NEW d \in Conn, PairsAt(d),
         \A e \in Conn : marred[e] \subseteq marred'[e]
  PROVE  PairsAt(d)'
<1>1. \A e \in Conn \ {c} : cl'[e] = cl[e] /\ net'[e] = net[e]
  <2>1. CASE ReadTimeout(c) \/ ReadClosed(c) \/ Parse(c) \/ AppendOwn(c) \/ SendEnd(c)
    <3>1. UNCHANGED net
      BY <2>1, Zenon DEF ReadTimeout, ReadClosed, Parse, AppendOwn, SendEnd
    <3> QED
      BY <3>1, RunIs
  <2> QED
    BY <2>1, RunIs, ReadMoves, SendFirstMoves, SendPkgMoves DEF Run
<1>2. CASE d # c
  BY <1>1, <1>2, StillPairs
<1>3. CASE d = c /\ (ReadTimeout(c) \/ AppendOwn(c) \/ SendEnd(c))
  <2>1. UNCHANGED net
    BY <1>3 DEF ReadTimeout, AppendOwn, SendEnd
  <2>2. \/ cl' = [cl EXCEPT ![c].pc = "send"]
        \/ cl' = [cl EXCEPT ![c].snd_queue = Append(@, cl[c].item), ![c].item = NoItem, ![c].pc = "parse"]
        \/ \E cap, q : /\ q \in {cl[c].snd_cache, <<Zero>>}
                       /\ cl' = [cl EXCEPT ![c] = [cl[c] EXCEPT !.pc = "read", !.cap = cap, !.snd_cache = q]]
    BY <1>3 DEF ReadTimeout, AppendOwn, SendEnd
  <2>3. cl'[c].snd_cache \in {cl[c].snd_cache, <<Zero>>}
    <3>1. CASE cl' = [cl EXCEPT ![c].pc = "send"]
      BY <3>1, CellsTyped DEF ClientType
    <3>2. CASE cl' = [cl EXCEPT ![c].snd_queue = Append(@, cl[c].item), ![c].item = NoItem, ![c].pc = "parse"]
      BY <3>2, CellsTyped DEF ClientType
    <3>3. ASSUME NEW cap, NEW q, q \in {cl[c].snd_cache, <<Zero>>},
                 cl' = [cl EXCEPT ![c] = [cl[c] EXCEPT !.pc = "read", !.cap = cap, !.snd_cache = q]]
          PROVE  cl'[c].snd_cache = q
      BY <3>3, CellsTyped DEF ClientType
    <3> QED
      BY <2>2, <3>1, <3>2, <3>3
  <2> QED
    BY <1>3, <2>1, <2>3, StillPairs
<1>4. CASE d = c /\ ReadClosed(c)
  <2>1. UNCHANGED net /\ Closing(c, FALSE)
    BY <1>4 DEF ReadClosed
  <2>2. cl'[c].snd_cache = cl[c].snd_cache
    BY <2>1, ClosingSame DEF Same
  <2> QED
    BY <1>4, <2>1, <2>2, StillPairs
<1>5. CASE d = c /\ Parse(c)
  <2>1. UNCHANGED net
    BY <1>5 DEF Parse
  <2> QED
    BY <1>5, <2>1, ParseCaches, StillPairs
<1>6. CASE d = c /\ \E n \in 1 .. Len(net[c].up) : Read(c, n)
  <2>1. PICK n \in 1 .. Len(net[c].up) : Read(c, n)
    BY <1>6
  <2>2. /\ net' = [net EXCEPT ![c].up = SubSeq(@, n + 1, Len(@))]
        /\ cl' = [cl EXCEPT ![c].recv_cache = @ \o SubSeq(net[c].up, 1, n), ![c].off = 0, ![c].pc = "parse"]
    BY <2>1 DEF Read
  <2>3. net'[c].down = net[c].down
    BY <2>2, CellsTyped DEF PeerType
  <2>4. cl'[c].snd_cache = cl[c].snd_cache
    BY <2>2, CellsTyped DEF ClientType
  <2> QED
    BY <1>6, <2>3, <2>4, StillPairs
<1> QED
  BY <1>2, <1>3, <1>4, <1>5, <1>6, SendPairs DEF Run

\* A step is one of a client or leaves the clients alone and moves packages.
LEMMA NextMoves ==
  ASSUME Typed, SlotsInv, ServKeys, Next
  PROVE  /\ UNCHANGED pserv
         /\ \/ UNCHANGED cli /\ \A d \in Conn : Moved(d)
            \/ \E c \in Conn : Client(c) /\ UNCHANGED main
<1>1. CASE TcpServer /\ UNCHANGED <<cli, main>>
  <2>1. UNCHANGED pserv
    BY <1>1 DEF TcpServer, Accept, AcceptTimeout, ServerStops, CloseClient, CloseDone, Dispatch,
       DispatchAppend, DispatchDone
  <2> QED
    BY <1>1, <2>1, ServMoves
<1>2. CASE \E c \in Conn : Run(c) /\ UNCHANGED <<cli, main>>
  BY <1>2, RunIs, RunMoves
<1>3. CASE \E c \in Conn : Client(c) /\ UNCHANGED main
  <2>1. UNCHANGED pserv
    BY <1>3, Zenon DEF Client, Connect, ConnectFails, GameSend, OtherSend, GameExit, GameClosed,
       RecvPkg, cliRest, servVars
  <2> QED
    BY <1>3, <2>1
<1>4. CASE UNCHANGED <<pserv, cli, cl, net>>
  BY <1>4, SameMoves DEF Same
<1>5. CASE ReadClients \/ HandleClientPkg \/ ServerExit
  <2>1. UNCHANGED <<pserv, cli, cl, net>>
    BY <1>5 DEF ReadClients, Recv, HandleClientPkg, ServerExit, Close, servVars
  <2> QED
    BY <1>4, <2>1
<1> QED
  BY <1>1, <1>2, <1>3, <1>4, <1>5, SendIs DEF Next

\* What a step of client c leaves alone, apart from what RecvPkg makes of a package.
Mine(c) == <<cli[c].enc_type, cli[c].enc_key, cli[c].enc_block, cli[c].got>>
ClientMoved(c) ==
  /\ UNCHANGED <<serv, snd_queue, recv_queue, cl, batch, marred>>
  /\ \A d \in Conn \ {c} : cli'[d] = cli[d] /\ net'[d] = net[d]
  /\ cli'[c].method = cli[c].method
  /\ \/ net'[c].down = net[c].down
     \/ \E n \in 1 .. Len(net[c].down) : net'[c].down = SubSeq(net[c].down, n + 1, Len(net[c].down))
  /\ IsGame(c) => \A x \in ToSet(net'[c].up) :
       x \in ToSet(net[c].up) \/ (x.op = "normal" => CanAsk(c) /\ x.data.enc = AskKey(c))
  /\ \/ Mine(c)' = Mine(c) /\ net'[c].down = net[c].down
     \/ \E n \in 1 .. Len(net[c].down) : RecvPkg(c, n)

LEMMA SentCells ==
  ASSUME Typed, NEW c \in Conn
  PROVE  /\ \A op, data : \A x \in ToSet(Pkg(op, data)) : x.op = op /\ x.data = data
         /\ \A x \in ToSet(Valid(c)) : x.op # "normal"
         /\ ToSet(<<>>) = {}
<1>1. \A op, data : \A x \in ToSet(Pkg(op, data)) : x.op = op /\ x.data = data
  BY DEF Pkg, ToSet
<1> QED
  BY <1>1, MembersEmpty DEF Valid

LEMMA ClientTyped ==
  ASSUME Typed, NEW c \in Conn
  PROVE  cli \in [Conn -> CliType] /\ cli[c] \in CliType /\ cli[c].got \in Seq(Datas)
BY DEF Typed, CliTyped, CliType

LEMMA ConnectMoved ==
  ASSUME Typed, NEW c \in Conn, Connect(c)
  PROVE  ClientMoved(c)
<1> DEFINE up == CASE Method(c) = "other" -> <<>>
                   [] Method(c) = "press" -> Plain(c)
                   [] OTHER -> Valid(c)
<1>1. /\ net' = [net EXCEPT ![c].peer = "pending", ![c].up = up]
      /\ \E m, s : cli' = [cli EXCEPT ![c].main = m, ![c].sent = s]
      /\ UNCHANGED cliRest
  BY DEF Connect
<1>2. IsGame(c) => up = Valid(c)
  BY DEF IsGame
<1> HIDE DEF up
<1>3. /\ \A d \in Conn \ {c} : net'[d] = net[d]
      /\ net'[c].down = net[c].down /\ net'[c].up = up
  BY <1>1, CellsTyped DEF PeerType
<1>4. /\ \A d \in Conn \ {c} : cli'[d] = cli[d]
      /\ cli'[c].method = cli[c].method /\ Mine(c)' = Mine(c)
  <2>1. PICK m, s : cli' = [cli EXCEPT ![c].main = m, ![c].sent = s]
    BY <1>1
  <2> QED
    BY <2>1, ClientTyped DEF CliType, Mine
<1>5. IsGame(c) => \A x \in ToSet(net'[c].up) : x.op # "normal"
  BY <1>2, <1>3, SentCells
<1> QED
  BY <1>1, <1>3, <1>4, <1>5 DEF ClientMoved, cliRest, servVars

LEMMA MainMoved ==
  ASSUME Typed, NEW c \in Conn, ConnectFails(c) \/ GameClosed(c) \/ GameExit(c)
  PROVE  ClientMoved(c)
<1>1. /\ \E m \in {"lost", "exited"} : cli' = [cli EXCEPT ![c].main = m]
      /\ UNCHANGED cliRest
  BY DEF ConnectFails, GameClosed, GameExit
<1>2. UNCHANGED net \/ \E up \in {net[c].up, <<>>} : \E p : net' = [net EXCEPT ![c].up = up, ![c].peer = p]
  BY DEF ConnectFails, GameClosed, GameExit
<1>3. /\ \A d \in Conn \ {c} : net'[d] = net[d]
      /\ net'[c].down = net[c].down /\ net'[c].up \in {net[c].up, <<>>}
  BY <1>2, CellsTyped, ZenonT(30) DEF PeerType
<1>4. /\ \A d \in Conn \ {c} : cli'[d] = cli[d]
      /\ cli'[c].method = cli[c].method /\ Mine(c)' = Mine(c) /\ cli'[c].main \in {"lost", "exited"}
  BY <1>1, ClientTyped DEF CliType, Mine
<1>5. \A x \in ToSet(net'[c].up) : x \in ToSet(net[c].up)
  BY <1>3, SentCells
<1> QED
  BY <1>1, <1>3, <1>4, <1>5 DEF ClientMoved, cliRest, servVars

LEMMA SendMoved ==
  ASSUME Typed, NEW c \in Conn, GameSend(c) \/ OtherSend(c)
  PROVE  ClientMoved(c)
<1>1. /\ \E up : net' = [net EXCEPT ![c].up = up]
      /\ \E a, s, m : cli' = [cli EXCEPT ![c].asks = a, ![c].sent = s, ![c].main = m]
      /\ UNCHANGED cliRest
  <2>1. CASE GameSend(c)
    <3>1. UNCHANGED net \/ \E up : net' = [net EXCEPT ![c].up = up]
      BY <2>1 DEF GameSend
    <3>2. UNCHANGED net => net' = [net EXCEPT ![c].up = net[c].up]
      BY CellsTyped DEF PeerType
    <3> QED
      BY <2>1, <3>1, <3>2, Zenon DEF GameSend
  <2>2. CASE OtherSend(c)
    <3>1. \E a, s : cli' = [cli EXCEPT ![c].asks = a, ![c].sent = s]
      BY <2>2 DEF OtherSend
    <3>2. \A a, s : [cli EXCEPT ![c].asks = a, ![c].sent = s]
                    = [cli EXCEPT ![c].asks = a, ![c].sent = s, ![c].main = cli[c].main]
      BY ClientTyped, ZenonT(30) DEF CliType
    <3>3. \E up : net' = [net EXCEPT ![c].up = up]
      BY <2>2 DEF OtherSend
    <3>4. PICK a, s : cli' = [cli EXCEPT ![c].asks = a, ![c].sent = s]
      BY <3>1
    <3>5. cli' = [cli EXCEPT ![c].asks = a, ![c].sent = s, ![c].main = cli[c].main]
      BY <3>2, <3>4
    <3>6. UNCHANGED cliRest
      BY <2>2 DEF OtherSend
    <3> QED
      BY <3>3, <3>5, <3>6
  <2> QED
    BY <2>1, <2>2, Zenon
<1>2. \A d \in Conn \ {c} : net'[d] = net[d]
  BY <1>1, CellsTyped
<1>3. net'[c].down = net[c].down
  BY <1>1, CellsTyped DEF PeerType
<1>4. PICK a, s, m : cli' = [cli EXCEPT ![c].asks = a, ![c].sent = s, ![c].main = m]
  BY <1>1
<1>5. /\ \A d \in Conn \ {c} : cli'[d] = cli[d]
      /\ cli'[c].method = cli[c].method /\ Mine(c)' = Mine(c)
  BY <1>4, ClientTyped DEF CliType, Mine
<1>6. ASSUME IsGame(c), NEW x \in ToSet(net'[c].up)
      PROVE  x \in ToSet(net[c].up) \/ (CanAsk(c) /\ x.data.enc = AskKey(c))
  <2>1. GameSend(c)
    BY <1>6 DEF OtherSend, IsGame
  <2>2. \/ UNCHANGED net
        \/ CanAsk(c) /\ \E i \in Nat :
             net' = [net EXCEPT ![c].up = @ \o Pkg("normal", Request(c, i, AskKey(c)))]
    <3>1. cli[c].sent + 1 \in Nat
      BY FirstsAre
    <3> QED
      BY <2>1, <3>1, Zenon DEF GameSend
  <2>3. CASE UNCHANGED net
    BY <1>6, <2>3
  <2>4. ASSUME NEW i \in Nat, CanAsk(c),
               net' = [net EXCEPT ![c].up = @ \o Pkg("normal", Request(c, i, AskKey(c)))]
        PROVE  x \in ToSet(net[c].up) \/ x.data.enc = AskKey(c)
    <3> DEFINE data == Request(c, i, AskKey(c))
    <3>1. Pkg("normal", data) \in Seq(Cells)
      <4>1. AskKey(c) \in Encs
        BY ClientTyped DEF AskKey, CliType, Encs
      <4>2. data \in Datas
        BY <4>1, RequestIs
      <4> HIDE DEF data
      <4> QED
        BY <4>2, PkgIs DEF Ops
    <3>2. net'[c].up = net[c].up \o Pkg("normal", data)
      BY <2>4, CellsTyped DEF PeerType
    <3>3. data.enc = AskKey(c)
      BY DEF Request
    <3> HIDE DEF data
    <3>4. ToSet(net'[c].up) = ToSet(net[c].up) \cup ToSet(Pkg("normal", data))
      BY <3>1, <3>2, CellsTyped, MembersConcat
    <3> QED
      BY <1>6, <3>3, <3>4, SentCells
  <2> QED
    BY <2>2, <2>3, <2>4
<1> QED
  BY <1>1, <1>2, <1>3, <1>5, <1>6 DEF ClientMoved, cliRest, servVars

LEMMA RecvPkgMoved ==
  ASSUME Typed, NEW c \in Conn, NEW n \in 1 .. Len(net[c].down), RecvPkg(c, n)
  PROVE  ClientMoved(c)
<1>3. PICK u :
       /\ ReadAs(c, n, u)
       /\ LET r == IF IsGame(c) THEN GameRecv(c, u) ELSE OneShotRecv(c, u)
          IN  /\ cli' = [cli EXCEPT ![c] = r.me]
              /\ net' = [net EXCEPT ![c].down = SubSeq(@, n + 1, Len(@)), ![c].up = @ \o r.out]
  BY RecvIs
<1> DEFINE r == IF IsGame(c) THEN GameRecv(c, u) ELSE OneShotRecv(c, u)
<1>4. u.op \in Ops /\ u.data \in Datas
  BY <1>3 DEF ReadAs
<1>5. /\ r.me.method = cli[c].method
      /\ IsGame(c) => r.out \in {<<>>, Pkg("nego", Request(c, 0, "nego"))}
  <2>1. CASE IsGame(c)
    BY <1>4, <2>1, GameRecvIs
  <2>2. CASE ~IsGame(c)
    BY <1>4, <2>2, OneShotIs
  <2> QED
    BY <2>1, <2>2
<1>6. /\ cli' = [cli EXCEPT ![c] = r.me]
      /\ net' = [net EXCEPT ![c].down = SubSeq(@, n + 1, Len(@)), ![c].up = @ \o r.out]
  BY <1>3
<1> HIDE DEF r
<1>7. /\ \A d \in Conn \ {c} : cli'[d] = cli[d] /\ net'[d] = net[d]
      /\ cli'[c] = r.me
      /\ net'[c].down = SubSeq(net[c].down, n + 1, Len(net[c].down))
      /\ net'[c].up = net[c].up \o r.out
  BY <1>6, ClientTyped, CellsTyped DEF PeerType
<1>8. ASSUME IsGame(c), NEW x \in ToSet(net'[c].up)
      PROVE  x \in ToSet(net[c].up) \/ x.op # "normal"
  <2>1. r.out \in Seq(Cells)
    <3>1. Pkg("nego", Request(c, 0, "nego")) \in Seq(Cells) /\ <<>> \in Seq(Cells)
      BY FirstsAre
    <3> QED
      BY <1>5, <1>8, <3>1
  <2>2. ToSet(net'[c].up) = ToSet(net[c].up) \cup ToSet(r.out)
    BY <1>7, <2>1, CellsTyped, MembersConcat
  <2>3. \A y \in ToSet(r.out) : y.op # "normal"
    BY <1>5, <1>8, SentCells
  <2> QED
    BY <1>8, <2>2, <2>3
<1>9. UNCHANGED cliRest
  BY DEF RecvPkg
<1> QED
  BY <1>5, <1>7, <1>8, <1>9 DEF ClientMoved, cliRest, servVars

LEMMA ClientMoves ==
  ASSUME Typed, NEW c \in Conn, Client(c)
  PROVE  ClientMoved(c)
BY ConnectMoved, MainMoved, SendMoved, RecvPkgMoved DEF Client

LEMMA ClientSets ==
  ASSUME Typed, NEW c \in Conn, Client(c), NEW d \in Conn
  PROVE  /\ Going(d)' \subseteq Going(d) /\ Lined(d)' = Lined(d)
         /\ IsGame(d) => \A x \in Coming(d)' :
              x \in Coming(d) \/ (x.op = "normal" => CanAsk(d) /\ x.data.enc = AskKey(d))
         /\ Method(d)' = Method(d) /\ cl'[d] = cl[d] /\ marred'[d] = marred[d]
         /\ Paired(net[d].down) => Paired(net'[d].down)
<1>1. ClientMoved(c)
  BY ClientMoves
<1>2. cl'[d] = cl[d] /\ marred'[d] = marred[d]
  BY <1>1 DEF ClientMoved
<1>3. CASE d # c
  BY <1>1, <1>2, <1>3 DEF ClientMoved, Going, Lined, Coming, Method
<1>4. CASE d = c
  <2>1. /\ ToSet(net'[c].down) \subseteq ToSet(net[c].down)
        /\ Paired(net[c].down) => Paired(net'[c].down)
    <3>1. CASE net'[c].down = net[c].down
      BY <3>1
    <3>2. ASSUME NEW n \in 1 .. Len(net[c].down),
                 net'[c].down = SubSeq(net[c].down, n + 1, Len(net[c].down))
          PROVE  /\ ToSet(net'[c].down) \subseteq ToSet(net[c].down)
                 /\ Paired(net[c].down) => Paired(net'[c].down)
      <4>1. n \in Nat /\ n \in 0 .. Len(net[c].down) /\ net[c].down \in Seq(Cells)
        BY CellsTyped
      <4> QED
        BY <3>2, <4>1, MembersCut, PairedCut
    <3> QED
      BY <1>1, <3>1, <3>2 DEF ClientMoved
  <2>2. IsGame(c) => \A x \in ToSet(net'[c].up) :
          x \in ToSet(net[c].up) \/ (x.op = "normal" => CanAsk(c) /\ x.data.enc = AskKey(c))
    BY <1>1 DEF ClientMoved
  <2>3. Method(d)' = Method(d)
    BY <1>1, <1>4 DEF ClientMoved, Method
  <2> QED
    BY <1>2, <1>4, <2>1, <2>2, <2>3 DEF Going, Lined, Coming
<1> QED
  BY <1>3, <1>4

\* The key of a client after a step.
LEMMA KeyMoves ==
  ASSUME Typed, SlotsInv, KeysInv, Next, NEW c \in Conn
  PROVE  /\ EncType' = EncType /\ Method(c)' = Method(c)
         /\ \/ cl'[c].enc = cl[c].enc
            \/ EncType = "rsa" /\ cl'[c].enc = "nego" /\ cl[c].stat = "normal"
         /\ cl'[c].stat = "none" => cl[c].stat = "none"
<1>1. ServKeys
  BY DEF KeysInv
<1>2. /\ UNCHANGED pserv
      /\ \/ UNCHANGED cli /\ \A d \in Conn : Moved(d)
         \/ \E d \in Conn : Client(d) /\ UNCHANGED main
  BY <1>1, NextMoves
<1>3. EncType' = EncType
  BY <1>2 DEF EncType
<1>4. CASE UNCHANGED cli /\ \A d \in Conn : Moved(d)
  <2>1. Method(c)' = Method(c) /\ Moved(c)
    BY <1>4 DEF Method
  <2> QED
    BY <1>3, <2>1 DEF Moved
<1>5. CASE \E d \in Conn : Client(d)
  <2>1. Method(c)' = Method(c) /\ cl'[c] = cl[c]
    BY <1>5, ClientSets
  <2> QED
    BY <1>3, <2>1
<1> QED
  BY <1>2, <1>4, <1>5

LEMMA ServKeysKept ==
  ASSUME Typed, SlotsInv, KeysInv, Next
  PROVE  ServKeys'
<1> SUFFICES ASSUME NEW c \in Conn
             PROVE  /\ EncType' = "none" => cl'[c].enc = None
                    /\ EncType' = "gen" => cl'[c].enc = "gen"
                    /\ EncType' = "rsa" => cl'[c].enc \in {None, "nego"}
                    /\ cl'[c].stat = "none" => cl'[c].enc # "nego"
  BY DEF ServKeys
<1>1. /\ EncType = "none" => cl[c].enc = None
      /\ EncType = "gen" => cl[c].enc = "gen"
      /\ EncType = "rsa" => cl[c].enc \in {None, "nego"}
      /\ cl[c].stat = "none" => cl[c].enc # "nego"
  BY DEF KeysInv, ServKeys
<1> QED
  BY <1>1, KeyMoves

\* Data of the client's key stays so.
LEMMA HeldStays ==
  ASSUME Typed, SlotsInv, KeysInv, Next, NEW c \in Conn, NEW e, KeyIs(c, e)
  PROVE  KeyIs(c, e)'
<1>1. EncType = "rsa" => cl[c].enc \in {None, "nego"}
  BY DEF KeysInv, ServKeys
<1> QED
  BY <1>1, KeyMoves DEF KeyIs

LEMMA ComingKept ==
  ASSUME Typed, SlotsInv, KeysInv, Next
  PROVE  ComingKeys'
<1> SUFFICES ASSUME NEW c \in Conn, IsGame(c)', "torn" \notin marred'[c],
                    NEW x \in Coming(c)', x.op = "normal"
             PROVE  KeyIs(c, x.data.enc)'
  BY DEF ComingKeys, KeyHeld
<1>1. IsGame(c) /\ "torn" \notin marred[c]
  BY KeyMoves, NextMars DEF IsGame
<1>2. /\ \A y \in Coming(c) : y.op = "normal" => KeyIs(c, y.data.enc)
      /\ CanAsk(c) => KeyIs(c, AskKey(c))
  BY <1>1 DEF KeysInv, ComingKeys, KeyHeld, GameKeys, GameAt
<1>3. x \in Coming(c) \/ (CanAsk(c) /\ x.data.enc = AskKey(c))
  <2>1. ServKeys
    BY DEF KeysInv
  <2> QED
    BY <1>1, <2>1, NextMoves, ClientSets DEF Moved
<1> QED
  BY <1>2, <1>3, HeldStays

LEMMA WireKept ==
  ASSUME Typed, SlotsInv, KeysInv, Next
  PROVE  WireKeys'
<1> SUFFICES ASSUME NEW c \in Conn
             PROVE  /\ \A x \in Going(c)' : (x.op = "normal" => KeyHeld(c, x.data)') /\ AnswerKeyed(c, x)'
                    /\ \A x \in Lined(c)' : AnswerKeyed(c, x)'
                    /\ \A x \in Posted(c)' : x.op = "normal"
  BY DEF WireKeys
<1>1. /\ \A x \in Going(c) : (x.op = "normal" => KeyHeld(c, x.data)) /\ AnswerKeyed(c, x)
      /\ \A x \in Lined(c) : AnswerKeyed(c, x)
      /\ \A x \in Posted(c) : x.op = "normal"
      /\ EncType = "gen" => cl[c].enc = "gen"
  BY DEF KeysInv, WireKeys, ServKeys
<1>2. \A x : AnswerKeyed(c, x) => AnswerKeyed(c, x)'
  BY KeyMoves DEF AnswerKeyed
<1>7. \A d : KeyHeld(c, d) => KeyHeld(c, d)'
  BY HeldStays DEF KeyHeld
<1>3. \A x \in Posted(c)' : x.op = "normal"
  BY <1>1, NextPosted
<1>4. CASE Moved(c)
  <2>1. \A x \in Going(c)' : (x.op = "normal" => KeyHeld(c, x.data)) /\ AnswerKeyed(c, x)
    <3> SUFFICES ASSUME NEW x \in Going(c)'
                 PROVE  (x.op = "normal" => KeyHeld(c, x.data)) /\ AnswerKeyed(c, x)
      OBVIOUS
    <3>1. CASE x \in Going(c)
      BY <1>1, <3>1
    <3>2. CASE x = Zero
      BY <3>2 DEF Zero, None, AnswerKeyed
    <3>3. ASSUME NEW p \in Lined(c) \cap Items, p.op = "normal" => CanEncrypt(c),
                 x.op = p.op, x.data = Encrypted(cl[c], p)
          PROVE  (x.op = "normal" => KeyHeld(c, x.data)) /\ AnswerKeyed(c, x)
      <4>1. /\ p.op = "normal" => x.data.enc = cl[c].enc
            /\ p.op # "normal" => x.data = p.data
        BY <3>3, CellsTyped, EncryptedIs
      <4>2. AnswerKeyed(c, p)
        BY <1>1
      <4> QED
        BY <3>3, <4>1, <4>2 DEF AnswerKeyed, KeyHeld, KeyIs, CanEncrypt
    <3> QED
      BY <1>4, <3>1, <3>2, <3>3 DEF Moved
  <2>2. \A x \in Lined(c)' : AnswerKeyed(c, x)'
    <3> SUFFICES ASSUME NEW x \in Lined(c)' PROVE AnswerKeyed(c, x)'
      OBVIOUS
    <3>1. \/ x \in Lined(c) \/ x \in Posted(c) \/ x = NoItem
          \/ /\ x.op # "normal" /\ (x.op = "valid" => x.data.enc = cl[c].enc)
             /\ x.op = "nego" /\ x.data.enc = "ok" => cl'[c].enc = "nego"
      BY <1>4 DEF Moved
    <3>2. NoItem.op # "valid" /\ NoItem.op # "nego"
      BY DEF NoItem, Item, None
    <3>3. EncType' = EncType
      BY KeyMoves
    <3>4. CASE x \in Lined(c)
      BY <1>1, <1>2, <3>4
    <3>5. CASE x \notin Lined(c)
      BY <1>1, <3>1, <3>2, <3>3, <3>5 DEF AnswerKeyed
    <3> QED
      BY <3>4, <3>5
  <2> QED
    BY <1>2, <1>3, <2>1, <2>2, <1>7
<1>5. CASE \E d \in Conn : Client(d)
  <2>1. Going(c)' \subseteq Going(c) /\ Lined(c)' = Lined(c)
    BY <1>5, ClientSets
  <2> QED
    BY <1>1, <1>2, <1>3, <2>1, <1>7
<1>6. ServKeys
  BY DEF KeysInv
<1> QED
  BY <1>4, <1>5, <1>6, NextMoves

LEMMA PairsKept ==
  ASSUME Typed, SlotsInv, KeysInv, Next
  PROVE  WirePairs'
<1> SUFFICES ASSUME NEW d \in Conn PROVE PairsAt(d)'
  BY DEF WirePairs
<1>1. PairsAt(d)
  BY DEF KeysInv, WirePairs
<1>2. \A e \in Conn : marred[e] \subseteq marred'[e]
  BY NextMars
<1>3. CASE TcpServer /\ UNCHANGED <<cli, main>>
  BY <1>1, <1>3, ServPairs
<1>4. CASE \E c \in Conn : Run(c)
  BY <1>1, <1>2, <1>4, RunPairs
<1>5. CASE \E c \in Conn : Client(c)
  <2>1. /\ cl'[d] = cl[d] /\ marred'[d] = marred[d]
        /\ Paired(net[d].down) => Paired(net'[d].down)
    BY <1>5, ClientSets
  <2> QED
    BY <1>1, <2>1 DEF PairsAt
<1>6. CASE UNCHANGED <<cl, net>>
  BY <1>1, <1>2, <1>6, StillPairs
<1>7. CASE ReadClients \/ HandleClientPkg \/ ServerExit
  <2>1. UNCHANGED <<cl, net>>
    BY <1>7 DEF ReadClients, Recv, HandleClientPkg, ServerExit, Close
  <2> QED
    BY <1>6, <2>1
<1> QED
  BY <1>3, <1>4, <1>5, <1>6, <1>7, SendIs DEF Next

LEMMA GameStill ==
  ASSUME NEW c \in Conn, GameAt(c), Mine(c)' = Mine(c), EncType' = EncType,
         marred[c] \subseteq marred'[c], \A e : KeyIs(c, e) => KeyIs(c, e)'
  PROVE  GameAt(c)'
<1>1. /\ cli'[c].enc_type = cli[c].enc_type /\ cli'[c].enc_key = cli[c].enc_key
      /\ cli'[c].enc_block = cli[c].enc_block /\ cli'[c].got = cli[c].got
  BY DEF Mine
<1>2. AskKey(c)' = AskKey(c) /\ CanAsk(c)' = CanAsk(c)
  BY <1>1 DEF AskKey, CanAsk
<1>3. KeyIs(c, AskKey(c)) => KeyIs(c, AskKey(c))'
  BY <1>2
<1> QED
  BY <1>1, <1>2, <1>3 DEF GameAt

\* What RecvConnSpecPkg makes of the keys of a client.
LEMMA SpecPkgKeys ==
  ASSUME Typed, NEW c \in Conn, NEW u, NEW r, r = RecvConnSpecPkg(c, u)
  PROVE  LET me == cli[c]
         IN  \/ /\ r.me.enc_type = me.enc_type /\ r.me.enc_key = me.enc_key
                /\ r.me.enc_block = me.enc_block
             \/ /\ EncType = "none" /\ r.me.enc_type = "none"
                /\ r.me.enc_key = me.enc_key /\ r.me.enc_block = me.enc_block
             \/ /\ EncType = "gen" /\ u.op = "valid" /\ r.me.enc_type = "gen"
                /\ r.me.enc_key = u.data.enc /\ r.me.enc_block = u.data.enc
             \/ /\ EncType = "rsa" /\ r.me.enc_type = "rsa"
                /\ r.me.enc_key = "nego" /\ r.me.enc_block = me.enc_block
             \/ /\ u.op = "nego" /\ u.data.enc = "ok"
                /\ r.me.enc_type = me.enc_type /\ r.me.enc_key = me.enc_key
                /\ r.me.enc_block = me.enc_key
<1> DEFINE me == cli[c]
<1>1. me \in CliType
  BY ClientTyped
<1>2. \/ r.me = me
      \/ EncType = "none" /\ r.me = [me EXCEPT !.enc_type = "none"]
      \/ /\ EncType = "gen" /\ u.op = "valid"
         /\ r.me = [me EXCEPT !.enc_type = "gen", !.enc_key = u.data.enc, !.enc_block = u.data.enc]
      \/ EncType = "rsa" /\ r.me = [me EXCEPT !.enc_type = "rsa", !.enc_key = "nego"]
      \/ /\ u.op = "nego" /\ u.data.enc = "ok"
         /\ r.me = [me EXCEPT !.enc_block = me.enc_key]
  BY DEF RecvConnSpecPkg
<1> HIDE DEF me
<1>3. CASE r.me = me
  BY <1>3 DEF me
<1>4. CASE EncType = "none" /\ r.me = [me EXCEPT !.enc_type = "none"]
  BY <1>1, <1>4 DEF me, CliType
<1>5. CASE /\ EncType = "gen" /\ u.op = "valid"
           /\ r.me = [me EXCEPT !.enc_type = "gen", !.enc_key = u.data.enc, !.enc_block = u.data.enc]
  BY <1>1, <1>5 DEF me, CliType
<1>6. CASE EncType = "rsa" /\ r.me = [me EXCEPT !.enc_type = "rsa", !.enc_key = "nego"]
  BY <1>1, <1>6 DEF me, CliType
<1>7. CASE /\ u.op = "nego" /\ u.data.enc = "ok"
           /\ r.me = [me EXCEPT !.enc_block = me.enc_key]
  BY <1>1, <1>7 DEF me, CliType
<1> QED
  BY <1>2, <1>3, <1>4, <1>5, <1>6, <1>7

\* What a client reads of a stream that is not torn is a package of the server.
LEMMA ReadIs ==
  ASSUME Typed, KeysInv, NEW c \in Conn, NEW n \in 1 .. Len(net[c].down),
         NEW u, ReadAs(c, n, u), u.ret = "pkg"
  PROVE  /\ u.op = "normal" => u.data = Junk \/ \E x \in Going(c) : x.op = "normal" /\ x.data = u.data
         /\ u.op = "valid" /\ "torn" \notin marred[c] /\ EncType = "gen" => u.data.enc = "gen"
         /\ u.op = "nego" /\ "torn" \notin marred[c] /\ u.data.enc = "ok" => cl[c].enc = "nego"
<1> DEFINE raw == SubSeq(net[c].down, 1, n)
<1>1. n \in Nat /\ n <= Len(net[c].down) /\ net[c].down \in Seq(Cells)
  BY CellsTyped
<1>2. raw \in Seq(Cells) /\ ToSet(raw) \subseteq ToSet(net[c].down)
  BY <1>1, Cut, MembersCut
<1>3. "torn" \notin marred[c] => FirstPaired(raw)
  BY <1>1, PairedFirst DEF KeysInv, WirePairs, PairsAt
<1>9. PICK v \in UnPack(raw) : u.op = v.op /\ u.data = v.data /\ v.ret = "pkg"
  BY DEF ReadAs
<1> HIDE DEF raw
<1>4. /\ raw[1] \in ToSet(raw)
      /\ \/ u.op = "normal" /\ u.data = Junk
         \/ /\ u.op = raw[1].op
            /\ u.data = raw[1].data \/ u.data = Junk
            /\ FirstPaired(raw) => u.data = raw[1].data
  BY <1>2, <1>9, UnPackGives
<1>5. raw[1] \in Going(c)
  BY <1>2, <1>4 DEF Going
<1>6. /\ EncType = "gen" /\ raw[1].op = "valid" => raw[1].data.enc = "gen"
      /\ raw[1].op = "nego" /\ raw[1].data.enc = "ok" => cl[c].enc = "nego"
  BY <1>5 DEF KeysInv, WireKeys, AnswerKeyed
<1>7. u.op = "normal" => u.data = Junk \/ \E x \in Going(c) : x.op = "normal" /\ x.data = u.data
  BY <1>4, <1>5
<1>8. u.op = "valid" /\ "torn" \notin marred[c] /\ EncType = "gen" => u.data.enc = "gen"
  BY <1>3, <1>4, <1>6
<1>10. u.op = "nego" /\ "torn" \notin marred[c] /\ u.data.enc = "ok" => cl[c].enc = "nego"
  BY <1>3, <1>4, <1>6
<1> QED
  BY <1>7, <1>8, <1>10

LEMMA GotMore ==
  ASSUME Typed, NEW c \in Conn, NEW data \in Datas, NEW got, got = Append(cli[c].got, data)
  PROVE  got # <<>> /\ ToSet(got) = ToSet(cli[c].got) \cup {data}
<1>1. ToSet(got) = ToSet(cli[c].got) \cup {data}
  BY ClientTyped, MembersAppend
<1> QED
  BY <1>1, MembersEmpty

LEMMA GameReads ==
  ASSUME Typed, SlotsInv, KeysInv, NEW c \in Conn, IsGame(c), GameAt(c),
         UNCHANGED <<pserv, marred, cl>>, NEW n \in 1 .. Len(net[c].down), RecvPkg(c, n)
  PROVE  GameAt(c)'
<1> DEFINE me == cli[c]
           it == cli'[c]
<1>1. PICK u : ReadAs(c, n, u) /\ cli' = [cli EXCEPT ![c] = GameRecv(c, u).me]
  BY RecvIs
<1> DEFINE r == GameRecv(c, u)
<1>2. u.op \in Ops /\ u.data \in Datas
  BY <1>1 DEF ReadAs
<1>3. /\ u.ret = "pkg" /\ u.op = "normal" =>
           u.data = Junk \/ \E x \in Going(c) : x.op = "normal" /\ x.data = u.data
      /\ u.ret = "pkg" /\ u.op = "valid" /\ "torn" \notin marred[c] /\ EncType = "gen" =>
           u.data.enc = "gen"
      /\ u.ret = "pkg" /\ u.op = "nego" /\ "torn" \notin marred[c] /\ u.data.enc = "ok" =>
           cl[c].enc = "nego"
  BY <1>1, ReadIs
<1>4. it = r.me
  BY <1>1, ClientTyped
<1>5. /\ EncType' = EncType /\ marred'[c] = marred[c] /\ EncType \in {"none", "gen", "rsa"}
      /\ \A e : KeyIs(c, e)' <=> KeyIs(c, e)
  BY CellsTyped DEF EncType, KeyIs
<1>6. \A x \in Going(c) : x.op = "normal" => KeyHeld(c, x.data)
  BY DEF KeysInv, WireKeys
<1>7. /\ EncType = "none" => cl[c].enc = None
      /\ EncType = "gen" => cl[c].enc = "gen"
      /\ EncType = "rsa" => cl[c].enc \in {None, "nego"}
  BY DEF KeysInv, ServKeys
<1> HIDE DEF r
<1>8. /\ \/ r.me.got = me.got
         \/ r.me.got = Append(me.got, u.data) /\ u.ret = "pkg" /\ u.op = "normal" /\ CanAsk(c)
      /\ \/ /\ r.me.enc_type = me.enc_type /\ r.me.enc_key = me.enc_key
            /\ r.me.enc_block = me.enc_block
         \/ /\ u.ret = "pkg" /\ u.op # "normal" /\ r = RecvConnSpecPkg(c, u)
  BY <1>2, GameRecvIs DEF r
<1>9. CASE /\ it.enc_type = me.enc_type /\ it.enc_key = me.enc_key /\ it.enc_block = me.enc_block
           /\ it.got = me.got
  <2>1. Mine(c)' = Mine(c)
    BY <1>9 DEF Mine
  <2> QED
    BY <1>5, <2>1, GameStill
<1>10. CASE /\ it.enc_type = me.enc_type /\ it.enc_key = me.enc_key /\ it.enc_block = me.enc_block
            /\ it.got = Append(me.got, u.data) /\ u.ret = "pkg" /\ u.op = "normal" /\ CanAsk(c)
  <2>1. ToSet(it.got) = ToSet(me.got) \cup {u.data}
    BY <1>2, <1>10, GotMore
  <2>2. AskKey(c)' = AskKey(c) /\ CanAsk(c)'
    BY <1>10 DEF AskKey, CanAsk
  <2>3. "torn" \notin marred[c] => u.data = Junk \/ u.data.enc = AskKey(c)
    <3> SUFFICES ASSUME "torn" \notin marred[c], u.data # Junk PROVE u.data.enc = AskKey(c)
      OBVIOUS
    <3>1. KeyIs(c, u.data.enc)
      BY <1>3, <1>6, <1>10 DEF KeyHeld
    <3>2. KeyIs(c, AskKey(c))
      BY <1>10 DEF GameAt
    <3> QED
      BY <3>1, <3>2 DEF KeyIs
  <2>4. KeyIs(c, AskKey(c))' <=> KeyIs(c, AskKey(c))
    BY <1>5, <2>2
  <2> HIDE DEF it
  <2> QED
    BY <1>5, <1>10, <2>1, <2>2, <2>3, <2>4 DEF GameAt, it
<1>11. CASE u.ret = "pkg" /\ u.op # "normal" /\ r = RecvConnSpecPkg(c, u) /\ it.got = me.got
  <2>1. \/ /\ it.enc_type = me.enc_type /\ it.enc_key = me.enc_key
           /\ it.enc_block = me.enc_block
        \/ /\ EncType = "none" /\ it.enc_type = "none"
           /\ it.enc_key = me.enc_key /\ it.enc_block = me.enc_block
        \/ /\ EncType = "gen" /\ u.op = "valid" /\ it.enc_type = "gen"
           /\ it.enc_key = u.data.enc /\ it.enc_block = u.data.enc
        \/ /\ EncType = "rsa" /\ it.enc_type = "rsa"
           /\ it.enc_key = "nego" /\ it.enc_block = me.enc_block
        \/ /\ u.op = "nego" /\ u.data.enc = "ok"
           /\ it.enc_type = me.enc_type /\ it.enc_key = me.enc_key
           /\ it.enc_block = me.enc_key
    BY <1>4, <1>11, SpecPkgKeys
  <2>2. /\ "torn" \notin marred[c] /\ me.got # <<>> => CanAsk(c)
        /\ me.got = <<>> => ToSet(it.got) = {}
    BY <1>11, MembersEmpty DEF GameAt
  <2> HIDE DEF it
  <2>3. CASE EncType = "none"
    <3>1. it.enc_type \in {"unknown", "none"} /\ it.enc_key = None /\ it.enc_block = None
      BY <2>1, <2>3 DEF GameAt
    <3>2. AskKey(c)' = None /\ AskKey(c) = None
      BY <2>3, <3>1 DEF GameAt, AskKey, it
    <3>3. CanAsk(c) => CanAsk(c)'
      BY <2>1, <2>3, <3>1 DEF GameAt, CanAsk, it
    <3>4. KeyIs(c, AskKey(c))'
      BY <1>5, <1>7, <2>3, <3>2 DEF KeyIs
    <3> QED
      BY <1>5, <1>11, <2>2, <2>3, <3>1, <3>2, <3>3, <3>4 DEF GameAt, it
  <2>4. CASE EncType = "gen"
    <3>1. "torn" \notin marred[c] =>
            \/ it.enc_type = "unknown" /\ it.enc_key = None /\ it.enc_block = None /\ ~CanAsk(c)
            \/ it.enc_type = "gen" /\ it.enc_key = "gen" /\ it.enc_block = "gen"
      BY <1>3, <1>11, <2>1, <2>4 DEF GameAt, CanAsk, None
    <3>2. "torn" \notin marred[c] /\ CanAsk(c) => CanAsk(c)' /\ AskKey(c)' = AskKey(c)
      BY <2>4, <3>1 DEF GameAt, AskKey, CanAsk, None, it
    <3>3. "torn" \notin marred[c] /\ CanAsk(c)' => AskKey(c)' = "gen"
      BY <3>1 DEF AskKey, CanAsk, None, it
    <3>4. "torn" \notin marred[c] /\ CanAsk(c)' => KeyIs(c, AskKey(c))'
      BY <1>5, <1>7, <2>4, <3>3 DEF KeyIs
    <3> QED
      BY <1>5, <1>11, <2>2, <2>4, <3>1, <3>2, <3>4 DEF GameAt, it
  <2>5. CASE EncType = "rsa"
    <3>1. \/ it.enc_type = "unknown" /\ it.enc_key = None /\ it.enc_block = None /\ ~CanAsk(c)
          \/ it.enc_type = "rsa" /\ it.enc_key = "nego" /\ it.enc_block \in {None, "nego"}
             /\ (CanAsk(c) => it.enc_block = "nego")
      BY <2>1, <2>5 DEF GameAt, CanAsk, None
    <3>2. CanAsk(c) => CanAsk(c)' /\ AskKey(c)' = AskKey(c)
      BY <2>5, <3>1 DEF GameAt, AskKey, CanAsk, None, it
    <3>3. "torn" \notin marred[c] /\ it.enc_block # None => cl[c].enc = "nego"
      <4> SUFFICES ASSUME "torn" \notin marred[c], it.enc_block # None PROVE cl[c].enc = "nego"
        OBVIOUS
      <4>1. CASE me.enc_block # None
        <5>1. CanAsk(c) /\ AskKey(c) = "nego"
          BY <2>5, <4>1 DEF GameAt, CanAsk, AskKey, None
        <5> QED
          BY <5>1 DEF GameAt, KeyIs
      <4>2. CASE u.op = "nego" /\ u.data.enc = "ok"
        BY <1>3, <1>11, <4>2
      <4> QED
        BY <2>1, <2>5, <4>1, <4>2
    <3>4. CanAsk(c)' => it.enc_block # None /\ AskKey(c)' = "nego"
      BY <3>1 DEF AskKey, CanAsk, None, it
    <3>5. "torn" \notin marred[c] /\ CanAsk(c)' => KeyIs(c, AskKey(c))'
      BY <1>5, <3>3, <3>4 DEF KeyIs, None
    <3> QED
      BY <1>5, <1>11, <2>2, <2>5, <3>1, <3>2, <3>5 DEF GameAt, it
  <2> QED
    BY <1>5, <2>3, <2>4, <2>5
<1> QED
  BY <1>4, <1>8, <1>9, <1>10, <1>11

LEMMA GameKept ==
  ASSUME Typed, SlotsInv, KeysInv, Next
  PROVE  GameKeys'
<1> SUFFICES ASSUME NEW c \in Conn, IsGame(c)' PROVE GameAt(c)'
  BY DEF GameKeys
<1>1. EncType' = EncType /\ IsGame(c) /\ marred[c] \subseteq marred'[c]
  BY KeyMoves, NextMars DEF IsGame
<1>2. GameAt(c) /\ \A e : KeyIs(c, e) => KeyIs(c, e)'
  BY <1>1, HeldStays DEF KeysInv, GameKeys
<1>3. CASE Mine(c)' = Mine(c)
  BY <1>1, <1>2, <1>3, GameStill
<1>4. ASSUME NEW d \in Conn, Client(d) PROVE GameAt(c)'
  <2>1. ClientMoved(d)
    BY <1>4, ClientMoves
  <2>2. CASE d # c
    BY <1>3, <2>1, <2>2 DEF ClientMoved, Mine
  <2>3. CASE d = c /\ \E n \in 1 .. Len(net[c].down) : RecvPkg(c, n)
    <3>1. UNCHANGED <<pserv, marred, cl>>
      BY <2>3 DEF RecvPkg, cliRest, servVars
    <3> QED
      BY <1>1, <1>2, <2>3, <3>1, GameReads
  <2> QED
    BY <1>3, <2>1, <2>2, <2>3 DEF ClientMoved
<1>5. ServKeys
  BY DEF KeysInv
<1> QED
  BY <1>3, <1>4, <1>5, NextMoves DEF Mine

LEMMA NextKeys ==
  ASSUME Typed, SlotsInv, KeysInv, Next
  PROVE  KeysInv'
BY ServKeysKept, WireKept, PairsKept, GameKept, ComingKept DEF KeysInv

LEMMA InitKeys == ConnNetInit => KeysInv
<1> SUFFICES ASSUME ConnNetInit PROVE KeysInv
  OBVIOUS
<1>1. PICK s \in Scenarios :
        /\ TcpInit(s.valid_conn, s.enc_type) /\ GameInit(s.method, s.asks)
        /\ main = [c \in Conn |-> [handled |-> <<>>, answers |-> s.answers[c], reported |-> 0,
                                   closes |-> s.closes[c]]]
  BY DEF ConnNetInit
<1>2. s.enc_type \in {"none", "gen", "rsa"}
  BY ScenariosOK
<1>3. EncType = s.enc_type
  BY <1>1 DEF TcpInit, EncType
<1>4. /\ Gone.enc = (IF EncType = "gen" THEN "gen" ELSE None)
      /\ Gone.recv_cache = <<>> /\ Gone.snd_cache = <<>> /\ Gone.snd_queue = <<>>
      /\ Gone.item = NoItem
  BY DEF Gone, NewClient
<1>5. ASSUME NEW c \in Conn
      PROVE  /\ cl[c] = Gone /\ net[c].up = <<>> /\ net[c].down = <<>> /\ main[c].handled = <<>>
             /\ marred[c] = {}
             /\ cli[c].enc_type = "unknown" /\ cli[c].enc_key = None /\ cli[c].enc_block = None
             /\ cli[c].got = <<>> /\ cli[c].main = "start"
  BY <1>1 DEF TcpInit, GameInit
<1>6. batch = <<>> /\ recv_queue = <<>> /\ snd_queue = <<>> /\ serv.item = NoItem
  BY <1>1 DEF TcpInit
<1>7. ToSet(<<>>) = {}
  BY MembersEmpty
<1>8. ASSUME NEW c \in Conn
      PROVE  Going(c) = {} /\ Coming(c) = {} /\ Lined(c) = {NoItem} /\ Given(c) = {} /\ Posted(c) = {}
  BY <1>4, <1>5, <1>6, <1>7, Null, NullKey DEF Going, Coming, Lined, Given, Posted
<1>9. NoItem.op # "normal" /\ NoItem.op # "valid" /\ NoItem.op # "nego"
  BY DEF NoItem, Item, None
<1>10. ServKeys
  BY <1>2, <1>3, <1>4, <1>5 DEF ServKeys, None
<1>11. ComingKeys
  BY <1>8 DEF ComingKeys
<1>12. WireKeys
  BY <1>8, <1>9 DEF WireKeys, AnswerKeyed
<1>13. WirePairs
  BY <1>4, <1>5, PairedPkg DEF WirePairs, PairsAt
<1>14. GameKeys
  <2> SUFFICES ASSUME NEW c \in Conn PROVE GameAt(c)
    BY DEF GameKeys
  <2>1. EncType = "none" => KeyIs(c, AskKey(c))
    BY <1>2, <1>3, <1>5, <1>10 DEF KeyIs, AskKey, ServKeys
  <2> QED
    BY <1>5, <1>7, <2>1 DEF GameAt, CanAsk
<1> QED
  BY <1>10, <1>11, <1>12, <1>13, <1>14 DEF KeysInv

LEMMA AlwaysKeys == Spec => [](Typed /\ SlotsInv /\ KeysInv)
<1>1. ConnNetInit => Typed /\ SlotsInv /\ KeysInv
  BY InitTyped, InitSlots, InitKeys
<1>2. Typed /\ SlotsInv /\ KeysInv /\ [Next]_vars => (Typed /\ SlotsInv /\ KeysInv)'
  <2>1. ASSUME Typed, SlotsInv, KeysInv, UNCHANGED vars PROVE (Typed /\ SlotsInv /\ KeysInv)'
    <3>1. Typed'
      BY <2>1, KeptTyped DEF vars, tcpVars, servVars, Typed
    <3>2. SlotsInv'
      BY <2>1, SlotsStay DEF vars, tcpVars, servVars
    <3>3. ServKeys'
      BY <2>1 DEF KeysInv, ServKeys, EncType, vars, tcpVars, servVars
    <3>4. ComingKeys'
      BY <2>1 DEF KeysInv, ComingKeys, KeyHeld, KeyIs, Coming, IsGame, Method, EncType, vars, tcpVars,
         servVars
    <3>5. WireKeys'
      BY <2>1 DEF KeysInv, WireKeys, KeyHeld, KeyIs, AnswerKeyed, Going, Lined, Posted, EncType, vars,
         tcpVars, servVars
    <3>6. WirePairs'
      BY <2>1 DEF KeysInv, WirePairs, PairsAt, vars, tcpVars, servVars
    <3>7. GameKeys'
      BY <2>1, GameStill DEF KeysInv, GameKeys, IsGame, Method, Mine, KeyIs, EncType, vars, tcpVars,
         servVars
    <3> QED
      BY <3>1, <3>2, <3>3, <3>4, <3>5, <3>6, <3>7 DEF KeysInv
  <2> QED
    BY <2>1, NextTyped, NextSlots, NextKeys
<1> QED
  BY <1>1, <1>2, PTL DEF Spec

-----------------------------------------------------------------------------
(* Capacities: no queue holds more than its channel. *)

Bounded ==
  /\ Len(recv_queue) <= RecvCap /\ Len(snd_queue) <= SndCap
  /\ \A c \in Conn : Len(cl[c].snd_queue) <= ClientCap

\* No queue gets longer, but where a step looked for room first.
LEMMA Shorter ==
  ASSUME NEW S, NEW q \in Seq(S)
  PROVE  /\ Len(q) \in Nat
         /\ q # <<>> => Len(Tail(q)) = Len(q) - 1
         /\ \A n \in Nat : n <= Len(q) => Len(SubSeq(q, n + 1, Len(q))) = Len(q) - n
         /\ \A x \in S : Len(Append(q, x)) = Len(q) + 1
OBVIOUS

LEMMA BoundedIs ==
  ASSUME Typed
  PROVE  /\ RecvCap \in Nat /\ SndCap \in Nat /\ ClientCap \in Nat
         /\ recv_queue \in Seq(Items) /\ snd_queue \in Seq(Items) /\ Len(recv_queue) \in Nat
         /\ \A c \in Conn : cl[c] \in ClientType /\ cl[c].snd_queue \in Seq(Items)
         /\ \A c \in Conn : Len(cl[c].snd_queue) \in Nat
<1>1. RecvCap \in Nat /\ SndCap \in Nat /\ ClientCap \in Nat
  BY TcpConstants
<1>2. /\ recv_queue \in Seq(Items) /\ snd_queue \in Seq(Items)
      /\ \A c \in Conn : cl[c] \in ClientType /\ cl[c].snd_queue \in Seq(Items)
  BY CellsTyped DEF Typed, QueuesTyped, ClientType
<1> QED
  BY <1>1, <1>2, LenIs

LEMMA CellBounded ==
  ASSUME Typed, SlotsInv, NEW c \in Conn, Run(c), Len(cl[c].snd_queue) <= ClientCap
  PROVE  Len(cl'[c].snd_queue) <= ClientCap
<1> DEFINE me == cl[c]
<1>1. /\ me \in ClientType /\ me.snd_queue \in Seq(Items) /\ ClientCap \in Nat
      /\ Len(me.snd_queue) \in Nat /\ cl \in [Conn -> ClientType]
  BY BoundedIs, CellsTyped
<1>2. CASE \E n \in 1 .. Len(net[c].up) : Read(c, n)
  <2>1. \E q : cl' = [cl EXCEPT ![c].recv_cache = q, ![c].off = 0, ![c].pc = "parse"]
    BY <1>2 DEF Read
  <2> QED
    BY <1>1, <2>1 DEF ClientType
<1>3. CASE ReadTimeout(c)
  BY <1>1, <1>3 DEF ReadTimeout, ClientType
<1>10. ASSUME NEW by, Closing(c, by) PROVE cl'[c].snd_queue = me.snd_queue
  BY <1>1, <1>10 DEF Closing, ClientType
<1>11. CASE ReadClosed(c)
  <2>1. Closing(c, FALSE)
    BY <1>11 DEF ReadClosed
  <2> QED
    BY <1>10, <2>1
<1>4. CASE Parse(c)
  BY <1>4, ParseCaches
<1>5. CASE AppendOwn(c)
  <2>1. /\ cl' = [cl EXCEPT ![c].snd_queue = Append(@, cl[c].item), ![c].item = NoItem, ![c].pc = "parse"]
        /\ Len(me.snd_queue) < ClientCap /\ me.pc = "append"
    BY <1>5 DEF AppendOwn
  <2>2. cl'[c].snd_queue = Append(me.snd_queue, me.item)
    BY <1>1, <2>1 DEF ClientType
  <2>3. me.item \in Items
    BY <2>1, CellsTyped DEF Own
  <2>4. Len(cl'[c].snd_queue) = Len(me.snd_queue) + 1
    BY <1>1, <2>2, <2>3, Shorter
  <2>5. Len(me.snd_queue) < ClientCap
    BY <2>1
  <2> QED
    BY <1>1, <2>4, <2>5
<1>6. ASSUME NEW cache \in Seq(Cells), NEW done, NEW part, Flush(c, cache, done, part),
             NEW q, done \in ClientType, part \in ClientType, done.snd_queue = q, part.snd_queue = q
      PROVE  cl'[c].snd_queue \in {q, me.snd_queue}
  <2>1. \/ cl' = [cl EXCEPT ![c] = [done EXCEPT !.snd_cache = <<>>]]
        \/ cl' = [cl EXCEPT ![c] = [part EXCEPT !.snd_cache = cache]]
        \/ Closing(c, FALSE)
    BY <1>6, FlushIs
  <2>2. CASE cl' = [cl EXCEPT ![c] = [done EXCEPT !.snd_cache = <<>>]]
    BY <1>1, <1>6, <2>2 DEF ClientType
  <2>3. CASE cl' = [cl EXCEPT ![c] = [part EXCEPT !.snd_cache = cache]]
    BY <1>1, <1>6, <2>3 DEF ClientType
  <2>4. CASE Closing(c, FALSE)
    BY <1>10, <2>4
  <2> QED
    BY <2>1, <2>2, <2>3, <2>4
<1>7. CASE SendFirst(c)
  <2> DEFINE go == [me EXCEPT !.pc = IF me.snd_queue = <<>> THEN "read" ELSE "out",
                              !.left = Len(me.snd_queue)]
             back == [me EXCEPT !.pc = "read"]
  <2>1. \/ cl' = [cl EXCEPT ![c] = go]
        \/ Flush(c, me.snd_cache, go, back)
    BY <1>7 DEF SendFirst
  <2>2. /\ go \in ClientType /\ back \in ClientType /\ me.snd_cache \in Seq(Cells)
        /\ go.snd_queue = me.snd_queue /\ back.snd_queue = me.snd_queue
    BY <1>1 DEF ClientType
  <2> HIDE DEF go, back
  <2>3. cl'[c].snd_queue = me.snd_queue
    BY <1>1, <1>6, <2>1, <2>2
  <2> QED
    BY <2>3
<1>8. CASE SendPkg(c)
  <2> DEFINE p == Head(me.snd_queue)
  <2>1. /\ me.snd_queue # <<>> /\ me.pc = "out" /\ me.left > 0 /\ p \in Items
        /\ \/ Closing(c, TRUE)
           \/ \E left \in {0, me.left - 1} : cl' = [cl EXCEPT ![c] = Kept(me, c, me.cap, left)]
           \/ \E cap \in Nat : Flush(c, Pkg(p.op, Encrypted(me, p)), Kept(me, c, cap, me.left - 1),
                                     Kept(me, c, cap, 0))
    BY <1>8, SendPkgIs
  <2>2. Own(me, c) /\ me.cap \in Nat
    BY <1>1, CellsTyped DEF ClientType
  <2>3. \A cap \in Nat, left \in {0, me.left - 1} :
          Kept(me, c, cap, left) \in ClientType /\ Kept(me, c, cap, left).snd_queue = Tail(me.snd_queue)
    BY <1>1, <2>1, <2>2, KeptIs DEF Kept, ClientType
  <2>4. CASE Closing(c, TRUE)
    BY <1>10, <2>4
  <2>5. ASSUME NEW left \in {0, me.left - 1}, cl' = [cl EXCEPT ![c] = Kept(me, c, me.cap, left)]
        PROVE  cl'[c].snd_queue = Tail(me.snd_queue)
    BY <1>1, <2>2, <2>3, <2>5
  <2>6. ASSUME NEW cap \in Nat, Flush(c, Pkg(p.op, Encrypted(me, p)), Kept(me, c, cap, me.left - 1),
                                      Kept(me, c, cap, 0))
        PROVE  cl'[c].snd_queue \in {Tail(me.snd_queue), me.snd_queue}
    <3>1. Pkg(p.op, Encrypted(me, p)) \in Seq(Cells)
      BY <1>1, <2>1, EncryptedIs, PkgIs
    <3> QED
      BY <1>6, <2>3, <2>6, <3>1
  <2>7. cl'[c].snd_queue \in {Tail(me.snd_queue), me.snd_queue} \/ Len(cl'[c].snd_queue) <= ClientCap
    BY <2>1, <2>4, <2>5, <2>6
  <2>8. Len(Tail(me.snd_queue)) = Len(me.snd_queue) - 1
    BY <1>1, <2>1, Shorter
  <2>9. Len(Tail(me.snd_queue)) <= ClientCap
    BY <1>1, <2>8
  <2> QED
    BY <2>7, <2>9
<1>9. CASE SendEnd(c)
  <2>1. \E cap, q : cl' = [cl EXCEPT ![c] = [me EXCEPT !.pc = "read", !.cap = cap, !.snd_cache = q]]
    BY <1>9 DEF SendEnd
  <2> QED
    BY <1>1, <2>1 DEF ClientType
<1> QED
  BY <1>2, <1>3, <1>4, <1>5, <1>7, <1>8, <1>9, <1>11 DEF Run

LEMMA ServBounded ==
  ASSUME Typed, SlotsInv, Bounded, TcpServer, UNCHANGED <<cli, main>>
  PROVE  Bounded'
<1>1. /\ RecvCap \in Nat /\ SndCap \in Nat /\ ClientCap \in Nat
      /\ recv_queue \in Seq(Items) /\ snd_queue \in Seq(Items) /\ cl \in [Conn -> ClientType]
      /\ Len(recv_queue) \in Nat /\ Len(snd_queue) \in Nat
  <2>1. cl \in [Conn -> ClientType]
    BY DEF Typed, ClientsTyped
  <2>2. Len(snd_queue) \in Nat
    BY BoundedIs, LenIs
  <2> QED
    BY <2>1, <2>2, BoundedIs
<1>2. ASSUME NEW c \in Conn, Accept(c) PROVE Bounded'
  <2>1. UNCHANGED <<recv_queue, snd_queue>>
    BY <1>2 DEF Accept
  <2>2. UNCHANGED cl \/ cl' = [cl EXCEPT ![c] = NewClient]
    BY <1>2 DEF Accept
  <2>3. NewClient.snd_queue = <<>> /\ Len(<<>>) = 0 /\ 0 <= ClientCap
    BY <1>1 DEF NewClient
  <2>4. \A d \in Conn : cl'[d].snd_queue \in {cl[d].snd_queue, <<>>}
    BY <1>1, <2>2, <2>3
  <2> QED
    BY <2>1, <2>3, <2>4 DEF Bounded
<1>3. CASE CloseClient
  <2>1. PICK c : cl' = [cl EXCEPT ![c].snd_cache = <<>>, ![c].recv_cache = <<>>]
    BY <1>3 DEF CloseClient
  <2>2. \A d \in Conn : cl'[d].snd_queue = cl[d].snd_queue
    BY <1>1, <2>1 DEF ClientType
  <2>3. \/ UNCHANGED recv_queue
        \/ /\ Len(recv_queue) < RecvCap
           /\ \E x \in Items : recv_queue' = Append(recv_queue, x)
    <3>1. client_list[Head(close_ch)] \in Conn
      BY <1>3, HeadWaits DEF CloseClient, SlotsInv
    <3>2. Item(client_list[Head(close_ch)], "normal", Junk, "close") \in Items
      BY <3>1, ItemIs, Null DEF Ops
    <3> QED
      BY <1>3, <3>2 DEF CloseClient
  <2>4. \A x \in Items : Len(Append(recv_queue, x)) = Len(recv_queue) + 1
    BY <1>1, Shorter
  <2>5. Len(recv_queue) < RecvCap => Len(recv_queue) + 1 <= RecvCap
    BY <1>1
  <2>6. Len(recv_queue') <= RecvCap
    BY <2>3, <2>4, <2>5 DEF Bounded
  <2> QED
    BY <1>3, <2>2, <2>6 DEF Bounded, CloseClient
<1>4. CASE Dispatch
  <2>4. snd_queue # <<>>
    BY <1>4, DispatchTyped
  <2>5. snd_queue' = Tail(snd_queue)
    BY <1>4 DEF Dispatch
  <2>1. Len(snd_queue') = Len(snd_queue) - 1
    BY <1>1, <2>4, <2>5, Shorter
  <2>2. Len(snd_queue) <= SndCap
    BY DEF Bounded
  <2>3. Len(snd_queue') <= SndCap
    BY <1>1, <2>1, <2>2
  <2> QED
    BY <1>4, <2>3 DEF Dispatch, Bounded
<1>5. CASE DispatchAppend
  <2> DEFINE c == serv.item.key
  <2>1. /\ UNCHANGED <<recv_queue, snd_queue>> /\ Len(cl[c].snd_queue) < ClientCap
        /\ cl' = [cl EXCEPT ![c].snd_queue = Append(@, serv.item)]
    BY <1>5 DEF DispatchAppend
  <2>2. c \in Conn /\ serv.item \in Items
    <3>1. serv.item \in Items
      BY <1>5 DEF DispatchAppend, Typed, ServTyped
    <3> QED
      BY <3>1 DEF Items
  <2> HIDE DEF c
  <2>3. cl[c].snd_queue \in Seq(Items) /\ Len(cl[c].snd_queue) \in Nat
    BY <2>2, BoundedIs
  <2>4. Len(Append(cl[c].snd_queue, serv.item)) = Len(cl[c].snd_queue) + 1
    BY <2>2, <2>3, Shorter
  <2>5. Len(cl[c].snd_queue) + 1 <= ClientCap
    BY <1>1, <2>1, <2>3
  <2>6. \A d \in Conn : cl'[d].snd_queue =
                         IF d = c THEN Append(cl[c].snd_queue, serv.item) ELSE cl[d].snd_queue
    BY <1>1, <2>1 DEF ClientType
  <2> QED
    BY <2>1, <2>2, <2>4, <2>5, <2>6 DEF Bounded
<1>6. CASE AcceptTimeout \/ ServerStops \/ CloseDone \/ DispatchDone
  BY <1>6 DEF AcceptTimeout, ServerStops, CloseDone, DispatchDone, Bounded
<1> QED
  BY <1>2, <1>3, <1>4, <1>5, <1>6 DEF TcpServer

LEMMA RunBounded ==
  ASSUME Typed, SlotsInv, Bounded, NEW c \in Conn, Run(c)
  PROVE  Bounded'
<1>1. \A d \in Conn : Len(cl'[d].snd_queue) <= ClientCap
  BY RunIs, CellBounded DEF Bounded
<1>2. CASE UNCHANGED recv_queue
  BY <1>1, <1>2, RunIs DEF Bounded
<1>3. CASE Parse(c) /\ recv_queue' # recv_queue
  <2>1. PICK data \in Datas : recv_queue' = Append(recv_queue, Item(c, "normal", data, "normal"))
    BY <1>3, ParseGives
  <2>2. Len(recv_queue) < RecvCap
    BY <1>3 DEF Parse
  <2>3. Item(c, "normal", data, "normal") \in Items
    BY ItemIs DEF Ops
  <2>4. Len(recv_queue') = Len(recv_queue) + 1
    BY <2>1, <2>3, BoundedIs, Shorter
  <2>5. Len(recv_queue') <= RecvCap
    BY <2>2, <2>4, BoundedIs
  <2> QED
    BY <1>1, <2>5, RunIs DEF Bounded
<1> QED
  BY <1>2, <1>3, RunIs

LEMMA SendBounded ==
  ASSUME Typed, Bounded, NEW c \in Conn, NEW data, NEW info \in {"normal", "close"},
         Send(c, data, info), Item(c, "normal", data, info) \in Items
  PROVE  Bounded'
<1>1. \/ UNCHANGED snd_queue
      \/ /\ ~(Len(snd_queue) >= SndCap)
         /\ snd_queue' = Append(snd_queue, Item(c, "normal", data, info))
  BY DEF Send
<1>2. SndCap \in Nat /\ Len(snd_queue) \in Nat /\ Len(snd_queue) <= SndCap
  BY BoundedIs, LenIs DEF Bounded
<1>3. Len(Append(snd_queue, Item(c, "normal", data, info))) = Len(snd_queue) + 1
  BY BoundedIs, Shorter
<1>4. ~(Len(snd_queue) >= SndCap) => Len(snd_queue) + 1 <= SndCap
  BY <1>2
<1>5. Len(snd_queue') <= SndCap
  BY <1>1, <1>2, <1>3, <1>4
<1> QED
  BY <1>5 DEF Send, Bounded

LEMMA NextBounded ==
  ASSUME Typed, SlotsInv, Bounded, Next
  PROVE  Bounded'
<1>1. ASSUME NEW c \in Conn, Client(c) PROVE Bounded'
  <2>1. UNCHANGED <<recv_queue, snd_queue, cl>>
    BY <1>1, Zenon DEF Client, Connect, ConnectFails, GameSend, OtherSend, GameExit, GameClosed,
       RecvPkg, cliRest, servVars
  <2> QED
    BY <2>1 DEF Bounded
<1>2. ASSUME NEW c \in Conn, SendToClient(c) PROVE Bounded'
  <2> DEFINE data == [from |-> c, id |-> -Len(main[c].answers), len |-> Head(main[c].answers),
                      enc |-> None]
  <2>1. Send(c, data, "normal")
    BY <1>2 DEF SendToClient
  <2>2. data \in Datas
    BY <1>2, SendToTyped
  <2> HIDE DEF data
  <2> QED
    BY <2>1, <2>2, ItemIs, SendBounded DEF Ops
<1>3. ASSUME NEW c \in Conn, MainCloses(c) PROVE Bounded'
  <2> DEFINE data == [Junk EXCEPT !.len = 0]
  <2>1. Send(c, data, "close")
    BY <1>3 DEF MainCloses
  <2>2. data \in Datas
    BY Null DEF Datas
  <2> HIDE DEF data
  <2> QED
    BY <2>1, <2>2, ItemIs, SendBounded DEF Ops
<1>4. CASE ReadClients
  <2>1. \E n \in Nat : n <= Len(recv_queue) /\ recv_queue' = SubSeq(recv_queue, n + 1, Len(recv_queue))
    <3>1. BatchCap \in Nat /\ Len(recv_queue) \in Nat
      BY BoundedIs, TcpConstants
    <3> DEFINE n == IF Len(recv_queue) < BatchCap THEN Len(recv_queue) ELSE BatchCap
    <3>2. n \in Nat /\ n <= Len(recv_queue)
      BY <3>1
    <3>3. recv_queue' = SubSeq(recv_queue, n + 1, Len(recv_queue))
      BY <1>4 DEF ReadClients, Recv
    <3> QED
      BY <3>2, <3>3
  <2>2. PICK n \in Nat : n <= Len(recv_queue) /\ recv_queue' = SubSeq(recv_queue, n + 1, Len(recv_queue))
    BY <2>1
  <2>3. Len(recv_queue') = Len(recv_queue) - n
    BY <2>2, BoundedIs, Shorter
  <2>4. Len(recv_queue) \in Nat /\ RecvCap \in Nat /\ Len(recv_queue) <= RecvCap
    BY BoundedIs DEF Bounded
  <2>5. Len(recv_queue') <= RecvCap
    BY <2>3, <2>4
  <2> QED
    BY <1>4, <2>5 DEF ReadClients, Recv, servVars, Bounded
<1>5. CASE HandleClientPkg \/ ServerExit
  BY <1>5 DEF HandleClientPkg, ServerExit, Close, servVars, Bounded
<1> QED
  BY <1>1, <1>2, <1>3, <1>4, <1>5, ServBounded, RunBounded DEF Next

LEMMA AlwaysBounded == Spec => [](Typed /\ SlotsInv /\ Bounded)
<1>1. ConnNetInit => Bounded
  <2> SUFFICES ASSUME NEW s \in Scenarios, TcpInit(s.valid_conn, s.enc_type) PROVE Bounded
    BY DEF ConnNetInit
  <2>1. Gone.snd_queue = <<>>
    BY DEF Gone, NewClient
  <2>2. recv_queue = <<>> /\ snd_queue = <<>> /\ \A c \in Conn : cl[c].snd_queue = <<>>
    BY <2>1 DEF TcpInit
  <2>3. Len(<<>>) = 0 /\ 0 <= RecvCap /\ 0 <= SndCap /\ 0 <= ClientCap
    BY TcpConstants
  <2> QED
    BY <2>2, <2>3 DEF Bounded
<1>2. ASSUME Typed, SlotsInv, Bounded, [Next]_vars PROVE Bounded'
  BY <1>2, NextBounded DEF Bounded, vars, tcpVars, servVars
<1> QED
  BY <1>1, <1>2, AlwaysSlots, PTL DEF Spec

LEMMA TypeIs == Typed /\ SlotsInv /\ Bounded => TypeOK
<1> SUFFICES ASSUME Typed, SlotsInv, Bounded PROVE TypeOK
  OBVIOUS
<1>1. curr_conn \in 0 .. MaxConn
  <2>1. MaxConn \in Nat /\ Slot = 1 .. MaxConn
    BY TcpConstants DEF Slot
  <2>2. IsFiniteSet(Slot) /\ Cardinality(Slot) = MaxConn
    BY <2>1, FS_Interval
  <2>3. IsFiniteSet(Used) /\ Cardinality(Used) <= Cardinality(Slot) /\ Cardinality(Used) \in Nat
    BY <2>2, FS_Subset, FS_CardinalityType DEF Used
  <2> QED
    BY <2>1, <2>2, <2>3 DEF SlotsInv, Listed
<1>2. /\ client_list \in [Slot -> Conn \cup {None}] /\ key_map \subseteq Conn
      /\ close_ch \in Seq(Slot) /\ exit_ch \in BOOLEAN
  BY DEF Typed, QueuesTyped
<1>3. serv.pc \in {"accept", "close", "dispatch", "append", "exited"}
  BY DEF Typed, ServTyped, ServType
<1>4. ASSUME NEW c \in Conn
      PROVE  /\ cl[c].stat \in {"none", "normal", "closing"}
             /\ cl[c].pc \in {"read", "parse", "append", "send", "out", "done"}
             /\ net[c].peer \in {"idle", "pending", "refused", "open", "left", "closed"}
             /\ marred[c] \subseteq {"reused", "cut", "torn", "panicked"}
  BY CellsTyped DEF Typed, MarredTyped, ClientType, PeerType
<1> QED
  BY <1>1, <1>2, <1>3, <1>4 DEF Bounded, TypeOK

\* TypeOK: the queues stay within what their channels hold, whoever looked at
\* them before and filled them since, and curr_conn within MaxConn.
THEOREM Capacities == Spec => []TypeOK
BY AlwaysBounded, TypeIs, PTL

-----------------------------------------------------------------------------
(* The package format, on bytes. *)

\* The bytes of a number.
LEMMA Bytes ==
  ASSUME NEW n \in Nat, NEW q1 \in Int, NEW q2 \in Int, NEW q3 \in Int,
         q1 = n \div 256, q2 = n \div 65536, q3 = n \div 16777216
  PROVE  /\ n % 256 = n - 256 * q1 /\ q1 % 256 = q1 - 256 * q2 /\ q2 % 256 = q2 - 256 * q3
         /\ q1 \in Nat /\ q2 \in Nat /\ q3 \in Nat
         /\ n - 256 * q1 <= 255 /\ q1 - 256 * q2 <= 255 /\ q2 - 256 * q3 <= 255
         /\ n - 256 * q1 >= 0 /\ q1 - 256 * q2 >= 0 /\ q2 - 256 * q3 >= 0
<1>1. 256 * q1 <= n /\ n < 256 * q1 + 256
  BY SMT
<1>2. 65536 * q2 <= n /\ n < 65536 * q2 + 65536
  BY SMT
<1>3. 16777216 * q3 <= n /\ n < 16777216 * q3 + 16777216
  BY SMT
<1>4. 256 * q2 <= q1 /\ q1 < 256 * q2 + 256
  BY <1>1, <1>2, SMT
<1>5. 256 * q3 <= q2 /\ q2 < 256 * q3 + 256
  BY <1>2, <1>3, SMT
<1>6. ASSUME NEW m \in Int, NEW q \in Int, 256 * q <= m, m < 256 * q + 256
      PROVE  m % 256 = m - 256 * q
  BY <1>6, SMT
<1>7. q1 >= 0 /\ q2 >= 0 /\ q3 >= 0
  BY <1>1, <1>2, <1>3, SMT
<1> QED
  BY <1>1, <1>4, <1>5, <1>6, <1>7, SMT

\* The bits of a tag.
LEMMA Tag ==
  ASSUME NEW option \in 0 .. 31, NEW k \in {1, 2, 4}
  PROVE  /\ option * 8 + k \in Byte /\ option * 8 + k \notin {0, 255}
         /\ (option * 8 + k) % 8 = k /\ (option * 8 + k) \div 8 = option
  BY SMT DEF Byte

\* The bytes pack_head writes.
LEMMA HeadIs ==
  ASSUME NEW n \in Nat, 0 < n, n < Word, NEW option \in 0 .. 31
  PROVE  LET head == HeadBytes(n, option)
         IN  /\ head \in Seq(Byte) /\ Len(head) = TAG_LEN + LenBytes(n)
             /\ LenBytes(n) \in {1, 2, 4}
             /\ head[1] = option * 8 + LenBytes(n) /\ Number(head, LenBytes(n)) = n
<1> DEFINE head == HeadBytes(n, option)
           q1 == n \div 256
           q2 == n \div 65536
           q3 == n \div 16777216
<1>1. q1 \in Int /\ q2 \in Int /\ q3 \in Int /\ n \in Nat
  BY SMT
<1>2. /\ n % 256 = n - 256 * q1 /\ q1 % 256 = q1 - 256 * q2 /\ q2 % 256 = q2 - 256 * q3
      /\ q1 \in Nat /\ q2 \in Nat /\ q3 \in Nat
      /\ n - 256 * q1 <= 255 /\ q1 - 256 * q2 <= 255 /\ q2 - 256 * q3 <= 255
      /\ n - 256 * q1 >= 0 /\ q1 - 256 * q2 >= 0 /\ q2 - 256 * q3 >= 0
  BY <1>1, Bytes
<1>3. \A k \in {1, 2, 4} : option * 8 + k \in Byte
  BY Tag
<1>4. CASE n <= 255
  <2>1. LenBytes(n) = 1 /\ head = <<option * 8 + 1, n>>
    BY <1>4, SMT DEF LenBytes, HeadBytes
  <2>2. n \in Byte /\ option * 8 + 1 \in Byte
    BY <1>3, <1>4, SMT DEF Byte
  <2>3. head \in Seq(Byte) /\ Len(head) = 2 /\ head[1] = option * 8 + 1 /\ head[2] = n
    BY <2>1, <2>2, SMT
  <2> QED
    BY <2>1, <2>3, SMT DEF Number, TAG_LEN
<1>5. CASE 255 < n /\ n <= 65535
  <2>1. LenBytes(n) = 2 /\ head = <<option * 8 + 2, q1, n % 256>>
    BY <1>5, SMT DEF LenBytes, HeadBytes
  <2>2. q1 \in Byte /\ n % 256 \in Byte /\ option * 8 + 2 \in Byte
    BY <1>2, <1>3, <1>5, SMT DEF Byte
  <2>3. /\ head \in Seq(Byte) /\ Len(head) = 3 /\ head[1] = option * 8 + 2
        /\ head[2] = q1 /\ head[3] = n % 256
    BY <2>1, <2>2, SMT
  <2>4. head[2] * 256 + head[3] = n
    BY <1>2, <2>3, SMT
  <2> QED
    BY <2>1, <2>3, <2>4, SMT DEF Number, TAG_LEN
<1>6. CASE n > 65535
  <2>1. LenBytes(n) = 4 /\ head = <<option * 8 + 4, q3, q2 % 256, q1 % 256, n % 256>>
    BY <1>6, SMT DEF LenBytes, HeadBytes
  <2>2. q3 <= 255
    BY <1>2, SMT DEF Word
  <2>3. /\ q3 \in Byte /\ q2 % 256 \in Byte /\ q1 % 256 \in Byte /\ n % 256 \in Byte
        /\ option * 8 + 4 \in Byte
    BY <1>2, <1>3, <2>2, SMT DEF Byte
  <2>4. /\ head \in Seq(Byte) /\ Len(head) = 5 /\ head[1] = option * 8 + 4
        /\ head[2] = q3 /\ head[3] = q2 % 256 /\ head[4] = q1 % 256 /\ head[5] = n % 256
    BY <2>1, <2>3, SMT
  <2>5. head[2] * 16777216 + head[3] * 65536 + head[4] * 256 + head[5] = n
    BY <1>2, <2>4, SMT
  <2> QED
    BY <2>1, <2>4, <2>5, SMT DEF Number, TAG_LEN
<1> QED
  BY <1>1, <1>4, <1>5, <1>6, SMT

\* A buffer in two parts, and in three.
LEMMA Join ==
  ASSUME NEW a \in Seq(Byte), NEW b \in Seq(Byte)
  PROVE  /\ a \o b \in Seq(Byte) /\ Len(a \o b) = Len(a) + Len(b)
         /\ \A i \in 1 .. Len(a) + Len(b) :
              (a \o b)[i] = IF i <= Len(a) THEN a[i] ELSE b[i - Len(a)]
BY ConcatProperties
LEMMA Parts ==
  ASSUME NEW head \in Seq(Byte), NEW data \in Seq(Byte), NEW rest \in Seq(Byte)
  PROVE  LET raw == (head \o data) \o rest
         IN  /\ raw \in Seq(Byte) /\ Len(raw) = Len(head) + Len(data) + Len(rest)
             /\ \A i \in 1 .. Len(head) : raw[i] = head[i]
             /\ SubSeq(raw, Len(head) + 1, Len(head) + Len(data)) = data
<1> DEFINE h == Len(head)
           n == Len(data)
           raw == (head \o data) \o rest
           sub == SubSeq(raw, h + 1, h + n)
<1>1. h \in Nat /\ n \in Nat /\ Len(rest) \in Nat
  BY SMT
<1>2. PICK front \in Seq(Byte) :
        /\ raw = front \o rest /\ Len(front) = h + n
        /\ \A i \in 1 .. h + n : front[i] = IF i <= h THEN head[i] ELSE data[i - h]
  BY Join
<1>3. /\ front \o rest \in Seq(Byte) /\ Len(front \o rest) = Len(front) + Len(rest)
      /\ \A i \in 1 .. Len(front) + Len(rest) :
           (front \o rest)[i] = IF i <= Len(front) THEN front[i] ELSE rest[i - Len(front)]
  BY Join
<1> HIDE DEF raw, h, n
<1>4. /\ raw \in Seq(Byte) /\ Len(raw) = (h + n) + Len(rest)
      /\ \A i \in 1 .. (h + n) + Len(rest) :
           raw[i] = IF i <= h + n THEN front[i] ELSE rest[i - (h + n)]
  BY <1>2, <1>3
<1>5. \A i \in 1 .. h + n : raw[i] = front[i]
  BY <1>1, <1>4, SMT
<1>6. \A i \in 1 .. h : raw[i] = head[i]
  BY <1>1, <1>2, <1>5, SMT
<1>7. \A i \in h + 1 .. h + n : raw[i] = data[i - h] /\ i - h \in 1 .. n
  BY <1>1, <1>2, <1>5, SMT
<1>8. \A i \in h + 1 .. h + n : raw[i] \in Byte
  <2>1. \A j \in 1 .. n : data[j] \in Byte
    BY ElementOfSeq DEF n
  <2> QED
    BY <1>7, <2>1
<1>9. /\ sub \in Seq(Byte)
      /\ Len(sub) = IF h + 1 <= h + n THEN (h + n) - (h + 1) + 1 ELSE 0
      /\ \A i \in 1 .. (h + n) - (h + 1) + 1 : sub[i] = raw[h + 1 + i - 1]
  <2>1. h + 1 \in Int /\ h + n \in Int
    BY <1>1, SMT
  <2> QED
    BY <1>8, <2>1, SubSeqProperties
<1> HIDE DEF sub
<1>10. Len(sub) = n /\ \A i \in 1 .. n : sub[i] = data[i]
  BY <1>1, <1>7, <1>9, SMT
<1>11. sub = data
  BY <1>9, <1>10, SeqEqual DEF n
<1>12. Len(raw) = h + n + Len(rest)
  BY <1>4
<1> QED
  BY <1>4, <1>6, <1>11, <1>12 DEF raw, h, n, sub

\* A head is read from a buffer that starts with it.
LEMMA Unpacked ==
  ASSUME NEW raw \in Seq(Byte), NEW k \in {1, 2, 4}, NEW option \in 0 .. 31,
         Len(raw) >= TAG_LEN + k, raw[1] = option * 8 + k
  PROVE  unpack_head(raw) = TAG_LEN + k
<1>1. raw[1] % 8 = k
  <2>1. (option * 8 + k) % 8 = k
    BY SMT
  <2> QED
    BY <2>1
<1>2. Len(raw) >= TAG_LEN
  BY SMT DEF TAG_LEN
<1> QED
  BY <1>1, <1>2, SMT DEF unpack_head, TAG_LEN
LEMMA SameNumber ==
  ASSUME NEW a, NEW b, NEW k \in {1, 2, 4}, \A i \in 1 .. TAG_LEN + k : a[i] = b[i]
  PROVE  Number(a, k) = Number(b, k)
BY SMT DEF Number, TAG_LEN

\* What PackPkg made, once it made something.
LEMMA Packed ==
  ASSUME NEW data \in Seq(Byte), NEW option \in Byte, NEW room \in Nat, Len(data) < Word,
         PackPkg(room, data, option).ret > 0
  PROVE  LET n == Len(data)
             head == HeadBytes(n, option)
         IN  /\ n \in Nat /\ 0 < n /\ n < Word /\ option \in 0 .. 31
             /\ PackPkg(room, data, option) = [ret |-> Len(head) + n, pkg |-> head \o data]
<1> DEFINE n == Len(data)
           head == pack_head(room, n, option)
           p == PackPkg(room, data, option)
<1>1. n \in Nat /\ n % Word = n
  BY SMT DEF Word
<1>2. p = IF head = <<>> THEN [ret |-> -1, pkg |-> <<>>]
          ELSE IF room < Len(head) + n THEN [ret |-> -2, pkg |-> <<>>]
          ELSE [ret |-> Len(head) + n, pkg |-> head \o data]
  BY <1>1 DEF PackPkg
<1>3. head # <<>> /\ p = [ret |-> Len(head) + n, pkg |-> head \o data]
  BY <1>2, SMT
<1>4. n # 0 /\ ~(option >= PKG_OP_MAX) /\ head = HeadBytes(n, option)
  BY <1>3 DEF pack_head
<1>5. n \in Nat /\ 0 < n /\ n < Word /\ option \in 0 .. 31
  BY <1>1, <1>4, SMT DEF Byte, PKG_OP_MAX, Word
<1> QED
  BY <1>3, <1>4, <1>5

\* UnPackPkg of a stream that starts with a package PackPkg made: its tag,
\* its data and its length, whatever comes behind it (flush_recv_cache goes on
\* from there).
THEOREM RoundTrip ==
  ASSUME NEW data \in Seq(Byte), NEW option \in Byte, NEW room \in Nat, NEW rest \in Seq(Byte),
         Len(data) < Word, PackPkg(room, data, option).ret > 0
  PROVE  LET p == PackPkg(room, data, option)
             u == UnPackPkg(p.pkg \o rest)
         IN  /\ u.data = data /\ u.len = p.ret
             /\ PkgOption(u.tag) = option /\ u.tag \notin {0, 255}
<1> DEFINE p == PackPkg(room, data, option)
           raw == p.pkg \o rest
           u == UnPackPkg(raw)
<1>1. PICK n \in Nat, k \in {1, 2, 4}, head \in Seq(Byte) :
        /\ n = Len(data) /\ option \in 0 .. 31 /\ Len(head) = TAG_LEN + k
        /\ head[1] = option * 8 + k /\ Number(head, k) = n
        /\ p = [ret |-> TAG_LEN + k + n, pkg |-> head \o data]
  <2> DEFINE n == Len(data)
  <2>1. /\ n \in Nat /\ 0 < n /\ n < Word /\ option \in 0 .. 31
        /\ p = [ret |-> Len(HeadBytes(n, option)) + n, pkg |-> HeadBytes(n, option) \o data]
    BY Packed
  <2> QED
    BY <2>1, HeadIs
<1>2. TAG_LEN + k \in Nat /\ TAG_LEN + k >= 1
  BY SMT DEF TAG_LEN
<1>3. /\ raw \in Seq(Byte) /\ Len(raw) = (TAG_LEN + k) + n + Len(rest)
      /\ \A i \in 1 .. TAG_LEN + k : raw[i] = head[i]
      /\ SubSeq(raw, (TAG_LEN + k) + 1, (TAG_LEN + k) + n) = data
  <2>1. raw = (head \o data) \o rest
    BY <1>1
  <2>2. /\ (head \o data) \o rest \in Seq(Byte)
        /\ Len((head \o data) \o rest) = Len(head) + Len(data) + Len(rest)
        /\ \A i \in 1 .. Len(head) : ((head \o data) \o rest)[i] = head[i]
        /\ SubSeq((head \o data) \o rest, Len(head) + 1, Len(head) + Len(data)) = data
    BY Parts
  <2> HIDE DEF raw, p
  <2> QED
    BY <1>1, <2>1, <2>2
<1>4. Len(rest) \in Nat
  BY SMT
<1> HIDE DEF raw
<1>5. raw[1] = option * 8 + k /\ Len(raw) >= TAG_LEN + k
  BY <1>1, <1>2, <1>3, <1>4, SMT
<1>6. unpack_head(raw) = TAG_LEN + k /\ Number(raw, k) = n
  BY <1>1, <1>3, <1>5, Unpacked, SameNumber
<1>7. (TAG_LEN + k) - TAG_LEN = k /\ ~(TAG_LEN + k < 0) /\ TAG_LEN + k # 0
      /\ ~(Len(raw) < (TAG_LEN + k) + n)
  BY <1>3, <1>4, SMT DEF TAG_LEN
<1>8. u = [tag |-> raw[1], data |-> SubSeq(raw, (TAG_LEN + k) + 1, (TAG_LEN + k) + n),
           len |-> (TAG_LEN + k) + n]
  BY <1>6, <1>7 DEF UnPackPkg
<1>9. PkgOption(raw[1]) = option /\ raw[1] \notin {0, 255}
  <2>1. (option * 8 + k) \div 8 = option /\ option * 8 + k \notin {0, 255}
    BY <1>1, SMT
  <2> QED
    BY <1>5, <2>1 DEF PkgOption
<1>10. u.tag = raw[1] /\ u.data = data /\ u.len = p.ret
  <2>1. p.ret = (TAG_LEN + k) + n
    BY <1>1
  <2> HIDE DEF u, p
  <2> QED
    BY <1>3, <1>8, <2>1
<1>11. /\ u.data = data /\ u.len = p.ret
       /\ PkgOption(u.tag) = option /\ u.tag \notin {0, 255}
  BY <1>9, <1>10
<1> QED
  BY <1>11 DEF raw

\* No proper prefix of a package is taken for a package or for an error: a
\* read that ends inside it leaves a cache that is "not ready".
THEOREM Prefix ==
  ASSUME NEW data \in Seq(Byte), NEW option \in Byte, NEW room \in Nat,
         Len(data) < Word, PackPkg(room, data, option).ret > 0,
         NEW m \in 0 .. PackPkg(room, data, option).ret - 1
  PROVE  UnPackPkg(SubSeq(PackPkg(room, data, option).pkg, 1, m)).tag = 0
<1> DEFINE p == PackPkg(room, data, option)
           raw == SubSeq(p.pkg, 1, m)
<1>1. PICK n \in Nat, k \in {1, 2, 4}, head \in Seq(Byte) :
        /\ n = Len(data) /\ option \in 0 .. 31 /\ Len(head) = TAG_LEN + k
        /\ head[1] = option * 8 + k /\ Number(head, k) = n
        /\ p = [ret |-> TAG_LEN + k + n, pkg |-> head \o data]
  <2> DEFINE n == Len(data)
  <2>1. /\ n \in Nat /\ 0 < n /\ n < Word /\ option \in 0 .. 31
        /\ p = [ret |-> Len(HeadBytes(n, option)) + n, pkg |-> HeadBytes(n, option) \o data]
    BY Packed
  <2> QED
    BY <2>1, HeadIs
<1>2. m \in 0 .. TAG_LEN + k + n - 1
  BY <1>1
<1>3. /\ \A i \in 1 .. TAG_LEN + k : p.pkg[i] = head[i]
      /\ \A i \in 1 .. m : p.pkg[i] \in Byte
  <2>1. /\ p.pkg \in Seq(Byte) /\ Len(p.pkg) = (TAG_LEN + k) + n
        /\ \A i \in 1 .. (TAG_LEN + k) + n :
             p.pkg[i] = IF i <= TAG_LEN + k THEN head[i] ELSE data[i - (TAG_LEN + k)]
    <3>1. p.pkg = head \o data
      BY <1>1
    <3>2. /\ head \o data \in Seq(Byte) /\ Len(head \o data) = Len(head) + Len(data)
          /\ \A i \in 1 .. Len(head) + Len(data) :
               (head \o data)[i] = IF i <= Len(head) THEN head[i] ELSE data[i - Len(head)]
      BY ConcatProperties
    <3> HIDE DEF p
    <3> QED
      BY <1>1, <3>1, <3>2
  <2> DEFINE pkg == p.pkg
  <2> HIDE DEF pkg
  <2>2. pkg \in Seq(Byte) /\ Len(pkg) = (TAG_LEN + k) + n
        /\ \A i \in 1 .. (TAG_LEN + k) + n :
             pkg[i] = IF i <= TAG_LEN + k THEN head[i] ELSE data[i - (TAG_LEN + k)]
    BY <2>1 DEF pkg
  <2>3. \A i \in 1 .. TAG_LEN + k : pkg[i] = head[i]
    BY <2>2, SMT DEF TAG_LEN
  <2>4. \A i \in 1 .. m : pkg[i] \in Byte
    <3>1. \A i \in 1 .. m : i \in 1 .. Len(pkg)
      BY <1>2, <2>2, SMT DEF TAG_LEN
    <3> QED
      BY <2>2, <3>1, ElementOfSeq
  <2> QED
    BY <2>3, <2>4 DEF pkg
<1>4. /\ raw \in Seq(Byte) /\ Len(raw) = IF 1 <= m THEN m - 1 + 1 ELSE 0
      /\ \A i \in 1 .. m - 1 + 1 : raw[i] = p.pkg[1 + i - 1]
  <2>1. 1 \in Int /\ m \in Int
    BY <1>2, SMT DEF TAG_LEN
  <2> QED
    BY <1>3, <2>1, SubSeqProperties
<1> HIDE DEF p, raw
<1>5. Len(raw) = m /\ \A i \in 1 .. m : raw[i] = p.pkg[i]
  <2>1. m \in Nat
    BY <1>2, SMT DEF TAG_LEN
  <2>2. (IF 1 <= m THEN m - 1 + 1 ELSE 0) = m /\ m - 1 + 1 = m
        /\ \A i \in 1 .. m : 1 + i - 1 = i
    BY <2>1, SMT
  <2>3. \A i \in 1 .. m : raw[i] = p.pkg[1 + i - 1]
    BY <1>4, <2>2
  <2> QED
    BY <1>4, <2>2, <2>3
<1>6. CASE m < TAG_LEN + k
  <2>1. m >= 1 => raw[1] = option * 8 + k
    BY <1>1, <1>2, <1>3, <1>5, SMT DEF TAG_LEN
  <2>2. m >= 1 => raw[1] % 8 = k
    <3>1. option \in 0 .. 31
      BY <1>1
    <3>2. (option * 8 + k) % 8 = k
      BY <3>1, SMT
    <3> QED
      BY <2>1, <3>2
  <2>3. unpack_head(raw) = 0
    BY <1>2, <1>5, <1>6, <2>2, SMT DEF unpack_head, TAG_LEN
  <2> QED
    BY <2>3, SMT DEF UnPackPkg, raw, p
<1>7. CASE m >= TAG_LEN + k
  <2>1. \A i \in 1 .. TAG_LEN + k : raw[i] = head[i]
    BY <1>2, <1>3, <1>5, <1>7, SMT DEF TAG_LEN
  <2>2. raw[1] = option * 8 + k /\ Len(raw) >= TAG_LEN + k
    BY <1>1, <1>5, <1>7, <2>1, SMT DEF TAG_LEN
  <2>3. unpack_head(raw) = TAG_LEN + k /\ Number(raw, k) = n
    BY <1>1, <1>4, <2>1, <2>2, Unpacked, SameNumber
  <2>4. /\ (TAG_LEN + k) - TAG_LEN = k /\ ~(TAG_LEN + k < 0) /\ TAG_LEN + k # 0
        /\ Len(raw) < (TAG_LEN + k) + n
    BY <1>2, <1>5, SMT DEF TAG_LEN
  <2> QED
    BY <2>3, <2>4 DEF UnPackPkg, raw, p
<1> QED
  BY <1>2, <1>6, <1>7, SMT DEF TAG_LEN

\* GetPkgLen is what a buffer needs: PackPkg into one of that many bytes
\* makes a package of exactly this length.
THEOREM Predicted ==
  ASSUME NEW data \in Seq(Byte), NEW option \in 0 .. 31, NEW room \in Nat,
         0 < Len(data), Len(data) < INT_MAX, room >= GetPkgLen(Len(data))
  PROVE  PackPkg(room, data, option).ret = GetPkgLen(Len(data))
<1> DEFINE n == Len(data)
           k == LenBytes(n)
           head == HeadBytes(n, option)
<1>1. n \in Nat /\ 0 < n /\ n < Word /\ n % Word = n
  BY SMT DEF Word, INT_MAX
<1>2. head \in Seq(Byte) /\ Len(head) = TAG_LEN + k /\ k \in {1, 2, 4}
  BY <1>1, HeadIs
<1>3. GetPkgLen(n) = TAG_LEN + k + n
  BY <1>1, <1>2, SMT DEF GetPkgLen, INT_MAX, TAG_LEN
<1>4. pack_head(room, n, option) = head
  BY <1>1, <1>2, <1>3, SMT DEF pack_head, PKG_OP_MAX, TAG_LEN
<1>5. head # <<>> /\ ~(room < Len(head) + n)
  BY <1>1, <1>2, <1>3, SMT DEF TAG_LEN
<1> QED
  BY <1>1, <1>2, <1>3, <1>4, <1>5, SMT DEF PackPkg
=============================================================================
