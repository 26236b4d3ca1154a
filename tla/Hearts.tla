------------------------------- MODULE Hearts -------------------------------
(***************************************************************************)
(* What the servers' main loops share: the proc_bridge channels between    *)
(* them, the ticker pools, the heartbeats and PeerStats, by which          *)
(* logic_serv chooses the disp_serv of a kick.                             *)
(*                                                                         *)
(* A pass of a main loop takes what the channels hold (RecvMsg), then      *)
(* calls TickPool.Tick.  A channel is shared memory: what is in it outlives*)
(* both processes.  The clock counts seconds; a loop passes many times a   *)
(* second, so no second ends before each server that runs has passed.      *)
(***************************************************************************)
EXTENDS Ticker, Select, Sequences, FiniteSets

CONSTANTS
  Conn, Db,        \* the conn_serv and the db_serv, with their logic_serv
  Logic,           \*
  Disps,           \* disp_serv_list, a sequence
  Peer,            \* the logic_serv of another group, to which kicks go
  HeartPeriod,     \* PERIOD_HEART_BEAT_DEFAULT
  RedisPeriod,     \* period of heart2redis
  InitAfter,       \* init_redis_after
  ChanCap,         \* messages a channel holds
  StartTs, MaxTime \* first second of a behaviour, bound of the last

Life == HeartPeriod              \* life_time of each SelectProperServ call
DispSet == {Disps[i] : i \in 1 .. Len(Disps)}
Proc == {Conn, Db, Logic} \cup DispSet

ASSUME HeartsAssumption ==
  /\ Conn # Db /\ Logic \notin {Conn, Db} /\ DispSet \cap {Conn, Db, Logic} = {}
  /\ Peer \notin Proc /\ NoServ \notin Proc /\ Disps \in Seq(DispSet)
  /\ InitAfter \in Nat /\ {HeartPeriod, RedisPeriod, ChanCap, StartTs, MaxTime, MaxExpire}
       \subseteq Nat \ {0}
  /\ StartTs > Life              \* no heartbeat at all is an expired one
  /\ MaxTime + HeartPeriod + RedisPeriod + InitAfter < MaxExpire

VARIABLES
  now,       \* time.Now().Unix()
  runs,      \* the servers that run
  passed,    \* those whose loop has ticked in this second
  pool,      \* [Proc -> TickPool]
  stats,     \* [Proc -> [Proc -> Nat]]: PeerStats
  chan,      \* [Proc \X (Proc \cup {Peer}) -> Seq]: bridge channels, from and to
  downAt,    \* [Proc -> Nat]: history, when a server stopped last
  spilt      \* history: something but a heartbeat was sent into a full channel

heartVars == <<now, runs, passed, pool, stats, chan, downAt, spilt>>

Heart(ts) == [type |-> "HEART_BEAT_REQ", ts |-> ts]
Kick(uid) == [type |-> "KICK_DUPLICATE_USER", uid |-> uid, spec |-> Peer]

-----------------------------------------------------------------------------
(* Channels: SendToServ, which loses what a full ring refuses *)

Full(ch, p, q) == Len(ch[p, q]) = ChanCap
SendToServ(ch, p, q, m) == IF Full(ch, p, q) THEN ch ELSE [ch EXCEPT ![<<p, q>>] = Append(@, m)]
Recved(ch, p, q) == [ch EXCEPT ![<<p, q>>] = Tail(@)]
Got(p, q, type) == p \in runs /\ chan[q, p] # <<>> /\ Head(chan[q, p]).type = type

-----------------------------------------------------------------------------
(* LocalSet: the tickers of a server that starts now *)

Tickers(p) ==
  LET heart == AddTicker(NewTickPool, now, "heart_beat", "CIRCLE", 0, HeartPeriod)
      init == AddTicker(heart, now, "init_redis", "SINGLE", now + InitAfter, 0)
  IN  IF p = Db THEN AddTicker(init, now, "heart2redis", "CIRCLE", 0, RedisPeriod) ELSE heart

NoStats == [q \in Proc |-> 0]

HeartsInit(started) ==
  /\ now = StartTs /\ runs = started /\ passed = {} /\ spilt = FALSE
  /\ pool = [p \in Proc |-> IF p \in started THEN Tickers(p) ELSE NewTickPool]
  /\ stats = [p \in Proc |-> NoStats]
  /\ chan = [e \in Proc \X (Proc \cup {Peer}) |-> <<>>]
  /\ downAt = [p \in Proc |-> 0]

StartServer(p) ==
  /\ p \notin runs
  /\ runs' = runs \cup {p}
  /\ pool' = [pool EXCEPT ![p] = Tickers(p)]
  /\ stats' = [stats EXCEPT ![p] = NoStats]
  /\ UNCHANGED <<now, passed, chan, downAt, spilt>>

\* A crash, or ServerExit.
StopServer(p) ==
  /\ p \in runs
  /\ runs' = runs \ {p}
  /\ downAt' = [downAt EXCEPT ![p] = now]
  /\ passed' = passed \ {p}
  /\ pool' = [pool EXCEPT ![p] = NewTickPool]

-----------------------------------------------------------------------------
(* Heartbeats *)

\* To whom SendHeartBeatMsg sends: lib/hearbeat.go of each server.
HeartTargets(p) ==
  CASE p = Conn -> {Logic}
    [] p = Db -> {Logic}
    [] p = Logic -> {Conn, Db} \cup DispSet
    [] p \in DispSet -> {Logic, Peer}

SendHeartBeatMsg(p) ==
  chan' = [e \in DOMAIN chan |->
             IF e[1] = p /\ e[2] \in HeartTargets(p) \ {Peer}
             THEN SendToServ(chan, p, e[2], Heart(now))[e] ELSE chan[e]]

\* The time of a heartbeat is its sender's, not that of its arrival.
HeardNow(m) == now
HeardAt(m) == m.ts
RecvHeartBeatReq(p, q) ==
  /\ Got(p, q, "HEART_BEAT_REQ")
  /\ stats' = [stats EXCEPT ![p][q] = HeardAt(Head(chan[q, p]))]
  /\ chan' = Recved(chan, q, p)
  /\ UNCHANGED <<now, runs, passed, pool, downAt, spilt>>

\* handle_tick, once RecvMsg has left the channels of p empty.
Drained(p) == \A q \in Proc : chan[q, p] = <<>>
Beats(p) == \E t \in Fired(pool[p], now) : t.name = "heart_beat"
handle_tick(p) ==
  /\ p \in runs \ passed /\ Drained(p)
  /\ pool' = [pool EXCEPT ![p] = Tick(pool[p], now)]
  /\ passed' = passed \cup {p}
  /\ IF Beats(p) THEN SendHeartBeatMsg(p) ELSE UNCHANGED chan
  /\ UNCHANGED <<now, runs, stats, downAt, spilt>>

Second(until) ==
  /\ now < until /\ runs \subseteq passed
  /\ now' = now + 1 /\ passed' = {}
  /\ UNCHANGED <<runs, pool, stats, chan, downAt, spilt>>

-----------------------------------------------------------------------------
(* Kicks: SendDupUserKick and SendToDisp, by the user's hash or any disp *)

DispOf(uid) ==
  LET hash == SelectProperServ("HASH", uid, Disps, stats[Logic], Life, now)
  IN  IF hash # {NoServ} THEN hash
      ELSE SelectProperServ("RAND", 0, Disps, stats[Logic], Life, now)

SendDupUserKick(uid) ==
  /\ Logic \in runs
  /\ \E s \in DispOf(uid) :
       IF s = NoServ THEN UNCHANGED <<chan, spilt>>
       ELSE /\ chan' = SendToServ(chan, Logic, s, Kick(uid))
            /\ spilt' = (spilt \/ Full(chan, Logic, s))
  /\ UNCHANGED <<now, runs, passed, pool, stats, downAt>>

\* disp_serv: method SPEC, to the server the message names.
RecvDispMsg(s) ==
  /\ Got(s, Logic, "KICK_DUPLICATE_USER")
  /\ LET m == Head(chan[Logic, s]) IN
       /\ chan' = SendToServ(Recved(chan, Logic, s), s, m.spec, m)
       /\ spilt' = (spilt \/ Full(chan, s, m.spec))
  /\ UNCHANGED <<now, runs, passed, pool, stats, downAt>>
=============================================================================
