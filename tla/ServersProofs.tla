--------------------------- MODULE ServersProofs ---------------------------
(***************************************************************************)
(* Proofs about Servers, for any numbers of requests, names, disp_servs    *)
(* and redis clients, any periods and any scenarios.                       *)
(***************************************************************************)
EXTENDS Servers, WellFoundedInduction, TLAPS

-----------------------------------------------------------------------------
(* Types *)

Edge == Proc \X (Proc \cup {Peer})
Message ==
  [type : {"HEART_BEAT_REQ"}, ts : Nat] \cup [type : {"REG_REQ"}, req : Req]
    \cup [type : {"KICK_DUPLICATE_USER"}, uid : Nat, spec : {Peer}]
    \cup [type : {"REG_RSP"}, req : Req, result : Result]
TickerType == [name : {"heart_beat", "init_redis", "heart2redis"},
               ctype : {"SINGLE", "CIRCLE"}, period : Nat, expire : Nat]
PoolType == [tickers : SUBSET TickerType, latest : Nat]
Status == {"wait", "ok", "err", "exists"}
CmdType ==
  [op : {"HSETNX_name", "INCRBY_uid", "HMSET_name", "HMSET_user"}, req : Req, uid : Nat,
   st : Status]
    \cup [op : {"SETNX_uid"}, req : {NoReq}, uid : Nat, st : Status]
NameType == [first : Req \cup {NoReq}, uid : Nat, by : Req \cup {NoReq}]

ClockTypes ==
  /\ now \in Nat \ {0} /\ runs \subseteq Proc /\ passed \subseteq runs
  /\ pool \in [Proc -> PoolType]
StatTypes == stats \in [Proc -> [Proc -> Nat]] /\ downAt \in [Proc -> Nat]
ChanTypes == chan \in [Edge -> Seq(Message)]
RegTypes ==
  /\ nameOf \in [Req -> Name] /\ answer \in [Req -> Result \cup {"none"}]
  /\ cmds \subseteq CmdType /\ names \in [Name -> NameType]
  /\ users \subseteq [uid : Nat, by : Req] /\ counter \in Nat \cup {Unset}
  /\ conns \in [1 .. Clients -> Nat] /\ faults \in [left : Nat, seen : BOOLEAN]
  /\ early \in BOOLEAN
TodoTypes ==
  todo \in [kicks : SUBSET Nat, asks : SUBSET Req, stops : SUBSET Proc, left : Nat, until : Nat]

Types == ClockTypes /\ StatTypes /\ ChanTypes /\ RegTypes /\ TodoTypes

\* The messages in a channel.
In(ch, e) == {ch[e][i] : i \in 1 .. Len(ch[e])}

-----------------------------------------------------------------------------
(* Channels *)

LEMMA EdgeOf == \A p \in Proc, q \in Proc \cup {Peer} : <<p, q>> \in Edge
BY DEF Edge

LEMMA Roles == {Conn, Db, Logic} \subseteq Proc /\ DispSet \subseteq Proc
BY DEF Proc

LEMMA InAppend ==
  ASSUME NEW S, NEW s \in Seq(S), NEW m \in S
  PROVE  /\ Append(s, m) \in Seq(S)
         /\ {Append(s, m)[i] : i \in 1 .. Len(Append(s, m))} \subseteq {s[i] : i \in 1 .. Len(s)} \cup {m}
OBVIOUS

LEMMA InTail ==
  ASSUME NEW S, NEW s \in Seq(S), s # <<>>
  PROVE  /\ Tail(s) \in Seq(S) /\ Head(s) \in S /\ Head(s) \in {s[i] : i \in 1 .. Len(s)}
         /\ {Tail(s)[i] : i \in 1 .. Len(Tail(s))} \subseteq {s[i] : i \in 1 .. Len(s)}
OBVIOUS

\* SendToServ puts m into one channel, or nothing.
LEMMA SendSound ==
  ASSUME NEW ch \in [Edge -> Seq(Message)], NEW p \in Proc, NEW q \in Proc \cup {Peer},
         NEW m \in Message
  PROVE  /\ SendToServ(ch, p, q, m) \in [Edge -> Seq(Message)]
         /\ \A e \in Edge : In(SendToServ(ch, p, q, m), e) \subseteq
                              In(ch, e) \cup (IF e = <<p, q>> THEN {m} ELSE {})
<1>1. <<p, q>> \in Edge /\ ch[p, q] \in Seq(Message)  BY EdgeOf
<1>2. CASE Full(ch, p, q)  BY <1>2 DEF SendToServ
<1>3. CASE ~Full(ch, p, q)
  <2>1. SendToServ(ch, p, q, m) = [ch EXCEPT ![<<p, q>>] = Append(ch[p, q], m)]
    BY <1>3 DEF SendToServ
  <2>2. Append(ch[p, q], m) \in Seq(Message)  BY <1>1, InAppend
  <2>3. ASSUME NEW e \in Edge
        PROVE  In(SendToServ(ch, p, q, m), e) \subseteq
                 In(ch, e) \cup (IF e = <<p, q>> THEN {m} ELSE {})
    <3>1. CASE e = <<p, q>>
      <4>1. SendToServ(ch, p, q, m)[e] = Append(ch[e], m)  BY <2>1, <1>1, <3>1
      <4>2. ch[e] \in Seq(Message)  BY <1>1, <3>1
      <4>3. {Append(ch[e], m)[i] : i \in 1 .. Len(Append(ch[e], m))} \subseteq In(ch, e) \cup {m}
        BY <4>2, InAppend DEF In
      <4> QED BY <4>1, <4>3, <3>1 DEF In
    <3>2. CASE e # <<p, q>>
      <4>1. SendToServ(ch, p, q, m)[e] = ch[e]  BY <2>1, <1>1, <3>2
      <4> QED BY <4>1 DEF In
    <3> QED BY <3>1, <3>2
  <2> QED BY <2>1, <2>2, <2>3, <1>1
<1> QED BY <1>2, <1>3

LEMMA RecvSound ==
  ASSUME NEW ch \in [Edge -> Seq(Message)], NEW p \in Proc, NEW q \in Proc \cup {Peer},
         ch[p, q] # <<>>
  PROVE  /\ Recved(ch, p, q) \in [Edge -> Seq(Message)]
         /\ Head(ch[p, q]) \in Message /\ Head(ch[p, q]) \in In(ch, <<p, q>>)
         /\ \A e \in Edge : In(Recved(ch, p, q), e) \subseteq In(ch, e)
<1>1. <<p, q>> \in Edge /\ ch[p, q] \in Seq(Message)  BY EdgeOf
<1>2. Recved(ch, p, q) = [ch EXCEPT ![<<p, q>>] = Tail(ch[p, q])]  BY DEF Recved
<1>3. /\ Tail(ch[p, q]) \in Seq(Message) /\ Head(ch[p, q]) \in Message
      /\ Head(ch[p, q]) \in In(ch, <<p, q>>)
  BY <1>1, InTail DEF In
<1>4. ASSUME NEW e \in Edge PROVE In(Recved(ch, p, q), e) \subseteq In(ch, e)
  <2>1. CASE e = <<p, q>>
    <3>1. Recved(ch, p, q)[e] = Tail(ch[e])  BY <1>1, <1>2, <2>1
    <3>2. ch[e] \in Seq(Message) /\ ch[e] # <<>>  BY <1>1, <2>1
    <3>3. {Tail(ch[e])[i] : i \in 1 .. Len(Tail(ch[e]))} \subseteq In(ch, e)
      BY <3>2, InTail DEF In
    <3> QED BY <3>1, <3>3 DEF In
  <2>2. CASE e # <<p, q>>
    <3>1. Recved(ch, p, q)[e] = ch[e]  BY <1>1, <1>2, <2>2
    <3> QED BY <3>1 DEF In
  <2> QED BY <2>1, <2>2
<1> QED BY <1>1, <1>2, <1>3, <1>4

\* Any set of numbers has a least one.
LEMMA Least ==
  ASSUME NEW T, T \subseteq Nat, T # {}
  PROVE  \E x \in T : \A y \in T : x <= y
<1>1. PICK x \in T : \A y \in T : <<y, x>> \notin OpToRel(<, Nat)
  BY WFMin, NatLessThanWellFounded
<1>2. ASSUME NEW y \in T PROVE x <= y
  <2>1. ~(y < x)  BY <1>1 DEF OpToRel
  <2> QED BY <2>1
<1> QED BY <1>2

-----------------------------------------------------------------------------
(* The choice of a disp_serv *)

\* Going around from any place one comes to a good place.
LEMMA FirstFromGood ==
  ASSUME NEW n \in Nat \ {0}, NEW good, good \subseteq 1 .. n, good # {}, NEW i \in 1 .. n
  PROVE  FirstFrom(i, n, good) \in good
<1> DEFINE K == {k \in 0 .. n - 1 : Around(i, k, n) \in good}
           First(k) == /\ Around(i, k, n) \in good
                       /\ \A j \in 0 .. k - 1 : Around(i, j, n) \notin good
<1>1. K # {}
  <2>1. PICK g \in good : TRUE  OBVIOUS
  <2>2. CASE g >= i
    <3>1. g - i \in 0 .. n - 1 /\ Around(i, g - i, n) = g  BY <2>1, <2>2 DEF Around
    <3> QED BY <3>1
  <2>3. CASE g < i
    <3>1. n + g - i \in 0 .. n - 1 /\ Around(i, n + g - i, n) = g  BY <2>1, <2>3 DEF Around
    <3> QED BY <3>1
  <2> QED BY <2>1, <2>2, <2>3
<1>2. PICK k \in K : \A j \in K : k <= j
  <2>1. K \subseteq Nat  OBVIOUS
  <2> QED BY <1>1, <2>1, Least
<1>3. k \in 0 .. n - 1 /\ First(k)  BY <1>2
<1>4. First(CHOOSE x \in 0 .. n - 1 : First(x))  BY <1>3
<1> QED BY <1>4 DEF FirstFrom

\* SelectProperServ chooses a server whose heartbeat is not too old, or none.
LEMMA SelectSound ==
  ASSUME NEW st \in [Proc -> Nat], NEW t \in Nat, NEW method \in {"RAND", "HASH"}, NEW h \in Nat,
         NEW s \in SelectProperServ(method, h, Disps, st, Life, t), s # NoServ
  PROVE  s \in DispSet /\ Fresh(st, s, Life, t)
<1> DEFINE n == Len(Disps)
           good == {i \in 1 .. n : Fresh(st, Disps[i], Life, t)}
<1>1. Disps \in Seq(DispSet) /\ n \in Nat /\ \A i \in 1 .. n : Disps[i] \in DispSet
  BY HeartsAssumption DEF DispSet
<1>2. CASE n = 0
  <2>1. s \in {NoServ}  BY <1>2 DEF SelectProperServ
  <2> QED BY <2>1
<1>3. CASE n = 1
  <2>1. s = Disps[1] /\ Fresh(st, Disps[1], Life, t)  BY <1>3 DEF SelectProperServ
  <2> QED BY <2>1, <1>1, <1>3
<1>4. CASE n > 1 /\ method = "RAND"
  <2>1. s \in ByRand(Disps, st, Life, t)  BY <1>4, <1>1 DEF SelectProperServ
  <2>2. good # {}  BY <2>1 DEF ByRand
  <2>3. PICK i \in 1 .. n : s = Disps[FirstFrom(i, n, good)]
    <3>1. ByRand(Disps, st, Life, t) = {Disps[FirstFrom(i, n, good)] : i \in 1 .. n}
      BY <2>2 DEF ByRand
    <3> QED BY <2>1, <3>1
  <2>4. FirstFrom(i, n, good) \in good
    <3>1. good \subseteq 1 .. n /\ n \in Nat \ {0}  BY <1>1, <1>4
    <3> HIDE DEF good, n
    <3> QED BY <3>1, <2>2, FirstFromGood
  <2> QED BY <2>3, <2>4, <1>1
<1>5. CASE n > 1 /\ method = "HASH"
  <2>1. s \in ByHash(h, Disps, st, Life, t)  BY <1>5, <1>1 DEF SelectProperServ
  <2>2. s = Disps[(h % n) + 1] /\ Fresh(st, s, Life, t)  BY <2>1 DEF ByHash
  <2>3. (h % n) + 1 \in 1 .. n  BY <1>1, <1>5
  <2> QED BY <2>2, <2>3, <1>1
<1>6. n = 0 \/ n = 1 \/ n > 1
  <2>1. n \in Nat  BY <1>1
  <2> HIDE DEF n
  <2> QED BY <2>1
<1> QED BY <1>6, <1>2, <1>3, <1>4, <1>5

LEMMA DispSound ==
  ASSUME ClockTypes, StatTypes, NEW uid \in Nat, NEW s \in DispOf(uid), s # NoServ
  PROVE  s \in DispSet /\ Fresh(stats[Logic], s, Life, now)
<1>1. stats[Logic] \in [Proc -> Nat] /\ now \in Nat  BY Roles DEF ClockTypes, StatTypes
<1>2. \/ s \in SelectProperServ("HASH", uid, Disps, stats[Logic], Life, now)
      \/ s \in SelectProperServ("RAND", 0, Disps, stats[Logic], Life, now)
  BY DEF DispOf
<1> QED BY <1>1, <1>2, SelectSound

-----------------------------------------------------------------------------
(* Ticker pools *)

\* A pool remembers no time later than its tickers expire; a circle moves on.
Sound(pl) ==
  \A t \in pl.tickers : pl.latest <= t.expire /\ (t.ctype = "CIRCLE" => t.period > 0)

LEMMA MinSound ==
  ASSUME NEW S, S \subseteq Nat, S # {}
  PROVE  Min(S) \in S /\ \A x \in S : Min(S) <= x
<1>1. \E x \in S : \A y \in S : x <= y  BY Least
<1> QED BY <1>1 DEF Min

LEMMA EarliestSound ==
  ASSUME NEW T, T \subseteq TickerType
  PROVE  Earliest(T) \in Nat /\ \A t \in T : Earliest(T) <= t.expire
<1> DEFINE S == {t.expire : t \in T} \cup {MaxExpire}
<1>1. S \subseteq Nat /\ S # {}  BY HeartsAssumption DEF TickerType
<1>2. Min(S) \in S /\ \A x \in S : Min(S) <= x  BY <1>1, MinSound
<1>3. Earliest(T) = Min(S)  BY DEF Earliest
<1> QED BY <1>1, <1>2, <1>3

LEMMA AddSound ==
  ASSUME NEW pl \in PoolType, Sound(pl), NEW n \in Nat, NEW start \in Nat, NEW period \in Nat,
         NEW name \in {"heart_beat", "init_redis", "heart2redis"},
         NEW ctype \in {"SINGLE", "CIRCLE"}, ctype = "CIRCLE" => period > 0,
         start = 0 \/ start >= n, \A t \in pl.tickers : t.expire >= n
  PROVE  LET new == AddTicker(pl, n, name, ctype, start, period)
         IN  new \in PoolType /\ Sound(new) /\ \A t \in new.tickers : t.expire >= n
<1> DEFINE t == [name |-> name, ctype |-> ctype, period |-> period,
                 expire |-> IF start <= 0 THEN n + period ELSE start]
           new == AddTicker(pl, n, name, ctype, start, period)
<1>1. t \in TickerType /\ t.expire >= n  BY DEF TickerType
<1>2. new = [tickers |-> pl.tickers \cup {t}, latest |-> Min({pl.latest, t.expire})]
  BY DEF AddTicker
<1>3. LET m == Min({pl.latest, t.expire}) IN m \in Nat /\ m <= pl.latest /\ m <= t.expire
  <2>1. pl.latest \in Nat /\ t.expire \in Nat  BY <1>1 DEF PoolType, TickerType
  <2> HIDE DEF t
  <2> QED BY <2>1, MinSound
<1>4. new \in PoolType  BY <1>1, <1>2, <1>3 DEF PoolType
<1>5. \A u \in new.tickers : u \in pl.tickers \/ u = t  BY <1>2
<1>6. \A u \in new.tickers : u.expire >= n  BY <1>5, <1>1
<1>7. Sound(new)
  <2> SUFFICES ASSUME NEW u \in new.tickers
               PROVE  new.latest <= u.expire /\ (u.ctype = "CIRCLE" => u.period > 0)
    BY DEF Sound
  <2>1. new.latest \in Nat /\ new.latest <= pl.latest /\ new.latest <= t.expire  BY <1>2, <1>3
  <2>2. CASE u = t  BY <2>1, <2>2
  <2>3. CASE u \in pl.tickers
    <3>1. pl.latest <= u.expire /\ pl.latest \in Nat /\ u.expire \in Nat
      BY <2>3 DEF Sound, PoolType, TickerType
    <3> QED BY <2>1, <3>1, <2>3 DEF Sound
  <2> QED BY <1>5, <2>2, <2>3
<1> QED BY <1>4, <1>6, <1>7

\* The tickers of a server that starts.
LEMMA TickersSound ==
  ASSUME now \in Nat, NEW p
  PROVE  Tickers(p) \in PoolType /\ Sound(Tickers(p)) /\ \A t \in Tickers(p).tickers : t.expire >= now
<1> DEFINE heart == AddTicker(NewTickPool, now, "heart_beat", "CIRCLE", 0, HeartPeriod)
           init == AddTicker(heart, now, "init_redis", "SINGLE", now + InitAfter, 0)
           last == AddTicker(init, now, "heart2redis", "CIRCLE", 0, RedisPeriod)
<1>1. NewTickPool \in PoolType /\ Sound(NewTickPool) /\ NewTickPool.tickers = {}
  BY HeartsAssumption DEF NewTickPool, PoolType, Sound
<1>0. /\ HeartPeriod \in Nat /\ HeartPeriod > 0 /\ RedisPeriod \in Nat /\ RedisPeriod > 0
      /\ now + InitAfter \in Nat /\ now + InitAfter >= now
  BY HeartsAssumption
<1>2. heart \in PoolType /\ Sound(heart) /\ \A t \in heart.tickers : t.expire >= now
  BY <1>0, <1>1, AddSound
<1> HIDE DEF heart
<1>3. init \in PoolType /\ Sound(init) /\ \A t \in init.tickers : t.expire >= now
  BY <1>0, <1>2, AddSound
<1> HIDE DEF init
<1>4. last \in PoolType /\ Sound(last) /\ \A t \in last.tickers : t.expire >= now
  BY <1>0, <1>3, AddSound
<1>5. Tickers(p) = IF p = Db THEN last ELSE heart  BY DEF Tickers, heart, init
<1> QED BY <1>2, <1>4, <1>5

\* After Tick all that is left expires later.
LEMMA TickSound ==
  ASSUME NEW pl \in PoolType, Sound(pl), NEW n \in Nat
  PROVE  Tick(pl, n) \in PoolType /\ Sound(Tick(pl, n)) /\ \A t \in Tick(pl, n).tickers : t.expire > n
<1>1. CASE pl.tickers = {} \/ n < pl.latest
  <2>1. Tick(pl, n) = pl  BY <1>1 DEF Tick
  <2>2. \A t \in pl.tickers : pl.latest \in Nat /\ t.expire \in Nat /\ pl.latest <= t.expire
    BY DEF Sound, PoolType, TickerType
  <2>3. \A t \in pl.tickers : t.expire > n  BY <2>2, <1>1
  <2> QED BY <2>1, <2>3
<1>2. CASE ~(pl.tickers = {} \/ n < pl.latest)
  <2> DEFINE again == {[t EXCEPT !.expire = n + t.period] :
                         t \in {u \in Fired(pl, n) : u.ctype = "CIRCLE"}}
             kept == pl.tickers \ Fired(pl, n)
             left == kept \cup again
  <2>1. Tick(pl, n) = [tickers |-> left, latest |-> Earliest(left)]  BY <1>2 DEF Tick
  <2>2. pl.latest \in Nat /\ pl.latest <= n /\ pl.tickers \subseteq TickerType  BY <1>2 DEF PoolType
  <2>3. \A t \in kept : t \in TickerType /\ t.expire > n /\ (t.ctype = "CIRCLE" => t.period > 0)
    BY <2>2 DEF Fired, TickerType, Sound
  <2>4. \A t \in again : t \in TickerType /\ t.expire > n /\ (t.ctype = "CIRCLE" => t.period > 0)
    <3> SUFFICES ASSUME NEW u \in Fired(pl, n), u.ctype = "CIRCLE",
                        NEW t, t = [u EXCEPT !.expire = n + u.period]
                 PROVE  t \in TickerType /\ t.expire > n /\ (t.ctype = "CIRCLE" => t.period > 0)
      OBVIOUS
    <3>1. u \in TickerType /\ u.period \in Nat /\ u.period > 0  BY <2>2 DEF Fired, Sound, TickerType
    <3> QED BY <3>1 DEF TickerType
  <2> HIDE DEF kept, again
  <2>5. left \subseteq TickerType /\ \A t \in left : t.expire > n /\ (t.ctype = "CIRCLE" => t.period > 0)
    BY <2>3, <2>4
  <2>6. Earliest(left) \in Nat /\ \A t \in left : Earliest(left) <= t.expire
    BY <2>5, EarliestSound
  <2> HIDE DEF left
  <2> QED BY <2>1, <2>5, <2>6 DEF PoolType, Sound
<1> QED BY <1>1, <1>2

-----------------------------------------------------------------------------
(* The clock: no ticker is overtaken *)

ClockInv == ClockTypes /\ (\A p \in Proc : Sound(pool[p])) /\ OnTime
clockVars == <<now, runs, passed, pool>>

LEMMA NewPoolSound == NewTickPool \in PoolType /\ Sound(NewTickPool) /\ NewTickPool.tickers = {}
BY HeartsAssumption DEF NewTickPool, PoolType, Sound

LEMMA ClockInit == Init => ClockInv
<1> SUFFICES ASSUME NEW s \in Scenarios, HeartsInit(s.started) PROVE ClockInv
  BY DEF Init
<1>1. s.started \subseteq Proc /\ now \in Nat \ {0}
  BY ScenariosAssumption, HeartsAssumption DEF HeartsInit
<1>2. \A p \in Proc : /\ pool[p] \in PoolType /\ Sound(pool[p])
                      /\ \A t \in pool[p].tickers : t.expire >= now
  <2> TAKE p \in Proc
  <2>1. pool[p] = IF p \in s.started THEN Tickers(p) ELSE NewTickPool  BY DEF HeartsInit
  <2> QED BY <1>1, <2>1, TickersSound, NewPoolSound
<1>3. pool \in [Proc -> PoolType] /\ runs = s.started /\ passed = {}  BY <1>2 DEF HeartsInit
<1> QED BY <1>1, <1>2, <1>3 DEF ClockInv, ClockTypes, OnTime

LEMMA ClockTick ==
  ASSUME ClockInv, NEW p \in Proc, handle_tick(p)
  PROVE  ClockInv'
<1> USE DEF ClockInv, ClockTypes
<1>1. /\ Tick(pool[p], now) \in PoolType /\ Sound(Tick(pool[p], now))
      /\ \A t \in Tick(pool[p], now).tickers : t.expire > now
  BY TickSound
<1>2. /\ pool' = [pool EXCEPT ![p] = Tick(pool[p], now)] /\ passed' = passed \cup {p}
      /\ p \in runs /\ UNCHANGED <<now, runs>>
  BY DEF handle_tick
<1>3. ClockTypes'  BY <1>1, <1>2
<1>4. (\A q \in Proc : Sound(pool[q]))'
  <2> SUFFICES ASSUME NEW q \in Proc PROVE Sound(pool'[q])
    OBVIOUS
  <2> QED BY <1>1, <1>2
<1>5. OnTime'
  <2> SUFFICES ASSUME NEW q \in runs, NEW t \in pool'[q].tickers
               PROVE  t.expire >= now /\ (q \in passed' => t.expire > now)
    BY <1>2 DEF OnTime
  <2>1. CASE q = p
    <3>1. t.expire > now /\ t.expire \in Nat  BY <2>1, <1>1, <1>2 DEF PoolType, TickerType
    <3> QED BY <3>1
  <2>2. CASE q # p  BY <2>2, <1>2 DEF OnTime
  <2> QED BY <2>1, <2>2
<1> QED BY <1>3, <1>4, <1>5

LEMMA ClockStop ==
  ASSUME ClockInv, NEW p \in Proc, StopServer(p), UNCHANGED now
  PROVE  ClockInv'
<1> USE DEF ClockInv, ClockTypes
<1>1. runs' = runs \ {p} /\ passed' = passed \ {p} /\ pool' = [pool EXCEPT ![p] = NewTickPool]
  BY DEF StopServer
<1>2. ClockTypes'  BY <1>1, NewPoolSound
<1>3. (\A q \in Proc : Sound(pool[q]))'
  <2> SUFFICES ASSUME NEW q \in Proc PROVE Sound(pool'[q])
    OBVIOUS
  <2> QED BY <1>1, NewPoolSound
<1>4. OnTime'  BY <1>1 DEF OnTime
<1> QED BY <1>2, <1>3, <1>4

LEMMA ClockStart ==
  ASSUME ClockInv, NEW p \in Proc, StartServer(p)
  PROVE  ClockInv'
<1> USE DEF ClockInv, ClockTypes
<1>1. /\ runs' = runs \cup {p} /\ pool' = [pool EXCEPT ![p] = Tickers(p)]
      /\ p \notin runs /\ UNCHANGED <<now, passed>>
  BY DEF StartServer
<1>2. /\ Tickers(p) \in PoolType /\ Sound(Tickers(p))
      /\ \A t \in Tickers(p).tickers : t.expire >= now
  BY TickersSound
<1>3. ClockTypes'  BY <1>1, <1>2
<1>4. (\A q \in Proc : Sound(pool[q]))'
  <2> SUFFICES ASSUME NEW q \in Proc PROVE Sound(pool'[q])
    OBVIOUS
  <2> QED BY <1>1, <1>2
<1>5. OnTime'
  <2> SUFFICES ASSUME NEW q \in runs', NEW t \in pool'[q].tickers
               PROVE  t.expire >= now /\ (q \in passed => t.expire > now)
    BY <1>1 DEF OnTime
  <2>1. CASE q = p  BY <2>1, <1>1, <1>2
  <2>2. CASE q # p  BY <2>2, <1>1 DEF OnTime
  <2> QED BY <2>1, <2>2
<1> QED BY <1>3, <1>4, <1>5

LEMMA ClockSecond ==
  ASSUME ClockInv, NEW until, Second(until)
  PROVE  ClockInv'
<1> USE DEF ClockInv, ClockTypes
<1>1. runs \subseteq passed /\ now' = now + 1 /\ passed' = {} /\ UNCHANGED <<runs, pool>>
  BY DEF Second
<1>2. ClockTypes'  BY <1>1
<1>3. OnTime'
  <2> SUFFICES ASSUME NEW q \in runs, NEW t \in pool[q].tickers PROVE t.expire >= now'
    BY <1>1 DEF OnTime
  <2>1. t.expire > now /\ t.expire \in Nat  BY <1>1 DEF OnTime, PoolType, TickerType
  <2> QED BY <2>1, <1>1
<1> QED BY <1>1, <1>2, <1>3

\* Only these actions touch the clock and what runs by it.
LEMMA ClockCases ==
  ASSUME [Next]_vars
  PROVE  \/ UNCHANGED clockVars
         \/ \E p \in Proc : handle_tick(p) \/ StartServer(p) \/ (StopServer(p) /\ UNCHANGED now)
         \/ Second(todo.until)
<1> USE DEF clockVars
<1>1. CASE UNCHANGED vars  BY <1>1 DEF vars, heartVars
<1>2. ASSUME NEW p \in Proc, Loop(p)
      PROVE  \/ UNCHANGED clockVars \/ handle_tick(p) \/ handle_tick(Db)
             \/ (StopServer(Db) /\ UNCHANGED now)
  BY <1>2 DEF Loop, RecvHeartBeatReq, RecvDispMsg, DirecToDb, DirecToConnect, RecvRegRsp, RecvRegReq,
              DbTick, HeartBeatPanics, StopDb
<1>3. ASSUME NEW p \in Proc, Stops(p) PROVE StopServer(p) /\ UNCHANGED now
  BY <1>3 DEF Stops, StopDb
<1>4. ASSUME NEW p \in Proc, Starts(p) PROVE StartServer(p)  BY <1>4 DEF Starts
<1>5. ASSUME NEW uid, Kicks(uid) PROVE UNCHANGED clockVars  BY <1>5 DEF Kicks, SendDupUserKick
<1>6. ASSUME NEW r, Asks(r) PROVE UNCHANGED clockVars  BY <1>6 DEF Asks, SendRegReq
<1>7. ASSUME NEW c, Redis(c) PROVE UNCHANGED clockVars
  BY <1>7 DEF Redis, Exec, ReplyLost, ExecFails, Dropped, noLoop, heartVars
<1>8. ASSUME NEW c, Callback(c) PROVE UNCHANGED clockVars  BY <1>8 DEF Callback
<1>9. ASSUME NEW i, Disconnect(i) \/ Connect(i) PROVE UNCHANGED clockVars
  BY <1>9 DEF Disconnect, Connect, heartVars
<1> QED BY <1>1, <1>2, <1>3, <1>4, <1>5, <1>6, <1>7, <1>8, <1>9, Roles DEF Next

LEMMA ClockStep == ClockInv /\ [Next]_vars => ClockInv'
<1> SUFFICES ASSUME ClockInv, [Next]_vars PROVE ClockInv'
  OBVIOUS
<1>1. CASE UNCHANGED clockVars
  BY <1>1 DEF clockVars, ClockInv, ClockTypes, OnTime
<1> QED BY <1>1, ClockCases, ClockTick, ClockStart, ClockStop, ClockSecond

\* Clocks: whatever periods tickers have and whenever servers start, no ticker
\* is passed over, though Tick looks only at the earliest time it kept.
THEOREM Clocks == Spec => []OnTime
<1>1. ClockInv => OnTime  BY DEF ClockInv
<1> QED BY <1>1, ClockInit, ClockStep, PTL DEF Spec

-----------------------------------------------------------------------------
(* What a step puts into the channels *)

\* A success is new only as the answer of the last callback, or relayed.
NewMsg(e, m) ==
  \/ m = Heart(now) /\ e[1] \in runs
  \/ m.type \in {"REG_REQ", "KICK_DUPLICATE_USER"}
  \/ /\ m.type = "REG_RSP"
     /\ \/ m.result # "SUCCESS" \/ m \in In(chan, <<Db, Logic>>)
        \/ \E c \in cmds : c.op = "HMSET_user" /\ c.st \in {"ok", "exists"} /\ m.req = c.req
Delivers ==
  ChanTypes' /\ \A e \in Edge : \A m \in In(chan', e) : m \in In(chan, e) \/ NewMsg(e, m)

LEMMA DeliverSame ==
  ASSUME ChanTypes, UNCHANGED chan PROVE Delivers
BY DEF ChanTypes, Delivers

LEMMA DeliverRecv ==
  ASSUME ChanTypes, NEW p \in Proc, NEW q \in Proc, chan[q, p] # <<>>, chan' = Recved(chan, q, p)
  PROVE  Delivers
<1>1. Recved(chan, q, p) \in [Edge -> Seq(Message)]
      /\ \A e \in Edge : In(Recved(chan, q, p), e) \subseteq In(chan, e)
  BY RecvSound DEF ChanTypes
<1> QED BY <1>1 DEF Delivers, ChanTypes

\* A relay: what it sends on is new in its second channel.
LEMMA DeliverRelay ==
  ASSUME ChanTypes, NEW p \in Proc, NEW q \in Proc, NEW r \in Proc \cup {Peer},
         chan[p, q] # <<>>, NewMsg(<<q, r>>, Head(chan[p, q])),
         chan' = SendToServ(Recved(chan, p, q), q, r, Head(chan[p, q]))
  PROVE  Delivers
<1> DEFINE m == Head(chan[p, q])
<1>1. /\ Recved(chan, p, q) \in [Edge -> Seq(Message)] /\ m \in Message
      /\ \A e \in Edge : In(Recved(chan, p, q), e) \subseteq In(chan, e)
  BY RecvSound DEF ChanTypes
<1> HIDE DEF m
<1>2. /\ SendToServ(Recved(chan, p, q), q, r, m) \in [Edge -> Seq(Message)]
      /\ \A e \in Edge : In(SendToServ(Recved(chan, p, q), q, r, m), e) \subseteq
                            In(Recved(chan, p, q), e) \cup (IF e = <<q, r>> THEN {m} ELSE {})
  BY <1>1, SendSound
<1>3. chan' = SendToServ(Recved(chan, p, q), q, r, m) /\ NewMsg(<<q, r>>, m)  BY DEF m
<1>4. ASSUME NEW e \in Edge, NEW x \in In(chan', e) PROVE x \in In(chan, e) \/ NewMsg(e, x)
  BY <1>1, <1>2, <1>3, <1>4
<1> QED BY <1>2, <1>3, <1>4 DEF Delivers, ChanTypes

LEMMA DeliverSend ==
  ASSUME ChanTypes, NEW p \in Proc, NEW q \in Proc, NEW m \in Message, NewMsg(<<p, q>>, m),
         chan' = SendToServ(chan, p, q, m)
  PROVE  Delivers
<1>1. /\ SendToServ(chan, p, q, m) \in [Edge -> Seq(Message)]
      /\ \A e \in Edge : In(SendToServ(chan, p, q, m), e) \subseteq
                            In(chan, e) \cup (IF e = <<p, q>> THEN {m} ELSE {})
  BY SendSound DEF ChanTypes
<1>2. ASSUME NEW e \in Edge, NEW x \in In(chan', e) PROVE x \in In(chan, e) \/ NewMsg(e, x)
  BY <1>1, <1>2
<1> QED BY <1>1, <1>2 DEF Delivers, ChanTypes

LEMMA DeliverTick ==
  ASSUME ClockTypes, ChanTypes, NEW p \in Proc, handle_tick(p)
  PROVE  Delivers
<1>1. CASE UNCHANGED chan  BY <1>1, DeliverSame
<1>2. CASE SendHeartBeatMsg(p)
  <2> DEFINE beat(e) == SendToServ(chan, p, e[2], Heart(now))
  <2>1. chan' = [e \in Edge |-> IF e[1] = p /\ e[2] \in HeartTargets(p) \ {Peer}
                                THEN beat(e)[e] ELSE chan[e]]
    BY <1>2 DEF SendHeartBeatMsg, ChanTypes
  <2>2. Heart(now) \in Message /\ p \in runs  BY DEF Heart, Message, handle_tick, ClockTypes
  <2>3. ASSUME NEW e \in Edge
        PROVE  /\ chan'[e] \in Seq(Message)
               /\ \A x \in In(chan', e) : x \in In(chan, e) \/ NewMsg(e, x)
    <3>1. e[2] \in Proc \cup {Peer} /\ e = <<e[1], e[2]>>  BY DEF Edge
    <3>2. CASE e[1] = p /\ chan'[e] = beat(e)[e]
      <4>1. /\ beat(e) \in [Edge -> Seq(Message)]
            /\ In(beat(e), e) \subseteq In(chan, e) \cup (IF e = <<p, e[2]>> THEN {Heart(now)} ELSE {})
        BY <2>2, <3>1, SendSound DEF ChanTypes
      <4>2. In(chan', e) = In(beat(e), e) /\ chan'[e] \in Seq(Message)  BY <3>2, <4>1 DEF In
      <4> QED BY <4>1, <4>2, <3>1, <3>2, <2>2 DEF NewMsg
    <3>3. CASE chan'[e] = chan[e]  BY <3>3 DEF In, ChanTypes
    <3> QED BY <2>1, <3>2, <3>3
  <2>4. chan' \in [Edge -> Seq(Message)]  BY <2>1, <2>3
  <2> QED BY <2>3, <2>4 DEF Delivers, ChanTypes
<1> QED BY <1>1, <1>2 DEF handle_tick

LEMMA DeliverCallback ==
  ASSUME ChanTypes, cmds \subseteq CmdType, NEW c \in cmds, Callback(c)
  PROVE  Delivers
<1>1. ASSUME NEW result \in Result, SendRegRsp(c, result), c.req \in Req,
             result = "SUCCESS" => c.op = "HMSET_user" /\ c.st # "err"
      PROVE  Delivers
  <2>1. chan' = SendToServ(chan, Db, Logic, RegRsp(c.req, result))
    BY <1>1 DEF SendRegRsp, Sends
  <2>2. RegRsp(c.req, result) \in Message  BY <1>1 DEF RegRsp, Message
  <2>3. NewMsg(<<Db, Logic>>, RegRsp(c.req, result))
    BY <1>1 DEF NewMsg, RegRsp, CmdType, Status, Callback
  <2> QED BY <2>1, <2>2, <2>3, Roles, DeliverSend
<1>2. ASSUME NEW d, GoesOn(c, d) PROVE Delivers
  BY <1>2, DeliverSame DEF GoesOn
<1>3. c.op # "SETNX_uid" => c.req \in Req  BY DEF CmdType
<1>4. CASE cb_set_global_name(c)
  <2>1. c.req \in Req /\ c.st \in {"err", "exists", "ok"}
    BY <1>4, <1>3 DEF cb_set_global_name, CmdType, Status, Callback
  <2>2. \/ SendRegRsp(c, "DB_ERR") \/ SendRegRsp(c, "DUP_NAME")
        \/ GoesOn(c, Cmd("INCRBY_uid", c.req, NoUid))
    BY <1>4, <2>1 DEF cb_set_global_name, DupName
  <2> QED BY <2>1, <2>2, <1>1, <1>2 DEF Result
<1>5. CASE cb_alloc_uid(c)
  <2>1. SendRegRsp(c, "DB_ERR") \/ GoesOn(c, Cmd("HMSET_name", c.req, c.uid))
    BY <1>5 DEF cb_alloc_uid
  <2> QED BY <2>1, <1>1, <1>2, <1>3, <1>5 DEF Result, cb_alloc_uid
<1>6. CASE cb_set_global_info(c)
  <2>1. SendRegRsp(c, "DB_ERR") \/ GoesOn(c, Cmd("HMSET_user", c.req, c.uid))
    BY <1>6 DEF cb_set_global_info
  <2> QED BY <2>1, <1>1, <1>2, <1>3, <1>6 DEF Result, cb_set_global_info
<1>7. CASE cb_reg_set_user_info(c)
  <2>1. Outcome(c) \in Result /\ (Outcome(c) = "SUCCESS" => c.st # "err")  BY DEF Outcome, Result
  <2> QED BY <2>1, <1>1, <1>3, <1>7 DEF cb_reg_set_user_info
<1>8. CASE cb_init_global_uid(c)  BY <1>8, DeliverSame DEF cb_init_global_uid
<1> QED BY <1>4, <1>5, <1>6, <1>7, <1>8 DEF Callback

LEMMA Deliveries ==
  ASSUME Types, [Next]_vars PROVE Delivers
<1> USE DEF Types
<1>1. CASE UNCHANGED chan  BY <1>1, DeliverSame
<1>2. ASSUME NEW p \in Proc, Loop(p) PROVE Delivers
  <2>1. ASSUME NEW q \in Proc, RecvHeartBeatReq(p, q) PROVE Delivers
    BY <2>1, DeliverRecv DEF RecvHeartBeatReq, Got
  <2>2. CASE handle_tick(p)  BY <2>2, DeliverTick
  <2>3. CASE p \in DispSet /\ RecvDispMsg(p)
    <3> DEFINE m == Head(chan[Logic, p])
    <3>1. /\ chan[Logic, p] # <<>> /\ m.type = "KICK_DUPLICATE_USER"
          /\ chan' = SendToServ(Recved(chan, Logic, p), p, m.spec, m)
      BY <2>3 DEF RecvDispMsg, Got
    <3>2. m \in Message  BY <3>1, RecvSound, Roles DEF ChanTypes
    <3>3. m.spec = Peer  BY <3>1, <3>2 DEF Message
    <3>4. NewMsg(<<p, m.spec>>, m)  BY <3>1 DEF NewMsg
    <3> QED BY <3>1, <3>3, <3>4, Roles, DeliverRelay
  <2>4. CASE DirecToDb
    <3>1. /\ chan[Conn, Logic] # <<>> /\ Head(chan[Conn, Logic]).type = "REG_REQ"
          /\ chan' = SendToServ(Recved(chan, Conn, Logic), Logic, Db, Head(chan[Conn, Logic]))
      BY <2>4 DEF DirecToDb, Got, Sends
    <3>2. NewMsg(<<Logic, Db>>, Head(chan[Conn, Logic]))  BY <3>1 DEF NewMsg
    <3> QED BY <3>1, <3>2, Roles, DeliverRelay
  <2>5. CASE DirecToConnect
    <3>1. /\ chan[Db, Logic] # <<>> /\ Head(chan[Db, Logic]).type = "REG_RSP"
          /\ chan' = SendToServ(Recved(chan, Db, Logic), Logic, Conn, Head(chan[Db, Logic]))
      BY <2>5 DEF DirecToConnect, Got, Sends
    <3>2. Head(chan[Db, Logic]) \in In(chan, <<Db, Logic>>)
      BY <3>1, RecvSound, Roles DEF ChanTypes
    <3>3. NewMsg(<<Logic, Conn>>, Head(chan[Db, Logic]))  BY <3>1, <3>2 DEF NewMsg
    <3> QED BY <3>1, <3>3, Roles, DeliverRelay
  <2>6. CASE RecvRegRsp  BY <2>6, DeliverRecv, Roles DEF RecvRegRsp, Got
  <2>7. CASE RecvRegReq  BY <2>7, DeliverRecv, Roles DEF RecvRegReq, Got
  <2>8. CASE DbTick  BY <2>8, DeliverTick, Roles DEF DbTick
  <2>9. CASE HeartBeatPanics  BY <2>9, DeliverSame DEF HeartBeatPanics, StopDb
  <2> QED BY <1>2, <2>1, <2>2, <2>3, <2>4, <2>5, <2>6, <2>7, <2>8, <2>9 DEF Loop
<1>3. ASSUME NEW p \in Proc, Stops(p) \/ Starts(p) PROVE UNCHANGED chan
  BY <1>3 DEF Stops, Starts, StopDb, StartServer
<1>4. ASSUME NEW uid \in todo.kicks, Kicks(uid) PROVE Delivers
  <2>1. uid \in Nat  BY DEF TodoTypes
  <2>2. PICK s \in DispOf(uid) :
          IF s = NoServ THEN UNCHANGED <<chan, spilt>>
          ELSE /\ chan' = SendToServ(chan, Logic, s, Kick(uid))
               /\ spilt' = (spilt \/ Full(chan, Logic, s))
    BY <1>4 DEF Kicks, SendDupUserKick
  <2>3. CASE s # NoServ /\ chan' = SendToServ(chan, Logic, s, Kick(uid))
    <3>1. s \in Proc  BY <2>1, <2>3, DispSound, Roles
    <3>2. Kick(uid) \in Message /\ NewMsg(<<Logic, s>>, Kick(uid))
      BY <2>1 DEF Kick, Message, NewMsg
    <3> QED BY <3>1, <3>2, <2>3, DeliverSend, Roles
  <2> QED BY <2>2, <2>3, DeliverSame
<1>5. ASSUME NEW r \in todo.asks, Asks(r) PROVE Delivers
  <2>1. RegReq(r) \in Message /\ NewMsg(<<Conn, Logic>>, RegReq(r))
    BY DEF RegReq, Message, NewMsg, TodoTypes
  <2>2. chan' = SendToServ(chan, Conn, Logic, RegReq(r))  BY <1>5 DEF Asks, SendRegReq, Sends
  <2> QED BY <2>1, <2>2, DeliverSend, Roles
<1>6. ASSUME NEW c \in cmds, Redis(c) PROVE UNCHANGED chan
  BY <1>6 DEF Redis, Exec, ReplyLost, ExecFails, Dropped, noLoop, heartVars
<1>7. ASSUME NEW c \in cmds, Callback(c) PROVE Delivers
  BY <1>7, DeliverCallback DEF RegTypes
<1>8. ASSUME NEW i, Disconnect(i) \/ Connect(i) PROVE UNCHANGED chan
  BY <1>8 DEF Disconnect, Connect, heartVars
<1>9. CASE Second(todo.until)  BY <1>9, DeliverSame DEF Second
<1> QED
  BY <1>1, <1>2, <1>3, <1>4, <1>5, <1>6, <1>7, <1>8, <1>9, DeliverSame DEF Next, vars, heartVars

-----------------------------------------------------------------------------
(* Types are kept *)

LEMMA CmdTyped ==
  /\ \A op \in {"HSETNX_name", "INCRBY_uid", "HMSET_name", "HMSET_user"} : \A r \in Req, u \in Nat :
       Cmd(op, r, u) \in CmdType
  /\ Cmd("SETNX_uid", NoReq, NoUid) \in CmdType
BY DEF Cmd, CmdType, Status, NoUid

LEMMA ReplyTyped ==
  ASSUME NEW c \in CmdType, counter \in Nat \cup {Unset}
  PROVE  /\ Reply(c) \in CmdType /\ Reply(c).op = c.op /\ Reply(c).req = c.req
         /\ Reply(c).st \in {"ok", "exists"}
         /\ c.op = "INCRBY_uid" => Reply(c).uid = UidIncr + (IF counter = Unset THEN 0 ELSE counter)
         /\ c.op # "INCRBY_uid" => Reply(c).uid = c.uid
         /\ Reply(c).st = "exists" => c.op = "HSETNX_name" /\ Taken(c)
         /\ c.op = "HSETNX_name" /\ Taken(c) => Reply(c).st = "exists"
         /\ [c EXCEPT !.st = "err"] \in CmdType
<1> UidIncr \in Nat  BY RegAssumption
<1>1. CASE c.op = "HSETNX_name"
  <2>1. Reply(c) = [c EXCEPT !.st = IF Taken(c) THEN "exists" ELSE "ok"]  BY <1>1 DEF Reply
  <2> QED BY <1>1, <2>1 DEF CmdType, Status
<1>2. CASE c.op = "INCRBY_uid"
  <2> DEFINE u == UidIncr + (IF counter = Unset THEN 0 ELSE counter)
  <2>1. Reply(c) = [c EXCEPT !.st = "ok", !.uid = u]  BY <1>2 DEF Reply
  <2>2. u \in Nat  BY DEF Unset
  <2> HIDE DEF u
  <2>3. Reply(c) \in CmdType /\ Reply(c).uid = u  BY <1>2, <2>1, <2>2 DEF CmdType, Status
  <2> QED BY <1>2, <2>1, <2>3 DEF CmdType, Status, u
<1>3. CASE c.op \notin {"HSETNX_name", "INCRBY_uid"}
  <2>1. Reply(c) = [c EXCEPT !.st = "ok"]  BY <1>3 DEF Reply
  <2> QED BY <1>3, <2>1 DEF CmdType, Status
<1> QED BY <1>1, <1>2, <1>3

LEMMA EffectTyped ==
  ASSUME RegTypes, NEW c \in cmds, Effect(c)
  PROVE  /\ names' \in [Name -> NameType] /\ users' \subseteq [uid : Nat, by : Req]
         /\ counter' \in Nat \cup {Unset} /\ early' \in BOOLEAN
<1> c \in CmdType /\ InitUid \in Nat  BY RegAssumption DEF RegTypes
<1>1. names' \in [Name -> NameType]
  <2>1. CASE c.op = "HSETNX_name"
    <3>1. names' = [names EXCEPT ![nameOf[c.req]].first = IF @ = NoReq THEN c.req ELSE @]
      BY <2>1 DEF Effect, Hsetnx
    <3>2. c.req \in Req /\ nameOf[c.req] \in Name  BY <2>1 DEF RegTypes, CmdType
    <3>3. names[nameOf[c.req]] \in NameType  BY <3>2 DEF RegTypes
    <3> QED BY <3>1, <3>2, <3>3 DEF RegTypes, NameType
  <2>2. CASE c.op = "HMSET_name"
    <3>1. names' = [names EXCEPT ![nameOf[c.req]].uid = c.uid, ![nameOf[c.req]].by = c.req]
      BY <2>2 DEF Effect
    <3>2. c.req \in Req /\ c.uid \in Nat /\ nameOf[c.req] \in Name  BY <2>2 DEF RegTypes, CmdType
    <3>3. names[nameOf[c.req]] \in NameType  BY <3>2 DEF RegTypes
    <3> QED BY <3>1, <3>2, <3>3 DEF RegTypes, NameType
  <2>3. CASE c.op \notin {"HSETNX_name", "HMSET_name"}  BY <2>3 DEF Effect, RegTypes
  <2> QED BY <2>1, <2>2, <2>3
<1>2. users' \subseteq [uid : Nat, by : Req]
  <2>1. CASE c.op = "HMSET_user"
    <3>1. [uid |-> c.uid, by |-> c.req] \in [uid : Nat, by : Req]  BY <2>1 DEF CmdType
    <3> QED BY <3>1, <2>1 DEF Effect, RegTypes
  <2>2. CASE c.op # "HMSET_user"  BY <2>2 DEF Effect, RegTypes
  <2> QED BY <2>1, <2>2
<1>3. counter' \in Nat \cup {Unset}
  <2>1. Reply(c) \in CmdType  BY ReplyTyped DEF RegTypes
  <2>2. Reply(c).uid \in Nat  BY <2>1 DEF CmdType
  <2> QED BY <2>2 DEF Effect, Setnx, RegTypes
<1>4. early' \in BOOLEAN  BY DEF Effect, RegTypes
<1> QED BY <1>1, <1>2, <1>3, <1>4

LEMMA RedisTyped ==
  ASSUME RegTypes, NEW c \in cmds, Redis(c) PROVE RegTypes'
<1>1. c \in CmdType /\ Reply(c) \in CmdType /\ [c EXCEPT !.st = "err"] \in CmdType
  BY ReplyTyped DEF RegTypes
<1>2. ASSUME Fault PROVE faults' \in [left : Nat, seen : BOOLEAN]
  BY <1>2 DEF Fault, RegTypes
<1>3. CASE Exec(c)
  BY <1>1, <1>3, EffectTyped DEF Exec, Becomes, RegTypes, noLoop
<1>4. CASE ReplyLost(c)
  BY <1>1, <1>2, <1>4, EffectTyped DEF ReplyLost, Becomes, RegTypes, noLoop
<1>5. CASE ExecFails(c)
  BY <1>1, <1>2, <1>5 DEF ExecFails, Becomes, RegTypes, noLoop
<1>6. CASE Dropped(c)
  BY <1>2, <1>6 DEF Dropped, RegTypes, noLoop
<1> QED BY <1>3, <1>4, <1>5, <1>6 DEF Redis

\* The callbacks remove their command, or put that of their request's next step.
LEMMA CallbackCases ==
  ASSUME RegTypes, NEW c \in cmds, Callback(c)
  PROVE  /\ UNCHANGED <<nameOf, answer, names, users, counter, conns, faults, early>>
         /\ \/ cmds' = cmds \ {c}
            \/ /\ c.op = "HSETNX_name" /\ c.st = "ok"
               /\ cmds' = (cmds \ {c}) \cup {Cmd("INCRBY_uid", c.req, NoUid)}
            \/ /\ c.op = "INCRBY_uid" /\ c.st # "err" /\ ~Illegal(c.uid)
               /\ cmds' = (cmds \ {c}) \cup {Cmd("HMSET_name", c.req, c.uid)}
            \/ /\ c.op = "HMSET_name" /\ c.st # "err"
               /\ cmds' = (cmds \ {c}) \cup {Cmd("HMSET_user", c.req, c.uid)}
<1>1. UNCHANGED <<nameOf, answer, names, users, counter, conns, faults, early>>  BY DEF Callback
<1>2. c.st \in {"ok", "err", "exists"}  BY DEF RegTypes, CmdType, Status, Callback
<1>3. CASE cb_set_global_name(c)
  BY <1>1, <1>2, <1>3 DEF cb_set_global_name, SendRegRsp, DupName, GoesOn
<1>4. CASE cb_alloc_uid(c)  BY <1>1, <1>4 DEF cb_alloc_uid, SendRegRsp, GoesOn
<1>5. CASE cb_set_global_info(c)  BY <1>1, <1>5 DEF cb_set_global_info, SendRegRsp, GoesOn
<1>6. CASE cb_reg_set_user_info(c)  BY <1>1, <1>6 DEF cb_reg_set_user_info, SendRegRsp
<1>7. CASE cb_init_global_uid(c)  BY <1>1, <1>7 DEF cb_init_global_uid
<1> QED BY <1>3, <1>4, <1>5, <1>6, <1>7 DEF Callback

LEMMA CallbackTyped ==
  ASSUME RegTypes, NEW c \in cmds, Callback(c) PROVE RegTypes'
<1>1. c \in CmdType  BY DEF RegTypes
<1>2. c.op # "SETNX_uid" => c.req \in Req /\ c.uid \in Nat  BY <1>1 DEF CmdType
<1>3. /\ c.op # "SETNX_uid" => Cmd("INCRBY_uid", c.req, NoUid) \in CmdType
      /\ c.op # "SETNX_uid" => Cmd("HMSET_name", c.req, c.uid) \in CmdType
      /\ c.op # "SETNX_uid" => Cmd("HMSET_user", c.req, c.uid) \in CmdType
  BY <1>2, CmdTyped DEF NoUid
<1>4. cmds \subseteq CmdType  BY DEF RegTypes
<1>5. cmds' \subseteq CmdType
  <2>1. CASE cmds' = cmds \ {c}  BY <2>1, <1>4
  <2>2. CASE c.op = "HSETNX_name" /\ cmds' = (cmds \ {c}) \cup {Cmd("INCRBY_uid", c.req, NoUid)}
    BY <2>2, <1>3, <1>4
  <2>3. CASE c.op = "INCRBY_uid" /\ cmds' = (cmds \ {c}) \cup {Cmd("HMSET_name", c.req, c.uid)}
    BY <2>3, <1>3, <1>4
  <2>4. CASE c.op = "HMSET_name" /\ cmds' = (cmds \ {c}) \cup {Cmd("HMSET_user", c.req, c.uid)}
    BY <2>4, <1>3, <1>4
  <2> QED BY <2>1, <2>2, <2>3, <2>4, CallbackCases
<1>6. UNCHANGED <<nameOf, answer, names, users, counter, conns, faults, early>>  BY CallbackCases
<1> QED BY <1>5, <1>6 DEF RegTypes

regTyped == <<nameOf, answer, cmds, names, users, counter, conns, faults, early>>

\* What each step of a loop, or of another actor, does to registration.
LEMMA RegCases ==
  ASSUME Types, [Next]_vars
  PROVE  \/ UNCHANGED regTyped
         \/ /\ \E m \in In(chan, <<Logic, Conn>>) :
                 m.type = "REG_RSP" /\ answer' = [answer EXCEPT ![m.req] = m.result]
            /\ UNCHANGED <<nameOf, cmds, names, users, counter, conns, faults, early>>
         \/ /\ \E r \in Req : cmds' = cmds \cup {Cmd("HSETNX_name", r, NoUid)}
            /\ ~NoClient("RW")
            /\ UNCHANGED <<nameOf, answer, names, users, counter, conns, faults, early>>
         \/ /\ cmds' = cmds \cup {Cmd("SETNX_uid", NoReq, NoUid)}
            /\ UNCHANGED <<nameOf, answer, names, users, counter, conns, faults, early>>
         \/ /\ StopDb
            /\ UNCHANGED <<nameOf, answer, names, users, counter, faults, early>>
         \/ \E c \in cmds : Redis(c) \/ Callback(c)
         \/ /\ \E i \in 1 .. Clients : Disconnect(i) \/ Connect(i)
            /\ UNCHANGED <<nameOf, answer, cmds, names, users, counter, early>>
<1> USE DEF regTyped
<1>1. CASE UNCHANGED vars  BY <1>1 DEF vars, regVars
<1>2. ASSUME NEW p \in Proc, Loop(p)
      PROVE  \/ UNCHANGED regTyped
             \/ RecvRegRsp \/ RecvRegReq \/ DbTick \/ (HeartBeatPanics /\ StopDb)
    BY <1>2 DEF Loop, regVars, DirecToDb, DirecToConnect, HeartBeatPanics
<1>3. CASE RecvRegRsp
  <2> DEFINE m == Head(chan[Logic, Conn])
  <2>1. /\ chan[Logic, Conn] # <<>> /\ m.type = "REG_RSP"
        /\ answer' = [answer EXCEPT ![m.req] = m.result]
        /\ UNCHANGED <<nameOf, cmds, names, users, counter, conns, faults, early>>
    BY <1>3 DEF RecvRegRsp, Got
  <2>2. m \in In(chan, <<Logic, Conn>>)  BY <2>1, RecvSound, Roles DEF Types, ChanTypes
  <2> HIDE DEF m
  <2> QED BY <2>1, <2>2
<1>4. CASE RecvRegReq
  <2> DEFINE m == Head(chan[Logic, Db])
  <2>1. /\ chan[Logic, Db] # <<>> /\ m.type = "REG_REQ"
        /\ UNCHANGED <<nameOf, answer, names, users, counter, conns, faults, early>>
        /\ \/ cmds' = cmds
           \/ ~NoClient("RW") /\ cmds' = cmds \cup {Cmd("HSETNX_name", m.req, NoUid)}
    BY <1>4 DEF RecvRegReq, Got
  <2>2. m \in Message  BY <2>1, RecvSound, Roles DEF Types, ChanTypes
  <2>3. m.req \in Req  BY <2>1, <2>2 DEF Message
  <2> HIDE DEF m
  <2> QED BY <2>1, <2>3
<1>5. CASE DbTick  BY <1>5 DEF DbTick, InitRedisDb, handle_tick
<1>6. ASSUME NEW p, Stops(p)
      PROVE  /\ UNCHANGED <<nameOf, answer, names, users, counter, faults, early>>
             /\ StopDb \/ UNCHANGED <<cmds, conns>>
  BY <1>6 DEF Stops, StopDb, regVars
<1>7. ASSUME NEW p, Starts(p) PROVE UNCHANGED regTyped  BY <1>7 DEF Starts, regVars
<1>8. ASSUME NEW uid, Kicks(uid) PROVE UNCHANGED regTyped  BY <1>8 DEF Kicks, regVars
<1>9. ASSUME NEW r, Asks(r) PROVE UNCHANGED regTyped  BY <1>9 DEF Asks, SendRegReq
<1>10. ASSUME NEW i \in 1 .. Clients, Disconnect(i) \/ Connect(i)
       PROVE  UNCHANGED <<nameOf, answer, cmds, names, users, counter, early>>
  BY <1>10 DEF Disconnect, Connect
<1>11. CASE Second(todo.until) /\ UNCHANGED <<regVars, todo>>  BY <1>11 DEF regVars
<1>12. HeartBeatPanics => UNCHANGED <<nameOf, answer, names, users, counter, faults, early>>
  BY DEF HeartBeatPanics, StopDb
<1>13. ASSUME NEW p \in Proc, Loop(p) \/ Stops(p) \/ Starts(p)
       PROVE  \/ UNCHANGED regTyped \/ RecvRegRsp \/ RecvRegReq \/ DbTick
              \/ /\ StopDb
                 /\ UNCHANGED <<nameOf, answer, names, users, counter, faults, early>>
  BY <1>13, <1>2, <1>6, <1>7, <1>12
<1>14. CASE Next
  <2>1. CASE \E p \in Proc : Loop(p) \/ Stops(p) \/ Starts(p)  BY <2>1, <1>13, <1>3, <1>4, <1>5
  <2>2. CASE (\E uid \in todo.kicks : Kicks(uid)) \/ (\E r \in todo.asks : Asks(r))
    BY <2>2, <1>8, <1>9
  <2>3. CASE \E c \in cmds : Redis(c) \/ (Callback(c) /\ UNCHANGED todo)  BY <2>3
  <2>4. CASE \E i \in 1 .. Clients : (Disconnect(i) \/ Connect(i)) /\ UNCHANGED todo
    BY <2>4, <1>10
  <2> QED BY <1>14, <2>1, <2>2, <2>3, <2>4, <1>11 DEF Next
<1> QED BY <1>1, <1>14

LEMMA RegTyped ==
  ASSUME Types, [Next]_vars PROVE RegTypes'
<1> RegTypes /\ cmds \subseteq CmdType  BY DEF Types, RegTypes
<1>1. CASE UNCHANGED regTyped  BY <1>1 DEF regTyped, RegTypes
<1>2. CASE /\ \E m \in In(chan, <<Logic, Conn>>) :
                m.type = "REG_RSP" /\ answer' = [answer EXCEPT ![m.req] = m.result]
           /\ UNCHANGED <<nameOf, cmds, names, users, counter, conns, faults, early>>
  <2>1. PICK m \in In(chan, <<Logic, Conn>>) :
          m.type = "REG_RSP" /\ answer' = [answer EXCEPT ![m.req] = m.result]
    BY <1>2
  <2>2. m \in Message  BY EdgeOf, Roles DEF In, Types, ChanTypes
  <2>3. m.req \in Req /\ m.result \in Result  BY <2>1, <2>2 DEF Message
  <2> QED BY <1>2, <2>1, <2>3 DEF RegTypes
<1>3. CASE /\ \E r \in Req : cmds' = cmds \cup {Cmd("HSETNX_name", r, NoUid)}
           /\ UNCHANGED <<nameOf, answer, names, users, counter, conns, faults, early>>
  <2>1. PICK r \in Req : cmds' = cmds \cup {Cmd("HSETNX_name", r, NoUid)}  BY <1>3
  <2>2. Cmd("HSETNX_name", r, NoUid) \in CmdType  BY CmdTyped DEF NoUid
  <2> QED BY <1>3, <2>1, <2>2 DEF RegTypes
<1>4. CASE /\ cmds' = cmds \cup {Cmd("SETNX_uid", NoReq, NoUid)}
           /\ UNCHANGED <<nameOf, answer, names, users, counter, conns, faults, early>>
  BY <1>4, CmdTyped DEF RegTypes
<1>5. CASE /\ StopDb
           /\ UNCHANGED <<nameOf, answer, names, users, counter, faults, early>>
  BY <1>5 DEF StopDb, Unconnected, RegTypes
<1>6. CASE \E c \in cmds : Redis(c) \/ Callback(c)  BY <1>6, RedisTyped, CallbackTyped
<1>7. ASSUME NEW i \in 1 .. Clients, Disconnect(i) \/ Connect(i),
             UNCHANGED <<nameOf, answer, cmds, names, users, counter, early>>
      PROVE  RegTypes'
  <2>1. Fault => faults' \in [left : Nat, seen : BOOLEAN]  BY DEF Fault, RegTypes
  <2>2. faults' \in [left : Nat, seen : BOOLEAN]
    BY <1>7, <2>1 DEF Disconnect, Connect, RegTypes
  <2>3. conns' \in [1 .. Clients -> Nat]  BY <1>7 DEF Disconnect, Connect, RegTypes
  <2> QED BY <1>7, <2>2, <2>3 DEF RegTypes
<1> QED BY <1>1, <1>2, <1>3, <1>4, <1>5, <1>6, <1>7, RegCases

LEMMA StatTyped ==
  ASSUME Types, [Next]_vars PROVE StatTypes' /\ TodoTypes'
<1> USE DEF StatTypes
<1>0. StatTypes /\ TodoTypes /\ now \in Nat /\ ChanTypes  BY DEF Types, ClockTypes
<1>1. CASE UNCHANGED <<stats, downAt>> /\ UNCHANGED todo  BY <1>0, <1>1 DEF TodoTypes
<1>2. ASSUME NEW p \in Proc, NEW q \in Proc, RecvHeartBeatReq(p, q) PROVE StatTypes'
  <2> DEFINE m == Head(chan[q, p])
  <2>1. chan[q, p] # <<>> /\ m.type = "HEART_BEAT_REQ"  BY <1>2 DEF RecvHeartBeatReq, Got
  <2>2. m \in Message  BY <2>1, <1>0, RecvSound DEF ChanTypes
  <2>3. m.ts \in Nat  BY <2>1, <2>2 DEF Message
  <2> HIDE DEF m
  <2>4. stats' = [stats EXCEPT ![p][q] = m.ts] /\ UNCHANGED downAt
    BY <1>2 DEF RecvHeartBeatReq, HeardAt, m
  <2> QED BY <1>0, <2>3, <2>4
<1>3. ASSUME NEW p \in Proc, StopServer(p), UNCHANGED stats PROVE StatTypes'
  BY <1>0, <1>3 DEF StopServer
<1>4. ASSUME NEW p \in Proc, StartServer(p) PROVE StatTypes'
  BY <1>0, <1>4 DEF StartServer, NoStats
<1>5. ASSUME NEW p \in Proc, Loop(p) PROVE StatTypes' /\ TodoTypes'
  <2>1. UNCHANGED todo  BY <1>5 DEF Loop
  <2>2. CASE \E q \in Proc : RecvHeartBeatReq(p, q)  BY <2>1, <2>2, <1>0, <1>2 DEF TodoTypes
  <2>3. handle_tick(p) \/ DbTick => UNCHANGED <<stats, downAt>>  BY DEF handle_tick, DbTick
  <2>4. RecvDispMsg(p) \/ DirecToDb \/ DirecToConnect \/ RecvRegRsp \/ RecvRegReq
          => UNCHANGED <<stats, downAt>>
    BY DEF RecvDispMsg, DirecToDb, DirecToConnect, RecvRegRsp, RecvRegReq
  <2>5. HeartBeatPanics => StopServer(Db) /\ UNCHANGED stats  BY DEF HeartBeatPanics, StopDb
  <2>6. \/ \E q \in Proc : RecvHeartBeatReq(p, q)
        \/ handle_tick(p) \/ RecvDispMsg(p) \/ DirecToDb \/ DirecToConnect
        \/ RecvRegRsp \/ RecvRegReq \/ DbTick \/ HeartBeatPanics
    BY <1>5 DEF Loop
  <2>7. TodoTypes'  BY <2>1, <1>0 DEF TodoTypes
  <2>8. UNCHANGED <<stats, downAt>> => StatTypes'  BY <1>0
  <2>9. HeartBeatPanics => StatTypes'  BY <2>5, <1>3, Roles
  <2> HIDE DEF StatTypes
  <2> QED BY <2>2, <2>3, <2>4, <2>6, <2>7, <2>8, <2>9
<1>6. ASSUME NEW p \in Proc, Stops(p) PROVE StatTypes' /\ TodoTypes'
  <2>1. todo.left > 0 /\ todo' = [todo EXCEPT !.left = @ - 1]  BY <1>6 DEF Stops
  <2>2. TodoTypes'
    <3>1. todo.left - 1 \in Nat  BY <1>0, <2>1 DEF TodoTypes
    <3> QED BY <1>0, <2>1, <3>1 DEF TodoTypes
  <2>3. CASE p # Db  BY <1>6, <2>2, <2>3, <1>3 DEF Stops
  <2>4. CASE p = Db
    <3>1. StopDb  BY <1>6, <2>4 DEF Stops
    <3>2. StopServer(Db) /\ UNCHANGED stats  BY <3>1 DEF StopDb
    <3> QED BY <3>2, <2>2, <1>3, Roles
  <2> QED BY <2>3, <2>4
<1>7. ASSUME NEW p \in Proc, Starts(p) PROVE StatTypes' /\ TodoTypes'
  BY <1>0, <1>4, <1>7 DEF Starts, TodoTypes
<1>8. ASSUME NEW uid, Kicks(uid) PROVE StatTypes' /\ TodoTypes'
  BY <1>0, <1>8 DEF Kicks, SendDupUserKick, TodoTypes
<1>9. ASSUME NEW r, Asks(r) PROVE UNCHANGED <<stats, downAt>> /\ UNCHANGED todo
  BY <1>9 DEF Asks, SendRegReq
<1>10. ASSUME NEW c, Redis(c) PROVE UNCHANGED <<stats, downAt>> /\ UNCHANGED todo
  BY <1>10 DEF Redis, Exec, ReplyLost, ExecFails, Dropped, noLoop, heartVars
<1>11. ASSUME NEW c, Callback(c) PROVE UNCHANGED <<stats, downAt>>  BY <1>11 DEF Callback
<1>12. ASSUME NEW i, Disconnect(i) \/ Connect(i) PROVE UNCHANGED <<stats, downAt>>
  BY <1>12 DEF Disconnect, Connect, heartVars
<1>13. Second(todo.until) => UNCHANGED <<stats, downAt>>  BY DEF Second
<1>14. UNCHANGED vars => UNCHANGED <<stats, downAt>> /\ UNCHANGED todo  BY DEF vars, heartVars
<1> QED BY <1>1, <1>5, <1>6, <1>7, <1>8, <1>9, <1>10, <1>11, <1>12, <1>13, <1>14 DEF Next

LEMMA TypesInit == Init => Types
<1> SUFFICES ASSUME Init PROVE Types  OBVIOUS
<1> PICK s \in Scenarios :
      /\ HeartsInit(s.started) /\ RegInit(s.asked, s.faults)
      /\ todo = [kicks |-> s.kicks, asks |-> s.asks, stops |-> s.stops, left |-> s.left,
                 until |-> s.until]
  BY DEF Init
<1>1. ClockTypes  BY ClockInit DEF ClockInv
<1>2. StatTypes /\ ChanTypes  BY DEF HeartsInit, StatTypes, ChanTypes, NoStats, Edge
<1>3. RegTypes
  <2>1. s.asked \in [Req -> Name] /\ s.faults \in Nat  BY ScenariosAssumption
  <2>2. [first |-> NoReq, uid |-> NoUid, by |-> NoReq] \in NameType  BY DEF NameType, NoUid
  <2> QED BY <2>1, <2>2 DEF RegInit, Unconnected, RegTypes
<1>4. TodoTypes  BY ScenariosAssumption DEF TodoTypes
<1> QED BY <1>1, <1>2, <1>3, <1>4 DEF Types

LEMMA TypesStep ==
  ASSUME ClockInv, Types, [Next]_vars PROVE Types'
<1>1. ClockTypes'  BY ClockStep DEF ClockInv
<1>2. ChanTypes'  BY Deliveries DEF Delivers
<1> QED BY <1>1, <1>2, RegTyped, StatTyped DEF Types

-----------------------------------------------------------------------------
(* Heartbeats: nobody is believed to have lived later than it did *)

Last(s) == IF s \in runs THEN now ELSE downAt[s]
NotAhead(s) ==
  /\ downAt[s] <= now
  /\ \A p \in Proc : stats[p][s] <= Last(s)
  /\ \A q \in Proc \cup {Peer} : \A m \in In(chan, <<s, q>>) :
       m.type = "HEART_BEAT_REQ" => m.ts <= Last(s)
HeartSound == \A s \in Proc : NotAhead(s)

LEMMA HeartCases ==
  ASSUME [Next]_vars
  PROVE  \/ UNCHANGED <<now, runs, stats, downAt>>
         \/ \E p \in Proc : \/ StopServer(p) /\ UNCHANGED <<now, stats>>
                            \/ StartServer(p) \/ \E q \in Proc : RecvHeartBeatReq(p, q)
         \/ Second(todo.until)
<1> DEFINE same == UNCHANGED <<now, runs, stats, downAt>>
<1>1. CASE UNCHANGED vars  BY <1>1 DEF vars, heartVars
<1>2. ASSUME NEW p \in Proc, Loop(p)
      PROVE  \/ same \/ (StopServer(Db) /\ UNCHANGED <<now, stats>>)
             \/ \E q \in Proc : RecvHeartBeatReq(p, q)
  <2>1. handle_tick(p) \/ DbTick => same  BY DEF handle_tick, DbTick
  <2>2. RecvDispMsg(p) \/ DirecToDb \/ DirecToConnect \/ RecvRegRsp \/ RecvRegReq => same
    BY DEF RecvDispMsg, DirecToDb, DirecToConnect, RecvRegRsp, RecvRegReq
  <2>3. HeartBeatPanics => StopServer(Db) /\ UNCHANGED <<now, stats>>  BY DEF HeartBeatPanics, StopDb
  <2>4. \/ \E q \in Proc : RecvHeartBeatReq(p, q)
        \/ handle_tick(p) \/ RecvDispMsg(p) \/ DirecToDb \/ DirecToConnect
        \/ RecvRegRsp \/ RecvRegReq \/ DbTick \/ HeartBeatPanics
    BY <1>2 DEF Loop
  <2>5. CASE \E q \in Proc : RecvHeartBeatReq(p, q)  BY <2>5
  <2> QED BY <2>1, <2>2, <2>3, <2>4, <2>5, ZenonT(60)
<1>3. ASSUME NEW p \in Proc, Stops(p)
      PROVE  \E q \in Proc : StopServer(q) /\ UNCHANGED <<now, stats>>
  <2>1. CASE p # Db  BY <1>3, <2>1 DEF Stops
  <2>2. CASE p = Db
    <3>1. StopDb  BY <1>3, <2>2 DEF Stops
    <3> QED BY <3>1, Roles DEF StopDb
  <2> QED BY <2>1, <2>2
<1>4. ASSUME NEW p \in Proc, Starts(p) PROVE StartServer(p)  BY <1>4 DEF Starts
<1>5. ASSUME NEW uid, Kicks(uid) PROVE same  BY <1>5 DEF Kicks, SendDupUserKick
<1>6. ASSUME NEW r, Asks(r) PROVE same  BY <1>6 DEF Asks, SendRegReq
<1>7. ASSUME NEW c, Redis(c) PROVE same
  BY <1>7 DEF Redis, Exec, ReplyLost, ExecFails, Dropped, noLoop, heartVars
<1>8. ASSUME NEW c, Callback(c) PROVE same  BY <1>8 DEF Callback
<1>9. ASSUME NEW i, Disconnect(i) \/ Connect(i) PROVE same
  BY <1>9 DEF Disconnect, Connect, heartVars
<1> QED BY <1>1, <1>2, <1>3, <1>4, <1>5, <1>6, <1>7, <1>8, <1>9, Roles DEF Next

LEMMA HeartStep ==
  ASSUME Types, HeartSound, [Next]_vars PROVE HeartSound'
<1> SUFFICES ASSUME NEW s \in Proc PROVE NotAhead(s)'  BY DEF HeartSound
<1>0. /\ now \in Nat /\ downAt \in [Proc -> Nat] /\ stats \in [Proc -> [Proc -> Nat]]
      /\ \A q \in Proc \cup {Peer} : <<s, q>> \in Edge
  BY EdgeOf DEF Types, ClockTypes, StatTypes
<1>1. Last(s) \in Nat /\ Last(s) <= now /\ NotAhead(s)
  BY <1>0 DEF HeartSound, NotAhead, Last
\* The clock and the lives of the servers move on.
<1>2. /\ Last(s) <= Last(s)' /\ Last(s)' \in Nat /\ downAt'[s] <= now'
      /\ s \in runs => now <= Last(s)'
  <2> DEFINE grows == /\ Last(s) <= Last(s)' /\ Last(s)' \in Nat /\ downAt'[s] <= now'
                      /\ s \in runs => now <= Last(s)'
  <2>1. CASE UNCHANGED <<now, runs, stats, downAt>>  BY <2>1, <1>0, <1>1 DEF Last, NotAhead
  <2>2. ASSUME NEW p \in Proc, StopServer(p), UNCHANGED <<now, stats>>
        PROVE  grows
    BY <2>2, <1>0, <1>1 DEF StopServer, Last, NotAhead
  <2>3. ASSUME NEW p \in Proc, StartServer(p) PROVE grows
    BY <2>3, <1>0, <1>1 DEF StartServer, Last, NotAhead
  <2>4. ASSUME NEW p \in Proc, NEW q \in Proc, RecvHeartBeatReq(p, q)
        PROVE  grows
    <3>1. UNCHANGED <<now, runs, downAt>>  BY <2>4 DEF RecvHeartBeatReq
    <3> QED BY <3>1, <1>0, <1>1 DEF Last, NotAhead
  <2>5. CASE Second(todo.until)  BY <2>5, <1>0, <1>1 DEF Second, Last, NotAhead
  <2> QED BY <2>1, <2>2, <2>3, <2>4, <2>5, HeartCases
<1>3. \A p \in Proc : stats'[p][s] <= Last(s)'
  <2>1. CASE UNCHANGED stats  BY <2>1, <1>0, <1>1, <1>2 DEF NotAhead
  <2>2. ASSUME NEW p \in Proc, StartServer(p) PROVE \A r \in Proc : stats'[r][s] <= Last(s)'
    <3>1. stats' = [stats EXCEPT ![p] = NoStats] /\ NoStats[s] = 0  BY <2>2 DEF StartServer, NoStats
    <3> QED BY <3>1, <1>0, <1>1, <1>2 DEF NotAhead
  <2>3. ASSUME NEW p \in Proc, NEW q \in Proc, RecvHeartBeatReq(p, q)
        PROVE  \A r \in Proc : stats'[r][s] <= Last(s)'
    <3> DEFINE m == Head(chan[q, p])
    <3>1. /\ chan[q, p] # <<>> /\ m.type = "HEART_BEAT_REQ"
          /\ stats' = [stats EXCEPT ![p][q] = m.ts]
      BY <2>3 DEF RecvHeartBeatReq, Got, HeardAt
    <3>2. m \in Message /\ m \in In(chan, <<q, p>>)  BY <3>1, RecvSound DEF Types, ChanTypes
    <3>3. m.ts \in Nat  BY <3>1, <3>2 DEF Message
    <3>4. m.ts <= Last(q)  BY <3>1, <3>2 DEF HeartSound, NotAhead
    <3> HIDE DEF m
    <3>5. ASSUME NEW r \in Proc PROVE stats'[r][s] <= Last(s)'
      <4>1. stats'[r][s] = IF r = p /\ s = q THEN m.ts ELSE stats[r][s]  BY <3>1, <1>0
      <4>2. stats[r][s] \in Nat /\ stats[r][s] <= Last(s)  BY <1>0, <1>1 DEF NotAhead
      <4> QED BY <4>1, <4>2, <3>3, <3>4, <1>1, <1>2
    <3> QED BY <3>5
  <2> QED BY <2>1, <2>2, <2>3, HeartCases DEF Second
<1>4. ASSUME NEW q \in Proc \cup {Peer}, NEW m \in In(chan', <<s, q>>), m.type = "HEART_BEAT_REQ"
      PROVE  m.ts <= Last(s)'
  <2>1. m \in In(chan, <<s, q>>) \/ NewMsg(<<s, q>>, m)
    BY <1>0, Deliveries DEF Delivers
  <2>2. CASE m \in In(chan, <<s, q>>)
    <3>1. m \in Message  BY <2>2, <1>0 DEF In, Types, ChanTypes
    <3>2. m.ts \in Nat  BY <3>1, <1>4 DEF Message
    <3> QED BY <2>2, <3>2, <1>1, <1>2, <1>4 DEF NotAhead
  <2>3. CASE m = Heart(now) /\ s \in runs  BY <2>3, <1>2 DEF Heart
  <2> QED BY <2>1, <2>2, <2>3, <1>4 DEF NewMsg
<1> QED BY <1>2, <1>3, <1>4 DEF NotAhead

LEMMA HeartInit == Init => HeartSound
<1> SUFFICES ASSUME NEW sc \in Scenarios, HeartsInit(sc.started), NEW s \in Proc PROVE NotAhead(s)
  BY DEF Init, HeartSound
<1>1. /\ downAt[s] = 0 /\ now = StartTs /\ StartTs \in Nat
      /\ \A p \in Proc : stats[p][s] = 0
      /\ \A q \in Proc \cup {Peer} : chan[<<s, q>>] = <<>>
  BY HeartsAssumption DEF HeartsInit, NoStats
<1>2. \A q \in Proc \cup {Peer} : In(chan, <<s, q>>) = {}  BY <1>1 DEF In
<1> QED BY <1>1, <1>2 DEF NotAhead, Last

HeartInv == ClockInv /\ Types /\ HeartSound

LEMMA HeartInvariant == Spec => []HeartInv
<1>1. Init => HeartInv  BY ClockInit, TypesInit, HeartInit DEF HeartInv
<1>2. HeartInv /\ [Next]_vars => HeartInv'
  BY ClockStep, TypesStep, HeartStep DEF HeartInv
<1> QED BY <1>1, <1>2, PTL DEF Spec

\* The last message of a channel that has grown.
NewKick(s) ==
  /\ Len(chan'[<<Logic, s>>]) > Len(chan[<<Logic, s>>])
  /\ chan'[<<Logic, s>>][Len(chan'[<<Logic, s>>])].type = "KICK_DUPLICATE_USER"

\* Only a kick of logic_serv puts a kick into a channel to a disp_serv.
LEMMA KickCases ==
  ASSUME Types, [Next]_vars, NEW s \in DispSet, NewKick(s)
  PROVE  \E uid \in todo.kicks : SendDupUserKick(uid)
<1> DEFINE e == <<Logic, s>>
<1>0. /\ e \in Edge /\ chan \in [Edge -> Seq(Message)] /\ chan[e] \in Seq(Message)
      /\ s \notin {Conn, Db, Logic} /\ Logic \notin DispSet
  BY EdgeOf, Roles, HeartsAssumption DEF Types, ChanTypes
\* Neither a relay by another server, nor what is taken out.
<1>1. ASSUME NEW ch \in [Edge -> Seq(Message)], NEW p \in Proc, NEW q \in Proc \cup {Peer}, NEW m,
             <<p, q>> # e, chan' = SendToServ(ch, p, q, m)
      PROVE  chan'[e] = ch[e]
  BY <1>0, <1>1 DEF SendToServ
<1>2. ASSUME NEW p \in Proc, NEW q \in Proc, chan[q, p] # <<>>
      PROVE  /\ Recved(chan, q, p) \in [Edge -> Seq(Message)]
             /\ Len(Recved(chan, q, p)[e]) <= Len(chan[e])
  <2>1. Recved(chan, q, p) \in [Edge -> Seq(Message)]  BY <1>0, <1>2, RecvSound
  <2>2. <<q, p>> \in Edge /\ chan[q, p] \in Seq(Message)  BY <1>0, EdgeOf
  <2>3. CASE <<q, p>> = e
    <3>1. Recved(chan, q, p)[e] = Tail(chan[e])  BY <1>0, <2>3 DEF Recved
    <3>2. chan[e] # <<>>  BY <1>2, <2>3
    <3>3. \A b \in Seq(Message) : b # <<>> => Len(Tail(b)) <= Len(b)  OBVIOUS
    <3> QED BY <2>1, <3>1, <3>2, <3>3, <1>0
  <2>4. CASE <<q, p>> # e
    <3>1. Recved(chan, q, p)[e] = chan[e]  BY <1>0, <2>2, <2>4 DEF Recved
    <3>2. Len(chan[e]) \in Nat  BY <1>0
    <3> QED BY <2>1, <3>1, <3>2
  <2> QED BY <2>3, <2>4
<1>3. ASSUME Len(chan'[e]) <= Len(chan[e]), Len(chan'[e]) \in Nat PROVE FALSE
  BY <1>0, <1>3 DEF NewKick
<1>4. ChanTypes'  BY Deliveries DEF Delivers
<1>5. Len(chan'[e]) \in Nat /\ Len(chan[e]) \in Nat  BY <1>0, <1>4 DEF ChanTypes
<1>6. ASSUME UNCHANGED chan PROVE FALSE  BY <1>6, <1>3, <1>5
<1>7. ASSUME NEW p \in Proc, NEW q \in Proc, chan[q, p] # <<>>, chan' = Recved(chan, q, p)
      PROVE  FALSE
  BY <1>7, <1>2, <1>3, <1>5
<1>8. ASSUME NEW p \in Proc, NEW q \in Proc, NEW r \in Proc \cup {Peer}, NEW m, chan[q, p] # <<>>,
             <<p, r>> # e, chan' = SendToServ(Recved(chan, q, p), p, r, m)
      PROVE  FALSE
  BY <1>8, <1>1, <1>2, <1>3, <1>5
<1>9. ASSUME NEW p, handle_tick(p) PROVE FALSE
  <2>1. CASE chan'[e] = chan[e]  BY <2>1, <1>3, <1>5
  <2>2. CASE p = Logic /\ chan'[e] = SendToServ(chan, Logic, s, Heart(now))[e]
    <3>1. CASE Full(chan, Logic, s)
      <4>1. chan'[e] = chan[e]  BY <3>1, <2>2 DEF SendToServ
      <4> QED BY <4>1, <1>3, <1>5
    <3>2. CASE ~Full(chan, Logic, s)
      <4>1. chan'[e] = Append(chan[e], Heart(now))  BY <3>2, <2>2, <1>0 DEF SendToServ
      <4>2. now \in Nat  BY DEF Types, ClockTypes
      <4>3. Heart(now) \in Message  BY <4>2 DEF Heart, Message
      <4>4. chan'[e][Len(chan'[e])] = Heart(now)  BY <4>1, <4>3, <1>0
      <4> QED BY <4>4 DEF NewKick, Heart
    <3> QED BY <3>1, <3>2
  <2>3. chan' = chan \/ chan' = [x \in DOMAIN chan |->
             IF x[1] = p /\ x[2] \in HeartTargets(p) \ {Peer}
             THEN SendToServ(chan, p, x[2], Heart(now))[x] ELSE chan[x]]
    BY <1>9 DEF handle_tick, SendHeartBeatMsg
  <2>4. CASE chan' = [x \in DOMAIN chan |->
             IF x[1] = p /\ x[2] \in HeartTargets(p) \ {Peer}
             THEN SendToServ(chan, p, x[2], Heart(now))[x] ELSE chan[x]]
    BY <2>1, <2>2, <2>4, <1>0
  <2> QED BY <2>1, <2>3, <2>4
<1>10. ASSUME NEW p \in Proc, Loop(p) PROVE FALSE
  <2>1. ASSUME NEW q \in Proc, RecvHeartBeatReq(p, q) PROVE FALSE
    BY <2>1, <1>7 DEF RecvHeartBeatReq, Got
  <2>2. CASE p \in DispSet /\ RecvDispMsg(p)
    <3> DEFINE m == Head(chan[Logic, p])
    <3>1. /\ chan[Logic, p] # <<>> /\ m.type = "KICK_DUPLICATE_USER"
          /\ chan' = SendToServ(Recved(chan, Logic, p), p, m.spec, m)
      BY <2>2 DEF RecvDispMsg, Got
    <3>2. m \in Message  BY <3>1, RecvSound, Roles, <1>0
    <3>3. m.spec = Peer  BY <3>1, <3>2 DEF Message
    <3> HIDE DEF m
    <3> QED BY <3>1, <3>3, <2>2, <1>0, <1>8, Roles
  <2>3. CASE DirecToDb
    <3>1. /\ chan[Conn, Logic] # <<>>
          /\ chan' = SendToServ(Recved(chan, Conn, Logic), Logic, Db, Head(chan[Conn, Logic]))
      BY <2>3 DEF DirecToDb, Got, Sends
    <3> QED BY <3>1, <1>0, <1>8, Roles
  <2>4. CASE DirecToConnect
    <3>1. /\ chan[Db, Logic] # <<>>
          /\ chan' = SendToServ(Recved(chan, Db, Logic), Logic, Conn, Head(chan[Db, Logic]))
      BY <2>4 DEF DirecToConnect, Got, Sends
    <3> QED BY <3>1, <1>0, <1>8, Roles
  <2>5. CASE RecvRegRsp  BY <2>5, <1>7, Roles DEF RecvRegRsp, Got
  <2>6. CASE RecvRegReq  BY <2>6, <1>7, Roles DEF RecvRegReq, Got
  <2>7. CASE DbTick  BY <2>7, <1>9 DEF DbTick
  <2>8. CASE HeartBeatPanics  BY <2>8, <1>6 DEF HeartBeatPanics, StopDb
  <2>9. CASE handle_tick(p)  BY <2>9, <1>9
  <2> QED BY <1>10, <2>1, <2>2, <2>3, <2>4, <2>5, <2>6, <2>7, <2>8, <2>9 DEF Loop
<1>11. ASSUME NEW p \in Proc, Stops(p) \/ Starts(p) PROVE UNCHANGED chan
  BY <1>11 DEF Stops, Starts, StopDb, StartServer
<1>12. ASSUME NEW r \in todo.asks, Asks(r) PROVE FALSE
  <2>1. chan' = SendToServ(chan, Conn, Logic, RegReq(r))  BY <1>12 DEF Asks, SendRegReq, Sends
  <2>2. chan'[e] = chan[e]  BY <2>1, <1>1, <1>0, Roles, HeartsAssumption
  <2> QED BY <2>2, <1>3, <1>5
<1>13. ASSUME NEW c \in cmds, Redis(c) PROVE UNCHANGED chan
  BY <1>13 DEF Redis, Exec, ReplyLost, ExecFails, Dropped, noLoop, heartVars
<1>14. ASSUME NEW c \in cmds, Callback(c) PROVE FALSE
  <2>0. c.st \in {"ok", "err", "exists"}
    BY <1>14 DEF Types, RegTypes, CmdType, Status, Callback
  <2>1. UNCHANGED chan \/ \E result : SendRegRsp(c, result)
    <3>1. CASE cb_set_global_name(c)  BY <3>1, <2>0 DEF cb_set_global_name, GoesOn, DupName
    <3>2. CASE cb_alloc_uid(c)  BY <3>2 DEF cb_alloc_uid, GoesOn
    <3>3. CASE cb_set_global_info(c)  BY <3>3 DEF cb_set_global_info, GoesOn
    <3>4. CASE cb_reg_set_user_info(c)  BY <3>4 DEF cb_reg_set_user_info
    <3>5. CASE cb_init_global_uid(c)  BY <3>5 DEF cb_init_global_uid
    <3> QED BY <1>14, <3>1, <3>2, <3>3, <3>4, <3>5 DEF Callback
  <2>2. ASSUME NEW m, chan' = SendToServ(chan, Db, Logic, m) PROVE FALSE
    <3>1. chan'[e] = chan[e]  BY <2>2, <1>1, <1>0, Roles, HeartsAssumption
    <3> QED BY <3>1, <1>3, <1>5
  <2> QED BY <2>1, <2>2, <1>6 DEF SendRegRsp, Sends
<1>15. ASSUME NEW i, Disconnect(i) \/ Connect(i) PROVE UNCHANGED chan
  BY <1>15 DEF Disconnect, Connect, heartVars
<1>16. Second(todo.until) => UNCHANGED chan  BY DEF Second
<1>17. UNCHANGED vars => UNCHANGED chan  BY DEF vars, heartVars
<1> QED
  BY <1>6, <1>10, <1>11, <1>12, <1>13, <1>14, <1>15, <1>16, <1>17 DEF Next, Kicks

LEMMA DeadShunnedStep ==
  ASSUME HeartInv, [Next]_vars, NEW s \in DispSet, NewKick(s)
  PROVE  s \in runs \/ now - downAt[s] <= Life
<1>0. Types /\ HeartSound /\ s \in Proc /\ Logic \in Proc  BY Roles DEF HeartInv
<1>1. PICK uid \in todo.kicks : SendDupUserKick(uid)  BY <1>0, KickCases
<1>2. uid \in Nat  BY <1>0 DEF Types, TodoTypes
<1>3. PICK d \in DispOf(uid) :
        IF d = NoServ THEN UNCHANGED chan ELSE chan' = SendToServ(chan, Logic, d, Kick(uid))
  BY <1>1 DEF SendDupUserKick
<1>4. <<Logic, s>> \in Edge /\ chan \in [Edge -> Seq(Message)] /\ Len(chan[<<Logic, s>>]) \in Nat
  BY <1>0, EdgeOf DEF Types, ChanTypes
<1>5. d # NoServ  BY <1>3, <1>4 DEF NewKick
<1>6. d \in DispSet /\ Fresh(stats[Logic], d, Life, now)
  BY <1>0, <1>2, <1>3, <1>5, DispSound DEF Types
<1>7. d = s
  <2>1. SUFFICES ASSUME d # s PROVE FALSE  OBVIOUS
  <2>2. chan'[<<Logic, s>>] = chan[<<Logic, s>>]  BY <1>3, <1>4, <1>5, <2>1 DEF SendToServ
  <2> QED BY <2>2, <1>4 DEF NewKick
<1>8. stats[Logic][s] + Life >= now  BY <1>6, <1>7 DEF Fresh
<1>9. stats[Logic][s] <= Last(s)  BY <1>0 DEF HeartSound, NotAhead
<1>10. stats[Logic][s] \in Nat /\ downAt[s] \in Nat /\ now \in Nat /\ Life \in Nat
  BY <1>0, HeartsAssumption DEF Types, StatTypes, ClockTypes, Life
<1>11. CASE s \notin runs
  <2>1. stats[Logic][s] <= downAt[s]  BY <1>9, <1>11 DEF Last
  <2> QED BY <2>1, <1>8, <1>10
<1> QED BY <1>11

\* KicksShunTheDead: whatever the scenario, a disp_serv that has been down for
\* longer than a heartbeat lives is handed no kick, though its last heartbeats
\* may arrive only after it went down.
THEOREM KicksShunTheDead == Spec => DeadShunned
<1>1. ASSUME HeartInv, [Next]_vars, NEW s \in DispSet,
             Len(chan'[Logic, s]) > Len(chan[Logic, s]),
             chan'[Logic, s][Len(chan'[Logic, s])].type = "KICK_DUPLICATE_USER"
      PROVE  s \in runs \/ now - downAt[s] <= Life
  BY <1>1, DeadShunnedStep DEF NewKick
<1>2. HeartInv /\ [Next]_vars =>
        [\A s \in DispSet :
           Len(chan'[Logic, s]) > Len(chan[Logic, s])
             /\ chan'[Logic, s][Len(chan'[Logic, s])].type = "KICK_DUPLICATE_USER"
             => s \in runs \/ now - downAt[s] <= Life]_vars
  BY <1>1
<1> QED BY <1>2, HeartInvariant, PTL DEF Spec, DeadShunned

-----------------------------------------------------------------------------
(* Registration: a request that has the name alone goes on *)

\* c holds its name; has a uid; has not written the name, has, not the user.
Token(c) == c.op \in {"INCRBY_uid", "HMSET_name", "HMSET_user"} \/ (c.op = "HSETNX_name" /\ c.st = "ok")
Drawn(c) == c.op \in {"HMSET_name", "HMSET_user"} \/ (c.op = "INCRBY_uid" /\ c.st = "ok")
Nameless(c) == c.op \in {"HSETNX_name", "INCRBY_uid"} \/ (c.op = "HMSET_name" /\ c.st = "wait")
Named(c) == c.op = "HMSET_user" \/ (c.op = "HMSET_name" /\ c.st = "ok")
Unwritten(c) == c.op # "HMSET_user" \/ c.st = "wait"
Over(c) == c.op = "HMSET_user" /\ c.st = "ok"

NamesSound ==
  \A n \in Name : /\ names[n].first = NoReq => names[n].uid = NoUid
                  /\ names[n].uid # NoUid => counter # Unset
Owner ==
  /\ \A c \in cmds : Token(c) => names[nameOf[c.req]].first = c.req
  /\ \A c, d \in cmds : Token(c) /\ Token(d) /\ c.req = d.req => c = d
Uids ==
  /\ \A c \in cmds : Drawn(c) => counter # Unset /\ 0 < c.uid /\ c.uid <= counter
  /\ \A c, d \in cmds : Drawn(c) /\ Drawn(d) /\ c.uid = d.uid => c = d
  /\ \A u \in users : counter # Unset /\ u.uid <= counter
  /\ \A c \in cmds, u \in users : Drawn(c) /\ Unwritten(c) => u.uid # c.uid
Written ==
  \A c \in cmds :
    /\ c.st = "exists" => c.op = "HSETNX_name"
    /\ Token(c) /\ Nameless(c) => names[nameOf[c.req]].uid = NoUid
    /\ Named(c) => names[nameOf[c.req]].uid = c.uid /\ names[nameOf[c.req]].by = c.req
    /\ Over(c) => [uid |-> c.uid, by |-> c.req] \in users
RegSound == NamesSound /\ Owner /\ Uids /\ Written

\* d claims nothing that c has not claimed.
Heir(d, c) ==
  /\ d.req = c.req /\ (d.st = "exists" => d.op = "HSETNX_name")
  /\ Token(d) => Token(c)
  /\ Token(d) /\ Nameless(d) => Nameless(c)
  /\ Drawn(d) => Drawn(c) /\ d.uid = c.uid
  /\ Drawn(d) /\ Unwritten(d) => Unwritten(c)
  /\ Named(d) => Named(c) /\ d.uid = c.uid
  /\ ~Over(d)

redisVars == <<nameOf, names, users, counter>>

LEMMA SoundHeir ==
  ASSUME RegSound, UNCHANGED redisVars, NEW c \in cmds, NEW d, Heir(d, c),
         cmds' \subseteq (cmds \ {c}) \cup {d}
  PROVE  RegSound'
<1> USE DEF Heir, redisVars
<1>1. NamesSound'  BY DEF RegSound, NamesSound
<1>2. Owner'  BY DEF RegSound, Owner
<1>3. Uids'  BY DEF RegSound, Uids
<1>4. Written'  BY DEF RegSound, Written
<1> QED BY <1>1, <1>2, <1>3, <1>4 DEF RegSound

LEMMA SoundNew ==
  ASSUME RegSound, UNCHANGED redisVars, NEW d, cmds' \subseteq cmds \cup {d},
         d.op \in {"HSETNX_name", "SETNX_uid"}, d.st = "wait"
  PROVE  RegSound'
<1>0. ~Token(d) /\ ~Drawn(d) /\ ~Named(d) /\ ~Over(d)  BY DEF Token, Drawn, Named, Over
<1> USE DEF redisVars
<1>1. NamesSound'  BY DEF RegSound, NamesSound
<1>2. Owner'  BY <1>0 DEF RegSound, Owner
<1>3. Uids'  BY <1>0 DEF RegSound, Uids
<1>4. Written'  BY <1>0 DEF RegSound, Written
<1> QED BY <1>1, <1>2, <1>3, <1>4 DEF RegSound

LEMMA SoundFewer ==
  ASSUME RegSound, UNCHANGED redisVars, cmds' \subseteq cmds PROVE RegSound'
<1> USE DEF redisVars
<1>1. NamesSound'  BY DEF RegSound, NamesSound
<1>2. Owner'  BY DEF RegSound, Owner
<1>3. Uids'  BY DEF RegSound, Uids
<1>4. Written'  BY DEF RegSound, Written
<1> QED BY <1>1, <1>2, <1>3, <1>4 DEF RegSound

LEMMA CallbackHeir ==
  ASSUME RegTypes, RegSound, NEW c \in cmds, Callback(c)
  PROVE  \/ cmds' = cmds \ {c}
         \/ \E d : Heir(d, c) /\ d.st = "wait" /\ cmds' = (cmds \ {c}) \cup {d}
<1>1. c.st # "wait" /\ c.st \in Status  BY DEF Callback, RegTypes, CmdType
<1>2. c.st = "exists" => c.op = "HSETNX_name"  BY DEF RegSound, Written
<1>3. CASE cmds' = cmds \ {c}  BY <1>3
<1>4. CASE c.op = "HSETNX_name" /\ c.st = "ok"
           /\ cmds' = (cmds \ {c}) \cup {Cmd("INCRBY_uid", c.req, NoUid)}
  <2>1. Heir(Cmd("INCRBY_uid", c.req, NoUid), c)
    BY <1>4 DEF Heir, Cmd, Token, Drawn, Nameless, Named, Unwritten, Over
  <2> QED BY <1>4, <2>1 DEF Cmd
<1>5. CASE c.op = "INCRBY_uid" /\ c.st # "err"
           /\ cmds' = (cmds \ {c}) \cup {Cmd("HMSET_name", c.req, c.uid)}
  <2>1. Heir(Cmd("HMSET_name", c.req, c.uid), c)
    BY <1>1, <1>2, <1>5 DEF Heir, Cmd, Token, Drawn, Nameless, Named, Unwritten, Over, Status
  <2> QED BY <1>5, <2>1 DEF Cmd
<1>6. CASE c.op = "HMSET_name" /\ c.st # "err"
           /\ cmds' = (cmds \ {c}) \cup {Cmd("HMSET_user", c.req, c.uid)}
  <2>1. Heir(Cmd("HMSET_user", c.req, c.uid), c)
    BY <1>1, <1>2, <1>6 DEF Heir, Cmd, Token, Drawn, Nameless, Named, Unwritten, Over, Status
  <2> QED BY <1>6, <2>1 DEF Cmd
<1> QED BY <1>3, <1>4, <1>5, <1>6, CallbackCases

LEMMA SoundCallback ==
  ASSUME RegTypes, RegSound, NEW c \in cmds, Callback(c) PROVE RegSound'
<1>1. UNCHANGED redisVars  BY CallbackCases DEF redisVars
<1> QED BY <1>1, CallbackHeir, SoundFewer, SoundHeir

\* d is what became of c, executed, whether its reply came or not.
Became(d, c) ==
  /\ d.op = c.op /\ d.req = c.req /\ (d.uid = c.uid \/ c.op = "INCRBY_uid")
  /\ \/ d.st = "err"
     \/ /\ d.st = "exists" /\ c.op = "HSETNX_name" /\ Taken(c)
     \/ /\ d.st = "ok" /\ (c.op = "HSETNX_name" => ~Taken(c))
        /\ c.op = "INCRBY_uid" => d.uid = counter'
Executed(d, c, op) ==
  /\ c.op = op /\ c.st = "wait" /\ cmds' = (cmds \ {c}) \cup {d} /\ Became(d, c) /\ Effect(c) /\ UNCHANGED nameOf

LEMMA SoundHsetnx ==
  ASSUME RegTypes, RegSound, NEW c \in cmds, NEW d, Executed(d, c, "HSETNX_name")
  PROVE  RegSound'
<1> DEFINE n == nameOf[c.req]
<1>0. /\ c.req \in Req /\ n \in Name /\ c.req # NoReq /\ names \in [Name -> NameType]
      /\ d.op = "HSETNX_name" /\ d.req = c.req
  BY RegAssumption DEF RegTypes, CmdType, Executed, Became
<1>1. CASE names[n].first # NoReq
  <2>1. names' = [names EXCEPT ![n].first = IF @ = NoReq THEN c.req ELSE @]
    BY DEF Executed, Effect, Hsetnx
  <2>2. names[n] \in NameType  BY <1>0
  <2>3. [names[n] EXCEPT !.first = names[n].first] = names[n]  BY <2>2 DEF NameType
  <2>4. names' = names
    <3>1. names' = [names EXCEPT ![n] = [names[n] EXCEPT !.first = names[n].first]]
      BY <2>1, <1>1, <1>0
    <3> QED BY <3>1, <2>3, <1>0
  <2>5. users' = users /\ counter' = counter /\ nameOf' = nameOf  BY DEF Executed, Effect
  <2>6. d.st \in {"err", "exists"}  BY <1>1 DEF Executed, Became, Taken
  <2>7. Heir(d, c)  BY <1>0, <2>6 DEF Heir, Token, Drawn, Nameless, Named, Unwritten, Over
  <2> QED BY <2>4, <2>5, <2>7, SoundHeir DEF redisVars, Executed
<1>2. CASE names[n].first = NoReq
  <2>1. names' = [names EXCEPT ![n] = [names[n] EXCEPT !.first = c.req]]
    BY <1>2, <1>0 DEF Executed, Effect, Hsetnx
  <2>2. names[n] \in NameType  BY <1>0
  <2>3. /\ \A m \in Name : m # n => names'[m] = names[m]
        /\ names'[n].first = c.req /\ names'[n].uid = names[n].uid /\ names'[n].by = names[n].by
    BY <1>0, <2>1, <2>2 DEF NameType
  <2>4. UNCHANGED <<users, counter, nameOf>>  BY DEF Executed, Effect
  <2>5. names[n].uid = NoUid  BY <1>0, <1>2 DEF RegSound, NamesSound
  <2>6. \A x \in cmds : Token(x) => nameOf[x.req] # n /\ x.req # c.req
    <3> SUFFICES ASSUME NEW x \in cmds, Token(x) PROVE nameOf[x.req] # n
      OBVIOUS
    <3>1. x.req \in Req  BY DEF RegTypes, CmdType, Token
    <3>2. names[nameOf[x.req]].first = x.req  BY DEF RegSound, Owner
    <3> QED BY <3>1, <3>2, <1>2, RegAssumption
  <2>7. ~Drawn(d) /\ ~Named(d) /\ ~Over(d) /\ (d.st = "exists" => d.op = "HSETNX_name")
    BY <1>0 DEF Drawn, Named, Over
  <2>8. \A x \in cmds : nameOf[x.req] \in Name \/ x.op = "SETNX_uid"  BY DEF RegTypes, CmdType
  <2>9. cmds' = (cmds \ {c}) \cup {d}  BY DEF Executed
  <2> HIDE DEF n
  <2>10. NamesSound'  BY <1>0, <2>3, <2>4, <2>5 DEF RegSound, NamesSound
  <2>11. Owner'
    <3>1. ASSUME NEW x \in cmds, Token(x) PROVE names'[nameOf'[x.req]].first = x.req
      <4>1. nameOf[x.req] \in Name /\ names[nameOf[x.req]].first = x.req
        BY <3>1, <2>8 DEF RegSound, Owner, Token
      <4> QED BY <3>1, <4>1, <2>3, <2>4, <2>6
    <3>2. names'[nameOf'[d.req]].first = d.req  BY <1>0, <2>3, <2>4 DEF n
    <3>3. \A x, y \in cmds' : Token(x) /\ Token(y) /\ x.req = y.req => x = y
      BY <1>0, <2>6, <2>9 DEF RegSound, Owner
    <3> QED BY <3>1, <3>2, <3>3, <2>9 DEF Owner
  <2>12. Uids'  BY <2>4, <2>7, <2>9 DEF RegSound, Uids
  <2>13. Written'
    <3>1. ASSUME NEW x \in cmds, x.op # "SETNX_uid"
          PROVE  names'[nameOf'[x.req]].uid = names[nameOf[x.req]].uid
                 /\ names'[nameOf'[x.req]].by = names[nameOf[x.req]].by
      BY <3>1, <2>3, <2>4, <2>8
    <3>2. names'[nameOf'[d.req]].uid = NoUid  BY <1>0, <2>3, <2>4, <2>5 DEF n
    <3>3. \A x \in cmds : x.op = "SETNX_uid" => ~Token(x) /\ ~Named(x) /\ ~Over(x)
      BY DEF Token, Named, Over
    <3> QED BY <3>1, <3>2, <3>3, <2>4, <2>7, <2>9 DEF RegSound, Written
  <2> QED BY <2>10, <2>11, <2>12, <2>13 DEF RegSound
<1> QED BY <1>1, <1>2

LEMMA SoundIncr ==
  ASSUME RegTypes, RegSound, NEW c \in cmds, NEW d, Executed(d, c, "INCRBY_uid"),
         counter' = UidIncr + (IF counter = Unset THEN 0 ELSE counter)
  PROVE  RegSound'
<1>0. UNCHANGED <<names, users, nameOf>> /\ cmds' = (cmds \ {c}) \cup {d}  BY DEF Executed, Effect
<1>1. /\ d.op = "INCRBY_uid" /\ d.req = c.req /\ d.st \in {"err", "ok"}
      /\ d.st = "ok" => d.uid = counter'
  BY DEF Executed, Became
<1>2. /\ counter' \in Nat /\ 0 < counter' /\ counter' # Unset
      /\ counter # Unset => counter < counter' /\ counter \in Nat
  <2>1. UidIncr \in Nat /\ 0 < UidIncr  BY RegAssumption
  <2>2. CASE counter = Unset  BY <2>1, <2>2 DEF Unset
  <2>3. CASE counter # Unset
    <3>1. counter \in Nat /\ counter' = UidIncr + counter  BY <2>3 DEF RegTypes
    <3> QED BY <2>1, <2>3, <3>1 DEF Unset
  <2> QED BY <2>2, <2>3
<1>3. (\A x \in cmds : x.uid \in Nat) /\ (\A u \in users : u.uid \in Nat)
  BY DEF RegTypes, CmdType
<1>4. /\ Token(c) /\ Token(d) /\ Nameless(c) /\ ~Named(d) /\ ~Over(d)
      /\ Drawn(d) => d.st = "ok"
  BY <1>1 DEF Executed, Token, Nameless, Named, Over, Drawn
<1>5. NamesSound'  BY <1>0, <1>2 DEF RegSound, NamesSound
<1>6. Owner'  BY <1>0, <1>1, <1>4 DEF RegSound, Owner
<1>7. Uids'
  <2>1. ASSUME NEW x \in cmds, Drawn(x) PROVE 0 < x.uid /\ x.uid < counter'
    <3>1. counter # Unset /\ 0 < x.uid /\ x.uid <= counter  BY <2>1 DEF RegSound, Uids
    <3> QED BY <3>1, <1>2, <1>3
  <2>2. ASSUME NEW u \in users PROVE u.uid < counter'
    <3>1. counter # Unset /\ u.uid <= counter  BY DEF RegSound, Uids
    <3> QED BY <3>1, <1>2, <1>3
  <2>3. Drawn(d) => d.uid = counter' /\ \A x \in cmds : Drawn(x) => x.uid # d.uid
    BY <2>1, <1>1, <1>2, <1>3, <1>4
  <2>4. /\ \A x \in cmds' : Drawn(x) => counter' # Unset /\ 0 < x.uid /\ x.uid <= counter'
        /\ \A x \in users' : counter' # Unset /\ x.uid <= counter'
    BY <2>1, <2>2, <2>3, <1>0, <1>2, <1>3
  <2>5. \A x, y \in cmds' : Drawn(x) /\ Drawn(y) /\ x.uid = y.uid => x = y
    BY <2>3, <1>0 DEF RegSound, Uids
  <2>6. Drawn(d) => \A u \in users : u.uid # d.uid  BY <2>2, <2>3, <1>2, <1>3
  <2>7. \A x \in cmds', u \in users' : Drawn(x) /\ Unwritten(x) => u.uid # x.uid
    BY <2>6, <1>0 DEF RegSound, Uids
  <2> QED BY <2>4, <2>5, <2>7 DEF Uids
<1>8. Written'  BY <1>0, <1>1, <1>4 DEF RegSound, Written
<1> QED BY <1>5, <1>6, <1>7, <1>8 DEF RegSound

LEMMA SoundName ==
  ASSUME RegTypes, RegSound, NEW c \in cmds, NEW d, Executed(d, c, "HMSET_name")
  PROVE  RegSound' /\ names[nameOf[c.req]].uid = NoUid
<1> DEFINE n == nameOf[c.req]
<1>0. /\ c.req \in Req /\ n \in Name /\ c.req # NoReq /\ names[n] \in NameType
      /\ c.st = "wait" /\ Token(c) /\ Nameless(c) /\ Drawn(c) /\ Unwritten(c)
  BY RegAssumption DEF RegTypes, CmdType, Executed, Token, Nameless, Drawn, Unwritten
<1>1. UNCHANGED <<counter, users, nameOf>> /\ cmds' = (cmds \ {c}) \cup {d}
  BY DEF Executed, Effect
<1>2. names' = [names EXCEPT ![n] = [names[n] EXCEPT !.uid = c.uid, !.by = c.req]]
  BY <1>0 DEF Executed, Effect, RegTypes
<1>3. /\ \A m \in Name : m # n => names'[m] = names[m]
      /\ names'[n].first = names[n].first /\ names'[n].uid = c.uid /\ names'[n].by = c.req
  BY <1>0, <1>2 DEF NameType, RegTypes
<1>4. d.op = "HMSET_name" /\ d.req = c.req /\ d.uid = c.uid /\ d.st \in {"err", "ok"}
  BY DEF Executed, Became
<1>5. Token(d) /\ ~Nameless(d) /\ Drawn(d) /\ Unwritten(d) /\ ~Over(d)
  BY <1>4 DEF Token, Nameless, Drawn, Unwritten, Over
<1>6. names[n].first = c.req /\ names[n].uid = NoUid /\ counter # Unset
  BY <1>0 DEF RegSound, Owner, Written, Uids
<1>7. \A x \in cmds : Token(x) /\ nameOf[x.req] = n => x = c
  BY <1>0, <1>6 DEF RegSound, Owner
<1>8. \A x \in cmds : nameOf[x.req] \in Name \/ x.op = "SETNX_uid"  BY DEF RegTypes, CmdType
<1> HIDE DEF n
<1>9. NamesSound'  BY <1>0, <1>1, <1>3, <1>6 DEF RegSound, NamesSound
<1>10. Owner'
  <2>1. ASSUME NEW x \in cmds, Token(x)
        PROVE  names'[nameOf'[x.req]].first = x.req
    <3>1. nameOf[x.req] \in Name /\ names[nameOf[x.req]].first = x.req
      BY <2>1, <1>8 DEF RegSound, Owner, Token
    <3> QED BY <3>1, <1>1, <1>3
  <2>2. names'[nameOf'[d.req]].first = d.req  BY <1>0, <1>1, <1>3, <1>4, <1>6 DEF n
  <2> QED BY <2>1, <2>2, <1>0, <1>1, <1>4, <1>5 DEF RegSound, Owner
<1>11. Uids'  BY <1>0, <1>1, <1>4, <1>5 DEF RegSound, Uids
<1>12. Written'
  <2>1. ASSUME NEW x \in cmds, x # c, Token(x) \/ Named(x)
        PROVE  names'[nameOf'[x.req]] = names[nameOf[x.req]]
    <3>1. Token(x) /\ nameOf[x.req] \in Name  BY <2>1, <1>8 DEF Token, Named
    <3> QED BY <3>1, <2>1, <1>1, <1>3, <1>7
  <2>2. names'[nameOf'[d.req]].uid = d.uid /\ names'[nameOf'[d.req]].by = d.req
    BY <1>1, <1>3, <1>4 DEF n
  <2> QED BY <2>1, <2>2, <1>1, <1>4, <1>5 DEF RegSound, Written
<1> QED BY <1>6, <1>9, <1>10, <1>11, <1>12 DEF RegSound, n

LEMMA SoundUser ==
  ASSUME RegTypes, RegSound, NEW c \in cmds, NEW d, Executed(d, c, "HMSET_user")
  PROVE  RegSound' /\ users \subseteq users'
<1> DEFINE u == [uid |-> c.uid, by |-> c.req]
<1>0. c.st = "wait" /\ Token(c) /\ Drawn(c) /\ Unwritten(c) /\ Named(c)
  BY DEF Executed, Token, Named, Drawn, Unwritten
<1>1. UNCHANGED <<counter, names, nameOf>> /\ cmds' = (cmds \ {c}) \cup {d}
  BY DEF Executed, Effect
<1>2. \A x \in users : x.uid # c.uid  BY <1>0 DEF RegSound, Uids
<1>3. users' = users \cup {u}  BY <1>2 DEF Executed, Effect
<1>4. d.op = "HMSET_user" /\ d.req = c.req /\ d.uid = c.uid /\ d.st \in {"err", "ok"}
  BY DEF Executed, Became
<1>5. Token(d) /\ ~Nameless(d) /\ Drawn(d) /\ ~Unwritten(d) /\ Named(d)
  BY <1>4 DEF Token, Nameless, Drawn, Unwritten, Named
<1>6. u.uid = c.uid /\ u.by = c.req /\ u \in users'  BY <1>3
<1>7. NamesSound'  BY <1>1 DEF RegSound, NamesSound
<1>8. Owner'  BY <1>0, <1>1, <1>4, <1>5 DEF RegSound, Owner
<1>9. Uids'
  <2>1. counter # Unset /\ c.uid <= counter  BY <1>0 DEF RegSound, Uids
  <2> HIDE DEF u
  <2> QED BY <2>1, <1>0, <1>1, <1>3, <1>4, <1>5, <1>6 DEF RegSound, Uids
<1>10. Written'
  <2>1. [uid |-> d.uid, by |-> d.req] \in users'  BY <1>4, <1>6
  <2>2. users \subseteq users'  BY <1>3
  <2> QED BY <2>1, <2>2, <1>0, <1>1, <1>4, <1>5 DEF RegSound, Written
<1> QED BY <1>3, <1>7, <1>8, <1>9, <1>10 DEF RegSound

LEMMA SoundSetnx ==
  ASSUME RegTypes, RegSound, NEW c \in cmds, NEW d, Executed(d, c, "SETNX_uid")
  PROVE  RegSound'
<1>0. UNCHANGED <<names, users, nameOf>> /\ cmds' = (cmds \ {c}) \cup {d} /\ counter' = Setnx
  BY DEF Executed, Effect
<1>1. counter' # Unset /\ (counter # Unset => counter' = counter)
  <2>1. InitUid \in Nat  BY RegAssumption
  <2>2. InitUid # Unset  BY <2>1 DEF Unset
  <2> QED BY <1>0, <2>2 DEF Setnx
<1>2. d.op = "SETNX_uid" /\ d.st \in {"err", "ok"}  BY DEF Executed, Became
<1>3. ~Token(d) /\ ~Drawn(d) /\ ~Named(d) /\ ~Over(d)  BY <1>2 DEF Token, Drawn, Named, Over
<1>4. NamesSound'  BY <1>0, <1>1 DEF RegSound, NamesSound
<1>5. Owner'  BY <1>0, <1>3 DEF RegSound, Owner
<1>6. Uids'  BY <1>0, <1>1, <1>3 DEF RegSound, Uids
<1>7. Written'  BY <1>0, <1>2, <1>3 DEF RegSound, Written
<1> QED BY <1>4, <1>5, <1>6, <1>7 DEF RegSound

\* What redis does keeps registration sound, and harms no registered user.
Unharmed ==
  /\ \A n \in Name : names[n].uid # NoUid => names'[n] = names[n]
  /\ users \subseteq users' /\ UNCHANGED nameOf

LEMMA UnharmedExec ==
  ASSUME RegTypes, RegSound, NEW c \in cmds, NEW d, Executed(d, c, c.op)
  PROVE  RegSound' /\ Unharmed
<1>0. names \in [Name -> NameType] /\ c.op # "SETNX_uid" => c.req \in Req /\ nameOf[c.req] \in Name
  BY DEF RegTypes, CmdType
<1>1. CASE c.op = "HSETNX_name"
  <2>1. Executed(d, c, "HSETNX_name")  BY <1>1
  <2>2. /\ users \subseteq users' /\ UNCHANGED nameOf
        /\ names' = [names EXCEPT ![nameOf[c.req]].first = IF @ = NoReq THEN c.req ELSE @]
    BY <2>1 DEF Executed, Effect, Hsetnx
  <2>3. ASSUME NEW n \in Name, names[n].uid # NoUid PROVE names'[n] = names[n]
    <3>1. names[n] \in NameType /\ names[n].first # NoReq  BY <2>3 DEF RegTypes, RegSound, NamesSound
    <3>2. CASE n # nameOf[c.req]  BY <3>2, <2>2, <1>0 DEF RegTypes
    <3>3. CASE n = nameOf[c.req]
      <4>1. names'[n] = [names[n] EXCEPT !.first = names[n].first]
        BY <3>1, <3>3, <2>2 DEF RegTypes
      <4> QED BY <4>1, <3>1 DEF NameType
    <3> QED BY <3>2, <3>3
  <2> QED BY <2>1, <2>2, <2>3, SoundHsetnx DEF Unharmed
<1>2. CASE c.op = "INCRBY_uid"
  <2>1. Executed(d, c, "INCRBY_uid")  BY <1>2
  <2>2. UNCHANGED <<names, users, nameOf>> /\ counter' = Reply(c).uid
    BY <2>1 DEF Executed, Effect
  <2>3. c \in CmdType /\ counter \in Nat \cup {Unset}  BY DEF RegTypes
  <2>4. counter' = UidIncr + (IF counter = Unset THEN 0 ELSE counter)
    BY <1>2, <2>2, <2>3, ReplyTyped
  <2> QED BY <2>1, <2>2, <2>4, SoundIncr DEF Unharmed
<1>3. CASE c.op = "HMSET_name"
  <2>1. Executed(d, c, "HMSET_name")  BY <1>3
  <2>2. /\ users' = users /\ UNCHANGED nameOf
        /\ names' = [names EXCEPT ![nameOf[c.req]].uid = c.uid, ![nameOf[c.req]].by = c.req]
    BY <2>1 DEF Executed, Effect
  <2>3. RegSound' /\ names[nameOf[c.req]].uid = NoUid  BY <2>1, SoundName
  <2>4. \A n \in Name : n # nameOf[c.req] => names'[n] = names[n]  BY <2>2 DEF RegTypes
  <2> QED BY <2>2, <2>3, <2>4 DEF Unharmed
<1>4. CASE c.op = "HMSET_user"
  <2>1. Executed(d, c, "HMSET_user")  BY <1>4
  <2>2. UNCHANGED <<names, nameOf>>  BY <2>1 DEF Executed, Effect
  <2> QED BY <2>1, <2>2, SoundUser DEF Unharmed
<1>5. CASE c.op = "SETNX_uid"
  <2>1. Executed(d, c, "SETNX_uid")  BY <1>5
  <2>2. UNCHANGED <<names, users, nameOf>>  BY <2>1 DEF Executed, Effect
  <2> QED BY <2>1, <2>2, SoundSetnx DEF Unharmed
<1> QED BY <1>1, <1>2, <1>3, <1>4, <1>5 DEF RegTypes, CmdType

LEMMA UnharmedSame ==
  ASSUME UNCHANGED redisVars PROVE Unharmed
BY DEF redisVars, Unharmed

LEMMA SoundRedis ==
  ASSUME RegTypes, RegSound, NEW c \in cmds, Redis(c) PROVE RegSound' /\ Unharmed
<1> DEFINE err == [c EXCEPT !.st = "err"]
<1>0. c \in CmdType /\ counter \in Nat \cup {Unset}  BY DEF RegTypes
<1>1. err.op = c.op /\ err.req = c.req /\ err.uid = c.uid /\ err.st = "err"  BY <1>0 DEF CmdType
<1> HIDE DEF err
<1>2. CASE Exec(c)
  <2>1. Became(Reply(c), c)
    <3>1. c.op = "INCRBY_uid" => counter' = Reply(c).uid  BY <1>2 DEF Exec, Effect
    <3> QED BY <3>1, <1>0, ReplyTyped DEF Became
  <2>2. Executed(Reply(c), c, c.op)  BY <1>2, <2>1 DEF Exec, Executed, Becomes, Waiting, noLoop
  <2> QED BY <2>2, UnharmedExec
<1>3. CASE ReplyLost(c)
  <2>1. Executed(err, c, c.op)
    BY <1>1, <1>3 DEF ReplyLost, Executed, Becomes, Became, Waiting, noLoop, err
  <2> QED BY <2>1, UnharmedExec
<1>4. CASE ExecFails(c)
  <2>1. UNCHANGED redisVars /\ c.st = "wait" /\ cmds' = (cmds \ {c}) \cup {err}
    BY <1>4 DEF ExecFails, redisVars, Waiting, Becomes, noLoop, err
  <2>2. Heir(err, c)
    BY <1>1, <2>1 DEF Heir, Token, Drawn, Nameless, Named, Unwritten, Over
  <2> QED BY <2>1, <2>2, SoundHeir, UnharmedSame
<1>5. CASE Dropped(c)
  <2>1. UNCHANGED redisVars /\ cmds' \subseteq cmds  BY <1>5 DEF Dropped, redisVars, noLoop
  <2> QED BY <2>1, SoundFewer, UnharmedSame
<1> QED BY <1>2, <1>3, <1>4, <1>5 DEF Redis

LEMMA RegStep ==
  ASSUME Types, RegSound, [Next]_vars PROVE RegSound' /\ Unharmed
<1>0. RegTypes  BY DEF Types
<1>1. ASSUME UNCHANGED <<redisVars, cmds>> PROVE RegSound' /\ Unharmed
  BY <1>1, SoundFewer, UnharmedSame
<1>2. ASSUME NEW d, d.op \in {"HSETNX_name", "SETNX_uid"} /\ d.st = "wait", cmds' = cmds \cup {d},
             UNCHANGED redisVars
      PROVE  RegSound' /\ Unharmed
  BY <1>2, SoundNew, UnharmedSame
<1>3. CASE /\ \E r \in Req : cmds' = cmds \cup {Cmd("HSETNX_name", r, NoUid)}
           /\ UNCHANGED redisVars
  BY <1>2, <1>3 DEF Cmd
<1>4. CASE cmds' = cmds \cup {Cmd("SETNX_uid", NoReq, NoUid)} /\ UNCHANGED redisVars
  BY <1>2, <1>4 DEF Cmd
<1>5. CASE StopDb /\ UNCHANGED redisVars  BY <1>5, SoundFewer, UnharmedSame DEF StopDb
<1>6. ASSUME NEW c \in cmds, Callback(c) PROVE RegSound' /\ Unharmed
  BY <1>0, <1>6, SoundCallback, CallbackCases DEF Unharmed
<1>7. ASSUME NEW c \in cmds, Redis(c) PROVE RegSound' /\ Unharmed  BY <1>0, <1>7, SoundRedis
<1> QED BY <1>1, <1>3, <1>4, <1>5, <1>6, <1>7, RegCases DEF regTyped, redisVars

-----------------------------------------------------------------------------
(* Who is told SUCCESS has the name, with its password, and the user *)

Complete(r) ==
  LET n == names[nameOf[r]] IN
    n.uid # NoUid /\ n.by = r /\ [uid |-> n.uid, by |-> r] \in users
Success(m) == m.type = "REG_RSP" /\ m.result = "SUCCESS"
Told ==
  /\ \A e \in Edge : \A m \in In(chan, e) : Success(m) => Complete(m.req)
  /\ \A r \in Req : answer[r] = "SUCCESS" => Complete(r)

LEMMA CompleteStays ==
  ASSUME RegTypes, Unharmed, NEW r \in Req, Complete(r) PROVE Complete(r)'
<1>1. nameOf[r] \in Name /\ names'[nameOf[r]] = names[nameOf[r]] /\ nameOf' = nameOf
  BY DEF RegTypes, Unharmed, Complete
<1> QED BY <1>1 DEF Complete, Unharmed

LEMMA ToldStep ==
  ASSUME Types, RegSound, Told, [Next]_vars PROVE Told'
<1>0. RegTypes /\ ChanTypes /\ Unharmed  BY RegStep DEF Types
<1>1. ASSUME NEW e \in Edge, NEW m \in In(chan', e), Success(m) PROVE Complete(m.req)'
  <2>1. m \in In(chan, e) \/ NewMsg(e, m)  BY Deliveries DEF Delivers
  <2>2. <<Db, Logic>> \in Edge  BY EdgeOf, Roles
  <2>3. ASSUME NEW f \in Edge, m \in In(chan, f) PROVE Complete(m.req)'
    <3>1. m \in Message  BY <2>3, <1>0 DEF In, ChanTypes
    <3>2. m.req \in Req  BY <3>1, <1>1 DEF Message, Success
    <3>3. Complete(m.req)  BY <2>3, <1>1 DEF Told
    <3> QED BY <3>2, <3>3, <1>0, CompleteStays
  <2>4. ASSUME NEW c \in cmds, c.op = "HMSET_user", c.st \in {"ok", "exists"} PROVE Complete(c.req)'
    <3>1. c.st = "ok"  BY <2>4 DEF RegSound, Written
    <3>2. Drawn(c) /\ Named(c) /\ Over(c)  BY <2>4, <3>1 DEF Drawn, Named, Over
    <3>3. c.req \in Req  BY <1>0, <2>4 DEF RegTypes, CmdType
    <3>4. /\ names[nameOf[c.req]].uid = c.uid /\ names[nameOf[c.req]].by = c.req
          /\ [uid |-> c.uid, by |-> c.req] \in users /\ c.uid # NoUid
      BY <3>2 DEF RegSound, Uids, Written, NoUid
    <3>5. Complete(c.req)  BY <3>4 DEF Complete
    <3> QED BY <3>3, <3>5, <1>0, CompleteStays
  <2>5. m.type # "HEART_BEAT_REQ"  BY <1>1 DEF Success
  <2> QED BY <2>1, <2>2, <2>3, <2>4, <2>5, <1>1 DEF NewMsg, Success, Heart
<1>2. ASSUME NEW r \in Req, answer'[r] = "SUCCESS" PROVE Complete(r)'
  <2>1. CASE answer[r] = "SUCCESS"  BY <2>1, <1>0, CompleteStays DEF Told
  <2>2. CASE answer[r] # "SUCCESS"
    <3>1. PICK m \in In(chan, <<Logic, Conn>>) :
            m.type = "REG_RSP" /\ answer' = [answer EXCEPT ![m.req] = m.result]
      <4>1. answer' # answer  BY <1>2, <2>2
      <4>2. \A c : Redis(c) => UNCHANGED answer
        BY DEF Redis, Exec, ReplyLost, ExecFails, Dropped, noLoop
      <4>3. \A c : Callback(c) => UNCHANGED answer  BY DEF Callback
      <4>4. \A i : Disconnect(i) \/ Connect(i) => UNCHANGED answer  BY DEF Disconnect, Connect
      <4> QED BY <4>1, <4>2, <4>3, <4>4, RegCases DEF regTyped
    <3>2. m.req = r /\ m.result = "SUCCESS"  BY <1>0, <1>2, <2>2, <3>1 DEF RegTypes
    <3>3. Complete(r)  BY <3>1, <3>2, EdgeOf, Roles DEF Told, Success
    <3> QED BY <3>3, <1>0, CompleteStays
  <2> QED BY <2>1, <2>2
<1> QED BY <1>1, <1>2 DEF Told

LEMMA RegSoundInit == Init => RegSound /\ Told
<1> SUFFICES ASSUME NEW s \in Scenarios, HeartsInit(s.started), RegInit(s.asked, s.faults)
             PROVE  RegSound /\ Told
  BY DEF Init
<1>1. cmds = {} /\ users = {} /\ \A n \in Name : names[n].uid = NoUid  BY DEF RegInit
<1>2. \A e \in Edge : In(chan, e) = {}  BY DEF HeartsInit, Edge, In
<1>3. \A r \in Req : answer[r] # "SUCCESS"  BY DEF RegInit
<1> QED BY <1>1, <1>2, <1>3 DEF RegSound, NamesSound, Owner, Uids, Written, Told

RegInv == ClockInv /\ Types /\ RegSound /\ Told

LEMMA RegInvariant == Spec => []RegInv
<1>1. Init => RegInv  BY ClockInit, TypesInit, RegSoundInit DEF RegInv
<1>2. RegInv /\ [Next]_vars => RegInv'
  BY ClockStep, TypesStep, RegStep, ToldStep DEF RegInv
<1> QED BY <1>1, <1>2, PTL DEF Spec

\* Registration: who is told SUCCESS owns the name and the user of its uid,
\* whatever was lost, failed, restarted or came twice before.
THEOREM Registration == Spec => []SuccessIsComplete
<1>1. RegInv => SuccessIsComplete  BY DEF RegInv, Told, Complete, SuccessIsComplete, Types, RegTypes
<1> QED BY <1>1, RegInvariant, PTL

\* NoOverwriting: neither a name that has a uid nor a user is ever written
\* over, since the request whose HSETNX made the name goes on alone.
THEOREM NoOverwriting == Spec => NeverOverwritten
<1>1. RegInv /\ [Next]_vars =>
        [/\ \A n \in Name : names[n].uid # NoUid => names'[n] = names[n]
         /\ users \subseteq users']_vars
  BY RegStep DEF RegInv, Unharmed
<1> QED BY <1>1, RegInvariant, PTL DEF Spec, NeverOverwritten

-----------------------------------------------------------------------------
(* No name is stranded while nothing has failed *)

Calm == ~faults.seen /\ ~Stopped /\ ~early
\* No command failed, and but for the first uid's the master has connections.
Whole ==
  ~faults.seen => \A c \in cmds : c.st # "err" /\ (c.op # "SETNX_uid" => conns[1] > 0)
Legal ==
  ~early => /\ counter # Unset => InitUid <= counter
            /\ \A c \in cmds : Drawn(c) => InitUid < c.uid

\* Its request goes on, or has its user.
Goes(n) == \E c \in cmds : Token(c) /\ c.req = names[n].first /\ nameOf[c.req] = n
Settled(n) ==
  names[n].uid # NoUid /\ [uid |-> names[n].uid, by |-> names[n].first] \in users
OnTrack == Calm => \A n \in Name : names[n].first # NoReq => Goes(n) \/ Settled(n)

\* A command has a client just when the master is connected.
LEMMA HasClient ==
  ASSUME RegTypes
  PROVE  ~NoClient("RW") <=> conns[1] > 0
<1>1. Clients \in Nat \ {0} /\ RedisMethod \in {"SINGLE", "SM"} /\ NoServ # 1
  BY RegAssumption
<1>2. conns \in [1 .. Clients -> Nat] /\ conns[1] \in Nat  BY <1>1 DEF RegTypes
<1>3. Len(conns) = Clients
  <2>1. \A n \in Nat : \A f \in [1 .. n -> Nat] : Len(f) = n  OBVIOUS
  <2> QED BY <2>1, <1>1, <1>2
<1>4. SelectRedisClient(RedisMethod, "RW", conns) = IF conns[1] > 0 THEN {1} ELSE {NoServ}
  <2>1. CASE Clients <= 1  BY <1>1, <1>2, <1>3, <2>1 DEF SelectRedisClient
  <2>2. CASE Clients > 1  BY <1>1, <1>2, <1>3, <2>2 DEF SelectRedisClient
  <2> QED BY <1>1, <2>1, <2>2
<1> QED BY <1>1, <1>4 DEF NoClient, Client

LEMMA WholeStep ==
  ASSUME Types, RegSound, Whole, [Next]_vars
  PROVE  Whole' /\ (faults.seen => faults'.seen)
<1>0. RegTypes  BY DEF Types
<1>1. Fault => faults'.seen  BY DEF Fault
<1>2. ASSUME UNCHANGED <<faults, conns>>,
             \A d \in cmds' : d \in cmds \/ (d.st # "err" /\ (d.op # "SETNX_uid" => conns[1] > 0))
      PROVE  Whole' /\ (faults.seen => faults'.seen)
  BY <1>2 DEF Whole
<1>3. ASSUME NEW c \in cmds, Callback(c) PROVE Whole' /\ (faults.seen => faults'.seen)
  <2>1. UNCHANGED <<faults, conns>>  BY <1>0, <1>3, CallbackCases
  <2>2. \A d \in cmds' : d \in cmds \/ d.st # "err"  BY <1>0, <1>3, CallbackHeir
  <2>3. CASE c.op = "SETNX_uid"
    <3>1. cmds' = cmds \ {c}
      BY <1>3, <2>3 DEF Callback, cb_set_global_name, cb_alloc_uid, cb_set_global_info,
                       cb_reg_set_user_info, cb_init_global_uid
    <3> QED BY <3>1, <2>1, <1>2
  <2>4. CASE c.op # "SETNX_uid"
    <3>1. ~faults.seen => conns[1] > 0  BY <2>4 DEF Whole
    <3> QED BY <3>1, <2>1, <2>2 DEF Whole
  <2> QED BY <2>3, <2>4
<1>4. ASSUME NEW c \in cmds, Redis(c) PROVE Whole' /\ (faults.seen => faults'.seen)
  <2>1. CASE Exec(c)
    <3>1. /\ UNCHANGED <<faults, conns>> /\ cmds' = (cmds \ {c}) \cup {Reply(c)}
          /\ conns[1] > 0 /\ c.st = "wait"
      BY <2>1 DEF Exec, Becomes, noLoop, Waiting
    <3>2. Reply(c).st # "err"
      <4>1. c \in CmdType /\ counter \in Nat \cup {Unset}  BY <1>0 DEF RegTypes
      <4>2. Reply(c).st \in {"ok", "exists"}  BY <4>1, ReplyTyped
      <4> QED BY <4>2
    <3> QED BY <3>1, <3>2, <1>2
  <2> QED BY <1>1, <1>4, <2>1 DEF Whole, Redis, ReplyLost, ExecFails, Dropped
<1>5. ASSUME NEW i \in 1 .. Clients, Disconnect(i) \/ Connect(i), UNCHANGED cmds
      PROVE  Whole' /\ (faults.seen => faults'.seen)
  <2>1. CASE Disconnect(i)  BY <2>1, <1>1 DEF Whole, Disconnect
  <2>2. CASE Connect(i)
    <3>1. UNCHANGED faults /\ conns' = [conns EXCEPT ![i] = 1]  BY <2>2 DEF Connect
    <3>2. 1 \in 1 .. Clients  BY RegAssumption
    <3>3. conns[1] > 0 => conns'[1] > 0  BY <3>1, <3>2, <1>0 DEF RegTypes
    <3> QED BY <3>1, <3>3, <1>5 DEF Whole
  <2> QED BY <1>5, <2>1, <2>2
<1>6. ASSUME NEW r \in Req, cmds' = cmds \cup {Cmd("HSETNX_name", r, NoUid)}, ~NoClient("RW"),
             UNCHANGED <<faults, conns>>
      PROVE  Whole' /\ (faults.seen => faults'.seen)
  <2>1. conns[1] > 0  BY <1>0, <1>6, HasClient
  <2>2. Cmd("HSETNX_name", r, NoUid).st # "err"  BY DEF Cmd
  <2> QED BY <2>1, <2>2, <1>2, <1>6
<1>7. ASSUME cmds' = cmds \cup {Cmd("SETNX_uid", NoReq, NoUid)}, UNCHANGED <<faults, conns>>
      PROVE  Whole' /\ (faults.seen => faults'.seen)
  <2>1. Cmd("SETNX_uid", NoReq, NoUid).st # "err" /\ Cmd("SETNX_uid", NoReq, NoUid).op = "SETNX_uid"
    BY DEF Cmd
  <2> QED BY <2>1, <1>2, <1>7
<1>8. CASE StopDb /\ UNCHANGED faults  BY <1>8 DEF StopDb, Whole
<1>9. CASE UNCHANGED regTyped  BY <1>9, <1>2 DEF regTyped
<1>10. CASE UNCHANGED <<cmds, faults, conns>>  BY <1>10, <1>2
<1> QED BY <1>3, <1>4, <1>5, <1>6, <1>7, <1>8, <1>9, <1>10, RegCases

LEMMA LegalStep ==
  ASSUME Types, RegSound, Legal, [Next]_vars
  PROVE  Legal' /\ (early => early')
<1>0. RegTypes /\ InitUid \in Nat /\ UidIncr \in Nat /\ 0 < UidIncr  BY RegAssumption DEF Types
<1> USE DEF Legal
<1> DEFINE kept == UNCHANGED <<early, counter>>
                   /\ \A d \in cmds' : Drawn(d) => \E c \in cmds : Drawn(c) /\ c.uid = d.uid
<1>1. kept => Legal' /\ (early => early')
  <2> SUFFICES ASSUME kept PROVE Legal'  OBVIOUS
  <2> QED OBVIOUS
<1> HIDE DEF kept
<1>2. ASSUME NEW c \in cmds, Callback(c) PROVE kept
  <2>1. UNCHANGED <<early, counter>>  BY <1>0, <1>2, CallbackCases
  <2> QED BY <2>1, <1>0, <1>2, CallbackHeir DEF Heir, kept
<1>3. ASSUME NEW c \in cmds, NEW d, Effect(c), cmds' = (cmds \ {c}) \cup {d}, d.op = c.op,
             d.uid = c.uid \/ c.op = "INCRBY_uid", d.st = "ok" => d.uid = counter' \/ c.op # "INCRBY_uid"
      PROVE  Legal' /\ (early => early')
  <2>0. early' = (early \/ (c.op = "INCRBY_uid" /\ counter = Unset))  BY <1>3 DEF Effect
  <2>1. CASE c.op = "INCRBY_uid"
    <3>1. c \in CmdType /\ counter \in Nat \cup {Unset}  BY <1>0 DEF RegTypes
    <3>2. counter' = UidIncr + (IF counter = Unset THEN 0 ELSE counter)
      BY <2>1, <1>3, <3>1, ReplyTyped DEF Effect
    <3>3. CASE counter # Unset
      <4>1. counter \in Nat /\ counter' = UidIncr + counter  BY <3>1, <3>2, <3>3
      <4>2. Drawn(d) => d.st = "ok"  BY <1>3, <2>1 DEF Drawn
      <4>3. ~early => InitUid < counter'  BY <4>1, <3>3, <1>0
      <4>4. ~early => InitUid <= counter'  BY <4>1, <3>3, <1>0
      <4>5. Drawn(d) => d.uid = counter'  BY <4>2, <2>1, <1>3
      <4> QED BY <2>0, <4>3, <4>4, <4>5, <1>3
    <3> QED BY <2>0, <2>1, <3>3
  <2>2. CASE c.op # "INCRBY_uid"
    <3>1. counter' = counter \/ (counter = Unset /\ counter' = InitUid)
      BY <1>3, <2>2 DEF Effect, Setnx
    <3>2. Drawn(d) => Drawn(c) /\ d.uid = c.uid  BY <1>3, <2>2 DEF Drawn
    <3>3. InitUid <= InitUid  BY <1>0
    <3> QED BY <2>0, <2>2, <3>1, <3>2, <3>3, <1>3
  <2> QED BY <2>1, <2>2
<1>4. ASSUME NEW c \in cmds, Redis(c) PROVE Legal' /\ (early => early')
  <2> DEFINE err == [c EXCEPT !.st = "err"]
  <2>0. c \in CmdType /\ counter \in Nat \cup {Unset}  BY <1>0 DEF RegTypes
  <2>1. err.op = c.op /\ err.uid = c.uid /\ err.st = "err"  BY <2>0 DEF CmdType
  <2> HIDE DEF err
  <2>2. CASE Exec(c)
    <3>1. Effect(c) /\ cmds' = (cmds \ {c}) \cup {Reply(c)}  BY <2>2 DEF Exec, Becomes
    <3>2. c.op = "INCRBY_uid" => counter' = Reply(c).uid  BY <3>1 DEF Effect
    <3> QED BY <3>1, <3>2, <2>0, ReplyTyped, <1>3
  <2>3. CASE ReplyLost(c)
    <3>1. Effect(c) /\ cmds' = (cmds \ {c}) \cup {err}  BY <2>3 DEF ReplyLost, Becomes, err
    <3> QED BY <3>1, <2>1, <1>3
  <2>4. CASE ExecFails(c)
    <3>1. UNCHANGED <<early, counter>> /\ cmds' = (cmds \ {c}) \cup {err}
      BY <2>4 DEF ExecFails, Becomes, err
    <3>2. Drawn(err) => Drawn(c)  BY <2>1 DEF Drawn
    <3> QED BY <3>1, <3>2, <2>1, <1>1 DEF kept
  <2>5. CASE Dropped(c)  BY <2>5, <1>1 DEF Dropped, kept
  <2> QED BY <1>4, <2>2, <2>3, <2>4, <2>5 DEF Redis
<1>5. ASSUME NEW d, cmds' \subseteq cmds \cup {d}, ~Drawn(d), UNCHANGED <<early, counter>>
      PROVE  kept
  BY <1>5 DEF kept
<1>6. \A r, u : ~Drawn(Cmd("HSETNX_name", r, u)) /\ ~Drawn(Cmd("SETNX_uid", r, u))
  BY DEF Cmd, Drawn
<1>7. ASSUME cmds' \subseteq cmds, UNCHANGED <<early, counter>> PROVE kept  BY <1>7 DEF kept
<1> QED BY <1>1, <1>2, <1>4, <1>5, <1>6, <1>7, RegCases DEF regTyped, StopDb

LEMMA CalmBefore ==
  ASSUME Types, RegSound, Whole, Legal, [Next]_vars, Calm'
  PROVE  Calm /\ ~StopDb
<1>1. ~faults.seen /\ ~early  BY WholeStep, LegalStep DEF Calm
<1>2. now \in Nat \ {0} /\ downAt \in [Proc -> Nat]  BY DEF Types, ClockTypes, StatTypes
<1>3. ASSUME NEW p \in Proc, StopServer(p) PROVE FALSE
  <2>1. downAt'[p] # 0  BY <1>2, <1>3 DEF StopServer
  <2> QED BY <2>1 DEF Calm, Stopped
<1>4. ~StopDb  BY <1>3, Roles DEF StopDb
<1>5. UNCHANGED downAt  BY <1>3, HeartCases DEF StartServer, RecvHeartBeatReq, Second
<1> QED BY <1>1, <1>4, <1>5 DEF Calm, Stopped

\* While all is well, the callback of a command that has the name goes on.
LEMMA CallbackGoesOn ==
  ASSUME RegTypes, RegSound, Whole, Legal, Calm, NEW c \in cmds, Callback(c), Token(c)
  PROVE  Over(c) \/ \E d \in cmds' : Token(d) /\ d.req = c.req
<1>0. ~NoClient("RW") /\ c.st # "err" /\ c.st # "wait" /\ c.st \in Status
  <2>1. c.op # "SETNX_uid"  BY DEF Token
  <2>2. c.st # "err" /\ conns[1] > 0  BY <2>1 DEF Calm, Whole
  <2> QED BY <2>2, HasClient DEF Callback, RegTypes, CmdType
<1>1. c.st = "exists" => c.op = "HSETNX_name"  BY DEF RegSound, Written
<1>2. ASSUME NEW d, GoesOn(c, d), Token(d), d.req = c.req
      PROVE  \E x \in cmds' : Token(x) /\ x.req = c.req
  <2>1. d \in cmds'  BY <1>2 DEF GoesOn
  <2> QED BY <2>1, <1>2
<1>3. \A op \in {"INCRBY_uid", "HMSET_name", "HMSET_user"} : \A r, u :
        Token(Cmd(op, r, u)) /\ Cmd(op, r, u).req = r
  BY DEF Token, Cmd
<1>4. CASE cb_set_global_name(c)
  <2>1. c.op = "HSETNX_name" /\ c.st = "ok"  BY <1>4 DEF cb_set_global_name, Token
  <2>2. GoesOn(c, Cmd("INCRBY_uid", c.req, NoUid))  BY <1>4, <2>1, <1>0 DEF cb_set_global_name
  <2> QED BY <2>2, <1>2, <1>3
<1>5. CASE cb_alloc_uid(c)
  <2>1. c.op = "INCRBY_uid" /\ Drawn(c)
    BY <1>0, <1>1, <1>5 DEF cb_alloc_uid, Drawn, Status
  <2>2. c.uid \in Nat /\ InitUid \in Nat  BY RegAssumption DEF RegTypes, CmdType
  <2>3. ~Illegal(c.uid)  BY <2>1, <2>2 DEF Legal, Calm, Illegal
  <2>4. GoesOn(c, Cmd("HMSET_name", c.req, c.uid))  BY <1>5, <2>3, <1>0 DEF cb_alloc_uid
  <2> QED BY <2>4, <1>2, <1>3
<1>6. CASE cb_set_global_info(c)
  <2>1. GoesOn(c, Cmd("HMSET_user", c.req, c.uid))  BY <1>6, <1>0 DEF cb_set_global_info
  <2> QED BY <2>1, <1>2, <1>3
<1>7. CASE cb_reg_set_user_info(c)
  BY <1>7, <1>0, <1>1 DEF cb_reg_set_user_info, Over, Status
<1>8. CASE cb_init_global_uid(c)  BY <1>8 DEF cb_init_global_uid, Token
<1> QED BY <1>4, <1>5, <1>6, <1>7, <1>8 DEF Callback

LEMMA OverSettles ==
  ASSUME RegTypes, RegSound, NEW n \in Name, NEW c \in cmds, Over(c), Token(c),
         c.req = names[n].first, nameOf[c.req] = n
  PROVE  Settled(n)
<1>1. Drawn(c) /\ Named(c)  BY DEF Over, Drawn, Named
<1>2. names[n].uid = c.uid /\ names[n].by = c.req /\ [uid |-> c.uid, by |-> c.req] \in users
  BY <1>1 DEF RegSound, Written
<1>3. c.uid # NoUid  BY <1>1 DEF RegSound, Uids, NoUid
<1> QED BY <1>2, <1>3 DEF Settled

LEMMA SettledStays ==
  ASSUME Unharmed, NEW n \in Name, Settled(n) PROVE Settled(n)'
BY DEF Unharmed, Settled

LEMMA OnTrackStep ==
  ASSUME Types, RegSound, Whole, Legal, OnTrack, [Next]_vars PROVE OnTrack'
<1> SUFFICES ASSUME Calm', NEW n \in Name, names'[n].first # NoReq
             PROVE  Goes(n)' \/ Settled(n)'
  BY DEF OnTrack
<1>0. RegTypes /\ Calm /\ ~StopDb /\ Unharmed /\ ~faults'.seen
  BY CalmBefore, RegStep DEF Types, Calm
<1>1. CASE Settled(n)  BY <1>0, <1>1, SettledStays
<1>2. ASSUME ~Settled(n), UNCHANGED <<names, nameOf>>, cmds \subseteq cmds' PROVE Goes(n)'
  BY <1>0, <1>2 DEF OnTrack, Goes
<1>3. ASSUME ~Settled(n), NEW c \in cmds, Callback(c) PROVE Goes(n)'
  <2>1. UNCHANGED <<names, nameOf>> /\ cmds \ {c} \subseteq cmds'
    BY <1>0, <1>3, CallbackCases
  <2>2. PICK w \in cmds : Token(w) /\ w.req = names[n].first /\ nameOf[w.req] = n
    BY <1>0, <1>3, <2>1 DEF OnTrack, Goes
  <2>3. CASE w # c  BY <2>1, <2>2, <2>3 DEF Goes
  <2>4. CASE w = c
    <3>1. ~Over(c)  BY <1>0, <1>3, <2>2, <2>4, OverSettles
    <3>2. PICK d \in cmds' : Token(d) /\ d.req = c.req
      BY <3>1, <1>0, <1>3, <2>2, <2>4, CallbackGoesOn
    <3> QED BY <3>2, <2>1, <2>2, <2>4 DEF Goes
  <2> QED BY <2>3, <2>4
<1>4. ASSUME ~Settled(n), NEW c \in cmds, Redis(c) PROVE Goes(n)'
  <2>0. Fault => faults'.seen  BY DEF Fault
  <2>1. Exec(c)  BY <2>0, <1>0, <1>4 DEF Redis, ReplyLost, ExecFails, Dropped
  <2>2. /\ cmds' = (cmds \ {c}) \cup {Reply(c)} /\ Effect(c) /\ UNCHANGED nameOf /\ c.st = "wait"
        /\ c \in CmdType /\ counter \in Nat \cup {Unset}
    BY <2>1, <1>0 DEF Exec, Becomes, noLoop, Waiting, RegTypes
  <2>3. /\ Reply(c).op = c.op /\ Reply(c).req = c.req /\ Reply(c).st \in {"ok", "exists"}
        /\ Reply(c).st = "exists" => Taken(c)
    BY <2>2, ReplyTyped
  <2>4. CASE names[n].first # NoReq
    <3>1. PICK w \in cmds : Token(w) /\ w.req = names[n].first /\ nameOf[w.req] = n
      BY <1>0, <1>4, <2>4 DEF OnTrack, Goes
    <3>2. names'[n].first = names[n].first
      <4>1. names[n] \in NameType /\ names \in [Name -> NameType]  BY <1>0 DEF RegTypes
      <4> QED BY <4>1, <2>2, <2>4 DEF Effect, Hsetnx, NameType
    <3>3. CASE w # c  BY <3>1, <3>2, <3>3, <2>2 DEF Goes
    <3>4. CASE w = c
      <4>1. Token(Reply(c))  BY <3>1, <3>4, <2>2, <2>3 DEF Token
      <4> QED BY <4>1, <3>1, <3>2, <3>4, <2>2, <2>3 DEF Goes
    <3> QED BY <3>3, <3>4
  <2>5. CASE names[n].first = NoReq
    <3>0. names[n] \in NameType /\ names \in [Name -> NameType]  BY <1>0 DEF RegTypes
    <3>1. c.op = "HSETNX_name"
      <4>1. CASE c.op = "HMSET_name"
        <5>1. names'[n].first = names[n].first  BY <3>0, <2>2, <4>1 DEF Effect, NameType
        <5> QED BY <5>1, <2>5
      <4>2. CASE c.op \notin {"HMSET_name", "HSETNX_name"}  BY <4>2, <2>2, <2>5 DEF Effect
      <4> QED BY <4>1, <4>2
    <3>2. names' = [names EXCEPT ![nameOf[c.req]].first = IF @ = NoReq THEN c.req ELSE @]
      BY <3>1, <2>2 DEF Effect, Hsetnx
    <3>3. nameOf[c.req] = n  BY <3>0, <3>2, <2>5
    <3>4. names'[n].first = c.req  BY <3>0, <3>2, <3>3, <2>5 DEF NameType
    <3>5. Token(Reply(c))  BY <2>3, <3>1, <3>3, <2>5 DEF Taken, Token
    <3> QED BY <3>3, <3>4, <3>5, <2>2, <2>3 DEF Goes
  <2> QED BY <2>4, <2>5
<1> QED BY <1>0, <1>1, <1>2, <1>3, <1>4, RegCases DEF regTyped

LEMMA CalmInit == Init => Whole /\ Legal /\ OnTrack
<1> SUFFICES ASSUME NEW s \in Scenarios, RegInit(s.asked, s.faults) PROVE Whole /\ Legal /\ OnTrack
  BY DEF Init
<1>1. /\ cmds = {} /\ counter = Unset /\ \A n \in Name : names[n].first = NoReq
  BY DEF RegInit
<1> QED BY <1>1 DEF Whole, Legal, OnTrack

\* NothingStranded: a name someone took and nobody has is a name a request is
\* still working for; only failures, a stop or a uid drawn too early lose it.
THEOREM NothingStranded == Spec => []NoNameStranded
<1>1. Init => Whole /\ Legal /\ OnTrack  BY CalmInit
<1>2. RegInv /\ Whole /\ Legal /\ OnTrack /\ [Next]_vars => (Whole /\ Legal /\ OnTrack)'
  BY WholeStep, LegalStep, OnTrackStep DEF RegInv
<1>3. OnTrack => NoNameStranded  BY DEF OnTrack, Calm, Goes, Settled, NoNameStranded
<1> QED BY <1>1, <1>2, <1>3, RegInvariant, PTL DEF Spec
=============================================================================
