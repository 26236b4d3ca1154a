-------------------------------- MODULE Reg --------------------------------
(***************************************************************************)
(* Registration: a request goes from conn_serv through logic_serv to       *)
(* db_serv, whose callbacks (lib/reg.go) take the name, draw a uid and     *)
(* write the two hashes of the user, one redis command after the other;    *)
(* the answer goes back the same way.                                      *)
(*                                                                         *)
(* A command is a goroutine: it waits for a connection, redis executes it, *)
(* the callback runs.  It can fail before or after it was executed, or be  *)
(* dropped without a callback (RedisExeCmd with its queue half full or no  *)
(* valid connection), and it dies with its process.                        *)
(***************************************************************************)
EXTENDS Hearts

CONSTANTS
  Req,         \* registration requests, each of a client connection
  Name,        \* user names
  NoReq,       \* no request
  InitUid, UidIncr,   \* of the db_serv configuration
  RedisMethod, \* redis_method: "SINGLE" or "SM"
  Clients      \* number of redis clients, the first of them the master

ASSUME RegAssumption ==
  /\ NoReq \notin Req /\ RedisMethod \in {"SINGLE", "SM"}
  /\ InitUid \in Nat /\ {UidIncr, Clients} \subseteq Nat \ {0}
  /\ NoServ \notin 1 .. Clients

VARIABLES
  nameOf,      \* [Req -> Name]: the name a request asks for
  sent,        \* requests sent by their client
  answer,      \* [Req -> Result \cup {"none"}]: what the client was told
  cmds,        \* redis commands of db_serv that are not over
  names,       \* [Name -> [first, uid, by]]: users:global:[name]; first is the
               \* request whose HSETNX made it, by the one whose password it has
  users,       \* records [uid, by]: user:[uid], and the request that wrote it
  counter,     \* global:uid, or Unset
  conns,       \* [1 .. Clients -> Nat]: whether a client has connections
  faults,      \* [left, seen]: what may still go wrong with redis, whether it did
  early,       \* history: a uid was drawn before InitRedisDb set the first
  unheard      \* history: requests db_serv got while no client was connected

regVars == <<nameOf, sent, answer, cmds, names, users, counter, conns, faults, early,
             unheard>>

Result == {"SUCCESS", "DUP_NAME", "DB_ERR"}
Unset == -1
NoUid == 0

Cmd(op, r, uid) == [op |-> op, req |-> r, uid |-> uid, st |-> "wait"]
RegReq(r) == [type |-> "REG_REQ", req |-> r]
RegRsp(r, result) == [type |-> "REG_RSP", req |-> r, result |-> result]

\* NewRedisClient dials in a goroutine of its own: no client is connected yet.
Unconnected == [i \in 1 .. Clients |-> 0]

RegInit(asked, left) ==
  /\ nameOf = asked /\ sent = {} /\ answer = [r \in Req |-> "none"]
  /\ cmds = {} /\ users = {} /\ counter = Unset /\ faults = [left |-> left, seen |-> FALSE] /\ early = FALSE
  /\ names = [n \in Name |-> [first |-> NoReq, uid |-> NoUid, by |-> NoReq]]
  /\ conns = Unconnected /\ unheard = {}

-----------------------------------------------------------------------------
(* The way there and back *)

\* SendToServ of a message whose loss the properties are about.
Sends(ch, p, q, m) == chan' = SendToServ(ch, p, q, m) /\ spilt' = (spilt \/ Full(ch, p, q))

SendRegReq(r) ==
  /\ Conn \in runs /\ r \notin sent
  /\ sent' = sent \cup {r}
  /\ Sends(chan, Conn, Logic, RegReq(r))
  /\ UNCHANGED <<now, runs, passed, pool, stats, downAt, nameOf, answer, cmds, names, users,
                 counter, conns, faults, early, unheard>>

DirecToDb ==
  /\ Got(Logic, Conn, "REG_REQ")
  /\ Sends(Recved(chan, Conn, Logic), Logic, Db, Head(chan[Conn, Logic]))
  /\ UNCHANGED <<now, runs, passed, pool, stats, downAt, regVars>>

DirecToConnect ==
  /\ Got(Logic, Db, "REG_RSP")
  /\ Sends(Recved(chan, Db, Logic), Logic, Conn, Head(chan[Db, Logic]))
  /\ UNCHANGED <<now, runs, passed, pool, stats, downAt, regVars>>

RecvRegRsp ==
  /\ Got(Conn, Logic, "REG_RSP")
  /\ LET m == Head(chan[Logic, Conn]) IN answer' = [answer EXCEPT ![m.req] = m.result]
  /\ chan' = Recved(chan, Logic, Conn)
  /\ UNCHANGED <<now, runs, passed, pool, stats, downAt, spilt, nameOf, sent, cmds, names,
                 users, counter, conns, faults, early, unheard>>

-----------------------------------------------------------------------------
(* db_serv *)

Client(opt) == SelectRedisClient(RedisMethod, opt, conns)
NoClient(opt) == Client(opt) = {NoServ}

\* The only path without an answer: no client, before the first command.
RecvRegReq ==
  /\ Got(Db, Logic, "REG_REQ")
  /\ chan' = Recved(chan, Logic, Db)
  /\ cmds' = IF NoClient("RW") THEN cmds
             ELSE cmds \cup {Cmd("HSETNX_name", Head(chan[Logic, Db]).req, NoUid)}
  /\ unheard' = IF NoClient("RW") THEN unheard \cup {Head(chan[Logic, Db]).req} ELSE unheard
  /\ UNCHANGED <<now, runs, passed, pool, stats, downAt, spilt, nameOf, sent, answer, names,
                 users, counter, conns, faults, early>>

\* The command a callback goes on with, or its answer to the request.
GoesOn(c, next) == cmds' = (cmds \ {c}) \cup {next} /\ UNCHANGED <<chan, spilt>>
SendRegRsp(c, result) == cmds' = cmds \ {c} /\ Sends(chan, Db, Logic, RegRsp(c.req, result))

DupSilent(c) == cmds' = cmds \ {c} /\ UNCHANGED <<chan, spilt>>
DupName(c) == SendRegRsp(c, "DUP_NAME")
cb_set_global_name(c) ==
  /\ c.op = "HSETNX_name"
  /\ CASE c.st = "err" -> SendRegRsp(c, "DB_ERR")
       [] c.st = "exists" -> DupName(c)
       [] c.st = "ok" ->
            IF NoClient("RW") THEN SendRegRsp(c, "DB_ERR")
            ELSE GoesOn(c, Cmd("INCRBY_uid", c.req, NoUid))

IllegalFirst(uid) == uid <= InitUid + UidIncr
Illegal(uid) == uid <= InitUid
cb_alloc_uid(c) ==
  /\ c.op = "INCRBY_uid"
  /\ IF c.st = "err" \/ Illegal(c.uid) \/ NoClient("RW")
     THEN SendRegRsp(c, "DB_ERR")
     ELSE GoesOn(c, Cmd("HMSET_name", c.req, c.uid))

cb_set_global_info(c) ==
  /\ c.op = "HMSET_name"
  /\ IF c.st = "err" \/ NoClient("RW")
     THEN SendRegRsp(c, "DB_ERR")
     ELSE GoesOn(c, Cmd("HMSET_user", c.req, c.uid))

OutcomeUnchecked(c) == "SUCCESS"
Outcome(c) == IF c.st = "err" THEN "DB_ERR" ELSE "SUCCESS"
cb_reg_set_user_info(c) ==
  /\ c.op = "HMSET_user"
  /\ SendRegRsp(c, Outcome(c))

cb_init_global_uid(c) ==
  /\ c.op = "SETNX_uid"
  /\ cmds' = cmds \ {c} /\ UNCHANGED <<chan, spilt>>

Callback(c) ==
  /\ c.st # "wait"
  /\ \/ cb_set_global_name(c) \/ cb_alloc_uid(c) \/ cb_set_global_info(c)
     \/ cb_reg_set_user_info(c) \/ cb_init_global_uid(c)
  /\ UNCHANGED <<now, runs, passed, pool, stats, downAt, nameOf, sent, answer, names, users,
                 counter, conns, faults, early, unheard>>

Due(name) == \E t \in Fired(pool[Db], now) : t.name = name

\* The callbacks of db_serv's tickers: InitRedisDb, and HeartBeatToRedis,
\* whose command changes nothing that is modelled.
InitRedisDb == cmds' = IF Due("init_redis") THEN cmds \cup {Cmd("SETNX_uid", NoReq, NoUid)} ELSE cmds
DbTick ==
  /\ ~(Due("heart2redis") /\ NoClient("W"))
  /\ handle_tick(Db) /\ InitRedisDb
  /\ UNCHANGED <<nameOf, sent, answer, names, users, counter, conns, faults, early, unheard>>

StopDb ==
  /\ StopServer(Db) /\ cmds' = {} /\ conns' = Unconnected
  /\ UNCHANGED <<now, stats, chan, spilt, nameOf, sent, answer, names, users, counter, faults, early,
                 unheard>>

\* HeartBeatToRedis does not look whether SelectRedisClient found a client:
\* its nil ends the process, before the tickers added earlier are called.
HeartBeatPanics == Db \notin passed /\ Drained(Db) /\ Due("heart2redis") /\ NoClient("W") /\ StopDb

-----------------------------------------------------------------------------
(* redis *)

Taken(c) == names[nameOf[c.req]].first # NoReq

\* What redis answers to c, as the command its callback will see.
Reply(c) ==
  CASE c.op = "HSETNX_name" ->
         [c EXCEPT !.st = IF Taken(c) THEN "exists" ELSE "ok"]
    [] c.op = "INCRBY_uid" ->
         [c EXCEPT !.st = "ok", !.uid = UidIncr + (IF counter = Unset THEN 0 ELSE counter)]
    [] OTHER -> [c EXCEPT !.st = "ok"]

Hsetnx(c) ==
  [names EXCEPT ![nameOf[c.req]].first = IF @ = NoReq THEN c.req ELSE @]
SetAlways == InitUid
Setnx == IF counter = Unset THEN InitUid ELSE counter

Effect(c) ==
  /\ names' = CASE c.op = "HSETNX_name" -> Hsetnx(c)
                [] c.op = "HMSET_name" ->
                     [names EXCEPT ![nameOf[c.req]].uid = c.uid, ![nameOf[c.req]].by = c.req]
                [] OTHER -> names
  /\ users' = IF c.op = "HMSET_user"
              THEN {x \in users : x.uid # c.uid} \cup {[uid |-> c.uid, by |-> c.req]} ELSE users
  /\ counter' = CASE c.op = "SETNX_uid" -> Setnx
                  [] c.op = "INCRBY_uid" -> Reply(c).uid
                  [] OTHER -> counter
  /\ early' = (early \/ (c.op = "INCRBY_uid" /\ counter = Unset))

\* A connection of the client the command was given to is needed: the master.
Waiting(c) == c.st = "wait" /\ conns[1] > 0
Becomes(c, d) == cmds' = (cmds \ {c}) \cup {d}
noLoop == <<heartVars, nameOf, sent, answer, conns, unheard>>

Exec(c) == Waiting(c) /\ Becomes(c, Reply(c)) /\ Effect(c) /\ UNCHANGED <<noLoop, faults>>

Fault == faults.left > 0 /\ faults' = [left |-> faults.left - 1, seen |-> TRUE]
ReplyLost(c) ==
  /\ Fault /\ Waiting(c) /\ Becomes(c, [c EXCEPT !.st = "err"]) /\ Effect(c) /\ UNCHANGED noLoop
ExecFails(c) ==
  /\ Fault /\ Waiting(c) /\ Becomes(c, [c EXCEPT !.st = "err"])
  /\ UNCHANGED <<noLoop, names, users, counter, early>>
Dropped(c) ==
  /\ Fault /\ Waiting(c) /\ cmds' = cmds \ {c}
  /\ UNCHANGED <<noLoop, names, users, counter, early>>

\* The connections of a client break; redis_client_manage makes new ones, as
\* it makes the first: a dial ends well.  It need not end.
Disconnect(i) ==
  /\ Fault /\ conns[i] > 0 /\ conns' = [conns EXCEPT ![i] = 0]
  /\ UNCHANGED <<heartVars, nameOf, sent, answer, cmds, names, users, counter, early,
                 unheard>>
Connect(i) ==
  /\ Db \in runs /\ conns[i] = 0 /\ conns' = [conns EXCEPT ![i] = 1]
  /\ UNCHANGED <<heartVars, nameOf, sent, answer, cmds, names, users, counter, faults, early,
                 unheard>>
=============================================================================
