------------------------------ MODULE Servers ------------------------------
(***************************************************************************)
(* The servers' main loops with their heartbeats, and registration.        *)
(***************************************************************************)
EXTENDS Reg

CONSTANT
  Scenarios    \* [started, asked, asks, kicks, stops, left, faults, until]:
               \* the servers that run, the
               \* name each request asks for, requests and kicks there are, the
               \* servers that may stop and how often

ASSUME ScenariosAssumption ==
  \A s \in Scenarios :
    /\ s.started \subseteq Proc /\ s.stops \subseteq Proc /\ s.asks \subseteq Req
    /\ s.asked \in [Req -> Name] /\ s.kicks \subseteq Nat
    /\ {s.faults, s.left, s.until} \subseteq Nat

VARIABLE todo  \* [kicks, asks, stops, left, until]: what is left of a scenario
vars == <<heartVars, regVars, todo>>

Init ==
  \E s \in Scenarios :
    /\ HeartsInit(s.started) /\ RegInit(s.asked, s.faults)
    /\ todo = [kicks |-> s.kicks, asks |-> s.asks, stops |-> s.stops, left |-> s.left,
               until |-> s.until]

Stops(p) ==
  /\ p \in todo.stops /\ todo.left > 0
  /\ IF p = Db THEN StopDb
     ELSE StopServer(p) /\ UNCHANGED <<now, stats, chan, spilt, regVars>>
  /\ todo' = [todo EXCEPT !.left = @ - 1]
Starts(p) == p \in todo.stops /\ StartServer(p) /\ UNCHANGED <<regVars, todo>>
Kicks(uid) ==
  /\ uid \in todo.kicks /\ SendDupUserKick(uid)
  /\ todo' = [todo EXCEPT !.kicks = @ \ {uid}] /\ UNCHANGED regVars
Asks(r) == r \in todo.asks /\ SendRegReq(r) /\ UNCHANGED todo

Loop(p) ==
  \/ \E q \in Proc : RecvHeartBeatReq(p, q) /\ UNCHANGED <<regVars, todo>>
  \/ p # Db /\ handle_tick(p) /\ UNCHANGED <<regVars, todo>>
  \/ p \in DispSet /\ RecvDispMsg(p) /\ UNCHANGED <<regVars, todo>>
  \/ p = Logic /\ (DirecToDb \/ DirecToConnect) /\ UNCHANGED todo
  \/ p = Conn /\ RecvRegRsp /\ UNCHANGED todo
  \/ p = Db /\ (RecvRegReq \/ DbTick \/ HeartBeatPanics) /\ UNCHANGED todo

Redis(c) == (Exec(c) \/ ReplyLost(c) \/ ExecFails(c) \/ Dropped(c)) /\ UNCHANGED todo

Next ==
  \/ \E p \in Proc : Loop(p) \/ Stops(p) \/ Starts(p)
  \/ \E uid \in todo.kicks : Kicks(uid)
  \/ \E r \in todo.asks : Asks(r)
  \/ \E c \in cmds : Redis(c) \/ (Callback(c) /\ UNCHANGED todo)
  \/ \E i \in 1 .. Clients : (Disconnect(i) \/ Connect(i)) /\ UNCHANGED todo
  \/ Second(todo.until) /\ UNCHANGED <<regVars, todo>>

\* The loops run, redis executes commands and the callbacks run; nobody need
\* ask, stop or start, and a second need not end.
Fairness ==
  /\ \A p \in Proc : WF_vars(Loop(p))
  /\ \A r \in Req : WF_vars(\E c \in cmds : c.req = r /\ Exec(c) /\ UNCHANGED todo)
  /\ \A r \in Req : WF_vars(\E c \in cmds : c.req = r /\ Callback(c) /\ UNCHANGED todo)

Spec == Init /\ [][Next]_vars
FairSpec == Spec /\ Fairness

-----------------------------------------------------------------------------
Stopped == \E p \in Proc : downAt[p] # 0

\* No ticker is overtaken: what expires is fired in the second it expires in,
\* though Tick looks only at the earliest time it kept.
OnTime ==
  \A p \in runs : \A t \in pool[p].tickers : t.expire >= now /\ (p \in passed => t.expire > now)

\* A kick is not handed to a disp_serv that has been down for longer than the
\* life of a heartbeat, even when its last heartbeats arrive only now.
DeadShunned ==
  [][\A s \in DispSet :
       Len(chan'[Logic, s]) > Len(chan[Logic, s])
         /\ chan'[Logic, s][Len(chan'[Logic, s])].type = "KICK_DUPLICATE_USER"
         => s \in runs \/ now - downAt[s] <= Life]_vars

\* A registered user is never written over: neither the password and the uid
\* of a name nor the hash of a uid, across restarts and failed commands.
NeverOverwritten ==
  [][/\ \A n \in Name : names[n].uid # NoUid => names'[n] = names[n]
     /\ users \subseteq users']_vars

\* Who is told SUCCESS owns the name, with its password, and a user hash.
SuccessIsComplete ==
  \A r \in Req : answer[r] = "SUCCESS" =>
    LET n == names[nameOf[r]] IN n.by = r /\ [uid |-> n.uid, by |-> r] \in users

\* A name is taken by a request that goes on, or has its user: it is lost to
\* everyone only when something failed, or before redis had the first uid.
NoNameStranded ==
  \A n \in Name :
    names[n].first # NoReq /\ ~faults.seen /\ ~Stopped /\ ~early =>
      \/ [uid |-> names[n].uid, by |-> names[n].first] \in users
      \/ \E c \in cmds : c.req = names[n].first

\* Every request is answered, unless redis failed, a server stopped or a
\* channel was full; but db_serv answers nothing to a request it takes before
\* it has a connection to redis.
Harmed == faults.seen \/ Stopped \/ spilt
Answered == \A r \in Req : r \in sent ~> answer[r] # "none" \/ r \in unheard \/ Harmed
=============================================================================
