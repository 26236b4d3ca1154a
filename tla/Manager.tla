------------------------------ MODULE Manager ------------------------------
(***************************************************************************)
(* manage_serv: report.go (ReportRecver), panel.go (PanelServ) and base.go.*)
(* It shows what the servers report and passes them commands.              *)
(*                                                                         *)
(*   recver   datagrams to WatchMap, cmd_ch to datagrams                   *)
(*   panel    a goroutine per http request                                 *)
(*   main     reloads the config on a signal                               *)
(*                                                                         *)
(* watch_lock is a sync.RWMutex: readers share it, a writer that waits     *)
(* keeps new readers out.  main does not take it, and recver gives it back *)
(* before it reads and sets what it looked up.                             *)
(***************************************************************************)
EXTENDS Report

CONSTANTS
  Requests,    \* the goroutines of the http server
  CmdCap,      \* CMD_CHAN_SIZE, of cmd_ch
  AuthExpire   \* auth_expire

ASSUME ManagerConstants == CmdCap \in Nat \ {0} /\ AuthExpire \in Nat

VARIABLES
  WatchMap,    \* proc id -> PeerStat
  Name2Id,     \* the proc ids of the names
  watch_lock,  \* number of read locks, and the writer if there is one
  cmd_ch,
  recver,      \* the report that handle_msg is at, what it still sets
  req,         \* what a request is about, where it is
  login,       \* AuthInfo.login of the user whose token the requests carry
  todo,        \* what is left to happen: requests, signals, reloads, reports of
               \* a process that is not in client_list
  odd          \* history: a process was looked up that was not in WatchMap

mgrVars == <<WatchMap, Name2Id, watch_lock, cmd_ch, recver, req, login, todo, odd>>
vars == <<reportVars, mgrVars>>

Stranger == "q"
NoOne == "none"
NewStat == [addr |-> 0, StartTime |-> 0, StopTime |-> 0, CmdTime |-> 0, CmdStat |-> "",
            CmdInfo |-> "", figures |-> {}]
Idle == [at |-> "idle", op |-> "", arg |-> "", ts |-> 0]
NoReport == [from |-> Stranger, addr |-> 0, msg |-> Msg("MONITOR", 0, "")]

\* recver between two reports.  listed: the entry it looked up is the one in
\* WatchMap, not one of the map before a reload.
Receiving == [at |-> "recv", d |-> NoReport, listed |-> FALSE, left |-> <<>>]

\* ParseClientList: the server is the process it lists.
ClientList == {Self}
ParsedMap == [p \in ClientList |-> NewStat]

\* LocalSet.
ManagerInit(t) ==
  /\ WatchMap = ParsedMap /\ Name2Id = ClientList
  /\ watch_lock = [readers |-> 0, writer |-> NoOne]
  /\ cmd_ch = <<>> /\ recver = Receiving /\ req = [r \in Requests |-> Idle] /\ login = 0
  /\ todo = t /\ odd = FALSE

-----------------------------------------------------------------------------
(* watch_lock *)

Waiting == {r \in Requests : req[r].at = "lock"}
CanRLock == watch_lock.writer = NoOne /\ Waiting = {}
CanLock == watch_lock.writer = NoOne /\ watch_lock.readers = 0

\* A read lock that is not given back.
Leak == /\ watch_lock' = [watch_lock EXCEPT !.readers = @ + 1]
        /\ odd' = TRUE

-----------------------------------------------------------------------------
(* recver *)

\* What handle_msg makes of a report at once, what it sets of a command later.
MatchesAny(st, m) == TRUE
Matches(st, m) == st.CmdTime = m.int
SyncedStopped(st) == st
Synced(st) == [st EXCEPT !.StopTime = 0]
Fresh(st) == st.StartTime > st.StopTime
StatOf(st, m) ==
  CASE m.proto \in {"SERVER_START", "SYNC_SERVER"} ->
         LET s == [st EXCEPT !.StartTime = m.int] IN IF Fresh(s) THEN Synced(s) ELSE s
    [] m.proto = "SERVER_STOP" -> [st EXCEPT !.StopTime = m.int]
    [] m.proto = "CMD_RSP" -> st
    [] m.proto \in {"SERVER_HEART", "CONN_NUM", "MONITOR"} ->
         [st EXCEPT !.figures = @ \cup {m.proto}]
LeftOf(st, m) ==
  CASE m.proto = "SERVER_START" /\ m.int > st.StopTime -> <<"CmdTime", "CmdStat", "CmdInfo">>
    [] m.proto = "CMD_RSP" /\ Matches(st, m) -> <<"CmdStat">>
    [] OTHER -> <<>>
FieldSet(st, field, m) ==
  CASE field = "CmdTime" -> [st EXCEPT !.CmdTime = 0]
    [] field = "CmdStat" -> [st EXCEPT !.CmdStat = IF m.proto = "CMD_RSP" THEN m.str ELSE ""]
    [] field = "CmdInfo" -> [st EXCEPT !.CmdInfo = ""]

\* recv, and handle_msg while it looks the process up: the lock is kept when
\* the process is not there.
HandleMsg(d) ==
  /\ recver.at = "recv" /\ d \in up /\ CanRLock
  /\ up' = up \ {d}
  /\ IF d.from \in DOMAIN WatchMap
       THEN /\ recver' = [at |-> "set", d |-> d, listed |-> TRUE, left |-> <<>>]
            /\ UNCHANGED <<watch_lock, odd>>
       ELSE Leak /\ UNCHANGED recver
  /\ UNCHANGED <<now, srvVars, hist, WatchMap, Name2Id, cmd_ch, req, login, todo>>

\* The lock is back.  handle_msg compares the times, and sets what no other
\* goroutine does.
SetStat ==
  /\ recver.at = "set"
  /\ IF recver.listed
       THEN LET d == recver.d
                left == LeftOf(WatchMap[d.from], d.msg)
            IN  /\ WatchMap' = [WatchMap EXCEPT ![d.from] = [StatOf(@, d.msg) EXCEPT !.addr = d.addr]]
                /\ recver' = IF left = <<>> THEN Receiving
                                            ELSE [recver EXCEPT !.at = "cmd", !.left = left]
       ELSE recver' = Receiving /\ UNCHANGED WatchMap
  /\ UNCHANGED <<reportVars, Name2Id, watch_lock, cmd_ch, req, login, todo, odd>>

\* Then it sets what the panel sets as well, one field after the other.
SetCmd ==
  /\ recver.at = "cmd"
  /\ WatchMap' = IF recver.listed
                   THEN [WatchMap EXCEPT ![recver.d.from] =
                           FieldSet(@, Head(recver.left), recver.d.msg)]
                   ELSE WatchMap
  /\ recver' = IF Len(recver.left) = 1 THEN Receiving ELSE [recver EXCEPT !.left = Tail(@)]
  /\ UNCHANGED <<reportVars, Name2Id, watch_lock, cmd_ch, req, login, todo, odd>>

\* send: a command goes to the address its target last reported from, which
\* may be that of a process that has ended.
SendCmd ==
  /\ recver.at = "recv" /\ cmd_ch # <<>> /\ CanRLock
  /\ LET c == Head(cmd_ch)
     IN  IF c.to \in DOMAIN WatchMap
           THEN /\ down' = IF proc.at # "down" /\ WatchMap[c.to].addr = proc.boot
                             THEN down \cup {c.msg} ELSE down
                /\ UNCHANGED <<watch_lock, odd>>
           ELSE Leak /\ UNCHANGED down
  /\ cmd_ch' = Tail(cmd_ch)
  /\ UNCHANGED <<now, proc, ChSig, ChInfo, msg_send, msg_recv, up, hist, WatchMap, Name2Id,
                 recver, req, login, todo>>

-----------------------------------------------------------------------------
(* panel *)

\* The next request of the plan reaches the server, which gives it a
\* goroutine of its own.
Arrives(r) ==
  /\ todo.requests # <<>> /\ req[r].at = "idle"
  /\ r = CHOOSE x \in Requests : req[x].at = "idle"
  /\ todo' = [todo EXCEPT !.requests = Tail(@)]
Becomes(r, at) == req' = [req EXCEPT ![r].at = at]

\* login_post of a name and its password: AuthInfo.login counts for every
\* token of the name.
login_post(r) ==
  /\ Arrives(r) /\ Head(todo.requests).op = "login"
  /\ login' = now
  /\ UNCHANGED <<reportVars, WatchMap, Name2Id, watch_lock, cmd_ch, recver, req, odd>>

check_auth == login > 0 /\ login + AuthExpire >= now
Refused(r) ==
  /\ Arrives(r) /\ Head(todo.requests).op # "login" /\ ~check_auth
  /\ UNCHANGED <<reportVars, WatchMap, Name2Id, watch_lock, cmd_ch, recver, req, login, odd>>

\* detail_get and cmd_handle up to the lock: the time of a command is taken
\* before.
Asked(r, ts) == req' = [req EXCEPT ![r] = [at |-> "lock", op |-> Head(todo.requests).op,
                                           arg |-> Head(todo.requests).arg, ts |-> ts]]
detail_get(r) ==
  /\ Arrives(r) /\ Head(todo.requests).op = "detail" /\ check_auth
  /\ Asked(r, 0)
  /\ UNCHANGED <<reportVars, WatchMap, Name2Id, watch_lock, cmd_ch, recver, login, odd>>

\* Of the names that match there is one; none while the list is reloaded.
CmdMap == CommonCmds \cup {"reload_table"}
cmd_handle(r) ==
  /\ Arrives(r) /\ Head(todo.requests).op = "cmd" /\ check_auth
  /\ IF Name2Id # {} /\ Head(todo.requests).arg \in CmdMap
       THEN Asked(r, now) ELSE UNCHANGED req
  /\ UNCHANGED <<reportVars, WatchMap, Name2Id, watch_lock, cmd_ch, recver, login, odd>>

\* A process that is not in WatchMap makes the goroutine panic, the lock
\* in its hand.
Target(r) == IF req[r].op = "detail" THEN req[r].arg ELSE Self
Panics(r) ==
  /\ req[r].at = "lock" /\ CanLock /\ Target(r) \notin DOMAIN WatchMap
  /\ watch_lock' = [watch_lock EXCEPT !.writer = r]
  /\ odd' = TRUE /\ Becomes(r, "idle")
  /\ UNCHANGED <<reportVars, WatchMap, Name2Id, cmd_ch, recver, login, todo>>

Shows(r) ==
  /\ req[r].at = "lock" /\ CanLock /\ req[r].op = "detail" /\ Target(r) \in DOMAIN WatchMap
  /\ Becomes(r, "idle")
  /\ UNCHANGED <<reportVars, WatchMap, Name2Id, watch_lock, cmd_ch, recver, login, todo, odd>>

\* The report that handle_msg is at, if it still has something to set.
Amid == IF recver.at = "cmd" THEN {recver.d.msg.proto} ELSE {}

\* The command is noted under the time of this moment, which may be between
\* handle_msg's comparison and what it sets.
Notes(r) ==
  /\ req[r].at = "lock" /\ CanLock /\ req[r].op = "cmd" /\ Target(r) \in DOMAIN WatchMap
  /\ WatchMap' = [WatchMap EXCEPT ![Self].CmdTime = now, ![Self].CmdStat = "ing",
                                  ![Self].CmdInfo = req[r].arg]
  /\ hist' = [hist EXCEPT !.noted = @ \cup {now}, !.crossed = @ \/ now \in hist.noted,
                          !.overtaken = @ \cup Amid]
  /\ Becomes(r, "report")
  /\ UNCHANGED <<now, srvVars, up, Name2Id, watch_lock, cmd_ch, recver, login, todo, odd>>

\* Mutant of report_cmd: it waits for the process to report.
report_cmdWaits(r) ==
  /\ req[r].at = "report" /\ CanRLock
  /\ Self \in DOMAIN WatchMap /\ WatchMap[Self].addr # 0 /\ Len(cmd_ch) < CmdCap
  /\ cmd_ch' = Append(cmd_ch, [to |-> Self, msg |-> Msg("CMD_REQ", req[r].ts, req[r].arg)])
  /\ hist' = [hist EXCEPT !.asked[req[r].ts] = @ + 1]
  /\ Becomes(r, "idle")
  /\ UNCHANGED <<now, srvVars, up, WatchMap, Name2Id, watch_lock, recver, login, todo, odd>>

\* report_cmd: nothing is sent to a process that never reported; cmd_ch
\* makes it wait when it is full.
report_cmd(r) ==
  /\ req[r].at = "report" /\ CanRLock
  /\ IF Self \in DOMAIN WatchMap /\ WatchMap[Self].addr # 0
       THEN /\ Len(cmd_ch) < CmdCap
            /\ cmd_ch' = Append(cmd_ch, [to |-> Self, msg |-> Msg("CMD_REQ", req[r].ts, req[r].arg)])
            /\ hist' = [hist EXCEPT !.asked[req[r].ts] = @ + 1]
       ELSE UNCHANGED <<cmd_ch, hist>>
  /\ Becomes(r, "idle")
  /\ UNCHANGED <<now, srvVars, up, WatchMap, Name2Id, watch_lock, recver, login, todo, odd>>

-----------------------------------------------------------------------------
(* main: handle_info of the reload signal.  ParseClientList makes new maps *)
(* and fills them while the other goroutines look into them.               *)

Reload ==
  /\ todo.reloads > 0 /\ Name2Id # {}
  /\ todo' = [todo EXCEPT !.reloads = @ - 1]
  /\ WatchMap' = <<>> /\ Name2Id' = {} /\ recver' = [recver EXCEPT !.listed = FALSE]
  /\ UNCHANGED <<reportVars, watch_lock, cmd_ch, req, login, odd>>
ParseClientList ==
  /\ Name2Id = {}
  /\ WatchMap' = ParsedMap /\ Name2Id' = ClientList
  /\ UNCHANGED <<reportVars, watch_lock, cmd_ch, recver, req, login, todo, odd>>

Panel(r) ==
  login_post(r) \/ Refused(r) \/ detail_get(r) \/ cmd_handle(r)
Handler(r) == Panics(r) \/ Shows(r) \/ Notes(r) \/ report_cmd(r)

-----------------------------------------------------------------------------
(* Around the two programs *)

\* A process that client_list does not name reports as the others do.
StrangerReports ==
  /\ todo.strangers > 0
  /\ todo' = [todo EXCEPT !.strangers = @ - 1]
  /\ up' = up \cup {[from |-> Stranger, addr |-> 0, msg |-> Msg("SERVER_HEART", 0, "")]}
  /\ UNCHANGED <<now, srvVars, hist, WatchMap, Name2Id, watch_lock, cmd_ch, recver, req, login, odd>>

Signal ==
  /\ todo.signals # <<>>
  /\ Notify(Head(todo.signals))
  /\ todo' = [todo EXCEPT !.signals = Tail(@)]
  /\ UNCHANGED <<WatchMap, Name2Id, watch_lock, cmd_ch, recver, req, login, odd>>

Tick ==
  /\ now < MaxTime /\ now' = now + 1
  /\ UNCHANGED <<srvVars, up, hist, mgrVars>>
=============================================================================
