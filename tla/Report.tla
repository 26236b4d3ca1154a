------------------------------- MODULE Report -------------------------------
(***************************************************************************)
(* A server's side of the reports: servers/comm/report.go (ReportServ),    *)
(* report_proto.go, signal.go, and of each server lib/report.go            *)
(* (RecvReportCmd, HandleReportCmd), handle_info and the reporting tickers.*)
(* Four goroutines share it:                                               *)
(*                                                                         *)
(*   main      handle_info, then the tickers: heartbeat, sync, commands    *)
(*   serve     msg_send to the manager's socket, the socket to msg_recv    *)
(*   monitor   reports what top prints                                     *)
(*   signals   ChSig to ChInfo                                             *)
(*                                                                         *)
(* ChInfo is filled by signals and by main itself, and only main empties   *)
(* it.  UDP keeps neither order nor everything: a datagram is an element   *)
(* of a set, and one that is never taken from it is lost.                  *)
(***************************************************************************)
EXTENDS Integers, Sequences, FiniteSets

CONSTANTS
  InfoCap,    \* of ChInfo
  SigCap,     \* of ChSig
  SendCap,    \* REPROT_MSG_CHAN_SIZE, of msg_send
  RecvCap,    \* the same, of msg_recv
  RecvBatch,  \* MAX_RECV_PER_TICK
  MaxTime     \* bound of the clock

ASSUME ReportConstants ==
  {InfoCap, SigCap, SendCap, RecvCap, RecvBatch, MaxTime} \subseteq Nat \ {0}

VARIABLES
  now,        \* time.Now().Unix()
  proc,       \* the server process: its kind, its main loop, Config
  ChSig, ChInfo, msg_send, msg_recv,
  up, down,   \* datagrams on the way to the manager and to the server
  hist        \* history: commands issued, done and answered, the seconds they
              \* are noted under, whether one's answer may go to another, and
              \* reports that were being set when one was noted

srvVars == <<proc, ChSig, ChInfo, msg_send, msg_recv, down>>
reportVars == <<now, srvVars, up, hist>>

Self == "p"                                    \* the server's proc id
Msg(proto, int, str) == [proto |-> proto, int |-> int, str |-> str]

Kinds == {"conn", "logic", "db", "disp"}

\* A process that does not run; figures bounds how often it reports them,
\* syncs is whether the ticker of ReportSyncServer is due; boot counts the starts, addr of a datagram
\* is the boot whose socket it came from.
Down(kind, boots, figures, syncs) ==
  [kind |-> kind, boots |-> boots, figures |-> figures, syncs |-> syncs, boot |-> 0, at |-> "down", count |-> 0,
   ReportCmd |-> "", ReportCmdToken |-> 0, prof |-> FALSE, start |-> 0, stop |-> 0]

ReportInit(kind, boots, figures, syncs) ==
  /\ now = 1 /\ proc = Down(kind, boots, figures, syncs)
  /\ ChSig = <<>> /\ ChInfo = <<>> /\ msg_send = <<>> /\ msg_recv = <<>>
  /\ up = {} /\ down = {}
  /\ hist = [asked |-> [t \in 1 .. MaxTime |-> 0], answers |-> [t \in 1 .. MaxTime |-> 0],
             did |-> {}, noted |-> {}, crossed |-> FALSE, overtaken |-> {}]

\* ReportServ.Report: a message that does not fit is dropped.
Reported(q, m) == IF Len(q) < SendCap THEN Append(q, m) ELSE q
Report(m) == msg_send' = Reported(msg_send, m)

\* The answer to a command, and its count in the history.
Answered(h, token) == [h EXCEPT !.answers[token] = @ + 1]
Did(h, token, cmd) == [h EXCEPT !.did = @ \cup {<<token, cmd>>}]
Rsp(token, stat) == Msg("CMD_RSP", token, stat)

-----------------------------------------------------------------------------
(* The life of the process *)

\* StartReport, called by LocalSet.  Its own start follows its last stop by a
\* second or more: ServerExit sleeps before it unlocks the uniq file.
StartReport ==
  /\ proc.at = "down" /\ proc.boots > 0 /\ now > proc.stop
  /\ proc' = [Down(proc.kind, proc.boots - 1, proc.figures, proc.syncs) EXCEPT
                !.boot = proc.boot + 1, !.at = "info", !.start = now]
  /\ msg_send' = <<Msg("SERVER_START", now, "")>>
  /\ ChSig' = <<>> /\ ChInfo' = <<>> /\ msg_recv' = <<>> /\ down' = {}
  /\ UNCHANGED <<now, up, hist>>

\* The process ends: its channels and its socket go with it.
Gone ==
  /\ proc' = [proc EXCEPT !.at = "down"]
  /\ ChSig' = <<>> /\ ChInfo' = <<>> /\ msg_send' = <<>> /\ msg_recv' = <<>> /\ down' = {}
  /\ UNCHANGED <<now, up, hist>>

\* Mutant of ServerExit: the main loop goes on.
ServerExitStays ==
  /\ proc' = [proc EXCEPT !.at = "tick", !.stop = now]
  /\ Report(Msg("SERVER_STOP", now, ""))
  /\ UNCHANGED hist

\* ServerExit: the stop is reported, then it sleeps so that it gets out.
ServerExit ==
  /\ proc' = [proc EXCEPT !.at = "exit", !.stop = now]
  /\ Report(Msg("SERVER_STOP", now, ""))
  /\ UNCHANGED hist
ServerExits == proc.at = "exit" /\ (now > proc.stop \/ now = MaxTime) /\ Gone
Killed == proc.at # "down" /\ proc.boots > 0 /\ Gone

-----------------------------------------------------------------------------
(* signals *)

Signals == {"SIGINT", "SIGTERM", "SIGUSR1", "SIGUSR2"}

\* signal.Notify drops what does not fit in ChSig.
Notify(s) ==
  /\ proc.at # "down"
  /\ ChSig' = IF Len(ChSig) < SigCap THEN Append(ChSig, s) ELSE ChSig
  /\ UNCHANGED <<now, proc, ChInfo, msg_send, msg_recv, up, down, hist>>

\* What HandleSignal makes of a signal.  Of an info the history keeps the
\* command it was pushed for, 0 for a signal.
Info(info, token) == [info |-> info, token |-> token]
InfoOf(s) ==
  CASE s = "SIGINT"  -> "EXIT"
    [] s = "SIGTERM" -> "PPROF"
    [] s = "SIGUSR1" -> "RELOAD_CFG"
    [] s = "SIGUSR2" -> "USR2"

HandleSignal ==
  /\ ChSig # <<>> /\ Len(ChInfo) < InfoCap
  /\ ChInfo' = Append(ChInfo, Info(InfoOf(Head(ChSig)), 0))
  /\ ChSig' = Tail(ChSig)
  /\ UNCHANGED <<now, proc, msg_send, msg_recv, up, down, hist>>

-----------------------------------------------------------------------------
(* serve and monitor *)

\* REPORT_METHOD_ALL, of which there is one manager here.
SendReport ==
  /\ proc.at # "down" /\ msg_send # <<>>
  /\ up' = up \cup {[from |-> Self, addr |-> proc.boot, msg |-> Head(msg_send)]}
  /\ msg_send' = Tail(msg_send)
  /\ UNCHANGED <<now, proc, ChSig, ChInfo, msg_recv, down, hist>>

RecvReport(m) ==
  /\ proc.at # "down" /\ m \in down /\ Len(msg_recv) < RecvCap
  /\ msg_recv' = Append(msg_recv, m)
  /\ down' = down \ {m}
  /\ UNCHANGED <<now, proc, ChSig, ChInfo, msg_send, up, hist>>

Monitor ==
  /\ proc.at # "down" /\ proc.figures > 0
  /\ proc' = [proc EXCEPT !.figures = @ - 1]
  /\ Report(Msg("MONITOR", 0, ""))
  /\ UNCHANGED <<now, ChSig, ChInfo, msg_recv, up, down, hist>>

-----------------------------------------------------------------------------
(* handle_info *)

\* The command at hand, if there is one, is answered with stat; else the
\* message came from a local signal.
ForgetNot == [proc EXCEPT !.at = "tick"]
Forget == [proc EXCEPT !.ReportCmdToken = 0, !.ReportCmd = "", !.at = "tick"]
Pending == proc.ReportCmdToken > 0
Crossing(h) == [h EXCEPT !.crossed = @ \/ Head(ChInfo).token # proc.ReportCmdToken]
AnswerPending(stat, prof, done) ==
  /\ proc' = [Forget EXCEPT !.prof = prof]
  /\ IF Pending
       THEN /\ Report(Rsp(proc.ReportCmdToken, stat))
            /\ LET h == Crossing(Answered(hist, proc.ReportCmdToken))
               IN  hist' = IF done THEN Did(h, Head(ChInfo).token, proc.ReportCmd) ELSE h
       ELSE UNCHANGED <<msg_send, hist>>

\* LoadJsonFile of the config, which may fail.
ReloadCfg ==
  \E ret \in BOOLEAN : AnswerPending(IF ret THEN "done" ELSE "fail", proc.prof, ret)

\* DefaultHandleProfile switches profiling, or fails to open a file; a
\* command that finds it as it wants it is a nop.
Profile ==
  LET idle == \/ proc.ReportCmd = "start_gprof" /\ proc.prof
              \/ proc.ReportCmd = "end_gprof" /\ ~proc.prof
  IN  IF Pending /\ idle
        THEN AnswerPending("nop", proc.prof, FALSE)
        ELSE \/ AnswerPending("done", ~proc.prof, TRUE)
             \/ ~proc.prof /\ AnswerPending("fail", FALSE, FALSE)

\* The channel is read without waiting.
handle_info ==
  /\ proc.at = "info"
  /\ \/ ChInfo = <<>> /\ proc' = [proc EXCEPT !.at = "tick"] /\ UNCHANGED <<ChInfo, msg_send, hist>>
     \/ /\ ChInfo # <<>> /\ ChInfo' = Tail(ChInfo)
        /\ CASE Head(ChInfo).info = "EXIT" -> ServerExit
             [] Head(ChInfo).info = "RELOAD_CFG" -> ReloadCfg
             [] Head(ChInfo).info = "PPROF" -> Profile
             [] Head(ChInfo).info = "USR2" -> /\ proc' = [proc EXCEPT !.at = "tick"]
                                              /\ UNCHANGED <<msg_send, hist>>
  /\ UNCHANGED <<now, ChSig, msg_recv, up, down>>

\* A reload resets max_conn of the tcp server (conn_serv) or the redis
\* clients (db_serv), which other modules model; logic_serv and disp_serv
\* have nothing to do.
ConnHandleInfo == proc.kind = "conn" /\ handle_info
LogicHandleInfo == proc.kind = "logic" /\ handle_info
DbHandleInfo == proc.kind = "db" /\ handle_info
DispHandleInfo == proc.kind = "disp" /\ handle_info
HandleInfo == ConnHandleInfo \/ LogicHandleInfo \/ DbHandleInfo \/ DispHandleInfo

-----------------------------------------------------------------------------
(* HandleReportCmd: what main does with a command of the manager.  A push  *)
(* to a full ChInfo waits for main, that is for ever.                      *)

\* Each of these handles the command m and takes it from msg_recv.
TakeCmd == /\ msg_recv' = Tail(msg_recv)
           /\ UNCHANGED <<now, ChSig, up, down>>
Counted == [proc EXCEPT !.count = @ - 1]

\* One slot holds the command and its token until handle_info gets to it.
Queued(m, cmds, info) ==
  /\ m.str \in cmds
  /\ Len(ChInfo) < InfoCap /\ ChInfo' = Append(ChInfo, Info(info, m.int))
  /\ proc' = [Counted EXCEPT !.ReportCmd = m.str, !.ReportCmdToken = m.int]
  /\ UNCHANGED <<msg_send, hist>>
ReloadCmd(m) == Queued(m, {"reload_cfg"}, "RELOAD_CFG")
ProfileCmd(m) == Queued(m, {"start_gprof", "end_gprof"}, "PPROF")

AnswerNow(m, stat) ==
  /\ proc' = Counted /\ Report(Rsp(m.int, stat))
  /\ LET h == Answered(hist, m.int)
     IN  hist' = IF stat = "done" THEN Did(h, m.int, m.str) ELSE h

StopCmd(m) ==
  /\ m.str = "stop_server"
  /\ Len(ChInfo) < InfoCap /\ ChInfo' = Append(ChInfo, Info("EXIT", m.int))
  /\ AnswerNow(m, "done")

\* The value may not be a number, as the panel checks a trimmed copy of it,
\* and ChgAttr may refuse it.
LogCmd(m) ==
  /\ m.str \in {"log_level", "log_degree", "log_rotate", "log_size"}
  /\ \E stat \in {"done", "fail"} : AnswerNow(m, stat)
  /\ UNCHANGED ChInfo

\* ReLoadTableFiles stops at the first file that does not load.
TableCmd(m) ==
  /\ m.str = "reload_table"
  /\ \E stat \in {"done", "fail"} : AnswerNow(m, stat)
  /\ UNCHANGED ChInfo

CommonCmds == {"reload_cfg", "start_gprof", "end_gprof", "stop_server",
               "log_level", "log_degree", "log_rotate", "log_size"}
OtherCmd(m, known) == m.str \notin known /\ AnswerNow(m, "nop") /\ UNCHANGED ChInfo

CommonCmd(m) == ReloadCmd(m) \/ ProfileCmd(m) \/ StopCmd(m) \/ LogCmd(m)

\* Only logic_serv keeps tables.
ConnCmd(m) == proc.kind = "conn" /\ (CommonCmd(m) \/ OtherCmd(m, CommonCmds))
DbCmd(m) == proc.kind = "db" /\ (CommonCmd(m) \/ OtherCmd(m, CommonCmds))
DispCmd(m) == proc.kind = "disp" /\ (CommonCmd(m) \/ OtherCmd(m, CommonCmds))
LogicCmd(m) ==
  /\ proc.kind = "logic"
  /\ CommonCmd(m) \/ TableCmd(m) \/ OtherCmd(m, CommonCmds \cup {"reload_table"})

\* RecvReportCmd, a ticker of 5 s: what msg_recv has, a batch at most.
RecvReportCmd ==
  /\ proc.at = "tick" /\ msg_recv # <<>>
  /\ proc' = [proc EXCEPT !.at = "cmds", !.count = RecvBatch]
  /\ UNCHANGED <<now, ChSig, ChInfo, msg_send, msg_recv, up, down, hist>>

HandleReportCmd ==
  /\ proc.at = "cmds" /\ proc.count > 0 /\ msg_recv # <<>>
  /\ LET m == Head(msg_recv) IN ConnCmd(m) \/ LogicCmd(m) \/ DbCmd(m) \/ DispCmd(m)
  /\ TakeCmd

CmdsDone ==
  /\ proc.at = "cmds" /\ (proc.count = 0 \/ msg_recv = <<>>)
  /\ proc' = [proc EXCEPT !.at = "info", !.count = 0]
  /\ UNCHANGED <<now, ChSig, ChInfo, msg_send, msg_recv, up, down, hist>>

\* The push that never returns.
Jammed == /\ proc.at = "cmds" /\ proc.count > 0 /\ msg_recv # <<>>
          /\ Head(msg_recv).str \in {"reload_cfg", "start_gprof", "end_gprof", "stop_server"}
          /\ Len(ChInfo) = InfoCap

-----------------------------------------------------------------------------
(* The other tickers of main *)

NoTicker ==
  /\ proc.at = "tick" /\ proc' = [proc EXCEPT !.at = "info"]
  /\ UNCHANGED <<now, ChSig, ChInfo, msg_send, msg_recv, up, down, hist>>

\* SendHeartBeatMsg reports that the server lives, and a number: of clients
\* (conn_serv), users (logic_serv) or redis connections (db_serv).
HeartBeat(numbers) ==
  /\ proc.at = "tick" /\ proc.figures > 0
  /\ proc' = [proc EXCEPT !.at = "info", !.figures = @ - 1]
  /\ LET q == Reported(msg_send, Msg("SERVER_HEART", 0, ""))
     IN  msg_send' = IF numbers THEN Reported(q, Msg("CONN_NUM", 0, "")) ELSE q
  /\ UNCHANGED <<now, ChSig, ChInfo, msg_recv, up, down, hist>>
ConnHeartBeat == proc.kind = "conn" /\ HeartBeat(TRUE)
LogicHeartBeat == proc.kind = "logic" /\ HeartBeat(TRUE)
DbHeartBeat == proc.kind = "db" /\ HeartBeat(TRUE)
DispHeartBeat == proc.kind = "disp" /\ HeartBeat(FALSE)

ReportSyncServer ==
  /\ proc.at = "tick" /\ proc.syncs /\ proc' = [proc EXCEPT !.at = "info"]
  /\ Report(Msg("SYNC_SERVER", proc.start, ""))
  /\ UNCHANGED <<now, ChSig, ChInfo, msg_recv, up, down, hist>>
ConnSync == proc.kind = "conn" /\ ReportSyncServer
LogicSync == proc.kind = "logic" /\ ReportSyncServer
DbSync == proc.kind = "db" /\ ReportSyncServer
DispSync == proc.kind = "disp" /\ ReportSyncServer
Sync == ConnSync \/ LogicSync \/ DbSync \/ DispSync

MainLoop ==
  \/ HandleInfo \/ RecvReportCmd \/ HandleReportCmd \/ CmdsDone \/ NoTicker \/ Sync
  \/ ConnHeartBeat \/ LogicHeartBeat \/ DbHeartBeat \/ DispHeartBeat
Server ==
  \/ StartReport \/ ServerExits \/ Killed \/ MainLoop
  \/ HandleSignal \/ SendReport \/ Monitor \/ \E m \in down : RecvReport(m)
=============================================================================
