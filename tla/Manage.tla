------------------------------- MODULE Manage -------------------------------
(***************************************************************************)
(* manage_serv and one of the servers it watches.                          *)
(***************************************************************************)
EXTENDS Manager

CONSTANT
  Scenarios   \* [kind, boots, figures, syncs, todo]: the server, how often it starts,
              \* what it reports, and what happens around it

\* What a request is about: a command, one no server knows, a process.
Args == CmdMap \cup {"no_cmd", Self, Stranger, ""}
Asks == [op : {"login", "detail", "cmd"}, arg : Args]
Todo == [requests : Seq(Asks), signals : Seq(Signals), reloads : Nat, strangers : Nat]
ASSUME ScenariosOK ==
  \A s \in Scenarios :
    /\ s.kind \in Kinds /\ s.boots \in Nat /\ s.figures \in Nat /\ s.syncs \in BOOLEAN
    /\ s.todo \in Todo

ManageInit ==
  \E s \in Scenarios :
    ReportInit(s.kind, s.boots, s.figures, s.syncs) /\ ManagerInit(s.todo)

Next ==
  \/ Server /\ UNCHANGED mgrVars
  \/ \E d \in up : HandleMsg(d)
  \/ SetStat \/ SetCmd \/ SendCmd
  \/ \E r \in Requests : Panel(r) \/ Handler(r)
  \/ Reload \/ ParseClientList
  \/ StrangerReports \/ Signal \/ Tick

\* The goroutines run.  A process need not start, and a datagram need not
\* arrive, except that a server that keeps saying when it started is heard.
\* recver sends after a bounded number of reports.
Fairness ==
  /\ WF_vars(HandleInfo /\ UNCHANGED mgrVars)
  /\ WF_vars(HandleReportCmd /\ UNCHANGED mgrVars) /\ WF_vars(CmdsDone /\ UNCHANGED mgrVars)
  /\ SF_vars(Sync /\ UNCHANGED mgrVars) /\ WF_vars(NoTicker /\ UNCHANGED mgrVars)
  /\ WF_vars(ServerExits /\ UNCHANGED mgrVars) /\ WF_vars(Tick)
  /\ WF_vars(SendReport /\ UNCHANGED mgrVars)
  /\ WF_vars(SetStat) /\ WF_vars(SetCmd) /\ SF_vars(SendCmd)
  /\ \A t \in 1 .. MaxTime :
       WF_vars(\E d \in up : d.msg = Msg("SYNC_SERVER", t, "") /\ HandleMsg(d))
  /\ \A r \in Requests : WF_vars(Handler(r))
  /\ WF_vars(ParseClientList)

Spec == ManageInit /\ [][Next]_vars
FairSpec == Spec /\ Fairness

-----------------------------------------------------------------------------
TypeOK ==
  /\ now \in 1 .. MaxTime
  /\ proc.at \in {"down", "info", "tick", "cmds", "exit"} /\ proc.kind \in Kinds
  /\ Len(ChSig) <= SigCap /\ Len(ChInfo) <= InfoCap
  /\ Len(msg_send) <= SendCap /\ Len(msg_recv) <= RecvCap /\ Len(cmd_ch) <= CmdCap
  /\ DOMAIN WatchMap \in {{}, ClientList} /\ Name2Id \in {{}, ClientList}
  /\ watch_lock.readers \in Nat /\ watch_lock.writer \in Requests \cup {NoOne}
  /\ recver.at \in {"recv", "set", "cmd"} /\ (recver.at = "cmd" <=> recver.left # <<>>)
  /\ \A r \in Requests : req[r].at \in {"idle", "lock", "report"}

\* A command is answered at most as often as it was sent, whatever signals
\* and other commands come between, and nothing else is answered.
OneAnswer == \A t \in 1 .. MaxTime : hist.answers[t] <= hist.asked[t]

\* "done" on the panel means that the server did what CmdInfo says.  It does
\* not when a second command takes the slot of the first in the server, when
\* a local signal takes its token, when two commands have one second, or when
\* a command is noted while handle_msg sets what it makes of a report.
ShownDone ==
  /\ Self \in DOMAIN WatchMap /\ recver.at # "cmd" /\ ~hist.crossed
  /\ WatchMap[Self].CmdStat = "done"
WasDone == <<WatchMap[Self].CmdTime, WatchMap[Self].CmdInfo>> \in hist.did
DoneIsDone == ShownDone /\ hist.overtaken = {} => WasDone

\* handle_msg compares the times so that an answer is not shown with a later
\* command.  It is, if that is noted after the comparison.
DoneMatches == ShownDone /\ "SERVER_START" \notin hist.overtaken => WasDone

\* A request is over at some time, unless the lock was not given back.
PanelReturns == \A r \in Requests : req[r].at # "idle" ~> req[r].at = "idle" \/ odd

\* A server told to stop stops, unless its main loop waits for itself.
StopObeyed == (\E i \in 1 .. Len(ChInfo) : ChInfo[i].info = "EXIT") ~> proc.at = "down" \/ Jammed

\* A server that runs is not shown as stopped for ever, whatever old reports
\* arrive late.
RunningShown ==
  <>[](proc.at \notin {"down", "exit"} /\ proc.syncs /\ ~Jammed /\ ~odd)
    => <>[](Self \in DOMAIN WatchMap => WatchMap[Self].StopTime = 0)
=============================================================================
