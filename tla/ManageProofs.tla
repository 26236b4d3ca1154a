---------------------------- MODULE ManageProofs ----------------------------
(***************************************************************************)
(* The theorems about the manager and the server it watches, for any       *)
(* scenarios, capacities and goroutines.                                   *)
(***************************************************************************)
EXTENDS Manage, TLAPS, FiniteSetTheorems, FunctionTheorems

-----------------------------------------------------------------------------
(* Types. *)

Time == 1 .. MaxTime
Stats == {"", "ing", "done", "fail", "nop"}
Text == Args \cup Stats
Protos == {"SERVER_START", "SYNC_SERVER", "SERVER_STOP", "CMD_RSP", "SERVER_HEART", "CONN_NUM",
           "MONITOR"}
Reports == [proto : Protos, int : Nat, str : Text]
Commands == [proto : {"CMD_REQ"}, int : Time, str : Text]
Infos == [info : {"EXIT", "PPROF", "RELOAD_CFG", "USR2"}, token : Nat]
Datagrams == [from : {Self, Stranger}, addr : Nat, msg : Reports]
Orders == [to : {Self}, msg : Commands]
ProcType ==
  [kind : Kinds, boots : Nat, figures : Nat, syncs : BOOLEAN, boot : Nat,
   at : {"down", "info", "tick", "cmds", "exit"}, count : Nat, ReportCmd : Text,
   ReportCmdToken : 0 .. MaxTime, prof : BOOLEAN, start : Nat, stop : Nat]
HistType ==
  [asked : [Time -> Nat], answers : [Time -> Nat], did : SUBSET (Nat \X Text),
   noted : SUBSET Nat, crossed : BOOLEAN, overtaken : SUBSET Protos]
StatType ==
  [addr : Nat, StartTime : Nat, StopTime : Nat, CmdTime : Nat, CmdStat : Text,
   CmdInfo : Text, figures : SUBSET Protos]
Cleared == <<"CmdTime", "CmdStat", "CmdInfo">>
RecverType ==
  [at : {"recv", "set", "cmd"}, d : Datagrams, listed : BOOLEAN,
   left : {<<>>, Cleared, Tail(Cleared), <<"CmdInfo">>, <<"CmdStat">>}]
ReqType ==
  [at : {"idle", "lock", "report"}, op : {"", "login", "detail", "cmd"}, arg : Text, ts : 0 .. MaxTime]

ServerTyped ==
  /\ proc \in ProcType /\ ChSig \in Seq(Signals) /\ ChInfo \in Seq(Infos)
  /\ msg_send \in Seq(Reports) /\ msg_recv \in Seq(Commands)
  /\ down \in SUBSET Commands
ManagerTyped ==
  /\ WatchMap \in [{}-> StatType] \cup [ClientList -> StatType]
  /\ watch_lock \in [readers : Nat, writer : Requests \cup {NoOne}]
  /\ DOMAIN WatchMap = Name2Id
  /\ recver \in RecverType /\ (recver.at = "cmd" <=> recver.left # <<>>)
  /\ recver.listed => recver.at # "recv" /\ recver.d.from \in DOMAIN WatchMap
  /\ cmd_ch \in Seq(Orders) /\ req \in [Requests -> ReqType]
  /\ \A r \in Requests : req[r].at # "idle" /\ req[r].op = "cmd" => req[r].ts \in Time
  /\ \A r \in Requests : req[r].at = "report" => req[r].op = "cmd"
  /\ todo \in Todo /\ odd \in BOOLEAN
Typed ==
  /\ now \in Time /\ up \in SUBSET Datagrams /\ hist \in HistType
  /\ ServerTyped /\ ManagerTyped

LEMMA Texts ==
  /\ \A a \in Args : a \in Text
  /\ "" \in Text /\ "ing" \in Text /\ "done" \in Text /\ "fail" \in Text /\ "nop" \in Text
BY DEF Text, Stats

LEMMA InitTyped == ManageInit => Typed
<1> SUFFICES ASSUME NEW s \in Scenarios, ReportInit(s.kind, s.boots, s.figures, s.syncs),
                    ManagerInit(s.todo)
             PROVE  Typed
  BY DEF ManageInit
<1>1. now \in Time /\ MaxTime \in Nat /\ 0 \in 0 .. MaxTime
  BY ReportConstants DEF ReportInit, Time
<1>2. proc \in ProcType
  BY <1>1, ScenariosOK, Texts DEF ReportInit, Down, ProcType
<1>3. ServerTyped
  BY <1>2 DEF ReportInit, ServerTyped
<1>4. hist \in HistType
  BY <1>1 DEF ReportInit, HistType, Time
<1>6. /\ recver = Receiving /\ recver \in RecverType /\ recver.at = "recv" /\ recver.left = <<>>
      /\ ~recver.listed
  BY <1>1, Texts DEF ManagerInit, Receiving, NoReport, RecverType, Datagrams, Reports, Msg, Protos
<1>5. ManagerTyped
  <2>1. NewStat \in StatType
    BY Texts DEF NewStat, StatType
  <2>2. WatchMap \in [{} -> StatType] \cup [ClientList -> StatType]
    BY <2>1 DEF ParsedMap, ManagerInit
  <2>3. Idle \in ReqType /\ Idle.at = "idle"
    BY <1>1, Texts DEF Idle, ReqType
  <2>4. todo \in Todo
    BY ScenariosOK DEF ManagerInit
  <2>5. req \in [Requests -> ReqType] /\ \A r \in Requests : req[r].at = "idle"
    BY <2>3 DEF ManagerInit
  <2>6. watch_lock \in [readers : Nat, writer : Requests \cup {NoOne}]
    BY DEF ManagerInit
  <2>7. cmd_ch \in Seq(Orders)
    BY DEF ManagerInit
  <2>8. odd \in BOOLEAN
    BY DEF ManagerInit
  <2>9. DOMAIN WatchMap = Name2Id
    BY DEF ManagerInit, ParsedMap
  <2> QED
    BY <1>6, <2>2, <2>4, <2>5, <2>6, <2>7, <2>8, <2>9 DEF ManagerTyped
<1> QED
  BY <1>1, <1>3, <1>4, <1>5 DEF Typed, ReportInit

-----------------------------------------------------------------------------
(* What the steps of the server do.                                        *)

\* A report that does not fit leaves the queue as it is.
LEMMA ReportedTyped ==
  ASSUME NEW q \in Seq(Reports), NEW m \in Reports
  PROVE  Reported(q, m) \in Seq(Reports)
BY DEF Reported

LEMMA MsgTyped ==
  ASSUME NEW p \in Protos, NEW i \in Nat, NEW s \in Text
  PROVE  /\ Msg(p, i, s) \in Reports /\ Msg(p, i, s).proto = p
         /\ Msg(p, i, s).int = i /\ Msg(p, i, s).str = s
BY DEF Msg, Reports

\* A command is answered under tok: what was done is the command c that
\* was asked for under t.
Outcomes == {"done", "fail", "nop"}
Responds(tok, stat, t, c) ==
  /\ msg_send' = Reported(msg_send, Msg("CMD_RSP", tok, stat)) /\ msg_send' \in Seq(Reports)
  /\ hist' \in HistType /\ hist'.asked = hist.asked /\ hist'.noted = hist.noted /\ hist'.overtaken = hist.overtaken
  /\ hist'.answers = [hist.answers EXCEPT ![tok] = @ + 1]
  /\ hist'.did = IF stat = "done" THEN hist.did \cup {<<t, c>>} ELSE hist.did
  /\ hist.crossed \/ t # tok => hist'.crossed

LEMMA AnsweredIs ==
  ASSUME NEW h \in HistType, NEW tok \in Time
  PROVE  LET g == Answered(h, tok) IN
         /\ g \in HistType /\ g.asked = h.asked /\ g.noted = h.noted /\ g.overtaken = h.overtaken
         /\ g.answers = [h.answers EXCEPT ![tok] = @ + 1]
         /\ g.did = h.did /\ g.crossed = h.crossed
<1>1. [h.answers EXCEPT ![tok] = @ + 1] \in [Time -> Nat]
  BY DEF HistType
<1> QED
  BY <1>1 DEF HistType, Answered

LEMMA DidIs ==
  ASSUME NEW h \in HistType, NEW t \in Nat, NEW c \in Text
  PROVE  LET g == Did(h, t, c) IN
         /\ g \in HistType /\ g.asked = h.asked /\ g.noted = h.noted /\ g.overtaken = h.overtaken
         /\ g.answers = h.answers /\ g.did = h.did \cup {<<t, c>>} /\ g.crossed = h.crossed
BY DEF HistType, Did

LEMMA CrossingIs ==
  ASSUME NEW h \in HistType
  PROVE  LET g == Crossing(h) IN
         /\ g \in HistType /\ g.asked = h.asked /\ g.noted = h.noted /\ g.overtaken = h.overtaken
         /\ g.answers = h.answers /\ g.did = h.did
         /\ h.crossed \/ Head(ChInfo).token # proc.ReportCmdToken => g.crossed
<1>1. (h.crossed \/ Head(ChInfo).token # proc.ReportCmdToken) \in BOOLEAN
  BY DEF HistType
<1> QED
  BY <1>1 DEF HistType, Crossing

LEMMA CommandIs ==
  ASSUME NEW m \in Commands
  PROVE  m.int \in Time /\ m.int \in Nat /\ m.int > 0 /\ m.int \in 0 .. MaxTime /\ m.str \in Text
BY ReportConstants DEF Commands, Time

LEMMA AnswerNowIs ==
  ASSUME Typed, NEW m \in Commands, NEW stat \in Outcomes, AnswerNow(m, stat)
  PROVE  proc' = Counted /\ Responds(m.int, stat, m.int, m.str)
<1>1. m.int \in Time /\ m.int \in Nat /\ m.str \in Text /\ stat \in Text
  BY CommandIs DEF Outcomes, Text, Stats
<1>2. Msg("CMD_RSP", m.int, stat) \in Reports
  BY <1>1, MsgTyped DEF Protos
<1>3. msg_send' = Reported(msg_send, Msg("CMD_RSP", m.int, stat)) /\ msg_send' \in Seq(Reports)
  BY <1>2, ReportedTyped DEF AnswerNow, Report, Rsp, Typed, ServerTyped
<1>4. hist \in HistType
  BY DEF Typed
<1> DEFINE h == Answered(hist, m.int)
<1>5. /\ h \in HistType /\ h.asked = hist.asked /\ h.noted = hist.noted /\ h.overtaken = hist.overtaken
      /\ h.answers = [hist.answers EXCEPT ![m.int] = @ + 1]
      /\ h.did = hist.did /\ h.crossed = hist.crossed
  BY <1>1, <1>4, AnsweredIs
<1>6. hist' = IF stat = "done" THEN Did(h, m.int, m.str) ELSE h
  BY DEF AnswerNow
<1> HIDE DEF h
<1>7. hist.crossed \in BOOLEAN
  BY <1>4 DEF HistType
<1>8. CASE stat = "done"
  <2>1. hist' = Did(h, m.int, m.str)
    BY <1>6, <1>8
  <2>2. /\ hist' \in HistType /\ hist'.asked = h.asked /\ hist'.noted = h.noted /\ hist'.overtaken = h.overtaken
        /\ hist'.answers = h.answers /\ hist'.did = h.did \cup {<<m.int, m.str>>}
        /\ hist'.crossed = h.crossed
    BY <1>1, <1>5, <2>1, DidIs
  <2> QED
    BY <1>3, <1>5, <1>8, <2>2 DEF Responds, AnswerNow
<1>9. CASE stat # "done"
  BY <1>3, <1>5, <1>6, <1>7, <1>9 DEF Responds, AnswerNow
<1> QED
  BY <1>8, <1>9

-----------------------------------------------------------------------------
(* The elements of a channel.                                              *)

Elems(q) == {q[i] : i \in 1 .. Len(q)}

LEMMA ElemsIs ==
  ASSUME NEW S, NEW q \in Seq(S)
  PROVE  /\ Elems(q) \subseteq S
         /\ \A e \in S : Elems(Append(q, e)) = Elems(q) \cup {e}
         /\ q # <<>> => /\ Tail(q) \in Seq(S) /\ Head(q) \in S
                        /\ Head(q) \in Elems(q) /\ Elems(Tail(q)) \subseteq Elems(q)
<1>1. Elems(q) \subseteq S
  BY DEF Elems
<1>2. ASSUME NEW e \in S PROVE Elems(Append(q, e)) = Elems(q) \cup {e}
  <2>1. /\ Len(Append(q, e)) = Len(q) + 1 /\ Append(q, e)[Len(q) + 1] = e
        /\ \A i \in 1 .. Len(q) : Append(q, e)[i] = q[i]
    OBVIOUS
  <2>2. Len(q) \in Nat
    OBVIOUS
  <2>3. 1 .. Len(q) + 1 = (1 .. Len(q)) \cup {Len(q) + 1}
    BY <2>2
  <2> QED
    BY <2>1, <2>3 DEF Elems
<1>3. ASSUME q # <<>>
      PROVE  /\ Tail(q) \in Seq(S) /\ Head(q) \in S
             /\ Head(q) \in Elems(q) /\ Elems(Tail(q)) \subseteq Elems(q)
  <2>1. Len(q) \in Nat /\ Len(q) > 0 /\ Head(q) = q[1] /\ Head(q) \in S /\ Tail(q) \in Seq(S)
    BY <1>3
  <2>2. Len(Tail(q)) = Len(q) - 1 /\ \A i \in 1 .. Len(q) - 1 : Tail(q)[i] = q[i + 1]
    BY <1>3
  <2>3. \A i \in 1 .. Len(q) - 1 : i + 1 \in 1 .. Len(q)
    BY <2>1
  <2> QED
    BY <2>1, <2>2, <2>3 DEF Elems
<1> QED
  BY <1>1, <1>2, <1>3

LEMMA NoElems == Elems(<<>>) = {}
BY DEF Elems

-----------------------------------------------------------------------------
(* What becomes of a command in a step of the server.                      *)

Done(m) == m.proto = "CMD_RSP" /\ m.str = "done"
DonesKept == \A m \in Elems(msg_send') : Done(m) => m \in Elems(msg_send)
SlotKept ==
  \/ proc'.ReportCmdToken = 0
  \/ proc'.ReportCmdToken = proc.ReportCmdToken /\ proc'.ReportCmd = proc.ReportCmd

\* Nothing, and nothing but that it is forgotten.
Quiet == SlotKept /\ UNCHANGED <<msg_recv, down, hist>> /\ DonesKept
Wiped == SlotKept /\ msg_recv' = <<>> /\ down' = {} /\ UNCHANGED hist /\ DonesKept

\* It comes to msg_recv; it is answered from the slot; it is taken to the
\* slot or answered at once.
Received ==
  \E m \in down : /\ msg_recv' = Append(msg_recv, m) /\ down' = down \ {m}
                  /\ UNCHANGED <<proc, msg_send, hist>>
SlotAnswered ==
  /\ proc.ReportCmdToken > 0 /\ proc'.ReportCmdToken = 0 /\ UNCHANGED <<msg_recv, down>>
  /\ \E stat \in Outcomes :
       Responds(proc.ReportCmdToken, stat, Head(ChInfo).token, proc.ReportCmd)
Taken(m) ==
  \/ /\ proc'.ReportCmdToken = m.int /\ proc'.ReportCmd = m.str
     /\ UNCHANGED <<msg_send, hist>>
  \/ SlotKept /\ \E stat \in Outcomes : Responds(m.int, stat, m.int, m.str)
CmdTaken ==
  /\ msg_recv # <<>> /\ msg_recv' = Tail(msg_recv) /\ UNCHANGED down
  /\ Taken(Head(msg_recv))

ServerStep == Quiet \/ Wiped \/ Received \/ SlotAnswered \/ CmdTaken
UpKept == \A d \in up' : d \in up \/ d.msg \in Elems(msg_send)
ServerTypes == ServerTyped' /\ up' \in SUBSET Datagrams /\ hist' \in HistType /\ now' = now

LEMMA ReportedIs ==
  ASSUME NEW q \in Seq(Reports), NEW m \in Reports
  PROVE  /\ Reported(q, m) \in Seq(Reports)
         /\ Elems(Reported(q, m)) \subseteq Elems(q) \cup {m}
BY ElemsIs DEF Reported

LEMMA ReportKeeps ==
  ASSUME Typed, NEW m \in Reports, Report(m), ~Done(m)
  PROVE  msg_send' \in Seq(Reports) /\ DonesKept
BY ReportedIs DEF Report, DonesKept, Typed, ServerTyped

LEMMA NowIs == Typed => now \in Nat /\ now \in Time /\ now > 0
BY ReportConstants DEF Typed, Time

LEMMA AnswerPendingIs ==
  ASSUME Typed, NEW stat \in Outcomes, NEW prof \in BOOLEAN, NEW done \in BOOLEAN,
         done <=> stat = "done",
         AnswerPending(stat, prof, done), ChInfo # <<>>, UNCHANGED <<msg_recv, down>>
  PROVE  /\ proc' \in ProcType /\ msg_send' \in Seq(Reports) /\ hist' \in HistType
         /\ Quiet \/ SlotAnswered
<1>1. proc \in ProcType /\ hist \in HistType /\ msg_send \in Seq(Reports)
  BY DEF Typed, ServerTyped
<1>2. proc.ReportCmdToken \in Nat /\ proc.ReportCmd \in Text
      /\ (proc.ReportCmdToken > 0 => proc.ReportCmdToken \in Time)
  BY <1>1, ReportConstants DEF ProcType, Time
<1>3. proc' \in ProcType /\ proc'.ReportCmdToken = 0
  <2>0. MaxTime \in Nat
    BY ReportConstants
  <2>1. 0 \in 0 .. MaxTime
    BY <2>0
  <2>2. proc' = [Forget EXCEPT !.prof = prof]
    BY DEF AnswerPending
  <2>3. Forget \in ProcType /\ Forget.ReportCmdToken = 0
    BY <1>1, <2>1, Texts DEF Forget, ProcType
  <2> QED
    BY <2>2, <2>3 DEF ProcType
<1>4. CASE ~Pending
  BY <1>1, <1>3, <1>4 DEF AnswerPending, Quiet, SlotKept, DonesKept
<1>5. CASE Pending
  <2>1. Head(ChInfo) \in Infos
    BY DEF Typed, ServerTyped
  <2>2. Head(ChInfo).token \in Nat
    BY <2>1 DEF Infos
  <2>3. proc.ReportCmdToken > 0 /\ proc.ReportCmdToken \in Time /\ stat \in Text
    BY <1>2, <1>5 DEF Pending, Outcomes, Text, Stats
  <2>4. Msg("CMD_RSP", proc.ReportCmdToken, stat) \in Reports
    BY <1>2, <2>3, MsgTyped DEF Protos
  <2>5. /\ msg_send' = Reported(msg_send, Msg("CMD_RSP", proc.ReportCmdToken, stat))
        /\ msg_send' \in Seq(Reports)
    BY <1>1, <1>5, <2>4, ReportedIs DEF AnswerPending, Report, Rsp
  <2> DEFINE g == Answered(hist, proc.ReportCmdToken)
             h == Crossing(g)
  <2>6. /\ g \in HistType /\ g.asked = hist.asked /\ g.noted = hist.noted /\ g.overtaken = hist.overtaken
        /\ g.answers = [hist.answers EXCEPT ![proc.ReportCmdToken] = @ + 1]
        /\ g.did = hist.did /\ g.crossed = hist.crossed
    BY <1>1, <2>3, AnsweredIs
  <2> HIDE DEF g
  <2>7. /\ h \in HistType /\ h.asked = g.asked /\ h.noted = g.noted /\ h.overtaken = g.overtaken
        /\ h.answers = g.answers /\ h.did = g.did
        /\ g.crossed \/ Head(ChInfo).token # proc.ReportCmdToken => h.crossed
    BY <2>6, CrossingIs
  <2>8. hist' = IF done THEN Did(h, Head(ChInfo).token, proc.ReportCmd) ELSE h
    BY <1>5 DEF AnswerPending, g
  <2> HIDE DEF h
  <2>9. Responds(proc.ReportCmdToken, stat, Head(ChInfo).token, proc.ReportCmd)
    <3>1. CASE done
      <4>1. hist' = Did(h, Head(ChInfo).token, proc.ReportCmd)
        BY <2>8, <3>1
      <4>2. /\ hist' \in HistType /\ hist'.asked = h.asked /\ hist'.noted = h.noted /\ hist'.overtaken = h.overtaken
            /\ hist'.answers = h.answers /\ hist'.crossed = h.crossed
            /\ hist'.did = h.did \cup {<<Head(ChInfo).token, proc.ReportCmd>>}
        BY <1>2, <2>2, <2>7, <4>1, DidIs
      <4> QED
        BY <2>5, <2>6, <2>7, <3>1, <4>2 DEF Responds
    <3>2. CASE ~done
      BY <2>5, <2>6, <2>7, <2>8, <3>2 DEF Responds
    <3> QED
      BY <3>1, <3>2
  <2> QED
    BY <1>3, <2>3, <2>5, <2>9 DEF SlotAnswered, Responds
<1> QED
  BY <1>4, <1>5

\* What a step of the server's own goroutines proves about its types.
LEMMA HandleInfoIs ==
  ASSUME Typed, HandleInfo
  PROVE  ServerTypes /\ UpKept /\ ServerStep
<1>1. handle_info
  BY DEF HandleInfo, ConnHandleInfo, LogicHandleInfo, DbHandleInfo, DispHandleInfo
<1>2. UNCHANGED <<now, ChSig, msg_recv, up, down>>
  BY <1>1 DEF handle_info
<1>3. UpKept
  BY <1>2 DEF UpKept
<1>4. proc \in ProcType /\ hist \in HistType /\ msg_send \in Seq(Reports) /\ now \in Nat
  BY NowIs DEF Typed, ServerTyped
<1> DEFINE Step == /\ proc' \in ProcType /\ msg_send' \in Seq(Reports) /\ hist' \in HistType
                   /\ Quiet \/ SlotAnswered
<1>5. ASSUME ChInfo = <<>>, proc' = [proc EXCEPT !.at = "tick"], UNCHANGED <<msg_send, hist>>
      PROVE  Step
  BY <1>2, <1>4, <1>5 DEF Quiet, SlotKept, DonesKept, ProcType
<1>6. ASSUME ServerExit
      PROVE  Step
  <2>1. proc' = [proc EXCEPT !.at = "exit", !.stop = now] /\ UNCHANGED hist
    BY <1>6 DEF ServerExit
  <2>2. proc' \in ProcType /\ SlotKept
    BY <1>4, <2>1 DEF ProcType, SlotKept
  <2>3. Msg("SERVER_STOP", now, "") \in Reports /\ ~Done(Msg("SERVER_STOP", now, ""))
    BY <1>4, MsgTyped, Texts DEF Protos, Done
  <2>4. msg_send' \in Seq(Reports) /\ DonesKept
    BY <1>6, <2>3, ReportKeeps DEF ServerExit
  <2> QED
    BY <1>2, <1>4, <2>1, <2>2, <2>4 DEF Quiet
<1>7. ASSUME ReloadCfg, ChInfo # <<>>
      PROVE  Step
  <2>1. PICK ret \in BOOLEAN : AnswerPending(IF ret THEN "done" ELSE "fail", proc.prof, ret)
    BY <1>7 DEF ReloadCfg
  <2>2. proc.prof \in BOOLEAN
    BY <1>4 DEF ProcType
  <2> QED
    BY <1>2, <1>7, <2>1, <2>2, AnswerPendingIs DEF Outcomes
<1>8. ASSUME Profile, ChInfo # <<>>
      PROVE  Step
  <2>1. proc.prof \in BOOLEAN /\ (~proc.prof) \in BOOLEAN
    BY <1>4 DEF ProcType
  <2>2. \/ AnswerPending("nop", proc.prof, FALSE)
        \/ AnswerPending("done", ~proc.prof, TRUE)
        \/ AnswerPending("fail", FALSE, FALSE)
    BY <1>8 DEF Profile
  <2> QED
    BY <1>2, <1>8, <2>1, <2>2, AnswerPendingIs DEF Outcomes
<1>9. ASSUME proc' = [proc EXCEPT !.at = "tick"], UNCHANGED <<msg_send, hist>>
      PROVE  Step
  BY <1>2, <1>4, <1>9 DEF Quiet, SlotKept, DonesKept, ProcType
<1>10. Step /\ ChInfo' \in Seq(Infos)
  <2>1. CASE ChInfo = <<>>
    <3>1. proc' = [proc EXCEPT !.at = "tick"] /\ UNCHANGED <<ChInfo, msg_send, hist>>
      BY <1>1, <2>1 DEF handle_info
    <3> QED
      BY <1>5, <2>1, <3>1 DEF Typed, ServerTyped
  <2>2. CASE ChInfo # <<>>
    <3>1. ChInfo \in Seq(Infos)
      BY DEF Typed, ServerTyped
    <3>2. Head(ChInfo) \in Infos /\ Tail(ChInfo) \in Seq(Infos)
      BY <2>2, <3>1
    <3>3. Head(ChInfo).info \in {"EXIT", "PPROF", "RELOAD_CFG", "USR2"}
      BY <3>2 DEF Infos
    <3>4. ChInfo' = Tail(ChInfo)
      BY <1>1, <2>2 DEF handle_info
    <3>5. \/ ServerExit \/ ReloadCfg \/ Profile
          \/ proc' = [proc EXCEPT !.at = "tick"] /\ UNCHANGED <<msg_send, hist>>
      BY <1>1, <2>2, <3>3 DEF handle_info
    <3> QED
      BY <1>6, <1>7, <1>8, <1>9, <2>2, <3>2, <3>4, <3>5
  <2> QED
    BY <2>1, <2>2
<1> QED
  BY <1>2, <1>3, <1>10 DEF ServerTypes, ServerTyped, ServerStep, Typed

LEMMA CountedIs ==
  ASSUME Typed, proc.count > 0
  PROVE  /\ Counted \in ProcType /\ Counted.ReportCmdToken = proc.ReportCmdToken
         /\ Counted.ReportCmd = proc.ReportCmd
<1>1. proc \in ProcType
  BY DEF Typed, ServerTyped
<1>2. proc.count - 1 \in Nat
  BY <1>1 DEF ProcType
<1> QED
  BY <1>1, <1>2 DEF Counted, ProcType

LEMMA HandleReportCmdIs ==
  ASSUME Typed, HandleReportCmd
  PROVE  ServerTypes /\ UpKept /\ ServerStep
<1> DEFINE m == Head(msg_recv)
<1>1. /\ msg_recv # <<>> /\ msg_recv' = Tail(msg_recv) /\ UNCHANGED <<now, ChSig, up, down>>
      /\ proc.count > 0
  BY DEF HandleReportCmd, TakeCmd
<1>2. m \in Commands /\ msg_recv' \in Seq(Commands)
  BY <1>1 DEF Typed, ServerTyped
<1> HIDE DEF m
<1>3. /\ m.int \in Time /\ m.int \in Nat /\ m.int \in 0 .. MaxTime /\ m.str \in Text
  BY <1>2, CommandIs
<1>4. \/ \E cmds : Queued(m, cmds, "RELOAD_CFG") \/ Queued(m, cmds, "PPROF")
      \/ StopCmd(m) \/ LogCmd(m) \/ TableCmd(m)
      \/ \E known : OtherCmd(m, known)
  BY DEF HandleReportCmd, ConnCmd, LogicCmd, DbCmd, DispCmd, CommonCmd, ReloadCmd, ProfileCmd, m
<1> DEFINE Step == /\ proc' \in ProcType /\ msg_send' \in Seq(Reports) /\ hist' \in HistType
                   /\ Taken(m)
<1>5. ASSUME NEW stat \in Outcomes, AnswerNow(m, stat)
      PROVE  Step
  BY <1>1, <1>2, <1>5, AnswerNowIs, CountedIs DEF Taken, SlotKept, Responds
<1>6. ASSUME NEW info \in {"EXIT", "PPROF", "RELOAD_CFG", "USR2"}
      PROVE  Append(ChInfo, Info(info, m.int)) \in Seq(Infos)
  <2>1. Info(info, m.int) \in Infos
    BY <1>3 DEF Info, Infos
  <2> QED
    BY <2>1 DEF Typed, ServerTyped
<1>7. ASSUME NEW info \in {"PPROF", "RELOAD_CFG"}, NEW cmds, Queued(m, cmds, info)
      PROVE  Step /\ ChInfo' \in Seq(Infos)
  <2>1. proc' = [Counted EXCEPT !.ReportCmd = m.str, !.ReportCmdToken = m.int]
        /\ UNCHANGED <<msg_send, hist>>
    BY <1>7 DEF Queued
  <2>2. proc' \in ProcType /\ proc'.ReportCmdToken = m.int /\ proc'.ReportCmd = m.str
    BY <1>1, <1>3, <2>1, CountedIs DEF ProcType
  <2>3. ChInfo' \in Seq(Infos)
    BY <1>6, <1>7 DEF Queued
  <2> QED
    BY <2>1, <2>2, <2>3 DEF Taken, Typed, ServerTyped
<1>8. Step /\ ChInfo' \in Seq(Infos)
  <2>1. CASE \E cmds : Queued(m, cmds, "RELOAD_CFG") \/ Queued(m, cmds, "PPROF")
    BY <1>7, <2>1
  <2>2. CASE StopCmd(m)
    BY <1>5, <1>6, <2>2 DEF StopCmd, Outcomes
  <2>3. CASE LogCmd(m) \/ TableCmd(m) \/ \E known : OtherCmd(m, known)
    <3>1. UNCHANGED ChInfo /\ \E stat \in Outcomes : AnswerNow(m, stat)
      BY <2>3 DEF LogCmd, TableCmd, OtherCmd, Outcomes
    <3> QED
      BY <1>5, <3>1 DEF Typed, ServerTyped
  <2> QED
    BY <1>4, <2>1, <2>2, <2>3
<1> QED
  BY <1>1, <1>2, <1>8
     DEF ServerTypes, ServerTyped, ServerStep, CmdTaken, UpKept, Typed, m

\* A step that keeps the channels and only reports.
LEMMA QuietIs ==
  ASSUME Typed, proc' \in ProcType, SlotKept, msg_send' \in Seq(Reports), DonesKept,
         ChSig' \in Seq(Signals), ChInfo' \in Seq(Infos),
         UNCHANGED <<now, msg_recv, up, down, hist>>
  PROVE  ServerTypes /\ UpKept /\ ServerStep
BY DEF Typed, ServerTyped, ServerTypes, UpKept, ServerStep, Quiet

\* A figure is no answer.
LEMMA FigureIs ==
  ASSUME NEW p \in {"SERVER_HEART", "CONN_NUM", "MONITOR"}
  PROVE  Msg(p, 0, "") \in Reports /\ ~Done(Msg(p, 0, ""))
<1>1. 0 \in Nat /\ p \in Protos /\ p # "CMD_RSP"
  BY DEF Protos
<1>2. Msg(p, 0, "") \in Reports /\ Msg(p, 0, "").proto = p
  <2>1. "" \in Text
    BY Texts
  <2> QED
    BY <1>1, <2>1 DEF Msg, Reports
<1> QED
  BY <1>1, <1>2 DEF Done

LEMMA HeartBeatIs ==
  ASSUME Typed, NEW numbers \in BOOLEAN, HeartBeat(numbers)
  PROVE  ServerTypes /\ UpKept /\ ServerStep
<1> DEFINE heart == Msg("SERVER_HEART", 0, "")
           number == Msg("CONN_NUM", 0, "")
           q == Reported(msg_send, heart)
<1>1. proc \in ProcType /\ msg_send \in Seq(Reports)
  BY DEF Typed, ServerTyped
<1>2. proc' \in ProcType /\ SlotKept
  <2>1. proc' = [proc EXCEPT !.at = "info", !.figures = @ - 1] /\ proc.figures > 0
    BY DEF HeartBeat
  <2>2. proc.figures - 1 \in Nat
    BY <1>1, <2>1 DEF ProcType
  <2> QED
    BY <1>1, <2>1, <2>2 DEF ProcType, SlotKept
<1>3. heart \in Reports /\ number \in Reports /\ ~Done(heart) /\ ~Done(number)
  BY FigureIs
<1>4. msg_send' = q \/ msg_send' = Reported(q, number)
  BY DEF HeartBeat
<1> HIDE DEF heart, number
<1>5. q \in Seq(Reports) /\ Elems(q) \subseteq Elems(msg_send) \cup {heart}
  BY <1>1, <1>3, ReportedIs
<1> HIDE DEF q
<1>6. msg_send' \in Seq(Reports) /\ Elems(msg_send') \subseteq Elems(msg_send) \cup {heart, number}
  BY <1>3, <1>4, <1>5, ReportedIs
<1>7. DonesKept
  BY <1>3, <1>6 DEF DonesKept
<1> QED
  BY <1>2, <1>6, <1>7, QuietIs DEF HeartBeat, Typed, ServerTyped

LEMMA ReporterIs ==
  ASSUME Typed, ReportSyncServer \/ Monitor
  PROVE  ServerTypes /\ UpKept /\ ServerStep
<1>1. proc \in ProcType
  BY DEF Typed, ServerTyped
<1>2. CASE ReportSyncServer
  <2>1. proc.start \in Nat
    BY <1>1 DEF ProcType
  <2>2. /\ Msg("SYNC_SERVER", proc.start, "") \in Reports
        /\ ~Done(Msg("SYNC_SERVER", proc.start, ""))
    BY <2>1, MsgTyped, Texts DEF Protos, Done
  <2>3. msg_send' \in Seq(Reports) /\ DonesKept
    BY <1>2, <2>2, ReportKeeps DEF ReportSyncServer
  <2>4. proc' \in ProcType /\ SlotKept
    BY <1>1, <1>2 DEF ReportSyncServer, ProcType, SlotKept
  <2> QED
    BY <1>2, <2>3, <2>4, QuietIs DEF ReportSyncServer, Typed, ServerTyped
<1>3. CASE Monitor
  <2>1. /\ Msg("MONITOR", 0, "") \in Reports /\ ~Done(Msg("MONITOR", 0, ""))
    BY FigureIs
  <2>2. msg_send' \in Seq(Reports) /\ DonesKept
    BY <1>3, <2>1, ReportKeeps DEF Monitor
  <2>0. proc' = [proc EXCEPT !.figures = @ - 1] /\ proc.figures > 0
    BY <1>3 DEF Monitor
  <2>3. proc.figures - 1 \in Nat
    BY <1>1, <2>0 DEF ProcType
  <2>4. proc' \in ProcType /\ SlotKept
    BY <1>1, <2>0, <2>3 DEF ProcType, SlotKept
  <2> QED
    BY <1>3, <2>2, <2>4, QuietIs DEF Monitor, Typed, ServerTyped
<1> QED
  BY <1>2, <1>3

LEMMA StartReportIs ==
  ASSUME Typed, StartReport
  PROVE  ServerTypes /\ UpKept /\ ServerStep
<1>1. proc \in ProcType /\ now \in Nat
  BY NowIs DEF Typed, ServerTyped
<1>2. proc' = [Down(proc.kind, proc.boots - 1, proc.figures, proc.syncs) EXCEPT
                 !.boot = proc.boot + 1, !.at = "info", !.start = now]
  BY DEF StartReport
<1>3. /\ proc.boots - 1 \in Nat /\ proc.boot + 1 \in Nat /\ proc.kind \in Kinds
      /\ proc.figures \in Nat /\ proc.syncs \in BOOLEAN
  <2>1. proc.boots > 0
    BY DEF StartReport
  <2> QED
    BY <1>1, <2>1 DEF ProcType
<1>4. 0 \in 0 .. MaxTime
  <2>1. MaxTime \in Nat
    BY ReportConstants
  <2> QED
    BY <2>1
<1>5. proc' \in ProcType /\ proc'.ReportCmdToken = 0
  BY <1>1, <1>2, <1>3, <1>4, Texts DEF Down, ProcType
<1> DEFINE start == Msg("SERVER_START", now, "")
<1>6. start \in Reports /\ ~Done(start)
  BY <1>1, MsgTyped, Texts DEF Protos, Done
<1>7. msg_send' = <<start>>
  BY DEF StartReport
<1> HIDE DEF start
<1>8. Elems(<<start>>) = {start} /\ <<start>> \in Seq(Reports)
  BY <1>6 DEF Elems
<1>9. DonesKept /\ msg_send' \in Seq(Reports)
  BY <1>6, <1>7, <1>8 DEF DonesKept
<1>10. /\ ChSig' = <<>> /\ ChInfo' = <<>> /\ msg_recv' = <<>> /\ down' = {}
       /\ UNCHANGED <<now, up, hist>>
  BY DEF StartReport
<1> QED
  BY <1>5, <1>9, <1>10
     DEF Typed, ServerTyped, ServerTypes, UpKept, ServerStep, Wiped, SlotKept

LEMMA GoneIs ==
  ASSUME Typed, Gone
  PROVE  ServerTypes /\ UpKept /\ ServerStep
<1>1. proc' \in ProcType /\ SlotKept
  BY DEF Typed, ServerTyped, Gone, ProcType, SlotKept
<1>2. DonesKept
  BY NoElems DEF Gone, DonesKept
<1> QED
  BY <1>1, <1>2 DEF Gone, Typed, ServerTyped, ServerTypes, UpKept, ServerStep, Wiped

LEMMA TickersIs ==
  ASSUME Typed, RecvReportCmd \/ CmdsDone \/ NoTicker
  PROVE  ServerTypes /\ UpKept /\ ServerStep
<1>1. proc \in ProcType /\ RecvBatch \in Nat
  BY ReportConstants DEF Typed, ServerTyped
<1>2. proc' \in ProcType /\ SlotKept
  <2>1. CASE RecvReportCmd
    BY <1>1, <2>1 DEF RecvReportCmd, ProcType, SlotKept
  <2>2. CASE CmdsDone
    BY <1>1, <2>2 DEF CmdsDone, ProcType, SlotKept
  <2>3. CASE NoTicker
    BY <1>1, <2>3 DEF NoTicker, ProcType, SlotKept
  <2> QED
    BY <2>1, <2>2, <2>3
<1> QED
  BY <1>2, QuietIs DEF RecvReportCmd, CmdsDone, NoTicker, Typed, ServerTyped, DonesKept

LEMMA InfoOfTyped ==
  ASSUME NEW x \in Signals PROVE Info(InfoOf(x), 0) \in Infos
BY DEF Signals, InfoOf, Info, Infos

LEMMA HandleSignalIs ==
  ASSUME Typed, HandleSignal
  PROVE  ServerTypes /\ UpKept /\ ServerStep
<1>1. ChSig \in Seq(Signals) /\ ChSig # <<>> /\ ChInfo \in Seq(Infos)
  BY DEF Typed, ServerTyped, HandleSignal
<1>2. Head(ChSig) \in Signals /\ Tail(ChSig) \in Seq(Signals)
  BY <1>1
<1>3. ChInfo' \in Seq(Infos)
  BY <1>1, <1>2, InfoOfTyped DEF HandleSignal
<1> QED
  BY <1>2, <1>3, QuietIs DEF HandleSignal, Typed, ServerTyped, DonesKept, SlotKept

LEMMA SendReportIs ==
  ASSUME Typed, SendReport
  PROVE  ServerTypes /\ UpKept /\ ServerStep
<1> DEFINE d == [from |-> Self, addr |-> proc.boot, msg |-> Head(msg_send)]
<1>1. msg_send \in Seq(Reports) /\ msg_send # <<>> /\ proc \in ProcType
  BY DEF Typed, ServerTyped, SendReport
<1>2. /\ Head(msg_send) \in Reports /\ Head(msg_send) \in Elems(msg_send)
      /\ Tail(msg_send) \in Seq(Reports) /\ Elems(Tail(msg_send)) \subseteq Elems(msg_send)
  BY <1>1, ElemsIs
<1>3. d \in Datagrams /\ d.msg = Head(msg_send)
  BY <1>1, <1>2 DEF Datagrams, ProcType
<1>4. /\ up' = up \cup {d} /\ msg_send' = Tail(msg_send)
      /\ UNCHANGED <<now, proc, ChSig, ChInfo, msg_recv, down, hist>>
  BY DEF SendReport
<1> HIDE DEF d
<1>5. UpKept
  BY <1>2, <1>3, <1>4 DEF UpKept
<1>6. Quiet
  BY <1>2, <1>4 DEF Quiet, SlotKept, DonesKept
<1> QED
  BY <1>2, <1>3, <1>4, <1>5, <1>6 DEF Typed, ServerTyped, ServerTypes, ServerStep

LEMMA RecvReportIs ==
  ASSUME Typed, NEW m \in down, RecvReport(m)
  PROVE  ServerTypes /\ UpKept /\ ServerStep
<1>1. m \in Commands /\ msg_recv \in Seq(Commands)
  BY DEF Typed, ServerTyped
<1>2. msg_recv' \in Seq(Commands) /\ down' \in SUBSET Commands
  BY <1>1 DEF RecvReport, Typed, ServerTyped
<1>3. Received /\ UpKept
  BY DEF RecvReport, Received, UpKept
<1> QED
  BY <1>2, <1>3 DEF RecvReport, Typed, ServerTyped, ServerTypes, ServerStep

LEMMA ServerIs ==
  ASSUME Typed, Server
  PROVE  ServerTypes /\ UpKept /\ ServerStep
<1>1. CASE StartReport
  BY <1>1, StartReportIs
<1>2. CASE ServerExits \/ Killed
  BY <1>2, GoneIs DEF ServerExits, Killed
<1>3. CASE MainLoop
  <2>1. CASE HandleInfo
    BY <2>1, HandleInfoIs
  <2>2. CASE HandleReportCmd
    BY <2>2, HandleReportCmdIs
  <2>3. CASE RecvReportCmd \/ CmdsDone \/ NoTicker
    BY <2>3, TickersIs
  <2>4. CASE Sync
    BY <2>4, ReporterIs DEF Sync, ConnSync, LogicSync, DbSync, DispSync
  <2>5. CASE ConnHeartBeat \/ LogicHeartBeat \/ DbHeartBeat \/ DispHeartBeat
    BY <2>5, HeartBeatIs DEF ConnHeartBeat, LogicHeartBeat, DbHeartBeat, DispHeartBeat
  <2> QED
    BY <1>3, <2>1, <2>2, <2>3, <2>4, <2>5 DEF MainLoop
<1>4. CASE HandleSignal
  BY <1>4, HandleSignalIs
<1>5. CASE SendReport
  BY <1>5, SendReportIs
<1>6. CASE Monitor
  BY <1>6, ReporterIs
<1>7. CASE \E m \in down : RecvReport(m)
  BY <1>7, RecvReportIs
<1> QED
  BY <1>1, <1>2, <1>3, <1>4, <1>5, <1>6, <1>7 DEF Server

-----------------------------------------------------------------------------
(* What the steps of the manager do.                                       *)

\* No step but Notes, report_cmd and SendCmd moves a command.
Apart ==
  /\ UNCHANGED <<proc, msg_recv, down, hist, cmd_ch>>
  /\ \A r \in Requests : req'[r].at = "report" => req'[r] = req[r]

\* What a report makes of what is known of its process.
LEMMA StatOfIs ==
  ASSUME NEW st \in StatType, NEW m \in Reports
  PROVE  LET s == StatOf(st, m) IN
         /\ s \in StatType
         /\ s.CmdTime = st.CmdTime /\ s.CmdInfo = st.CmdInfo /\ s.CmdStat = st.CmdStat
<1> SUFFICES
      ASSUME NEW s, s = StatOf(st, m)
      PROVE  /\ s \in StatType
             /\ s.CmdTime = st.CmdTime /\ s.CmdInfo = st.CmdInfo /\ s.CmdStat = st.CmdStat
  OBVIOUS
<1>1. m.proto \in Protos /\ m.int \in Nat
  BY DEF Reports
<1> DEFINE t == [st EXCEPT !.StartTime = m.int]
<1>2. t \in StatType /\ t.CmdTime = st.CmdTime /\ t.CmdInfo = st.CmdInfo /\ t.CmdStat = st.CmdStat
  BY <1>1 DEF StatType
<1>3. CASE m.proto \in {"SERVER_START", "SYNC_SERVER"}
  <2>1. s = IF Fresh(t) THEN [t EXCEPT !.StopTime = 0] ELSE t
    BY <1>3 DEF StatOf, Synced
  <2> HIDE DEF t
  <2> QED
    BY <1>2, <2>1 DEF StatType
<1>4. CASE m.proto = "SERVER_STOP"
  <2>1. s = [st EXCEPT !.StopTime = m.int]
    BY <1>4 DEF StatOf
  <2> QED
    BY <1>1, <2>1 DEF StatType
<1>5. CASE m.proto = "CMD_RSP"
  BY <1>5 DEF StatOf
<1>6. CASE m.proto \in {"SERVER_HEART", "CONN_NUM", "MONITOR"}
  <2>1. s = [st EXCEPT !.figures = @ \cup {m.proto}]
    BY <1>6 DEF StatOf
  <2> QED
    BY <1>1, <2>1 DEF StatType
<1> QED
  BY <1>1, <1>3, <1>4, <1>5, <1>6 DEF Protos

\* What it leaves to be set.
LEMMA LeftIs ==
  ASSUME NEW st, NEW m, LeftOf(st, m) # <<>>
  PROVE  \/ m.proto = "SERVER_START" /\ LeftOf(st, m) = Cleared
         \/ m.proto = "CMD_RSP" /\ m.int = st.CmdTime /\ LeftOf(st, m) = <<"CmdStat">>
BY DEF LeftOf, Matches, Cleared

LEMMA LeftsAre ==
  /\ Cleared # <<>> /\ Tail(Cleared) = <<"CmdStat", "CmdInfo">> /\ Tail(Cleared) # <<>>
  /\ Tail(Tail(Cleared)) = <<"CmdInfo">> /\ <<"CmdInfo">> # <<>> /\ <<"CmdStat">> # <<>>
  /\ Head(Cleared) = "CmdTime" /\ Head(Tail(Cleared)) = "CmdStat"
  /\ Head(<<"CmdInfo">>) = "CmdInfo" /\ Head(<<"CmdStat">>) = "CmdStat"
  /\ Len(Cleared) # 1 /\ Len(Tail(Cleared)) # 1
  /\ Len(<<"CmdInfo">>) = 1 /\ Len(<<"CmdStat">>) = 1
  /\ <<"CmdStat">> \notin {Cleared, Tail(Cleared), <<"CmdInfo">>}
  /\ Cleared \notin {Tail(Cleared), <<"CmdInfo">>} /\ Tail(Cleared) # <<"CmdInfo">>
BY DEF Cleared

LEMMA LeakTyped ==
  ASSUME watch_lock \in [readers : Nat, writer : Requests \cup {NoOne}], Leak
  PROVE  /\ watch_lock' \in [readers : Nat, writer : Requests \cup {NoOne}]
         /\ odd' \in BOOLEAN
BY DEF Leak

LEMMA ReceivingTyped ==
  /\ Receiving \in RecverType /\ Receiving.at = "recv" /\ Receiving.left = <<>>
  /\ ~Receiving.listed
BY Texts DEF Receiving, NoReport, RecverType, Datagrams, Reports, Msg, Protos

LEMMA HandleMsgIs ==
  ASSUME Typed, NEW d \in up, HandleMsg(d)
  PROVE  /\ Typed' /\ Apart /\ UNCHANGED <<now, WatchMap, msg_send>> /\ up' = up \ {d}
         /\ recver.at = "recv"
         /\ (recver' = recver) \/ (recver'.at = "set" /\ recver'.d = d)
<1>1. d \in Datagrams
  BY DEF Typed
<1>2. /\ up' = up \ {d} /\ recver.at = "recv"
      /\ UNCHANGED <<now, srvVars, hist, WatchMap, Name2Id, cmd_ch, req, login, todo>>
  BY DEF HandleMsg
<1>3. UNCHANGED <<proc, ChSig, ChInfo, msg_send, msg_recv, down>>
  BY <1>2 DEF srvVars
<1> DEFINE new == [at |-> "set", d |-> d, listed |-> TRUE, left |-> <<>>]
<1>4. new \in RecverType /\ new.at = "set" /\ new.left = <<>> /\ new.d = d
  BY <1>1 DEF RecverType
<1>5. /\ watch_lock' \in [readers : Nat, writer : Requests \cup {NoOne}] /\ odd' \in BOOLEAN
      /\ (recver' = recver) \/ (recver' = new /\ d.from \in DOMAIN WatchMap)
  BY LeakTyped DEF HandleMsg, Typed, ManagerTyped
<1> HIDE DEF new
<1>6. /\ recver' \in RecverType /\ (recver'.at = "cmd" <=> recver'.left # <<>>)
      /\ recver'.listed => recver'.at # "recv" /\ recver'.d.from \in DOMAIN WatchMap'
      /\ (recver' = recver) \/ (recver'.at = "set" /\ recver'.d = d)
  BY <1>2, <1>4, <1>5 DEF Typed, ManagerTyped
<1> QED
  BY <1>2, <1>3, <1>5, <1>6 DEF Typed, ServerTyped, ManagerTyped, Apart

\* The process that was looked up is the server, and is known still.
LEMMA ListedIs ==
  ASSUME Typed, recver.at # "recv", recver.listed
  PROVE  /\ recver.d.from = Self /\ DOMAIN WatchMap = ClientList /\ Self \in DOMAIN WatchMap
         /\ WatchMap \in [ClientList -> StatType] /\ WatchMap[Self] \in StatType
         /\ recver.d \in Datagrams /\ recver.d.msg \in Reports /\ recver.d.addr \in Nat
<1>1. recver.d.from \in DOMAIN WatchMap /\ recver.d \in Datagrams
  BY DEF Typed, ManagerTyped, RecverType
<1>2. DOMAIN WatchMap = ClientList /\ WatchMap \in [ClientList -> StatType]
  BY <1>1 DEF Typed, ManagerTyped
<1> QED
  BY <1>1, <1>2 DEF ClientList, Datagrams

LEMMA SetStatIs ==
  ASSUME Typed, SetStat
  PROVE  /\ Typed' /\ Apart /\ UNCHANGED <<now, up, msg_send>> /\ recver.at = "set"
         /\ recver' = Receiving \/ (recver'.at = "cmd" /\ recver'.d = recver.d)
         /\ DOMAIN WatchMap' = DOMAIN WatchMap
         /\ Self \in DOMAIN WatchMap =>
              /\ WatchMap'[Self].CmdTime = WatchMap[Self].CmdTime
              /\ WatchMap'[Self].CmdInfo = WatchMap[Self].CmdInfo
              /\ WatchMap'[Self].CmdStat = WatchMap[Self].CmdStat
         /\ recver'.at = "cmd" =>
              \/ recver.d.msg.proto = "SERVER_START" /\ recver'.left = Cleared
              \/ /\ recver.d.msg.proto = "CMD_RSP" /\ recver'.left = <<"CmdStat">>
                 /\ recver.d.msg.int = WatchMap[Self].CmdTime
<1>1. /\ recver.at = "set"
      /\ UNCHANGED <<reportVars, Name2Id, watch_lock, cmd_ch, req, login, todo, odd>>
  BY DEF SetStat
<1>2. UNCHANGED <<now, proc, ChSig, ChInfo, msg_send, msg_recv, down, up, hist>>
  BY <1>1 DEF reportVars, srvVars
<1>3. CASE ~recver.listed
  <2>1. recver' = Receiving /\ WatchMap' = WatchMap
    BY <1>3 DEF SetStat
  <2> QED
    BY <1>1, <1>2, <2>1, ReceivingTyped DEF Typed, ServerTyped, ManagerTyped, Apart
<1>4. CASE recver.listed
  <2> DEFINE m == recver.d.msg
             st == WatchMap[Self]
             left == LeftOf(st, m)
             s == StatOf(st, m)
             e == [s EXCEPT !.addr = recver.d.addr]
  <2>1. /\ recver.d.from = Self /\ DOMAIN WatchMap = ClientList /\ Self \in DOMAIN WatchMap
        /\ WatchMap \in [ClientList -> StatType] /\ st \in StatType
        /\ recver.d \in Datagrams /\ m \in Reports /\ recver.d.addr \in Nat
    BY <1>1, <1>4, ListedIs
  <2>2. /\ WatchMap' = [WatchMap EXCEPT ![Self] = e]
        /\ recver' = IF left = <<>> THEN Receiving ELSE [recver EXCEPT !.at = "cmd", !.left = left]
    BY <1>4, <2>1 DEF SetStat
  <2>3. /\ s \in StatType
        /\ s.CmdTime = st.CmdTime /\ s.CmdInfo = st.CmdInfo /\ s.CmdStat = st.CmdStat
    BY <2>1, StatOfIs
  <2>4. left # <<>> => \/ m.proto = "SERVER_START" /\ left = Cleared
                       \/ m.proto = "CMD_RSP" /\ m.int = st.CmdTime /\ left = <<"CmdStat">>
    BY LeftIs
  <2> HIDE DEF s, left
  <2>5. /\ e \in StatType
        /\ e.CmdTime = st.CmdTime /\ e.CmdInfo = st.CmdInfo /\ e.CmdStat = st.CmdStat
    BY <2>1, <2>3 DEF StatType
  <2> HIDE DEF e
  <2>6. /\ WatchMap' \in [ClientList -> StatType] /\ WatchMap'[Self] = e
        /\ DOMAIN WatchMap' = DOMAIN WatchMap
    BY <2>1, <2>2, <2>5
  <2>7. recver \in RecverType
    BY DEF Typed, ManagerTyped
  <2>8. CASE left = <<>>
    <3>1. recver' = Receiving
      BY <2>2, <2>8
    <3> QED
      BY <1>1, <1>2, <2>5, <2>6, <3>1, ReceivingTyped DEF Typed, ServerTyped, ManagerTyped, Apart
  <2>9. CASE left # <<>>
    <3>1. recver' = [recver EXCEPT !.at = "cmd", !.left = left]
      BY <2>2, <2>9
    <3>2. /\ recver' \in RecverType /\ recver'.at = "cmd" /\ recver'.left = left
          /\ recver'.d = recver.d /\ recver'.listed
      BY <1>4, <2>4, <2>7, <2>9, <3>1 DEF RecverType
    <3>3. ManagerTyped'
      BY <1>1, <2>1, <2>6, <2>9, <3>2 DEF Typed, ManagerTyped
    <3> QED
      BY <1>1, <1>2, <2>4, <2>5, <2>6, <2>9, <3>2, <3>3 DEF Typed, ServerTyped, Apart
  <2> QED
    BY <2>8, <2>9
<1> QED
  BY <1>3, <1>4

\* A field of the command.
LEMMA FieldSetIs ==
  ASSUME NEW st \in StatType, NEW m \in Reports, NEW f \in {"CmdTime", "CmdStat", "CmdInfo"},
         NEW s, s = FieldSet(st, f, m)
  PROVE  /\ s \in StatType
         /\ f = "CmdTime" => s.CmdTime = 0
         /\ f = "CmdStat" => s.CmdStat = IF m.proto = "CMD_RSP" THEN m.str ELSE ""
         /\ f # "CmdTime" => s.CmdTime = st.CmdTime
         /\ f # "CmdStat" => s.CmdStat = st.CmdStat
         /\ f # "CmdInfo" => s.CmdInfo = st.CmdInfo
<1>1. m.str \in Text /\ "" \in Text /\ 0 \in Nat
  BY Texts DEF Reports
<1>2. CASE f = "CmdTime"
  BY <1>1, <1>2 DEF FieldSet, StatType
<1>3. CASE f = "CmdStat"
  BY <1>1, <1>3 DEF FieldSet, StatType
<1>4. CASE f = "CmdInfo"
  BY <1>1, <1>4 DEF FieldSet, StatType
<1> QED
  BY <1>2, <1>3, <1>4

LEMMA SetCmdIs ==
  ASSUME Typed, SetCmd
  PROVE  /\ Typed' /\ Apart /\ UNCHANGED <<now, up, msg_send>> /\ recver.at = "cmd"
         /\ DOMAIN WatchMap' = DOMAIN WatchMap
         /\ \/ recver' = Receiving /\ Len(recver.left) = 1
            \/ /\ recver'.at = "cmd" /\ recver'.d = recver.d /\ recver'.listed = recver.listed
               /\ recver'.left = Tail(recver.left) /\ Len(recver.left) # 1
         /\ ~recver.listed => WatchMap' = WatchMap
         /\ recver.listed =>
              /\ Self \in DOMAIN WatchMap /\ recver.d.msg \in Reports
              /\ WatchMap'[Self] = FieldSet(WatchMap[Self], Head(recver.left), recver.d.msg)
<1>1. /\ recver.at = "cmd"
      /\ UNCHANGED <<reportVars, Name2Id, watch_lock, cmd_ch, req, login, todo, odd>>
      /\ recver' = IF Len(recver.left) = 1 THEN Receiving ELSE [recver EXCEPT !.left = Tail(@)]
  BY DEF SetCmd
<1>2. UNCHANGED <<now, proc, ChSig, ChInfo, msg_send, msg_recv, down, up, hist>>
  BY <1>1 DEF reportVars, srvVars
<1>3. recver \in RecverType /\ recver.left \in {Cleared, Tail(Cleared), <<"CmdInfo">>, <<"CmdStat">>}
  BY <1>1 DEF Typed, ManagerTyped, RecverType
<1>4. /\ Head(recver.left) \in {"CmdTime", "CmdStat", "CmdInfo"}
      /\ Len(recver.left) # 1 => Tail(recver.left) \in {Tail(Cleared), <<"CmdInfo">>}
  BY <1>3, LeftsAre
<1>5. /\ recver' \in RecverType /\ (recver'.at = "cmd" <=> recver'.left # <<>>)
      /\ recver'.listed => recver'.at # "recv" /\ recver.listed /\ recver'.d = recver.d
      /\ \/ recver' = Receiving /\ Len(recver.left) = 1
         \/ /\ recver'.at = "cmd" /\ recver'.d = recver.d /\ recver'.listed = recver.listed
            /\ recver'.left = Tail(recver.left) /\ Len(recver.left) # 1
  <2>1. CASE Len(recver.left) = 1
    BY <1>1, <2>1, ReceivingTyped
  <2>2. CASE Len(recver.left) # 1
    <3>1. recver' = [recver EXCEPT !.left = Tail(recver.left)]
      BY <1>1, <2>2
    <3>2. /\ recver'.at = "cmd" /\ recver'.d = recver.d /\ recver'.listed = recver.listed
          /\ recver'.left = Tail(recver.left) /\ recver' \in RecverType
      BY <1>1, <1>3, <1>4, <2>2, <3>1 DEF RecverType
    <3> QED
      BY <1>4, <2>2, <3>2, LeftsAre
  <2> QED
    BY <2>1, <2>2
<1>6. CASE ~recver.listed
  <2>1. WatchMap' = WatchMap
    BY <1>6 DEF SetCmd
  <2>2. ManagerTyped'
    BY <1>1, <1>5, <1>6, <2>1 DEF Typed, ManagerTyped
  <2> QED
    BY <1>1, <1>2, <1>5, <1>6, <2>1, <2>2 DEF Typed, ServerTyped, Apart
<1>7. CASE recver.listed
  <2> DEFINE e == FieldSet(WatchMap[Self], Head(recver.left), recver.d.msg)
  <2>1. /\ recver.d.from = Self /\ DOMAIN WatchMap = ClientList /\ Self \in DOMAIN WatchMap
        /\ WatchMap \in [ClientList -> StatType] /\ WatchMap[Self] \in StatType
        /\ recver.d.msg \in Reports
    BY <1>1, <1>7, ListedIs
  <2>2. WatchMap' = [WatchMap EXCEPT ![Self] = e]
    BY <1>7, <2>1 DEF SetCmd
  <2>3. e \in StatType
    BY <1>4, <2>1, FieldSetIs
  <2> HIDE DEF e
  <2>4. /\ WatchMap' \in [ClientList -> StatType] /\ WatchMap'[Self] = e
        /\ DOMAIN WatchMap' = DOMAIN WatchMap
    BY <2>1, <2>2, <2>3
  <2>5. ManagerTyped'
    BY <1>1, <1>5, <2>1, <2>4 DEF Typed, ManagerTyped
  <2> QED
    BY <1>1, <1>2, <1>5, <1>7, <2>1, <2>4, <2>5 DEF Typed, ServerTyped, Apart, e
<1> QED
  BY <1>6, <1>7

LEMMA OrderIs ==
  ASSUME NEW c \in Orders
  PROVE  c.to = Self /\ c.msg \in Commands
BY DEF Orders

LEMMA SendCmdIs ==
  ASSUME Typed, SendCmd
  PROVE  /\ Typed' /\ cmd_ch # <<>> /\ cmd_ch' = Tail(cmd_ch)
         /\ down' = down \/ down' = down \cup {Head(cmd_ch).msg}
         /\ UNCHANGED <<now, proc, msg_send, msg_recv, up, hist, WatchMap, recver, req>>
<1>1. /\ cmd_ch \in Seq(Orders) /\ cmd_ch # <<>> /\ cmd_ch' = Tail(cmd_ch)
      /\ UNCHANGED <<now, proc, ChSig, ChInfo, msg_send, msg_recv, up, hist, WatchMap, Name2Id,
                     recver, req, todo>>
  BY DEF Typed, ManagerTyped, SendCmd
<1>2. Head(cmd_ch) \in Orders /\ cmd_ch' \in Seq(Orders)
  BY <1>1
<1>3. down' = down \/ down' = down \cup {Head(cmd_ch).msg}
  BY DEF SendCmd
<1>4. down' \in SUBSET Commands
  BY <1>2, <1>3, OrderIs DEF Typed, ServerTyped
<1>5. UNCHANGED <<watch_lock, odd>> \/ Leak
  BY DEF SendCmd
<1>6. watch_lock' \in [readers : Nat, writer : Requests \cup {NoOne}] /\ odd' \in BOOLEAN
  BY <1>5, LeakTyped DEF Typed, ManagerTyped
<1> QED
  BY <1>1, <1>2, <1>3, <1>4, <1>6 DEF Typed, ServerTyped, ManagerTyped

\* A request goes to its next place, a new one comes with its time.
ReqsTyped ==
  /\ req \in [Requests -> ReqType]
  /\ \A r \in Requests : req[r].at # "idle" /\ req[r].op = "cmd" => req[r].ts \in Time
  /\ \A r \in Requests : req[r].at = "report" => req[r].op = "cmd"

LEMMA BecomesIs ==
  ASSUME Typed, NEW r \in Requests, NEW at \in {"idle", "report"}, Becomes(r, at),
         req[r].at # "idle", at = "report" => req[r].op = "cmd"
  PROVE  /\ ReqsTyped' /\ req'[r].at = at /\ req'[r].ts = req[r].ts /\ req'[r].arg = req[r].arg
         /\ \A x \in Requests : x # r => req'[x] = req[x]
<1>1. req \in [Requests -> ReqType] /\ req' = [req EXCEPT ![r].at = at]
  BY DEF Typed, ManagerTyped, Becomes
<1>2. req[r] \in ReqType /\ req'[r] = [req[r] EXCEPT !.at = at]
  BY <1>1
<1>3. /\ req'[r] \in ReqType /\ req'[r].at = at /\ req'[r].ts = req[r].ts
      /\ req'[r].arg = req[r].arg /\ req'[r].op = req[r].op
  BY <1>2 DEF ReqType
<1>4. \A x \in Requests : x # r => req'[x] = req[x]
  BY <1>1
<1>5. req' \in [Requests -> ReqType]
  BY <1>1, <1>3
<1>6. /\ \A x \in Requests : req'[x].at # "idle" /\ req'[x].op = "cmd" => req'[x].ts \in Time
      /\ \A x \in Requests : req'[x].at = "report" => req'[x].op = "cmd"
  BY <1>3, <1>4 DEF Typed, ManagerTyped
<1> QED
  BY <1>3, <1>4, <1>5, <1>6 DEF ReqsTyped

LEMMA AskedIs ==
  ASSUME Typed, NEW r \in Requests, NEW ts \in 0 .. MaxTime, Asked(r, ts),
         Head(todo.requests) \in Asks, Head(todo.requests).op = "cmd" => ts \in Time
  PROVE  /\ ReqsTyped' /\ req'[r].at = "lock"
         /\ \A x \in Requests : x # r => req'[x] = req[x]
<1> DEFINE a == Head(todo.requests)
           new == [at |-> "lock", op |-> a.op, arg |-> a.arg, ts |-> ts]
<1>1. req \in [Requests -> ReqType] /\ req' = [req EXCEPT ![r] = new]
  BY DEF Typed, ManagerTyped, Asked
<1>2. a.op \in {"login", "detail", "cmd"} /\ a.arg \in Text
  BY Texts DEF Asks
<1>3. new \in ReqType /\ new.at = "lock" /\ new.op = a.op /\ new.ts = ts
  BY <1>2 DEF ReqType
<1> HIDE DEF a, new
<1>4. req'[r] = new /\ \A x \in Requests : x # r => req'[x] = req[x]
  BY <1>1
<1>5. req' \in [Requests -> ReqType]
  BY <1>1, <1>3
<1>6. /\ \A x \in Requests : req'[x].at # "idle" /\ req'[x].op = "cmd" => req'[x].ts \in Time
      /\ \A x \in Requests : req'[x].at = "report" => req'[x].op = "cmd"
  BY <1>3, <1>4 DEF Typed, ManagerTyped, a
<1> QED
  BY <1>3, <1>4, <1>5, <1>6 DEF ReqsTyped

LEMMA TodoIs ==
  ASSUME Typed, NEW r \in Requests, Arrives(r)
  PROVE  /\ Head(todo.requests) \in Asks /\ todo' \in Todo /\ req[r].at = "idle"
<1>1. todo \in Todo /\ todo.requests # <<>> /\ todo' = [todo EXCEPT !.requests = Tail(@)]
  BY DEF Typed, ManagerTyped, Arrives
<1>2. todo.requests \in Seq(Asks)
  BY <1>1 DEF Todo
<1>3. Head(todo.requests) \in Asks /\ Tail(todo.requests) \in Seq(Asks)
  BY <1>1, <1>2
<1> QED
  BY <1>1, <1>3 DEF Todo, Arrives

LEMMA PanelIs ==
  ASSUME Typed, NEW r \in Requests, Panel(r)
  PROVE  Typed' /\ Apart
<1>1. /\ Arrives(r)
      /\ UNCHANGED <<reportVars, WatchMap, Name2Id, watch_lock, cmd_ch, recver, odd>>
  BY DEF Panel, login_post, Refused, detail_get, cmd_handle
<1>2. UNCHANGED <<now, proc, ChSig, ChInfo, msg_send, msg_recv, down, up, hist>>
  BY <1>1 DEF reportVars, srvVars
<1>3. Head(todo.requests) \in Asks /\ todo' \in Todo /\ req[r].at = "idle"
  BY <1>1, TodoIs
<1>4. 0 \in 0 .. MaxTime /\ now \in Time /\ now \in 0 .. MaxTime
  <2>1. MaxTime \in Nat
    BY ReportConstants
  <2> QED
    BY <2>1, NowIs DEF Time
<1>5. \/ UNCHANGED req
      \/ Asked(r, 0) /\ Head(todo.requests).op = "detail"
      \/ Asked(r, now)
  BY DEF Panel, login_post, Refused, detail_get, cmd_handle
<1>6. ReqsTyped' /\ \A x \in Requests : req'[x].at = "report" => req'[x] = req[x]
  <2>1. CASE UNCHANGED req
    BY <2>1 DEF Typed, ManagerTyped, ReqsTyped
  <2>2. CASE Asked(r, 0) /\ Head(todo.requests).op = "detail"
    BY <1>3, <1>4, <2>2, AskedIs
  <2>3. CASE Asked(r, now)
    BY <1>3, <1>4, <2>3, AskedIs
  <2> QED
    BY <1>5, <2>1, <2>2, <2>3
<1> QED
  BY <1>1, <1>2, <1>3, <1>6 DEF Typed, ServerTyped, ManagerTyped, ReqsTyped, Apart

LEMMA ReadsIs ==
  ASSUME Typed, NEW r \in Requests, Panics(r) \/ Shows(r)
  PROVE  Typed' /\ Apart
<1>1. /\ req[r].at = "lock" /\ Becomes(r, "idle")
      /\ UNCHANGED <<reportVars, WatchMap, Name2Id, cmd_ch, recver, todo>>
  BY DEF Panics, Shows
<1>2. UNCHANGED <<now, proc, ChSig, ChInfo, msg_send, msg_recv, down, up, hist>>
  BY <1>1 DEF reportVars, srvVars
<1>3. ReqsTyped' /\ \A x \in Requests : req'[x].at = "report" => req'[x] = req[x]
  BY <1>1, BecomesIs
<1>4. watch_lock' \in [readers : Nat, writer : Requests \cup {NoOne}]
  BY DEF Panics, Shows, Typed, ManagerTyped
<1>5. odd' \in BOOLEAN
  BY DEF Panics, Shows, Typed, ManagerTyped
<1> QED
  BY <1>1, <1>2, <1>3, <1>4, <1>5 DEF Typed, ServerTyped, ManagerTyped, ReqsTyped, Apart

LEMMA NotesIs ==
  ASSUME Typed, NEW r \in Requests, Notes(r)
  PROVE  /\ Typed' /\ req[r].at = "lock" /\ req[r].op = "cmd" /\ Self \in DOMAIN WatchMap
         /\ DOMAIN WatchMap' = DOMAIN WatchMap
         /\ WatchMap'[Self].CmdTime = now /\ WatchMap'[Self].CmdStat = "ing"
         /\ WatchMap'[Self].CmdInfo = req[r].arg
         /\ hist'.noted = hist.noted \cup {now} /\ hist'.did = hist.did
         /\ hist'.asked = hist.asked /\ hist'.answers = hist.answers
         /\ hist.crossed \/ now \in hist.noted => hist'.crossed
         /\ hist'.overtaken = hist.overtaken \cup Amid /\ recver' = recver
         /\ req'[r].at = "report" /\ req'[r].ts = req[r].ts /\ req'[r].arg = req[r].arg
         /\ \A x \in Requests : x # r => req'[x] = req[x]
         /\ UNCHANGED <<now, proc, msg_send, msg_recv, down, up, cmd_ch>>
<1>1. /\ req[r].at = "lock" /\ req[r].op = "cmd" /\ Becomes(r, "report")
      /\ UNCHANGED <<now, srvVars, up, Name2Id, watch_lock, cmd_ch, recver, todo, odd>>
  BY DEF Notes
<1>2. UNCHANGED <<now, proc, ChSig, ChInfo, msg_send, msg_recv, down, up>>
  BY <1>1 DEF srvVars
<1>3. /\ ReqsTyped' /\ req'[r].at = "report" /\ req'[r].ts = req[r].ts
      /\ req'[r].arg = req[r].arg /\ \A x \in Requests : x # r => req'[x] = req[x]
  BY <1>1, BecomesIs
<1>4. Self \in DOMAIN WatchMap
  BY <1>1 DEF Notes, Target
<1>5. req[r].arg \in Text /\ now \in Nat
  BY NowIs DEF Typed, ManagerTyped, ReqType
<1>6. WatchMap[Self] \in StatType /\ DOMAIN WatchMap = ClientList
  BY <1>4 DEF Typed, ManagerTyped
<1> DEFINE st == [WatchMap[Self] EXCEPT !.CmdTime = now, !.CmdStat = "ing", !.CmdInfo = req[r].arg]
<1>7. WatchMap' = [WatchMap EXCEPT ![Self] = st]
  BY DEF Notes
<1>8. /\ st \in StatType /\ st.CmdTime = now /\ st.CmdStat = "ing" /\ st.CmdInfo = req[r].arg
  BY <1>5, <1>6, Texts DEF StatType
<1> HIDE DEF st
<1>9. /\ WatchMap' \in [{} -> StatType] \cup [ClientList -> StatType]
      /\ WatchMap'[Self] = st /\ DOMAIN WatchMap' = DOMAIN WatchMap
  BY <1>4, <1>6, <1>7, <1>8 DEF Typed, ManagerTyped
<1>10. hist \in HistType /\ (hist.crossed \/ now \in hist.noted) \in BOOLEAN
  BY DEF Typed, HistType
<1>13. Amid \subseteq Protos
  BY DEF Amid, Typed, ManagerTyped, RecverType, Datagrams, Reports
<1>11. hist' = [hist EXCEPT !.noted = @ \cup {now}, !.crossed = @ \/ now \in hist.noted,
                            !.overtaken = @ \cup Amid]
  BY DEF Notes
<1>12. /\ hist' \in HistType /\ hist'.noted = hist.noted \cup {now} /\ hist'.did = hist.did
       /\ hist'.asked = hist.asked /\ hist'.answers = hist.answers
       /\ hist.crossed \/ now \in hist.noted => hist'.crossed
       /\ hist'.overtaken = hist.overtaken \cup Amid
  BY <1>5, <1>10, <1>11, <1>13 DEF HistType
<1> QED
  BY <1>1, <1>2, <1>3, <1>4, <1>8, <1>9, <1>12 DEF Typed, ServerTyped, ManagerTyped, ReqsTyped

LEMMA report_cmdIs ==
  ASSUME Typed, NEW r \in Requests, report_cmd(r)
  PROVE  /\ Typed' /\ req[r].at = "report" /\ req[r].ts \in Time
         /\ UNCHANGED <<now, proc, msg_send, msg_recv, down, up, WatchMap, recver>>
         /\ hist'.noted = hist.noted /\ hist'.overtaken = hist.overtaken /\ hist'.did = hist.did /\ hist'.answers = hist.answers
         /\ hist'.crossed = hist.crossed
         /\ req'[r].at = "idle" /\ \A x \in Requests : x # r => req'[x] = req[x]
         /\ \/ UNCHANGED <<cmd_ch, hist>>
            \/ /\ hist'.asked = [hist.asked EXCEPT ![req[r].ts] = @ + 1]
               /\ \E c \in Orders : /\ c.msg.int = req[r].ts /\ c.msg.str = req[r].arg
                                    /\ cmd_ch' = Append(cmd_ch, c)
<1>1. /\ req[r].at = "report" /\ Becomes(r, "idle")
      /\ UNCHANGED <<now, srvVars, up, WatchMap, Name2Id, watch_lock, recver, login, todo, odd>>
  BY DEF report_cmd
<1>2. UNCHANGED <<now, proc, ChSig, ChInfo, msg_send, msg_recv, down, up>>
  BY <1>1 DEF srvVars
<1>3. ReqsTyped' /\ req'[r].at = "idle" /\ \A x \in Requests : x # r => req'[x] = req[x]
  BY <1>1, BecomesIs
<1>4. req[r].ts \in Time /\ req[r].arg \in Text
  BY <1>1 DEF Typed, ManagerTyped, ReqType
<1> DEFINE m == Msg("CMD_REQ", req[r].ts, req[r].arg)
           c == [to |-> Self, msg |-> m]
<1>5. m \in Commands /\ m.int = req[r].ts /\ m.str = req[r].arg
  BY <1>4 DEF Msg, Commands
<1>6. c \in Orders /\ c.msg = m
  BY <1>5 DEF Orders
<1>7. \/ UNCHANGED <<cmd_ch, hist>>
      \/ cmd_ch' = Append(cmd_ch, c) /\ hist' = [hist EXCEPT !.asked[req[r].ts] = @ + 1]
  BY DEF report_cmd
<1> HIDE DEF m, c
<1>8. hist \in HistType /\ cmd_ch \in Seq(Orders)
  BY DEF Typed, ManagerTyped
<1>9. CASE UNCHANGED <<cmd_ch, hist>>
  BY <1>1, <1>2, <1>3, <1>4, <1>9 DEF Typed, ServerTyped, ManagerTyped, ReqsTyped
<1>10. CASE cmd_ch' = Append(cmd_ch, c) /\ hist' = [hist EXCEPT !.asked[req[r].ts] = @ + 1]
  <2>1. [hist.asked EXCEPT ![req[r].ts] = @ + 1] \in [Time -> Nat]
    BY <1>4, <1>8 DEF HistType
  <2>2. /\ hist' \in HistType /\ hist'.asked = [hist.asked EXCEPT ![req[r].ts] = @ + 1]
        /\ hist'.noted = hist.noted /\ hist'.overtaken = hist.overtaken /\ hist'.did = hist.did /\ hist'.answers = hist.answers
        /\ hist'.crossed = hist.crossed
    BY <1>8, <1>10, <2>1 DEF HistType
  <2>3. cmd_ch' \in Seq(Orders)
    BY <1>6, <1>8, <1>10
  <2>4. Typed'
    BY <1>1, <1>2, <1>3, <2>2, <2>3 DEF Typed, ServerTyped, ManagerTyped, ReqsTyped
  <2> QED
    BY <1>1, <1>2, <1>3, <1>4, <1>5, <1>6, <1>10, <2>2, <2>4
<1> QED
  BY <1>7, <1>9, <1>10

LEMMA ReloadsIs ==
  ASSUME Typed, Reload \/ ParseClientList
  PROVE  /\ Typed' /\ Apart /\ UNCHANGED <<now, up, msg_send>>
         /\ WatchMap' = <<>> \/ WatchMap' = ParsedMap
         /\ ~recver'.listed /\ recver'.at = recver.at /\ recver'.d = recver.d
<1>1. /\ UNCHANGED <<reportVars, watch_lock, cmd_ch, req, login, odd>>
      /\ (WatchMap' = <<>> /\ Name2Id' = {}) \/ (WatchMap' = ParsedMap /\ Name2Id' = ClientList)
  BY DEF Reload, ParseClientList
<1>5. /\ recver' \in RecverType /\ ~recver'.listed /\ recver'.at = recver.at
      /\ recver'.d = recver.d /\ recver'.left = recver.left
  <2>1. recver \in RecverType
    BY DEF Typed, ManagerTyped
  <2>2. CASE Reload
    BY <2>1, <2>2 DEF Reload, RecverType
  <2>3. CASE ParseClientList
    <3>1. recver' = recver /\ DOMAIN WatchMap = {}
      BY <2>3 DEF ParseClientList, Typed, ManagerTyped
    <3>2. ~recver.listed
      BY <3>1 DEF Typed, ManagerTyped
    <3> QED
      BY <2>1, <3>1, <3>2 DEF RecverType
  <2> QED
    BY <2>2, <2>3
<1>6. DOMAIN WatchMap' = Name2Id'
  <2>1. CASE WatchMap' = <<>> /\ Name2Id' = {}
    BY <2>1
  <2>2. CASE WatchMap' = ParsedMap /\ Name2Id' = ClientList
    BY <2>2 DEF ParsedMap
  <2> QED
    BY <1>1, <2>1, <2>2
<1>2. UNCHANGED <<now, proc, ChSig, ChInfo, msg_send, msg_recv, down, up, hist>>
  BY <1>1 DEF reportVars, srvVars
<1>3. todo' \in Todo
  <2>1. CASE Reload
    <3>1. todo \in Todo /\ todo.reloads > 0 /\ todo' = [todo EXCEPT !.reloads = @ - 1]
      BY <2>1 DEF Reload, Typed, ManagerTyped
    <3>2. todo.reloads - 1 \in Nat
      BY <3>1 DEF Todo
    <3> QED
      BY <3>1, <3>2 DEF Todo
  <2>2. CASE ParseClientList
    BY <2>2 DEF ParseClientList, Typed, ManagerTyped
  <2> QED
    BY <2>1, <2>2
<1>4. WatchMap' \in [{} -> StatType] \cup [ClientList -> StatType]
  <2>1. NewStat \in StatType
    BY Texts DEF NewStat, StatType
  <2>2. ParsedMap \in [ClientList -> StatType]
    BY <2>1 DEF ParsedMap
  <2>3. <<>> \in [{} -> StatType]
    OBVIOUS
  <2> QED
    BY <1>1, <2>2, <2>3
<1> QED
  BY <1>1, <1>2, <1>3, <1>4, <1>5, <1>6 DEF Typed, ServerTyped, ManagerTyped, Apart

LEMMA StrangerIs ==
  ASSUME Typed, StrangerReports
  PROVE  /\ Typed' /\ Apart /\ UNCHANGED <<WatchMap, recver>>
         /\ \A d \in up' : d \in up \/ ~Done(d.msg)
<1> DEFINE d == [from |-> Stranger, addr |-> 0, msg |-> Msg("SERVER_HEART", 0, "")]
<1>1. /\ todo.strangers > 0 /\ todo' = [todo EXCEPT !.strangers = @ - 1] /\ up' = up \cup {d}
      /\ UNCHANGED <<now, srvVars, hist, WatchMap, Name2Id, watch_lock, cmd_ch, recver, req, login, odd>>
  BY DEF StrangerReports
<1>2. UNCHANGED <<now, proc, ChSig, ChInfo, msg_send, msg_recv, down, hist>>
  BY <1>1 DEF srvVars
<1>3. d \in Datagrams /\ ~Done(d.msg)
  BY FigureIs DEF Datagrams
<1> HIDE DEF d
<1>4. todo \in Todo
  BY DEF Typed, ManagerTyped
<1>5. todo.strangers - 1 \in Nat
  BY <1>1, <1>4 DEF Todo
<1>6. todo' \in Todo
  BY <1>1, <1>4, <1>5 DEF Todo
<1> QED
  BY <1>1, <1>2, <1>3, <1>6 DEF Typed, ServerTyped, ManagerTyped, Apart

LEMMA SignalIs ==
  ASSUME Typed, Signal
  PROVE  Typed' /\ Apart /\ UNCHANGED <<WatchMap, up, recver>>
<1>1. /\ todo.signals # <<>> /\ todo' = [todo EXCEPT !.signals = Tail(@)]
      /\ ChSig' = IF Len(ChSig) < SigCap THEN Append(ChSig, Head(todo.signals)) ELSE ChSig
      /\ UNCHANGED <<now, proc, ChInfo, msg_send, msg_recv, up, down, hist>>
      /\ UNCHANGED <<WatchMap, Name2Id, watch_lock, cmd_ch, recver, req, login, odd>>
  BY DEF Signal, Notify
<1>2. todo \in Todo /\ ChSig \in Seq(Signals)
  BY DEF Typed, ServerTyped, ManagerTyped
<1>3. todo.signals \in Seq(Signals)
  BY <1>2 DEF Todo
<1>4. Head(todo.signals) \in Signals /\ Tail(todo.signals) \in Seq(Signals)
  BY <1>1, <1>3
<1>5. todo' \in Todo
  BY <1>1, <1>2, <1>4 DEF Todo
<1>6. ChSig' \in Seq(Signals)
  BY <1>1, <1>2, <1>4
<1> QED
  BY <1>1, <1>5, <1>6 DEF Typed, ServerTyped, ManagerTyped, Apart

LEMMA TickIs ==
  ASSUME Typed, Tick
  PROVE  Typed' /\ Apart /\ UNCHANGED <<WatchMap, up, recver>> /\ now' = now + 1
<1>1. now < MaxTime /\ now' = now + 1 /\ UNCHANGED <<srvVars, up, hist, mgrVars>>
  BY DEF Tick
<1>2. UNCHANGED <<proc, ChSig, ChInfo, msg_send, msg_recv, down, up, hist>>
      /\ UNCHANGED <<WatchMap, Name2Id, watch_lock, cmd_ch, recver, req, login, todo, odd>>
  BY <1>1 DEF srvVars, mgrVars
<1>3. now' \in Time
  <2>1. MaxTime \in Nat
    BY ReportConstants
  <2> QED
    BY <1>1, <2>1, NowIs DEF Time
<1> QED
  BY <1>1, <1>2, <1>3 DEF Typed, ServerTyped, ManagerTyped, Apart

LEMMA ServerTypedNext ==
  ASSUME Typed, Server, UNCHANGED mgrVars
  PROVE  Typed'
<1>1. ServerTypes
  BY ServerIs
<1>2. UNCHANGED <<WatchMap, Name2Id, watch_lock, cmd_ch, recver, req, login, todo, odd>>
  BY DEF mgrVars
<1> QED
  BY <1>1, <1>2 DEF Typed, ServerTypes, ManagerTyped

\* Types are kept.
LEMMA TypedNext ==
  ASSUME Typed, [Next]_vars
  PROVE  Typed'
<1>1. CASE Server /\ UNCHANGED mgrVars
  BY <1>1, ServerTypedNext
<1>2. CASE \E d \in up : HandleMsg(d)
  BY <1>2, HandleMsgIs
<1>3. CASE SetStat \/ SetCmd \/ SendCmd
  BY <1>3, SetStatIs, SetCmdIs, SendCmdIs
<1>4. ASSUME NEW r \in Requests, Panel(r) \/ Handler(r)
      PROVE  Typed'
  BY <1>4, PanelIs, ReadsIs, NotesIs, report_cmdIs DEF Handler
<1>5. CASE Reload \/ ParseClientList
  BY <1>5, ReloadsIs
<1>6. CASE StrangerReports
  BY <1>6, StrangerIs
<1>7. CASE Signal
  BY <1>7, SignalIs
<1>8. CASE Tick
  BY <1>8, TickIs
<1>9. CASE UNCHANGED vars
  BY <1>9 DEF vars, reportVars, srvVars, mgrVars, Typed, ServerTyped, ManagerTyped
<1> QED
  BY <1>1, <1>2, <1>3, <1>4, <1>5, <1>6, <1>7, <1>8, <1>9 DEF Next

\* What the maps, channels, datagrams and records hold is what it should
\* hold, in every reachable state.
THEOREM Typing == Spec => []Typed
<1>1. ManageInit => Typed
  BY InitTyped
<1>2. Typed /\ [Next]_vars => Typed'
  BY TypedNext
<1> QED
  BY <1>1, <1>2, PTL DEF Spec

-----------------------------------------------------------------------------
(* A command whose answer says "done" was done.  Every command on its way  *)
(* was noted at its own time or later, and what is known of the server     *)
(* under that time is the command.                                         *)

Live(t, a) ==
  \/ \E c \in Elems(cmd_ch) : c.msg.int = t /\ c.msg.str = a
  \/ \E m \in down : m.int = t /\ m.str = a
  \/ \E m \in Elems(msg_recv) : m.int = t /\ m.str = a
  \/ \E r \in Requests : req[r].at = "report" /\ req[r].ts = t /\ req[r].arg = a
  \/ t > 0 /\ proc.ReportCmdToken = t /\ proc.ReportCmd = a
  \/ <<t, a>> \in hist.did

\* Nothing but the note of a command makes one.
LEMMA LiveKept ==
  ASSUME Typed, [Next]_vars, ~hist'.crossed, NEW t \in Nat, NEW a \in Text, Live(t, a)',
         ~\E r \in Requests : Notes(r)
  PROVE  Live(t, a)
<1>1. CASE Apart
  BY <1>1 DEF Apart, Live
<1>2. CASE SendCmd
  <2>1. /\ cmd_ch # <<>> /\ cmd_ch' = Tail(cmd_ch)
        /\ down' = down \/ down' = down \cup {Head(cmd_ch).msg}
        /\ UNCHANGED <<proc, msg_recv, hist, req>>
    BY <1>2, SendCmdIs
  <2>2. Head(cmd_ch) \in Elems(cmd_ch) /\ Elems(Tail(cmd_ch)) \subseteq Elems(cmd_ch)
    BY <2>1, ElemsIs DEF Typed, ManagerTyped
  <2> QED
    BY <2>1, <2>2 DEF Live
<1>3. ASSUME NEW r \in Requests, report_cmd(r)
      PROVE  Live(t, a)
  <2>1. /\ req[r].at = "report"
        /\ UNCHANGED <<proc, msg_recv, down>> /\ hist'.did = hist.did
        /\ req'[r].at = "idle" /\ \A x \in Requests : x # r => req'[x] = req[x]
        /\ \/ UNCHANGED cmd_ch
           \/ \E c \in Orders : /\ c.msg.int = req[r].ts /\ c.msg.str = req[r].arg
                                /\ cmd_ch' = Append(cmd_ch, c)
    BY <1>3, report_cmdIs
  <2>2. \A c \in Orders : Elems(Append(cmd_ch, c)) = Elems(cmd_ch) \cup {c}
    BY ElemsIs DEF Typed, ManagerTyped
  <2> QED
    BY <2>1, <2>2 DEF Live
<1>4. CASE Server /\ UNCHANGED mgrVars
  <2>1. UNCHANGED <<cmd_ch, req>> /\ ServerStep
    BY <1>4, ServerIs DEF mgrVars
  <2>2. msg_recv \in Seq(Commands) /\ down \subseteq Commands
    BY DEF Typed, ServerTyped
  <2>3. CASE Quiet
    BY <2>1, <2>3 DEF Quiet, SlotKept, Live
  <2>4. CASE Wiped
    BY <2>1, <2>4, NoElems DEF Wiped, SlotKept, Live
  <2>5. CASE Received
    <3>1. PICK m \in down : /\ msg_recv' = Append(msg_recv, m) /\ down' = down \ {m}
                            /\ UNCHANGED <<proc, hist>>
      BY <2>5 DEF Received
    <3>2. Elems(msg_recv') = Elems(msg_recv) \cup {m}
      BY <2>2, <3>1, ElemsIs
    <3> QED
      BY <2>1, <3>1, <3>2 DEF Live
  <2>6. CASE SlotAnswered
    <3>1. PICK stat \in Outcomes :
            Responds(proc.ReportCmdToken, stat, Head(ChInfo).token, proc.ReportCmd)
      BY <2>6 DEF SlotAnswered
    <3>2. Head(ChInfo).token = proc.ReportCmdToken
      BY <3>1 DEF Responds
    <3>3. hist'.did \subseteq hist.did \cup {<<proc.ReportCmdToken, proc.ReportCmd>>}
      BY <3>1, <3>2 DEF Responds
    <3>4. proc.ReportCmdToken > 0 /\ proc'.ReportCmdToken = 0 /\ UNCHANGED <<msg_recv, down>>
      BY <2>6 DEF SlotAnswered
    <3> QED
      BY <2>1, <3>3, <3>4 DEF Live
  <2>7. CASE CmdTaken
    <3> DEFINE m == Head(msg_recv)
    <3>1. msg_recv # <<>> /\ msg_recv' = Tail(msg_recv) /\ UNCHANGED down /\ Taken(m)
      BY <2>7 DEF CmdTaken
    <3>2. m \in Elems(msg_recv) /\ Elems(msg_recv') \subseteq Elems(msg_recv)
      BY <2>2, <3>1, ElemsIs
    <3>3. \/ SlotKept
          \/ proc'.ReportCmdToken = m.int /\ proc'.ReportCmd = m.str
      BY <3>1 DEF Taken
    <3>4. hist'.did \subseteq hist.did \cup {<<m.int, m.str>>}
      BY <3>1 DEF Taken, Responds
    <3> HIDE DEF m
    <3> QED
      BY <2>1, <3>1, <3>2, <3>3, <3>4 DEF Live, SlotKept
  <2> QED
    BY <2>1, <2>3, <2>4, <2>5, <2>6, <2>7 DEF ServerStep
<1>5. Apart \/ SendCmd \/ (\E r \in Requests : report_cmd(r)) \/ (Server /\ UNCHANGED mgrVars)
  <2>1. CASE UNCHANGED vars
    BY <2>1 DEF vars, reportVars, srvVars, mgrVars, Apart
  <2> QED
    BY <2>1, HandleMsgIs, SetStatIs, SetCmdIs, PanelIs, ReadsIs, ReloadsIs, StrangerIs, SignalIs, TickIs DEF Next, Handler
<1> QED
  BY <1>1, <1>2, <1>3, <1>4, <1>5

\* What a step can be, as far as a command and its answer go.
LEMMA StepIs ==
  ASSUME Typed, [Next]_vars
  PROVE  \/ Apart /\ UNCHANGED <<now, WatchMap, up, msg_send, recver>>
         \/ Apart /\ \E d \in up : HandleMsg(d)
         \/ Apart /\ (SetStat \/ SetCmd)
         \/ Apart /\ (Reload \/ ParseClientList)
         \/ /\ Apart /\ UNCHANGED <<now, WatchMap, msg_send, recver>>
            /\ \A d \in up' : d \in up \/ ~Done(d.msg)
         \/ Apart /\ UNCHANGED <<WatchMap, up, msg_send, recver>> /\ now' = now + 1
         \/ SendCmd
         \/ \E r \in Requests : Notes(r) \/ report_cmd(r)
         \/ Server /\ UNCHANGED mgrVars
<1>1. CASE UNCHANGED vars
  BY <1>1 DEF vars, reportVars, srvVars, mgrVars, Apart
<1>2. ASSUME NEW r \in Requests, Panel(r)
      PROVE  Apart /\ UNCHANGED <<now, WatchMap, up, msg_send, recver>>
  BY <1>2, PanelIs DEF Panel, login_post, Refused, detail_get, cmd_handle, reportVars, srvVars
<1>3. ASSUME NEW r \in Requests, Panics(r) \/ Shows(r)
      PROVE  Apart /\ UNCHANGED <<now, WatchMap, up, msg_send, recver>>
  BY <1>3, ReadsIs DEF Panics, Shows, reportVars, srvVars
<1>4. CASE \E d \in up : HandleMsg(d)
  BY <1>4, HandleMsgIs
<1>9. CASE SetStat \/ SetCmd
  BY <1>9, SetStatIs, SetCmdIs
<1>5. CASE Reload \/ ParseClientList
  BY <1>5, ReloadsIs
<1>6. CASE StrangerReports
  BY <1>6, StrangerIs DEF StrangerReports, srvVars
<1>7. CASE Signal
  BY <1>7, SignalIs DEF Signal, Notify
<1>8. CASE Tick
  BY <1>8, TickIs DEF Tick, srvVars
<1> QED
  BY <1>1, <1>2, <1>3, <1>4, <1>5, <1>6, <1>7, <1>8, <1>9 DEF Next, Handler

LEMMA OutcomeTyped == Outcomes \subseteq Text
BY DEF Outcomes, Text, Stats

\* The history only grows, and only answers of what was done are sent.
HistGrows == /\ hist.did \subseteq hist'.did /\ hist.noted \subseteq hist'.noted
             /\ hist.crossed => hist'.crossed
             /\ hist.overtaken \subseteq hist'.overtaken
Heard(m) == recver.at # "recv" /\ recver.d.msg = m
Answer(m) == m \in Elems(msg_send) \/ (\E d \in up : d.msg = m) \/ Heard(m)
Answered1(m) == \E a \in Text : <<m.int, a>> \in hist.did
AnswersGrow ==
  ~hist'.crossed => \A m \in Reports : Done(m) /\ Answer(m)' => Answer(m) \/ Answered1(m)'

LEMMA RespondsIs ==
  ASSUME Typed, NEW tok \in Time, NEW stat \in Outcomes, NEW t \in Nat, NEW c \in Text,
         Responds(tok, stat, t, c)
  PROVE  /\ HistGrows /\ hist'.noted = hist.noted /\ hist'.overtaken = hist.overtaken
         /\ ~hist'.crossed => \A m \in Elems(msg_send') :
              Done(m) => m \in Elems(msg_send) \/ Answered1(m)'
<1> DEFINE new == Msg("CMD_RSP", tok, stat)
<1>1. HistGrows /\ hist'.noted = hist.noted /\ hist'.overtaken = hist.overtaken
  BY DEF Responds, HistGrows
<1>2. tok \in Nat /\ stat \in Text
  BY ReportConstants, OutcomeTyped DEF Time
<1>3. new \in Reports /\ new.int = tok /\ new.str = stat
  BY <1>2, MsgTyped DEF Protos
<1>4. msg_send' = Reported(msg_send, new)
  BY DEF Responds
<1> HIDE DEF new
<1>5. Elems(msg_send') \subseteq Elems(msg_send) \cup {new}
  BY <1>3, <1>4, ReportedIs DEF Typed, ServerTyped
<1>6. ASSUME ~hist'.crossed, Done(new)
      PROVE  Answered1(new)'
  <2>1. t = tok /\ stat = "done"
    BY <1>3, <1>6 DEF Responds, Done
  <2>2. <<t, c>> \in hist'.did
    BY <2>1 DEF Responds
  <2> QED
    BY <1>3, <2>1, <2>2 DEF Answered1
<1> QED
  BY <1>1, <1>5, <1>6

LEMMA ServerAnswers ==
  ASSUME Typed, Server, UNCHANGED mgrVars
  PROVE  HistGrows /\ hist'.noted = hist.noted /\ hist'.overtaken = hist.overtaken /\ AnswersGrow
<1> DEFINE SendGrows ==
      ~hist'.crossed => \A m \in Elems(msg_send') :
        Done(m) => m \in Elems(msg_send) \/ Answered1(m)'
<1>1. UpKept /\ ServerStep
  BY ServerIs
<1>2. HistGrows /\ hist'.noted = hist.noted /\ hist'.overtaken = hist.overtaken /\ SendGrows
  <2>1. CASE Quiet \/ Wiped
    BY <2>1 DEF Quiet, Wiped, DonesKept, HistGrows
  <2>2. CASE Received
    BY <2>2 DEF Received, HistGrows
  <2>3. CASE SlotAnswered
    <3>1. proc \in ProcType /\ proc.ReportCmdToken > 0
      BY <2>3 DEF SlotAnswered, Typed, ServerTyped
    <3>2. PICK stat \in Outcomes :
            Responds(proc.ReportCmdToken, stat, Head(ChInfo).token, proc.ReportCmd)
      BY <2>3 DEF SlotAnswered
    <3>3. proc.ReportCmdToken \in Time /\ proc.ReportCmdToken \in Nat /\ proc.ReportCmd \in Text
      BY <3>1, ReportConstants DEF ProcType, Time
    <3>4. CASE hist'.crossed
      BY <3>2, <3>4 DEF Responds, HistGrows
    <3>5. CASE ~hist'.crossed
      <4>1. Head(ChInfo).token = proc.ReportCmdToken
        BY <3>2, <3>5 DEF Responds
      <4> QED
        BY <3>2, <3>3, <4>1, RespondsIs
    <3> QED
      BY <3>4, <3>5
  <2>4. CASE CmdTaken
    <3> DEFINE m == Head(msg_recv)
    <3>1. m \in Commands /\ Taken(m)
      BY <2>4 DEF CmdTaken, Typed, ServerTyped
    <3> HIDE DEF m
    <3>2. m.int \in Time /\ m.int \in Nat /\ m.str \in Text
      BY <3>1, CommandIs
    <3>3. UNCHANGED <<msg_send, hist>> \/ \E stat \in Outcomes : Responds(m.int, stat, m.int, m.str)
      BY <3>1 DEF Taken
    <3> QED
      BY <3>2, <3>3, RespondsIs DEF HistGrows
  <2> QED
    BY <1>1, <2>1, <2>2, <2>3, <2>4 DEF ServerStep
<1>3. AnswersGrow
  BY <1>1, <1>2 DEF UpKept, AnswersGrow, Answer, Heard, mgrVars
<1> QED
  BY <1>2, <1>3

LEMMA Grows ==
  ASSUME Typed, [Next]_vars
  PROVE  HistGrows /\ AnswersGrow /\ ((\A r \in Requests : ~Notes(r)) => hist'.noted = hist.noted)
<1>1. CASE Apart /\ UNCHANGED <<msg_send, recver>> /\ \A d \in up' : d \in up \/ ~Done(d.msg)
  BY <1>1 DEF Apart, HistGrows, AnswersGrow, Answer, Heard
<1>2. CASE Apart /\ \E d \in up : HandleMsg(d)
  <2>1. PICK d \in up : HandleMsg(d)
    BY <1>2
  <2>2. /\ UNCHANGED msg_send /\ up' = up \ {d}
        /\ (recver' = recver) \/ (recver'.at = "set" /\ recver'.d = d)
    BY <2>1, HandleMsgIs
  <2> QED
    BY <1>2, <2>2 DEF Apart, HistGrows, AnswersGrow, Answer, Heard
<1>7. CASE Apart /\ (SetStat \/ SetCmd \/ Reload \/ ParseClientList)
  <2>1. /\ UNCHANGED <<up, msg_send>>
        /\ recver'.at = "recv" \/ (recver.at # "recv" /\ recver'.d = recver.d)
    <3>1. CASE SetStat
      BY <3>1, SetStatIs, ReceivingTyped
    <3>2. CASE SetCmd
      BY <3>2, SetCmdIs, ReceivingTyped
    <3>3. CASE Reload \/ ParseClientList
      BY <3>3, ReloadsIs
    <3> QED
      BY <1>7, <3>1, <3>2, <3>3
  <2> QED
    BY <1>7, <2>1 DEF Apart, HistGrows, AnswersGrow, Answer, Heard
<1>3. CASE SendCmd
  BY <1>3, SendCmdIs DEF HistGrows, AnswersGrow, Answer, Heard
<1>4. ASSUME NEW r \in Requests, Notes(r)
      PROVE  HistGrows /\ AnswersGrow
  BY <1>4, NotesIs DEF HistGrows, AnswersGrow, Answer, Heard
<1>5. ASSUME NEW r \in Requests, report_cmd(r)
      PROVE  HistGrows /\ AnswersGrow /\ hist'.noted = hist.noted
  BY <1>5, report_cmdIs DEF HistGrows, AnswersGrow, Answer, Heard
<1>6. CASE Server /\ UNCHANGED mgrVars
  BY <1>6, ServerAnswers
<1>8. Apart => hist'.noted = hist.noted
  BY DEF Apart
<1> QED
  BY <1>1, <1>2, <1>3, <1>4, <1>5, <1>6, <1>7, <1>8, StepIs, SendCmdIs

Covered(t, a) ==
  /\ t > 0 /\ \E n \in hist.noted : n >= t
  /\ Self \in DOMAIN WatchMap /\ WatchMap[Self].CmdTime = t => WatchMap[Self].CmdInfo = a
NotesInTime ==
  /\ hist.noted \subseteq 1 .. now
  /\ \A r \in Requests : req[r].at = "lock" /\ req[r].op = "cmd" => req[r].ts <= now
CommandsCovered == \A t \in Nat, a \in Text : Live(t, a) => Covered(t, a)
AnswersTrue == \A m \in Reports : Done(m) /\ Answer(m) => Answered1(m)
\* While handle_msg sets the fields of a report, and before.
Calm == ~hist.crossed /\ hist.overtaken = {}
StatTrue ==
  Self \in DOMAIN WatchMap /\ WatchMap[Self].CmdStat = "done" =>
    <<WatchMap[Self].CmdTime, WatchMap[Self].CmdInfo>> \in hist.did
Setting == recver.at = "cmd" /\ recver.listed
Settled ==
  /\ Setting =>
       \/ /\ recver.left = <<"CmdStat">> /\ recver.d.msg.proto = "CMD_RSP"
          /\ recver.d.msg.int = WatchMap[Self].CmdTime /\ StatTrue
       \/ /\ recver.d.msg.proto = "SERVER_START"
          /\ \/ recver.left = Cleared
             \/ recver.left = Tail(Cleared) /\ WatchMap[Self].CmdTime = 0
             \/ /\ recver.left = <<"CmdInfo">> /\ WatchMap[Self].CmdTime = 0
                /\ WatchMap[Self].CmdStat = ""
  /\ ~Setting => StatTrue
DoneInv ==
  /\ NotesInTime
  /\ Calm => CommandsCovered /\ AnswersTrue /\ Settled

LEMMA NotesInTimeNext ==
  ASSUME Typed, NotesInTime, [Next]_vars
  PROVE  NotesInTime'
<1>1. now \in Nat /\ now' \in Nat /\ now' >= now /\ now > 0
  <2>1. CASE Server
    BY <2>1, NowIs, ServerIs DEF ServerTypes
  <2>2. CASE UNCHANGED now
    BY <2>2, NowIs
  <2>3. CASE Tick
    BY <2>3, NowIs DEF Tick
  <2>4. UNCHANGED now \/ Tick \/ Server
    BY DEF Next, HandleMsg, SetStat, SetCmd, SendCmd, Panel, Handler, login_post, Refused, detail_get, cmd_handle,
           Panics, Shows, Notes, report_cmd, Reload, ParseClientList, StrangerReports, Signal,
           Notify, reportVars, vars
  <2> QED
    BY <2>1, <2>2, <2>3, <2>4
<1>2. hist'.noted \subseteq 1 .. now'
  <2>1. CASE \E r \in Requests : Notes(r)
    <3>1. hist'.noted = hist.noted \cup {now} /\ now' = now
      BY <2>1, NotesIs
    <3> QED
      BY <1>1, <3>1 DEF NotesInTime
  <2>2. CASE \A r \in Requests : ~Notes(r)
    <3>1. hist'.noted = hist.noted
      BY <2>2, Grows
    <3> QED
      BY <1>1, <3>1 DEF NotesInTime
  <2> QED
    BY <2>1, <2>2
<1>3. ASSUME NEW x \in Requests, req'[x].at = "lock", req'[x].op = "cmd"
      PROVE  req'[x].ts <= now'
  <2>1. req'[x] = req[x] \/ req'[x].ts = now
    <3>1. CASE UNCHANGED req
      BY <3>1
    <3>2. ASSUME NEW r \in Requests, Panel(r)
          PROVE  req'[x] = req[x] \/ req'[x].ts = now
      <4>1. \/ UNCHANGED req
            \/ Asked(r, 0) /\ Head(todo.requests).op = "detail"
            \/ Asked(r, now)
        BY <3>2 DEF Panel, login_post, Refused, detail_get, cmd_handle
      <4>2. req \in [Requests -> ReqType]
        BY DEF Typed, ManagerTyped
      <4> QED
        BY <1>3, <4>1, <4>2 DEF Asked
    <3>3. ASSUME NEW r \in Requests, Handler(r)
          PROVE  req'[x] = req[x]
      <4>1. \E at \in {"idle", "report"} : Becomes(r, at)
        BY <3>3 DEF Handler, Panics, Shows, Notes, report_cmd
      <4>2. req \in [Requests -> ReqType]
        BY DEF Typed, ManagerTyped
      <4> QED
        BY <1>3, <4>1, <4>2 DEF Becomes
    <3>4. UNCHANGED req \/ \E r \in Requests : Panel(r) \/ Handler(r)
      BY DEF Next, HandleMsg, SetStat, SetCmd, SendCmd, Reload, ParseClientList, StrangerReports, Signal, Tick,
             mgrVars, vars
    <3> QED
      BY <3>1, <3>2, <3>3, <3>4
  <2>2. req[x] \in ReqType
    BY DEF Typed, ManagerTyped
  <2>3. req[x].ts \in 0 .. MaxTime
    BY <2>2 DEF ReqType
  <2> QED
    BY <1>1, <1>3, <2>1, <2>3 DEF NotesInTime
<1> QED
  BY <1>2, <1>3 DEF NotesInTime

\* What a step but Notes and SetCmd makes of what is known of the server.
StatSame(st, old) ==
  st.CmdTime = old.CmdTime /\ st.CmdInfo = old.CmdInfo /\ st.CmdStat = old.CmdStat

LEMMA StatKept ==
  ASSUME Typed, [Next]_vars, \A r \in Requests : ~Notes(r), ~SetCmd, Self \in DOMAIN WatchMap'
  PROVE  \/ WatchMap'[Self].CmdTime = 0 /\ WatchMap'[Self].CmdStat = "" /\ ~recver'.listed
         \/ /\ Self \in DOMAIN WatchMap /\ StatSame(WatchMap'[Self], WatchMap[Self])
            /\ \/ recver' = recver
               \/ recver'.at # "cmd" /\ recver.at = "recv"
               \/ SetStat
<1>1. CASE UNCHANGED <<WatchMap, recver>>
  BY <1>1 DEF StatSame
<1>2. CASE Reload \/ ParseClientList
  <2>1. (WatchMap' = <<>> \/ WatchMap' = ParsedMap) /\ ~recver'.listed
    BY <1>2, ReloadsIs
  <2>2. CASE WatchMap' = ParsedMap
    BY <2>1, <2>2 DEF ParsedMap, ClientList, NewStat
  <2>3. CASE WatchMap' = <<>>
    <3>1. DOMAIN WatchMap' = {}
      BY <2>3
    <3> QED
      BY <3>1
  <2> QED
    BY <2>1, <2>2, <2>3
<1>3. CASE \E d \in up : HandleMsg(d)
  BY <1>3, HandleMsgIs DEF StatSame
<1>4. CASE SetStat
  BY <1>4, SetStatIs DEF StatSame
<1> QED
  BY <1>1, <1>2, <1>3, <1>4, StepIs, SendCmdIs, report_cmdIs DEF mgrVars

\* What handle_msg sets of a report is what is to be shown.
LEMMA SettledBySetCmd ==
  ASSUME Typed, SetCmd, Calm, CommandsCovered, AnswersTrue, Settled
  PROVE  /\ Settled'
         /\ Self \in DOMAIN WatchMap' =>
              /\ Self \in DOMAIN WatchMap
              /\ \/ WatchMap'[Self].CmdTime = 0
                 \/ /\ WatchMap'[Self].CmdTime = WatchMap[Self].CmdTime
                    /\ WatchMap'[Self].CmdInfo = WatchMap[Self].CmdInfo
<1>1. /\ Apart /\ recver.at = "cmd" /\ DOMAIN WatchMap' = DOMAIN WatchMap
      /\ \/ recver' = Receiving /\ Len(recver.left) = 1
         \/ /\ recver'.at = "cmd" /\ recver'.d = recver.d /\ recver'.listed = recver.listed
            /\ recver'.left = Tail(recver.left) /\ Len(recver.left) # 1
      /\ ~recver.listed => WatchMap' = WatchMap
      /\ recver.listed =>
           /\ Self \in DOMAIN WatchMap /\ recver.d.msg \in Reports
           /\ WatchMap'[Self] = FieldSet(WatchMap[Self], Head(recver.left), recver.d.msg)
  BY SetCmdIs
<1>2. hist' = hist
  BY <1>1 DEF Apart
<1>3. CASE ~recver.listed
  <2>1. ~Setting /\ ~Setting' /\ StatTrue
    BY <1>1, <1>3, ReceivingTyped DEF Setting, Settled
  <2> QED
    BY <1>1, <1>2, <1>3, <2>1 DEF Settled, StatTrue
<1>4. CASE recver.listed
  <2> DEFINE old == WatchMap[Self]
             m == recver.d.msg
             f == Head(recver.left)
  <2>1. Setting /\ old \in StatType /\ m \in Reports
    BY <1>1, <1>4, ListedIs DEF Setting
  <2>2. WatchMap'[Self] = FieldSet(old, f, m)
    BY <1>1, <1>4
  <2>7. ASSUME f \in {"CmdTime", "CmdStat", "CmdInfo"}
        PROVE  /\ f = "CmdTime" => WatchMap'[Self].CmdTime = 0
               /\ f = "CmdStat" => WatchMap'[Self].CmdStat = IF m.proto = "CMD_RSP" THEN m.str ELSE ""
               /\ f # "CmdTime" => WatchMap'[Self].CmdTime = old.CmdTime
               /\ f # "CmdStat" => WatchMap'[Self].CmdStat = old.CmdStat
               /\ f # "CmdInfo" => WatchMap'[Self].CmdInfo = old.CmdInfo
    <3> HIDE DEF old, m, f
    <3> DEFINE s == FieldSet(old, f, m)
    <3>1. /\ f = "CmdTime" => s.CmdTime = 0
          /\ f = "CmdStat" => s.CmdStat = IF m.proto = "CMD_RSP" THEN m.str ELSE ""
          /\ f # "CmdTime" => s.CmdTime = old.CmdTime
          /\ f # "CmdStat" => s.CmdStat = old.CmdStat
          /\ f # "CmdInfo" => s.CmdInfo = old.CmdInfo
      BY <2>1, <2>7 DEF FieldSet, StatType
    <3> HIDE DEF s
    <3> QED
      BY <2>2, <3>1 DEF s
  <2>3. CASE recver.left = <<"CmdStat">>
    <3>1. m.proto = "CMD_RSP" /\ m.int = old.CmdTime /\ StatTrue
      BY <2>1, <2>3, LeftsAre DEF Settled
    <3>2. f = "CmdStat" /\ recver' = Receiving
      BY <1>1, <2>3, LeftsAre
    <3>3. /\ WatchMap'[Self].CmdTime = old.CmdTime /\ WatchMap'[Self].CmdInfo = old.CmdInfo
          /\ WatchMap'[Self].CmdStat = m.str
      BY <2>7, <3>1, <3>2
    <3>4. ASSUME m.str = "done"
          PROVE  <<old.CmdTime, old.CmdInfo>> \in hist.did
      <4>1. Done(m) /\ Answer(m)
        BY <1>1, <3>1, <3>4 DEF Done, Answer, Heard
      <4>2. PICK a \in Text : <<m.int, a>> \in hist.did
        BY <2>1, <4>1 DEF AnswersTrue, Answered1
      <4>3. m.int \in Nat /\ Live(m.int, a)
        BY <2>1, <4>2 DEF Reports, Live
      <4>4. Covered(m.int, a)
        BY <4>3 DEF CommandsCovered
      <4> QED
        BY <1>1, <1>4, <3>1, <4>2, <4>4 DEF Covered
    <3>5. StatTrue' /\ ~Setting'
      BY <1>2, <3>2, <3>3, <3>4, ReceivingTyped DEF StatTrue, Setting
    <3> QED
      BY <1>1, <1>4, <3>3, <3>5 DEF Settled
  <2>4. CASE recver.left = Cleared
    <3>1. m.proto = "SERVER_START" /\ f = "CmdTime"
      BY <2>1, <2>4, LeftsAre DEF Settled
    <3>2. recver'.at = "cmd" /\ recver'.d = recver.d /\ recver'.listed /\ recver'.left = Tail(Cleared)
      BY <1>1, <1>4, <2>4, LeftsAre
    <3>3. WatchMap'[Self].CmdTime = 0
      BY <2>7, <3>1
    <3> QED
      BY <1>1, <1>4, <3>1, <3>2, <3>3 DEF Settled, Setting
  <2>5. CASE recver.left = Tail(Cleared)
    <3>1. m.proto = "SERVER_START" /\ f = "CmdStat" /\ old.CmdTime = 0
      BY <2>1, <2>5, LeftsAre DEF Settled
    <3>2. recver'.at = "cmd" /\ recver'.d = recver.d /\ recver'.listed /\ recver'.left = <<"CmdInfo">>
      BY <1>1, <1>4, <2>5, LeftsAre
    <3>3. WatchMap'[Self].CmdTime = 0 /\ WatchMap'[Self].CmdStat = ""
      BY <2>7, <3>1
    <3> QED
      BY <1>1, <1>4, <3>1, <3>2, <3>3 DEF Settled, Setting
  <2>6. CASE recver.left = <<"CmdInfo">>
    <3>1. f = "CmdInfo" /\ old.CmdTime = 0 /\ old.CmdStat = ""
      BY <2>1, <2>6, LeftsAre DEF Settled
    <3>2. recver' = Receiving
      BY <1>1, <2>6, LeftsAre
    <3>3. WatchMap'[Self].CmdTime = 0 /\ WatchMap'[Self].CmdStat = ""
      BY <2>7, <3>1
    <3>4. StatTrue' /\ ~Setting'
      BY <3>2, <3>3, ReceivingTyped DEF StatTrue, Setting
    <3> QED
      BY <1>1, <1>4, <3>3, <3>4 DEF Settled
  <2> QED
    BY <2>1, <2>3, <2>4, <2>5, <2>6 DEF Settled
<1> QED
  BY <1>3, <1>4

\* Under a new time, commands on their way were noted before.
LEMMA CoveredByNotes ==
  ASSUME Typed, NotesInTime, CommandsCovered, NEW r \in Requests, Notes(r), ~hist'.crossed,
         NEW t \in Nat, NEW a \in Text, Live(t, a)'
  PROVE  Covered(t, a)'
<1>1. /\ req[r].at = "lock" /\ req[r].op = "cmd"
      /\ WatchMap'[Self].CmdTime = now /\ WatchMap'[Self].CmdInfo = req[r].arg
      /\ hist'.noted = hist.noted \cup {now} /\ now \notin hist.noted /\ hist'.did = hist.did
      /\ req'[r].ts = req[r].ts /\ req'[r].arg = req[r].arg
      /\ \A x \in Requests : x # r => req'[x] = req[x]
      /\ UNCHANGED <<now, proc, msg_recv, down, cmd_ch>>
  BY NotesIs
<1>2. now \in Nat /\ \A n \in hist.noted : n \in Nat /\ n <= now
  BY NowIs DEF NotesInTime
<1>3. req[r].ts \in Nat /\ req[r].ts > 0 /\ req[r].ts <= now
  BY <1>1, ReportConstants DEF NotesInTime, Typed, ManagerTyped, Time
<1>4. CASE Live(t, a)
  <2>1. t > 0 /\ \E n \in hist.noted : n >= t
    BY <1>4 DEF CommandsCovered, Covered
  <2>2. t # now
    BY <1>1, <1>2, <2>1
  <2> QED
    BY <1>1, <2>1, <2>2 DEF Covered
<1>5. CASE t = req[r].ts /\ a = req[r].arg
  BY <1>1, <1>2, <1>3, <1>5 DEF Covered
<1> QED
  BY <1>1, <1>4, <1>5 DEF Live

LEMMA DoneInvNext ==
  ASSUME Typed, DoneInv, [Next]_vars
  PROVE  DoneInv'
<1>1. NotesInTime'
  BY NotesInTimeNext DEF DoneInv
<1>2. SUFFICES ASSUME Calm'
               PROVE  CommandsCovered' /\ AnswersTrue' /\ Settled'
  BY <1>1 DEF DoneInv
<1>3. HistGrows /\ AnswersGrow /\ Calm
  BY <1>2, Grows DEF HistGrows, Calm
<1>4. NotesInTime /\ CommandsCovered /\ AnswersTrue /\ Settled
  BY <1>3 DEF DoneInv
<1>5. ASSUME NEW m \in Reports, Answered1(m)
      PROVE  Answered1(m)'
  BY <1>3, <1>5 DEF Answered1, HistGrows
<1>6. AnswersTrue'
  BY <1>2, <1>3, <1>4, <1>5 DEF AnswersTrue, AnswersGrow, Calm
<1>7. CASE \E r \in Requests : Notes(r)
  <2>1. PICK r \in Requests : Notes(r)
    BY <1>7
  <2>2. CommandsCovered'
    BY <1>2, <1>4, <2>1, CoveredByNotes DEF CommandsCovered, Calm
  <2>3. WatchMap'[Self].CmdStat = "ing" /\ recver' = recver /\ Amid = {}
    BY <1>2, <2>1, NotesIs DEF Calm
  <2>4. recver'.at # "cmd"
    BY <2>3 DEF Amid
  <2> QED
    BY <1>6, <2>2, <2>3, <2>4 DEF Settled, Setting, StatTrue
<1>8. CASE \A r \in Requests : ~Notes(r)
  <2>1. ASSUME Self \in DOMAIN WatchMap'
        PROVE  \/ WatchMap'[Self].CmdTime = 0
               \/ /\ Self \in DOMAIN WatchMap /\ WatchMap'[Self].CmdTime = WatchMap[Self].CmdTime
                  /\ WatchMap'[Self].CmdInfo = WatchMap[Self].CmdInfo
    BY <1>3, <1>4, <1>8, <2>1, StatKept, SettledBySetCmd DEF StatSame
  <2>2. ASSUME NEW t \in Nat, NEW a \in Text, Live(t, a)'
        PROVE  Covered(t, a)'
    <3>1. Covered(t, a)
      BY <1>2, <1>4, <1>8, <2>2, LiveKept DEF CommandsCovered, Calm
    <3>2. t > 0 /\ \E n \in hist'.noted : n >= t
      BY <1>3, <3>1 DEF Covered, HistGrows
    <3>3. ASSUME Self \in DOMAIN WatchMap', WatchMap'[Self].CmdTime = t
          PROVE  WatchMap'[Self].CmdInfo = a
      BY <2>1, <3>1, <3>2, <3>3 DEF Covered
    <3> QED
      BY <3>2, <3>3 DEF Covered
  <2>3. Settled'
    <3>1. CASE SetCmd
      BY <1>3, <1>4, <3>1, SettledBySetCmd
    <3>2. CASE ~SetCmd /\ Self \notin DOMAIN WatchMap'
      <4>1. StatTrue'
        BY <3>2 DEF StatTrue
      <4>2. ~Setting'
        BY <3>2, TypedNext DEF Setting, Typed, ManagerTyped, RecverType, Datagrams, ClientList
      <4> QED
        BY <4>1, <4>2 DEF Settled
    <3>3. CASE ~SetCmd /\ Self \in DOMAIN WatchMap'
      <4>1. CASE WatchMap'[Self].CmdStat = "" /\ ~recver'.listed
        BY <4>1 DEF Settled, Setting, StatTrue
      <4>2. CASE /\ Self \in DOMAIN WatchMap /\ StatSame(WatchMap'[Self], WatchMap[Self])
                 /\ recver' = recver
        BY <1>3, <1>4, <4>2 DEF Settled, Setting, StatTrue, StatSame, HistGrows
      <4>3. CASE /\ Self \in DOMAIN WatchMap /\ StatSame(WatchMap'[Self], WatchMap[Self])
                 /\ recver'.at # "cmd" /\ recver.at = "recv"
        <5>1. ~Setting /\ ~Setting'
          BY <4>3 DEF Setting
        <5> QED
          BY <1>3, <1>4, <4>3, <5>1 DEF Settled, StatTrue, StatSame, HistGrows
      <4>4. CASE /\ Self \in DOMAIN WatchMap /\ StatSame(WatchMap'[Self], WatchMap[Self])
                 /\ SetStat
        <5>1. /\ recver.at = "set"
              /\ recver' = Receiving \/ (recver'.at = "cmd" /\ recver'.d = recver.d)
              /\ recver'.at = "cmd" =>
                   \/ recver.d.msg.proto = "SERVER_START" /\ recver'.left = Cleared
                   \/ /\ recver.d.msg.proto = "CMD_RSP" /\ recver'.left = <<"CmdStat">>
                      /\ recver.d.msg.int = WatchMap[Self].CmdTime
          BY <4>4, SetStatIs
        <5>2. StatTrue /\ StatTrue'
          BY <1>3, <1>4, <4>4, <5>1 DEF Settled, Setting, StatTrue, StatSame, HistGrows
        <5> QED
          <6>1. CASE recver'.at # "cmd"
            BY <5>2, <6>1 DEF Settled, Setting
          <6>2. CASE recver'.at = "cmd"
            BY <4>4, <5>1, <5>2, <6>2, ReceivingTyped DEF Settled, Setting, StatSame
          <6> QED
            BY <6>1, <6>2
      <4> QED
        BY <1>8, <3>3, <4>1, <4>2, <4>3, <4>4, StatKept
    <3> QED
      BY <3>1, <3>2, <3>3
  <2> QED
    BY <1>6, <2>2, <2>3 DEF CommandsCovered
<1> QED
  BY <1>7, <1>8

LEMMA DoneInvInit == ManageInit => DoneInv
<1> SUFFICES ASSUME NEW s \in Scenarios, ReportInit(s.kind, s.boots, s.figures, s.syncs),
                    ManagerInit(s.todo)
             PROVE  DoneInv
  BY DEF ManageInit
<1>1. hist.noted = {} /\ hist.did = {} /\ proc.ReportCmdToken = 0
  BY DEF ReportInit, Down
<1>2. Elems(cmd_ch) = {} /\ down = {} /\ Elems(msg_recv) = {} /\ Elems(msg_send) = {} /\ up = {}
  BY NoElems DEF ReportInit, ManagerInit
<1>3. \A r \in Requests : req[r].at = "idle"
  BY DEF ManagerInit, Idle
<1>4. Settled
  BY ReceivingTyped DEF ManagerInit, ParsedMap, NewStat, ClientList, Settled, Setting, StatTrue
<1>5. ~\E m : Heard(m)
  BY ReceivingTyped DEF ManagerInit, Heard
<1> QED
  BY <1>1, <1>2, <1>3, <1>4, <1>5 DEF DoneInv, NotesInTime, CommandsCovered, AnswersTrue, Live, Answer

\* A "done" on the panel is true, unless two commands met in the server's
\* one slot, were noted in one second, or one was noted while handle_msg set
\* what it made of a report: of all the ways in which the two goroutines of
\* the manager interleave, that is the one that matters.
THEOREM Truth == Spec => []DoneIsDone
<1>1. ManageInit => DoneInv
  BY DoneInvInit
<1>2. Typed /\ DoneInv /\ [Next]_vars => DoneInv'
  BY DoneInvNext
<1>3. DoneInv => DoneIsDone
  BY DEF DoneInv, Calm, Settled, Setting, StatTrue, DoneIsDone, ShownDone, WasDone
<1> QED
  BY <1>1, <1>2, <1>3, Typing, PTL DEF Spec

-----------------------------------------------------------------------------
(* A command is answered at most as often as it was sent: each one sent is *)
(* in one place, or answered, or lost.                                     *)

\* How many elements of a channel are in T.
Places(q, T) == {i \in 1 .. Len(q) : q[i] \in T}
Count(q, T) == Cardinality(Places(q, T))
One(x, T) == IF x \in T THEN 1 ELSE 0

LEMMA CountIs ==
  ASSUME NEW S, NEW q \in Seq(S), NEW T
  PROVE  /\ IsFiniteSet(Places(q, T)) /\ Count(q, T) \in Nat
         /\ \A e \in S : Count(Append(q, e), T) = Count(q, T) + One(e, T)
         /\ q # <<>> => Count(q, T) = Count(Tail(q), T) + One(Head(q), T)
<1>1. ASSUME NEW p \in Seq(S)
      PROVE  IsFiniteSet(Places(p, T)) /\ Count(p, T) \in Nat
  <2>1. IsFiniteSet(1 .. Len(p))
    BY FS_Interval
  <2>2. IsFiniteSet(Places(p, T))
    BY <2>1, FS_Subset DEF Places
  <2> QED
    BY <2>2, FS_CardinalityType DEF Count
<1>2. ASSUME NEW e \in S
      PROVE  Count(Append(q, e), T) = Count(q, T) + One(e, T)
  <2>1. /\ Len(q) \in Nat /\ Len(Append(q, e)) = Len(q) + 1 /\ Append(q, e)[Len(q) + 1] = e
        /\ \A i \in 1 .. Len(q) : Append(q, e)[i] = q[i]
    OBVIOUS
  <2>2. Len(q) + 1 \notin Places(q, T)
    BY <2>1 DEF Places
  <2>3. CASE e \in T
    <3>1. Places(Append(q, e), T) = Places(q, T) \cup {Len(q) + 1}
      BY <2>1, <2>3 DEF Places
    <3> QED
      BY <1>1, <2>2, <2>3, <3>1, FS_AddElement DEF Count, One
  <2>4. CASE e \notin T
    <3>1. Places(Append(q, e), T) = Places(q, T)
      BY <2>1, <2>4 DEF Places
    <3> QED
      BY <1>1, <2>4, <3>1 DEF Count, One
  <2> QED
    BY <2>3, <2>4
<1>3. ASSUME q # <<>>
      PROVE  Count(q, T) = Count(Tail(q), T) + One(Head(q), T)
  <2>1. /\ Len(q) \in Nat /\ Len(q) > 0 /\ Len(Tail(q)) = Len(q) - 1 /\ Head(q) = q[1]
        /\ \A i \in 1 .. Len(q) - 1 : Tail(q)[i] = q[i + 1]
        /\ Tail(q) \in Seq(S)
    BY <1>3
  <2> DEFINE P == Places(Tail(q), T)
             R == {i \in 2 .. Len(q) : q[i] \in T}
             f == [i \in P |-> i + 1]
  <2>2. f \in Bijection(P, R)
    <3>1. \A i \in P : i \in Nat /\ i + 1 \in R
      BY <2>1 DEF Places
    <3>2. f \in [P -> R]
      BY <3>1
    <3>3. \A x, y \in P : f[x] = f[y] => x = y
      BY <3>1
    <3>4. \A y \in R : \E x \in P : f[x] = y
      <4>1. ASSUME NEW y \in R PROVE y - 1 \in P /\ f[y - 1] = y
        BY <2>1 DEF Places
      <4> QED
        BY <4>1
    <3> QED
      BY <3>2, <3>3, <3>4, Fun_IsBij
  <2>3. ExistsBijection(P, R)
    BY <2>2, Fun_ExistsBij
  <2>4. IsFiniteSet(P) /\ Cardinality(P) = Count(Tail(q), T) /\ Cardinality(P) \in Nat
    BY <1>1, <2>1 DEF Count
  <2>5. IsFiniteSet(R) /\ Cardinality(R) = Cardinality(P)
    BY <2>3, <2>4, FS_Bijection
  <2>6. 1 \notin R
    OBVIOUS
  <2>7. CASE Head(q) \in T
    <3>1. Places(q, T) = R \cup {1}
      BY <2>1, <2>7 DEF Places
    <3> QED
      BY <2>4, <2>5, <2>6, <2>7, <3>1, FS_AddElement DEF Count, One
  <2>8. CASE Head(q) \notin T
    <3>1. Places(q, T) = R
      BY <2>1, <2>8 DEF Places
    <3> QED
      BY <2>4, <2>5, <2>8, <3>1 DEF Count, One
  <2> QED
    BY <2>7, <2>8
<1> QED
  BY <1>1, <1>2, <1>3

LEMMA CountNone == \A T : Count(<<>>, T) = 0
<1>1. \A T : Places(<<>>, T) = {}
  BY DEF Places
<1> QED
  BY <1>1, FS_EmptySet DEF Count

\* The places where a command of time t can be, and its answers.
Ordered(t) == Count(cmd_ch, {c \in Orders : c.msg.int = t})
At(D, t) == {m \in D : m.int = t}
Sent(t) == Cardinality(At(down, t))
Arrived(t) == Count(msg_recv, {m \in Commands : m.int = t})
Slot(t) == IF proc.ReportCmdToken = t THEN 1 ELSE 0
AnswersOwed ==
  /\ IsFiniteSet(down)
  /\ \A t \in Time :
       hist.answers[t] + Ordered(t) + Sent(t) + Arrived(t) + Slot(t) <= hist.asked[t]

LEMMA AtIs ==
  ASSUME NEW D, IsFiniteSet(D), NEW t, NEW m
  PROVE  /\ IsFiniteSet(At(D, t)) /\ Cardinality(At(D, t)) \in Nat
         /\ IsFiniteSet(D \cup {m}) /\ IsFiniteSet(D \ {m})
         /\ Cardinality(At(D \cup {m}, t)) <= Cardinality(At(D, t)) + (IF m.int = t THEN 1 ELSE 0)
         /\ m \in D =>
              Cardinality(At(D \ {m}, t)) + (IF m.int = t THEN 1 ELSE 0) = Cardinality(At(D, t))
<1>1. /\ IsFiniteSet(At(D, t)) /\ Cardinality(At(D, t)) \in Nat
  BY FS_Subset, FS_CardinalityType DEF At
<1>2. IsFiniteSet(D \cup {m}) /\ IsFiniteSet(D \ {m})
  BY FS_AddElement, FS_RemoveElement
<1>3. CASE m.int = t
  <2>1. At(D \cup {m}, t) = At(D, t) \cup {m} /\ At(D \ {m}, t) = At(D, t) \ {m}
        /\ (m \in D => m \in At(D, t))
    BY <1>3 DEF At
  <2> QED
    <3>1. Cardinality(At(D, t) \cup {m}) <= Cardinality(At(D, t)) + 1
      BY <1>1, FS_AddElement
    <3>2. m \in D => Cardinality(At(D, t) \ {m}) = Cardinality(At(D, t)) - 1
      BY <1>1, <2>1, FS_RemoveElement
    <3>3. Cardinality(At(D \cup {m}, t)) <= Cardinality(At(D, t)) + 1
      BY <2>1, <3>1
    <3>4. m \in D => Cardinality(At(D \ {m}, t)) + 1 = Cardinality(At(D, t))
      <4> DEFINE n == Cardinality(At(D, t))
                 k == Cardinality(At(D \ {m}, t))
      <4>1. n \in Nat /\ (m \in D => k = n - 1)
        BY <1>1, <2>1, <3>2
      <4> HIDE DEF n, k
      <4>2. m \in D => k + 1 = n
        BY <4>1
      <4> QED
        BY <4>2 DEF n, k
    <3> QED
      BY <1>1, <1>2, <1>3, <3>3, <3>4
<1>4. CASE m.int # t
  <2>1. At(D \cup {m}, t) = At(D, t) /\ At(D \ {m}, t) = At(D, t)
    BY <1>4 DEF At
  <2> QED
    BY <1>1, <1>2, <1>4, <2>1
<1> QED
  BY <1>3, <1>4

\* What is owed, in numbers.
LEMMA OwedTyped ==
  ASSUME Typed, AnswersOwed, NEW t \in Time
  PROVE  /\ hist.answers[t] \in Nat /\ hist.asked[t] \in Nat
         /\ Ordered(t) \in Nat /\ Sent(t) \in Nat /\ Arrived(t) \in Nat /\ Slot(t) \in Nat
         /\ hist.answers[t] + Ordered(t) + Sent(t) + Arrived(t) + Slot(t) <= hist.asked[t]
<1>1. hist.answers[t] \in Nat /\ hist.asked[t] \in Nat
  BY DEF Typed, HistType
<1>2. Ordered(t) \in Nat
  BY CountIs DEF Typed, ManagerTyped, Ordered
<1>3. Arrived(t) \in Nat
  BY CountIs DEF Typed, ServerTyped, Arrived
<1>4. Sent(t) \in Nat
  BY AtIs DEF AnswersOwed, Sent
<1> QED
  BY <1>1, <1>2, <1>3, <1>4 DEF AnswersOwed, Slot

LEMMA SlotKeptIs ==
  ASSUME SlotKept, NEW t \in Time
  PROVE  Slot(t)' <= Slot(t) /\ Slot(t)' \in Nat
<1>1. t # 0
  BY DEF Time
<1> QED
  BY <1>1 DEF SlotKept, Slot

LEMMA RespondsCount ==
  ASSUME Typed, NEW tok \in Time, NEW stat, NEW x, NEW c, Responds(tok, stat, x, c), NEW t \in Time
  PROVE  /\ hist'.asked[t] = hist.asked[t]
         /\ hist'.answers[t] = hist.answers[t] + (IF tok = t THEN 1 ELSE 0)
<1>1. hist.answers \in [Time -> Nat]
  BY DEF Typed, HistType
<1> QED
  BY <1>1 DEF Responds

LEMMA OwedByServer ==
  ASSUME Typed, AnswersOwed, Server, UNCHANGED mgrVars
  PROVE  AnswersOwed'
<1>1. ServerStep /\ UNCHANGED cmd_ch
  BY ServerIs DEF mgrVars
<1>2. /\ msg_recv \in Seq(Commands) /\ IsFiniteSet(down) /\ proc \in ProcType
      /\ proc.ReportCmdToken \in 0 .. MaxTime
  BY DEF Typed, ServerTyped, AnswersOwed, ProcType
<1> DEFINE Goal(t) == hist'.answers[t] + Ordered(t)' + Sent(t)' + Arrived(t)' + Slot(t)' <= hist'.asked[t]
<1>3. CASE Quiet
  <2>1. UNCHANGED <<msg_recv, down, hist, cmd_ch>> /\ SlotKept
    BY <1>1, <1>3 DEF Quiet
  <2>2. ASSUME NEW t \in Time PROVE Goal(t)
    <3>1. Ordered(t)' = Ordered(t) /\ Sent(t)' = Sent(t) /\ Arrived(t)' = Arrived(t)
          /\ hist'.answers[t] = hist.answers[t] /\ hist'.asked[t] = hist.asked[t]
      BY <2>1 DEF Ordered, Sent, Arrived
    <3> QED
      BY <2>1, <3>1, OwedTyped, SlotKeptIs
  <2> QED
    BY <1>2, <2>1, <2>2 DEF AnswersOwed
<1>4. CASE Wiped
  <2>1. msg_recv' = <<>> /\ down' = {} /\ UNCHANGED <<hist, cmd_ch>> /\ SlotKept
    BY <1>1, <1>4 DEF Wiped
  <2>2. ASSUME NEW t \in Time PROVE Goal(t)
    <3>1. Ordered(t)' = Ordered(t)
          /\ hist'.answers[t] = hist.answers[t] /\ hist'.asked[t] = hist.asked[t]
      BY <2>1 DEF Ordered
    <3>2. At(down', t) = {}
      BY <2>1 DEF At
    <3>3. Sent(t)' = 0
      BY <3>2, FS_EmptySet DEF Sent, At
    <3>4. Arrived(t)' = 0
      BY <2>1, CountNone DEF Arrived
    <3> QED
      BY <2>1, <3>1, <3>3, <3>4, OwedTyped, SlotKeptIs
  <2> QED
    BY <2>1, <2>2, FS_EmptySet DEF AnswersOwed
<1>5. CASE Received
  <2>1. PICK m \in down : /\ msg_recv' = Append(msg_recv, m) /\ down' = down \ {m}
                          /\ UNCHANGED <<proc, hist>>
    BY <1>5 DEF Received
  <2>2. m \in Commands
    BY DEF Typed, ServerTyped
  <2>3. ASSUME NEW t \in Time PROVE Goal(t)
    <3>1. Ordered(t)' = Ordered(t) /\ Slot(t)' = Slot(t)
          /\ hist'.answers[t] = hist.answers[t] /\ hist'.asked[t] = hist.asked[t]
      BY <1>1, <2>1 DEF Ordered, Slot
    <3> DEFINE k == IF m.int = t THEN 1 ELSE 0
    <3>2. Sent(t)' + k = Sent(t) /\ Sent(t)' \in Nat
      BY <1>2, <2>1, AtIs DEF Sent
    <3>3. Arrived(t)' = Arrived(t) + k
      <4>1. Arrived(t)' = Arrived(t) + One(m, {x \in Commands : x.int = t})
        BY <1>2, <2>1, <2>2, CountIs DEF Arrived
      <4> QED
        BY <2>2, <4>1 DEF One
    <3> HIDE DEF k
    <3>4. k \in Nat
      BY DEF k
    <3> QED
      BY <3>1, <3>2, <3>3, <3>4, OwedTyped
  <2> QED
    BY <1>2, <2>1, <2>3, AtIs DEF AnswersOwed
<1>6. CASE SlotAnswered
  <2>1. /\ proc.ReportCmdToken > 0 /\ proc'.ReportCmdToken = 0 /\ UNCHANGED <<msg_recv, down>>
        /\ \E stat \in Outcomes :
             Responds(proc.ReportCmdToken, stat, Head(ChInfo).token, proc.ReportCmd)
    BY <1>6 DEF SlotAnswered
  <2>2. proc.ReportCmdToken \in Time
    BY <1>2, <2>1 DEF Time
  <2>3. ASSUME NEW t \in Time PROVE Goal(t)
    <3>1. Ordered(t)' = Ordered(t) /\ Sent(t)' = Sent(t) /\ Arrived(t)' = Arrived(t)
      BY <1>1, <2>1 DEF Ordered, Sent, Arrived
    <3>2. Slot(t)' = 0
      BY <2>1 DEF Slot, Time
    <3>3. /\ hist'.asked[t] = hist.asked[t] /\ hist'.answers[t] = hist.answers[t] + Slot(t)
      BY <2>1, <2>2, RespondsCount DEF Slot
    <3> QED
      BY <3>1, <3>2, <3>3, OwedTyped
  <2> QED
    BY <1>2, <2>1, <2>3 DEF AnswersOwed
<1>7. CASE CmdTaken
  <2> DEFINE m == Head(msg_recv)
  <2>1. msg_recv # <<>> /\ msg_recv' = Tail(msg_recv) /\ UNCHANGED down /\ Taken(m)
    BY <1>7 DEF CmdTaken
  <2>2. m \in Commands
    BY <1>2, <2>1
  <2>3. m.int \in Time
    BY <2>2, CommandIs
  <2>4. ASSUME NEW t \in Time PROVE Goal(t)
    <3> DEFINE k == IF m.int = t THEN 1 ELSE 0
    <3>1. Ordered(t)' = Ordered(t) /\ Sent(t)' = Sent(t)
      BY <1>1, <2>1 DEF Ordered, Sent
    <3>2. Arrived(t) = Arrived(t)' + k
      <4>1. Arrived(t) = Arrived(t)' + One(m, {x \in Commands : x.int = t})
        BY <1>2, <2>1, CountIs DEF Arrived
      <4> QED
        BY <2>2, <4>1 DEF One
    <3>3. Arrived(t)' \in Nat
      <4>1. msg_recv' \in Seq(Commands)
        BY <1>2, <2>1
      <4> QED
        BY <4>1, CountIs DEF Arrived
    <3>4. CASE proc'.ReportCmdToken = m.int /\ UNCHANGED hist
      <4>1. Slot(t)' = k /\ k \in Nat
        BY <3>4 DEF Slot
      <4>2. hist'.asked[t] = hist.asked[t] /\ hist'.answers[t] = hist.answers[t]
        BY <3>4
      <4> HIDE DEF k
      <4> QED
        BY <3>1, <3>2, <3>3, <4>1, <4>2, OwedTyped
    <3>5. CASE SlotKept /\ \E stat \in Outcomes : Responds(m.int, stat, m.int, m.str)
      <4>1. hist'.asked[t] = hist.asked[t] /\ hist'.answers[t] = hist.answers[t] + k
        BY <2>3, <3>5, RespondsCount
      <4>2. Slot(t)' <= Slot(t) /\ Slot(t)' \in Nat
        BY <3>5, SlotKeptIs
      <4>3. k \in Nat
        OBVIOUS
      <4> HIDE DEF k
      <4> QED
        BY <3>1, <3>2, <3>3, <4>1, <4>2, <4>3, OwedTyped
    <3>6. \/ proc'.ReportCmdToken = m.int /\ UNCHANGED hist
          \/ SlotKept /\ \E stat \in Outcomes : Responds(m.int, stat, m.int, m.str)
      BY <2>1 DEF Taken
    <3> QED
      BY <3>4, <3>5, <3>6
  <2> QED
    BY <1>2, <2>1, <2>4 DEF AnswersOwed
<1> QED
  BY <1>1, <1>3, <1>4, <1>5, <1>6, <1>7 DEF ServerStep

LEMMA OwedNext ==
  ASSUME Typed, AnswersOwed, [Next]_vars
  PROVE  AnswersOwed'
<1> DEFINE Goal(t) == hist'.answers[t] + Ordered(t)' + Sent(t)' + Arrived(t)' + Slot(t)' <= hist'.asked[t]
<1>1. IsFiniteSet(down) /\ cmd_ch \in Seq(Orders)
  BY DEF AnswersOwed, Typed, ManagerTyped
<1>2. CASE Apart
  BY <1>2 DEF Apart, AnswersOwed, Ordered, Sent, Arrived, Slot
<1>3. CASE SendCmd
  <2> DEFINE c == Head(cmd_ch)
  <2>1. /\ cmd_ch # <<>> /\ cmd_ch' = Tail(cmd_ch)
        /\ down' = down \/ down' = down \cup {c.msg}
        /\ UNCHANGED <<proc, msg_recv, hist>>
    BY <1>3, SendCmdIs
  <2>2. c \in Orders /\ cmd_ch' \in Seq(Orders)
    BY <1>1, <2>1
  <2>3. ASSUME NEW t \in Time PROVE Goal(t)
    <3> DEFINE k == IF c.msg.int = t THEN 1 ELSE 0
    <3>1. Arrived(t)' = Arrived(t) /\ Slot(t)' = Slot(t)
          /\ hist'.answers[t] = hist.answers[t] /\ hist'.asked[t] = hist.asked[t]
      BY <2>1 DEF Arrived, Slot
    <3>2. Ordered(t) = Ordered(t)' + k
      <4>1. Ordered(t) = Ordered(t)' + One(c, {x \in Orders : x.msg.int = t})
        BY <1>1, <2>1, CountIs DEF Ordered
      <4> QED
        BY <2>2, <4>1 DEF One
    <3>3. Ordered(t)' \in Nat /\ k \in Nat
      BY <2>2, CountIs DEF Ordered
    <3>4. Sent(t)' <= Sent(t) + k /\ Sent(t)' \in Nat
      <4>1. CASE down' = down
        BY <3>3, <4>1, OwedTyped DEF Sent
      <4>2. CASE down' = down \cup {c.msg}
        <5>1. /\ Cardinality(At(down \cup {c.msg}, t)) <= Cardinality(At(down, t)) + k
              /\ IsFiniteSet(down \cup {c.msg})
          BY <1>1, AtIs
        <5>2. Cardinality(At(down \cup {c.msg}, t)) \in Nat
          BY <5>1, AtIs
        <5> QED
          BY <4>2, <5>1, <5>2 DEF Sent
      <4> QED
        BY <2>1, <4>1, <4>2
    <3> HIDE DEF k
    <3> QED
      BY <3>1, <3>2, <3>3, <3>4, OwedTyped
  <2> QED
    BY <1>1, <2>1, <2>3, AtIs DEF AnswersOwed
<1>4. ASSUME NEW r \in Requests, Notes(r)
      PROVE  AnswersOwed'
  <2>1. /\ hist'.asked = hist.asked /\ hist'.answers = hist.answers
        /\ UNCHANGED <<proc, msg_recv, down, cmd_ch>>
    BY <1>4, NotesIs
  <2> QED
    BY <2>1 DEF AnswersOwed, Ordered, Sent, Arrived, Slot
<1>5. ASSUME NEW r \in Requests, report_cmd(r)
      PROVE  AnswersOwed'
  <2>1. /\ req[r].ts \in Time /\ hist'.answers = hist.answers
        /\ UNCHANGED <<proc, msg_recv, down>>
        /\ \/ UNCHANGED <<cmd_ch, hist>>
           \/ /\ hist'.asked = [hist.asked EXCEPT ![req[r].ts] = @ + 1]
              /\ \E c \in Orders : c.msg.int = req[r].ts /\ cmd_ch' = Append(cmd_ch, c)
    BY <1>5, report_cmdIs
  <2>2. CASE UNCHANGED <<cmd_ch, hist>>
    BY <2>1, <2>2 DEF AnswersOwed, Ordered, Sent, Arrived, Slot
  <2>3. CASE hist'.asked = [hist.asked EXCEPT ![req[r].ts] = @ + 1]
    <3>1. CASE UNCHANGED <<cmd_ch, hist>>
      BY <2>2, <3>1
    <3>2. ASSUME NEW c \in Orders, c.msg.int = req[r].ts, cmd_ch' = Append(cmd_ch, c)
          PROVE  AnswersOwed'
      <4>1. ASSUME NEW t \in Time PROVE Goal(t)
        <5> DEFINE k == IF req[r].ts = t THEN 1 ELSE 0
        <5>1. Sent(t)' = Sent(t) /\ Arrived(t)' = Arrived(t) /\ Slot(t)' = Slot(t)
              /\ hist'.answers[t] = hist.answers[t]
          BY <2>1 DEF Sent, Arrived, Slot
        <5>2. hist'.asked[t] = hist.asked[t] + k
          BY <2>1, <2>3 DEF Typed, HistType
        <5>3. Ordered(t)' = Ordered(t) + k
          <6>1. Ordered(t)' = Ordered(t) + One(c, {x \in Orders : x.msg.int = t})
            BY <1>1, <3>2, CountIs DEF Ordered
          <6> QED
            BY <3>2, <6>1 DEF One
        <5>4. k \in Nat
          OBVIOUS
        <5> HIDE DEF k
        <5> QED
          BY <5>1, <5>2, <5>3, <5>4, OwedTyped
      <4> QED
        BY <1>1, <2>1, <4>1 DEF AnswersOwed
    <3> QED
      BY <2>1, <3>1, <3>2
  <2> QED
    BY <2>1, <2>2, <2>3
<1>6. CASE Server /\ UNCHANGED mgrVars
  BY <1>6, OwedByServer
<1> QED
  BY <1>2, <1>3, <1>4, <1>5, <1>6, StepIs

LEMMA OwedInit == ManageInit => AnswersOwed
<1> SUFFICES ASSUME NEW s \in Scenarios, ReportInit(s.kind, s.boots, s.figures, s.syncs),
                    ManagerInit(s.todo)
             PROVE  AnswersOwed
  BY DEF ManageInit
<1>1. /\ cmd_ch = <<>> /\ msg_recv = <<>> /\ down = {} /\ proc.ReportCmdToken = 0
      /\ \A t \in Time : hist.answers[t] = 0 /\ hist.asked[t] = 0
  BY DEF ReportInit, ManagerInit, Down, Time
<1>2. ASSUME NEW t \in Time PROVE Sent(t) = 0 /\ Ordered(t) = 0 /\ Arrived(t) = 0 /\ Slot(t) = 0
  <2>1. At(down, t) = {}
    BY <1>1 DEF At
  <2>2. Sent(t) = 0
    BY <2>1, FS_EmptySet DEF Sent
  <2>3. Ordered(t) = 0 /\ Arrived(t) = 0
    BY <1>1, CountNone DEF Ordered, Arrived
  <2>4. Slot(t) = 0
    BY <1>1 DEF Slot, Time
  <2> QED
    BY <2>2, <2>3, <2>4
<1> QED
  BY <1>1, <1>2, FS_EmptySet DEF AnswersOwed

\* No command is answered more often than it was sent, whatever is lost,
\* restarted or signalled between: one that was sent is in cmd_ch, under way,
\* in msg_recv, in the slot of the server, or answered, and in one of these
\* only.
THEOREM Answers == Spec => []OneAnswer
<1>1. ManageInit => AnswersOwed
  BY OwedInit
<1>2. Typed /\ AnswersOwed /\ [Next]_vars => AnswersOwed'
  BY OwedNext
<1>3. Typed /\ AnswersOwed => OneAnswer
  <2> SUFFICES ASSUME Typed, AnswersOwed, NEW t \in Time
               PROVE  hist.answers[t] <= hist.asked[t]
    BY DEF OneAnswer, Time
  <2> QED
    BY OwedTyped
<1> QED
  BY <1>1, <1>2, <1>3, Typing, PTL DEF Spec
=============================================================================
