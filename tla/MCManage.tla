------------------------------ MODULE MCManage ------------------------------
(* Instances of Manage for TLC: commands, alone and with what can cross     *)
(* them; a restart; a reload of the manager and a process it does not know. *)
EXTENDS Manage

Cmd(c) == [op |-> "cmd", arg |-> c]
Login == [op |-> "login", arg |-> ""]
Detail(p) == [op |-> "detail", arg |-> p]
Plan(kind, boots, figures, syncs, requests, signals, reloads, strangers) ==
  [kind |-> kind, boots |-> boots, figures |-> figures, syncs |-> syncs,
   todo |-> [requests |-> requests, signals |-> signals, reloads |-> reloads,
             strangers |-> strangers]]
MCScenarios ==
  {Plan("conn", 1, 0, FALSE, <<Login, Cmd("reload_cfg"), Cmd("log_level")>>, <<>>, 0, 0),
   Plan("db", 1, 0, FALSE, <<Login, Cmd("start_gprof")>>, <<"SIGUSR1", "SIGTERM">>, 0, 0),
   Plan("disp", 2, 0, TRUE, <<>>, <<"SIGINT">>, 0, 0),
   Plan("conn", 2, 0, FALSE, <<Login, Cmd("stop_server")>>, <<>>, 0, 0),
   Plan("logic", 1, 0, FALSE, <<Cmd("no_cmd"), Login, Cmd("reload_table")>>, <<"SIGUSR2">>, 0, 0),
   Plan("logic", 1, 0, FALSE, <<Login, Cmd("end_gprof")>>, <<>>, 0, 0),
   Plan("conn", 1, 1, TRUE, <<>>, <<>>, 0, 0),
   Plan("db", 1, 1, TRUE, <<>>, <<>>, 0, 0),
   Plan("logic", 1, 1, TRUE, <<>>, <<>>, 0, 0),
   Plan("disp", 1, 0, FALSE, <<Login, Cmd("reload_table"), Detail("p")>>, <<>>, 0, 1),
   Plan("disp", 1, 1, FALSE, <<Login, Detail("q")>>, <<>>, 0, 0),
   Plan("disp", 1, 0, FALSE, <<Login, Cmd("reload_table")>>, <<>>, 1, 0)}
=============================================================================
