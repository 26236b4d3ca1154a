------------------------------ MODULE SsProto ------------------------------
(***************************************************************************)
(* Server-to-server messages of the login protocol and the proc_bridge     *)
(* channels that carry them.                                               *)
(*                                                                         *)
(* A group is one conn_serv, one logic_serv and one db_serv configured to  *)
(* talk to each other; the groups share redis and reach each other through *)
(* disp_serv.  A channel is the pair of shared-memory rings between two    *)
(* processes: it is FIFO, and a send that finds it full fails, is logged   *)
(* by SendToServ and loses the message.                                    *)
(***************************************************************************)
EXTENDS Naturals, Sequences, FiniteSets

CONSTANTS
  Group,      \* the groups
  Key,        \* client keys of tcp_serv, one per accepted connection
  Uid,        \* registered users; an account name stands for its uid
  ConnOf,     \* ConnOf[k]: the group whose conn_serv accepted connection k
  Knows,      \* Knows[k]: users whose password the client behind k has
  NoUid,      \* no user
  NoKey,      \* no connection
  NoGroup,    \* online_logic = -1
  NoInfo,     \* a LOGOUT_REQ without UserInfo
  Versions,   \* distinct contents of a user's blob_info (taken modulo)
  ChanCap     \* messages a channel holds

ASSUME ConstantsOK ==
  /\ ConnOf \in [Key -> Group]
  /\ Knows \in [Key -> SUBSET Uid]
  /\ NoUid \notin Uid
  /\ NoKey \notin Key
  /\ NoGroup \notin Group
  /\ Versions \in Nat \ {0}
  /\ NoInfo \notin 0 .. (Versions - 1)
  /\ ChanCap \in Nat \ {0}

VARIABLES
  conn2logic,   \* [Group -> Seq]: conn_serv to its logic_serv
  logic2conn,   \* [Group -> Seq]: logic_serv to its conn_serv
  logic2db,     \* [Group -> Seq]: logic_serv to its db_serv
  db2logic,     \* [Group -> Seq]: db_serv to its logic_serv
  logic2disp,   \* [Group -> Seq]: logic_serv to disp_serv
  disp2logic    \* [Group -> Seq]: disp_serv to a logic_serv

channels ==
  <<conn2logic, logic2conn, logic2db, db2logic, logic2disp, disp2logic>>

-----------------------------------------------------------------------------
Ver == 0 .. (Versions - 1)
NextVer(v) == (v + 1) % Versions

Result == {"SUCCESS", "PASS", "MULTI_ON"}
Reason == {"CLIENT_EXIT", "CONN_CLOSED", "KICK_RECONN", "CLIENT_TIMEOUT",
           "OFFLINE_USER", "SERVER_SHUT"}

LoginReq(k, u) == [type |-> "LOGIN_REQ", key |-> k, uid |-> u]
LoginReqs == [type : {"LOGIN_REQ"}, key : Key, uid : Uid]

LogoutReq(u, r) == [type |-> "LOGOUT_REQ", uid |-> u, reason |-> r]
LogoutReqs == [type : {"LOGOUT_REQ"}, uid : Uid, reason : Reason]

(* To db_serv: info is the content of UserInfo, if there is one. *)
SaveReq(u, r, i) ==
  [type |-> "LOGOUT_REQ", uid |-> u, reason |-> r, info |-> i]
SaveReqs == [type : {"LOGOUT_REQ"}, uid : Uid, reason : Reason,
             info : Ver \cup {NoInfo}]

(* uid and online are left out by db_serv in some answers. *)
LoginRsp(k, u, r, b, o) ==
  [type |-> "LOGIN_RSP", key |-> k, uid |-> u, result |-> r, blob |-> b,
   online |-> o]
LoginRsps ==
  {m \in [type : {"LOGIN_RSP"}, key : Key, uid : Uid \cup {NoUid},
          result : Result, blob : Ver, online : Group \cup {NoGroup}] :
     /\ m.result = "SUCCESS" => m.uid # NoUid
     /\ m.uid # NoUid /\ m.result = "MULTI_ON" => m.online # NoGroup}

LogoutRsp(u, r) == [type |-> "LOGOUT_RSP", uid |-> u, reason |-> r]
LogoutRsps == [type : {"LOGOUT_RSP"}, uid : Uid, reason : Reason]

KickMsg(l, u) == [to |-> l, uid |-> u]
KickMsgs == [to : Group, uid : Uid]

-----------------------------------------------------------------------------
(* proc.Send into a ring: a full ring refuses, the caller drops. *)
Offer(q, m) == IF Len(q) < ChanCap THEN Append(q, m) ELSE q

Send(ch, g, m) == [ch EXCEPT ![g] = Offer(@, m)]
Recv(ch, g) == [ch EXCEPT ![g] = Tail(@)]

(* The next message of type t on channel ch of group g. *)
Pending(ch, g, t) == ch[g] # <<>> /\ Head(ch[g]).type = t

ChannelsOK ==
  /\ conn2logic \in [Group -> Seq(LoginReqs \cup LogoutReqs)]
  /\ logic2conn \in [Group -> Seq(LoginRsps \cup LogoutRsps)]
  /\ logic2db \in [Group -> Seq(LoginReqs \cup SaveReqs)]
  /\ db2logic \in [Group -> Seq(LoginRsps)]
  /\ logic2disp \in [Group -> Seq(KickMsgs)]
  /\ disp2logic \in [Group -> Seq(KickMsgs)]

ChannelsInit ==
  /\ conn2logic = [g \in Group |-> <<>>]
  /\ logic2conn = [g \in Group |-> <<>>]
  /\ logic2db = [g \in Group |-> <<>>]
  /\ db2logic = [g \in Group |-> <<>>]
  /\ logic2disp = [g \in Group |-> <<>>]
  /\ disp2logic = [g \in Group |-> <<>>]
=============================================================================
