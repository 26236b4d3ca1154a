----------------------------- MODULE LogicServ -----------------------------
(***************************************************************************)
(* logic_serv: the users it has online and the handlers of its main loop.  *)
(* user_map[l][u] is the blob_info version the session of u was loaded     *)
(* with; a session always changes it (LastLoginTs, LastLogoutTs).          *)
(***************************************************************************)
EXTENDS SsProto

CONSTANTS
  Off,        \* u is not in the user_map
  MayStop     \* the logic_serv that may be shut down or crash

ASSUME LogicConstantsOK == Off \notin Ver /\ MayStop \subseteq Group

VARIABLES
  user_map,     \* [Group -> [Uid -> Ver \cup {Off}]]
  curr_online,  \* [Group -> Nat]
  stat          \* [Group -> {"run", "exiting", "down"}]

logicVars == <<user_map, curr_online, stat>>

LogicTypeOK ==
  /\ user_map \in [Group -> [Uid -> Ver \cup {Off}]]
  /\ curr_online \in [Group -> Nat]
  /\ stat \in [Group -> {"run", "exiting", "down"}]

LogicInit ==
  /\ user_map = [g \in Group |-> [u \in Uid |-> Off]]
  /\ curr_online = [g \in Group |-> 0]
  /\ stat = [g \in Group |-> "run"]

OnlineAt(l) == {u \in Uid : user_map[l][u] # Off}

-----------------------------------------------------------------------------
(* Variants of UserLogout a slip could have left: a user who is not here   *)
(* is nobody's business; the delete from user_map is forgotten.            *)
UserLogoutOnlyHere(l, u, reason) ==
  IF user_map[l][u] = Off
  THEN UNCHANGED <<user_map, curr_online, logic2db>>
  ELSE /\ logic2db' = Send(logic2db, l,
                       SaveReq(u, reason, NextVer(user_map[l][u])))
       /\ user_map' = [user_map EXCEPT ![l][u] = Off]
       /\ curr_online' = [curr_online EXCEPT ![l] = IF @ > 0 THEN @ - 1 ELSE 0]
UserLogoutKeeps(l, u, reason) ==
  /\ logic2db' = Send(logic2db, l,
                  IF user_map[l][u] = Off
                  THEN SaveReq(u, "OFFLINE_USER", NoInfo)
                  ELSE SaveReq(u, reason, NextVer(user_map[l][u])))
  /\ UNCHANGED <<user_map, curr_online>>

(* UserLogout: tell db_serv, then forget the user.  A user who is not      *)
(* here is logged out in off-mode, which only resets online_logic.         *)
UserLogout(l, u, reason) ==
  IF user_map[l][u] = Off
  THEN /\ logic2db' = Send(logic2db, l, SaveReq(u, "OFFLINE_USER", NoInfo))
       /\ UNCHANGED <<user_map, curr_online>>
  ELSE /\ logic2db' = Send(logic2db, l,
                       SaveReq(u, reason, NextVer(user_map[l][u])))
       /\ user_map' = [user_map EXCEPT ![l][u] = Off]
       /\ curr_online' = [curr_online EXCEPT ![l] = IF @ > 0 THEN @ - 1 ELSE 0]

(* LOGIN_REQ from conn_serv goes to db_serv as it is. *)
LogicRecvLoginReq(l) ==
  /\ stat[l] = "run"
  /\ Pending(conn2logic, l, "LOGIN_REQ")
  /\ logic2db' = Send(logic2db, l, Head(conn2logic[l]))
  /\ conn2logic' = Recv(conn2logic, l)
  /\ UNCHANGED <<logicVars, logic2conn, db2logic, logic2disp, disp2logic>>

(* LOGOUT_REQ from conn_serv.  A closed connection leaves the user online, *)
(* to wait for the reconnect.                                              *)
LogicRecvLogoutReq(l) ==
  /\ stat[l] = "run"
  /\ Pending(conn2logic, l, "LOGOUT_REQ")
  /\ LET m == Head(conn2logic[l])
     IN  IF m.reason = "CONN_CLOSED"
         THEN UNCHANGED <<user_map, curr_online, logic2db, logic2conn>>
         ELSE /\ UserLogout(l, m.uid, m.reason)
              /\ logic2conn' = Send(logic2conn, l, LogoutRsp(m.uid, m.reason))
  /\ conn2logic' = Recv(conn2logic, l)
  /\ UNCHANGED <<stat, db2logic, logic2disp, disp2logic>>

(* SUCCESS takes the user online, unless he is already. *)
TakesAgain(l, m) == m.result = "SUCCESS"
Takes(l, m) == m.result = "SUCCESS" /\ user_map[l][m.uid] = Off

(* MULTI_ON kicks the user at the other logic, if the answer names it. *)
Kicks(m) == m.result = "MULTI_ON" /\ m.uid # NoUid

(* LOGIN_RSP from db_serv.  Every answer goes on to conn_serv. *)
LogicRecvLoginRsp(l) ==
  /\ stat[l] = "run"
  /\ db2logic[l] # <<>>
  /\ LET m == Head(db2logic[l])
     IN  /\ IF Takes(l, m)
            THEN /\ user_map' = [user_map EXCEPT ![l][m.uid] = m.blob]
                 /\ curr_online' = [curr_online EXCEPT ![l] = @ + 1]
            ELSE UNCHANGED <<user_map, curr_online>>
         /\ logic2disp' = IF Kicks(m)
                          THEN Send(logic2disp, l, KickMsg(m.online, m.uid))
                          ELSE logic2disp
         /\ logic2conn' = Send(logic2conn, l, m)
  /\ db2logic' = Recv(db2logic, l)
  /\ UNCHANGED <<stat, conn2logic, logic2db, disp2logic>>

(* KICK_DUPLICATE_USER relayed by disp_serv. *)
RecvDupUserKick(l) ==
  /\ stat[l] = "run"
  /\ disp2logic[l] # <<>>
  /\ LET u == Head(disp2logic[l]).uid
     IN  /\ UserLogout(l, u, "KICK_RECONN")
         /\ logic2conn' = Send(logic2conn, l, LogoutRsp(u, "KICK_RECONN"))
  /\ disp2logic' = Recv(disp2logic, l)
  /\ UNCHANGED <<stat, conn2logic, db2logic, logic2disp>>

(* CheckClientTimeout finds u's hearbeat too old.  A tick that finds       *)
(* several users is as many of these steps: db_serv may take the first     *)
(* user's message before the last user's is sent.                          *)
CheckClientTimeout(l, u) ==
  /\ stat[l] = "run"
  /\ user_map[l][u] # Off
  /\ UserLogout(l, u, "CLIENT_TIMEOUT")
  /\ logic2conn' = Send(logic2conn, l, LogoutRsp(u, "CLIENT_TIMEOUT"))
  /\ UNCHANGED <<stat, conn2logic, db2logic, logic2disp, disp2logic>>

-----------------------------------------------------------------------------
(* The process ends: what it had in memory is gone, the rings are not. *)
Stop(l) ==
  /\ stat' = [stat EXCEPT ![l] = "down"]
  /\ user_map' = [user_map EXCEPT ![l] = [u \in Uid |-> Off]]
  /\ curr_online' = [curr_online EXCEPT ![l] = 0]

(* INFO_EXIT: ServerExit saves the roles one by one, if the count says     *)
(* there are any; messages that come meanwhile wait in the shared memory.  *)
ServerExit(l) ==
  /\ l \in MayStop
  /\ stat[l] = "run"
  /\ IF curr_online[l] <= 0
     THEN Stop(l)
     ELSE /\ stat' = [stat EXCEPT ![l] = "exiting"]
          /\ UNCHANGED <<user_map, curr_online>>
  /\ UNCHANGED channels

SaveRoleOnExit(l, u) ==
  /\ stat[l] = "exiting"
  /\ user_map[l][u] # Off
  /\ UserLogout(l, u, "SERVER_SHUT")
  /\ logic2conn' = Send(logic2conn, l, LogoutRsp(u, "SERVER_SHUT"))
  /\ UNCHANGED <<stat, conn2logic, db2logic, logic2disp, disp2logic>>

Exited(l) ==
  /\ stat[l] = "exiting"
  /\ OnlineAt(l) = {}
  /\ Stop(l)
  /\ UNCHANGED channels

(* Killed at any moment. *)
LogicCrash(l) ==
  /\ l \in MayStop
  /\ stat[l] \in {"run", "exiting"}
  /\ Stop(l)
  /\ UNCHANGED channels

(* LocalSet of the next incarnation starts with no user. *)
LogicStart(l) ==
  /\ stat[l] = "down"
  /\ stat' = [stat EXCEPT ![l] = "run"]
  /\ UNCHANGED <<user_map, curr_online, channels>>
=============================================================================
