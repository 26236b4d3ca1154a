------------------------------ MODULE Session ------------------------------
(***************************************************************************)
(* The login sessions of the whole system: every conn_serv, logic_serv and *)
(* db_serv, redis and disp_serv, joined by their channels.                 *)
(***************************************************************************)
EXTENDS ConnServ, LogicServ, DbServ, DispServ

CONSTANTS
  MaxLoad,   \* bound: messages and goroutines under way when more work starts
  Separate   \* assume logins and logouts of one user never overlap, and a
             \* lock lapses only when nothing of the user is under way

ASSUME SessionConstantsOK == MaxLoad \in Nat /\ Separate \in BOOLEAN

vars == <<connVars, logicVars, dbVars, channels>>

Init ==
  /\ ConnInit
  /\ LogicInit
  /\ DbInit
  /\ ChannelsInit

(* Some map, message or goroutine still names connection k. *)
KeyInUse(k) ==
  \/ ckey2uid[k] # NoUid
  \/ \E u \in Uid : uid2ckey[ConnOf[k]][u] = k
  \/ \E s \in Slot : proc[s].pc \in {"pass", "info", "online"}
                     /\ proc[s].key = k
  \/ \E ch \in {conn2logic, logic2conn, logic2db, db2logic} :
       \E i \in DOMAIN ch[ConnOf[k]] :
          /\ ch[ConnOf[k]][i].type \in {"LOGIN_REQ", "LOGIN_RSP"}
          /\ ch[ConnOf[k]][i].key = k

(* Work under way.  New work, which clients and clocks start, waits for    *)
(* room: a bound on how much happens at once, not on how long it goes on.  *)
InChannels(ch) ==
  Cardinality({at \in Group \X (1 .. ChanCap) : at[2] <= Len(ch[at[1]])})
Load ==
  InChannels(conn2logic) + InChannels(logic2conn) + InChannels(logic2db)
  + InChannels(db2logic) + InChannels(logic2disp) + InChannels(disp2logic)
  + Cardinality({s \in Slot : proc[s] # Idle})
Room == Load < MaxLoad

Named(ch, types, u) ==
  \E g \in Group : \E i \in DOMAIN ch[g] :
     ch[g][i].type \in types /\ ch[g][i].uid = u

(* A login of u is between its client's package and the answer to it. *)
LoginUnderWay(u) ==
  \/ \E s \in Slot : proc[s].pc \in {"pass", "info", "online"}
                     /\ proc[s].uid = u
  \/ \E ch \in {conn2logic, logic2db, db2logic, logic2conn} :
       Named(ch, {"LOGIN_REQ", "LOGIN_RSP"}, u)

(* A logout or a kick of u has not reached redis and the connection yet. *)
LogoutUnderWay(u) ==
  \/ \E s \in Slot : proc[s].pc = "save" /\ proc[s].uid = u
  \/ \E ch \in {conn2logic, logic2db, logic2conn} :
       Named(ch, {"LOGOUT_REQ", "LOGOUT_RSP"}, u)
  \/ \E ch \in {logic2disp, disp2logic} : \E g \in Group :
       \E i \in DOMAIN ch[g] : ch[g][i].uid = u

MayLogin(u) == Separate => ~LogoutUnderWay(u)
MayLogout(u) == Separate => ~LoginUnderWay(u)
MayLapse(u) == Separate => ~LoginUnderWay(u) /\ ~LogoutUnderWay(u)

ConnNext ==
  \/ \E k \in Key, u \in Uid : Room /\ MayLogin(u) /\ ClientLogin(k, u)
  \/ \E k \in Key : Room /\ MayLogout(ckey2uid[k]) /\ ClientLogout(k)
  \/ \E k \in Key : Room /\ ConnClosed(k)
  \/ \E k \in Key : ServerClosed(k)
  \/ \E k \in Key : Accept(k, KeyInUse(k))
  \/ \E g \in Group : ConnRecvLoginRsp(g)
  \/ \E g \in Group : ConnRecvLogoutRsp(g)

LogicNext ==
  \/ \E l \in Group : LogicRecvLoginReq(l)
  \/ \E l \in Group : LogicRecvLogoutReq(l)
  \/ \E l \in Group : LogicRecvLoginRsp(l)
  \/ \E l \in Group : RecvDupUserKick(l)
  \/ \E l \in Group, u \in Uid : Room /\ MayLogout(u) /\ CheckClientTimeout(l, u)
  \/ \E l \in Group : ServerExit(l)
  \/ \E l \in Group, u \in Uid : MayLogout(u) /\ SaveRoleOnExit(l, u)
  \/ \E l \in Group : Exited(l)
  \/ \E l \in Group : LogicCrash(l)
  \/ \E l \in Group : LogicStart(l)

DbNext ==
  \/ \E g \in Group, s \in Slot : RecvUserLoginReq(g, s)
  \/ \E g \in Group, s \in Slot : RecvUserLogoutReq(g, s)
  \/ \E s \in Slot : CheckPassFails(s)
  \/ \E s \in Slot : LoginLock(s)
  \/ \E s \in Slot : LoginGetInfo(s)
  \/ \E s \in Slot : LoginUpdateOnline(s)
  \/ \E s \in Slot : UpdateReplyLost(s)
  \/ \E s \in Slot : LogoutSave(s)
  \/ \E s \in Slot : RedisError(s)
  \/ \E u \in Uid : MayLapse(u) /\ LockExpire(u)

DispNext == \E g \in Group : RecvDispMsg(g)

Next ==
  \/ ConnNext /\ UNCHANGED <<logicVars, dbVars>>
  \/ LogicNext /\ UNCHANGED <<connVars, dbVars>>
  \/ DbNext /\ UNCHANGED <<connVars, logicVars>>
  \/ DispNext /\ UNCHANGED <<connVars, logicVars, dbVars>>

Spec == Init /\ [][Next]_vars

(* What keeps running: the main loops take the messages that have come and *)
(* end the work they began, goroutines go on to the next command, redis    *)
(* drops old locks, a dead logic_serv is started again, and hearbeat, which *)
(* nothing refreshes after the login, does become too old.  A client with  *)
(* no user asks again; a client that was cut off connects again.  Guarded  *)
(* by Room, what clients and clocks do is enabled only from time to time.  *)
LoopFairness ==
  \A g \in Group :
     /\ WF_vars(ConnRecvLoginRsp(g) /\ UNCHANGED <<logicVars, dbVars>>)
     /\ WF_vars(ConnRecvLogoutRsp(g) /\ UNCHANGED <<logicVars, dbVars>>)
     /\ WF_vars(LogicRecvLoginReq(g) /\ UNCHANGED <<connVars, dbVars>>)
     /\ WF_vars(LogicRecvLogoutReq(g) /\ UNCHANGED <<connVars, dbVars>>)
     /\ WF_vars(LogicRecvLoginRsp(g) /\ UNCHANGED <<connVars, dbVars>>)
     /\ WF_vars(RecvDupUserKick(g) /\ UNCHANGED <<connVars, dbVars>>)
     /\ WF_vars(LogicStart(g) /\ UNCHANGED <<connVars, dbVars>>)
     /\ WF_vars(\E u \in Uid : /\ MayLogout(u) /\ SaveRoleOnExit(g, u)
                               /\ UNCHANGED <<connVars, dbVars>>)
     /\ WF_vars(Exited(g) /\ UNCHANGED <<connVars, dbVars>>)
     /\ WF_vars(RecvDispMsg(g) /\ UNCHANGED <<connVars, logicVars, dbVars>>)
     /\ SF_vars(\E s \in Slot : /\ RecvUserLoginReq(g, s)
                                /\ UNCHANGED <<connVars, logicVars>>)
     /\ SF_vars(\E s \in Slot : /\ RecvUserLogoutReq(g, s)
                                /\ UNCHANGED <<connVars, logicVars>>)

RedisFairness ==
  /\ \A s \in Slot : WF_vars(/\ \/ CheckPassFails(s) \/ LoginLock(s)
                                 \/ LoginGetInfo(s) \/ LoginUpdateOnline(s)
                                 \/ LogoutSave(s)
                              /\ UNCHANGED <<connVars, logicVars>>)
  /\ \A u \in Uid : WF_vars(/\ MayLapse(u) /\ LockExpire(u)
                             /\ UNCHANGED <<connVars, logicVars>>)

ClientFairness ==
  /\ SF_vars(\E k \in Key, u \in Uid :
                /\ Room /\ MayLogin(u) /\ ckey2uid[k] = NoUid
                /\ tcp[k] = "up" /\ ClientLogin(k, u)
                /\ UNCHANGED <<logicVars, dbVars>>)
  /\ \A k \in Key : WF_vars(ServerClosed(k) /\ UNCHANGED <<logicVars, dbVars>>)
  /\ SF_vars(\E k \in Key : /\ Accept(k, KeyInUse(k))
                            /\ UNCHANGED <<logicVars, dbVars>>)
  /\ SF_vars(\E l \in Group, u \in Uid :
                /\ Room /\ MayLogout(u) /\ CheckClientTimeout(l, u)
                /\ UNCHANGED <<connVars, dbVars>>)

Fairness == LoopFairness /\ RedisFairness /\ ClientFairness

-----------------------------------------------------------------------------
TypeOK == ConnTypeOK /\ LogicTypeOK /\ DbTypeOK /\ ChannelsOK

(* A connection is bound only to a user whose password its client gave:    *)
(* no login answer reaches another connection, whatever crosses on the way *)
(* through logic_serv, db_serv and back (RecvLoginRsp of conn_serv).       *)
BindingIsAuthentic ==
  \A k \in Key : ckey2uid[k] # NoUid => ckey2uid[k] \in Knows[k]

(* No two connections of one conn_serv are bound to the same user, and the *)
(* reverse map leads from a user to the connection bound to him (the check *)
(* for multi-clients in RecvLoginRsp of conn_serv).                        *)
OneClientPerUser ==
  \A k \in Key : ckey2uid[k] # NoUid => uid2ckey[ConnOf[k]][ckey2uid[k]] = k

(* curr_online, which ServerExit relies on to save the roles, counts the   *)
(* user_map through reconnects, kicks, timeouts and restarts.              *)
OnlineCount == \A l \in Group : curr_online[l] = Cardinality(OnlineAt(l))

(* The login lock does its work: two goroutines, of any db_serv, are never *)
(* both between the lock and the update of one user's online_logic.        *)
LoginExclusive ==
  \A s, t \in Slot, u \in Uid : InLogin(s, u) /\ InLogin(t, u) => s = t

(* online_logic never goes from one logic_serv straight to another: the    *)
(* user is kicked and saved there first (user_login_get_info).             *)
NoSteal ==
  [][\A u \in Uid : online'[u] # online[u] =>
                       NoGroup \in {online[u], online'[u]}]_online

(* A user held by a logic_serv his client is not connected to, one that    *)
(* kicks him or one that died without saving him, is not locked out: the   *)
(* lock lapses, the kick frees him, and a client that keeps asking is let  *)
(* in again and again, once clients stay connected and processes stay up.  *)
Settled ==
  /\ \A k \in Key : ~ConnClosed(k)
  /\ \A l \in Group : stat'[l] # "run" => stat[l] # "run"
KickedThenLetIn ==
  <>[][Settled]_vars =>
     \A u \in Uid : []<>(\E k \in Key : tcp[k] = "up" /\ ckey2uid[k] = u)

(* A user is online at no more than one logic_serv.                        *)
OneHome ==
  \A u \in Uid : \A l, m \in Group :
     user_map[l][u] # Off /\ user_map[m][u] # Off => l = m

(* The session of an online user was loaded with what redis still has: no  *)
(* save of another session came after the load, none will be overwritten.  *)
OwnSave ==
  \A l \in Group, u \in Uid : user_map[l][u] # Off => user_map[l][u] = blob[u]
=============================================================================
