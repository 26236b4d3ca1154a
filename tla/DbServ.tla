------------------------------- MODULE DbServ -------------------------------
(***************************************************************************)
(* db_serv and the users it keeps in redis.  The main loop starts a        *)
(* goroutine for each request; the goroutine sends its redis commands one  *)
(* by one, so the goroutines of all db_serv interleave at every command.   *)
(* One action is one redis command with what the goroutine does with its   *)
(* result.                                                                 *)
(***************************************************************************)
EXTENDS SsProto

CONSTANTS
  Slot,            \* goroutines that can be running, in all db_serv together
  LockOutlives,    \* LOGIN_LOCK_LIFE is longer than any login procedure
  RedisFails       \* commands may fail and goroutines find no connection

ASSUME DbConstantsOK == LockOutlives \in BOOLEAN /\ RedisFails \in BOOLEAN

VARIABLES
  proc,     \* [Slot -> goroutine]
  online,   \* [Uid -> Group \cup {NoGroup}]: user:<uid> online_logic
  blob,     \* [Uid -> Ver]: user:<uid> blob_info
  lock      \* [Uid -> BOOLEAN]: user:login_lock:<uid> exists

dbVars == <<proc, online, blob, lock>>

Idle == [pc |-> "idle"]

(* "pass": before the password check and the lock; "info": holds the lock, *)
(* will read the user; "online": has read him, will write online_logic.    *)
LoginProcs == [pc : {"pass", "info", "online"}, from : Group, key : Key,
               uid : Uid, snap : Ver]
SaveProcs == [pc : {"save"}, uid : Uid, reason : Reason,
              info : Ver \cup {NoInfo}]

DbTypeOK ==
  /\ proc \in [Slot -> {Idle} \cup LoginProcs \cup SaveProcs]
  /\ online \in [Uid -> Group \cup {NoGroup}]
  /\ blob \in [Uid -> Ver]
  /\ lock \in [Uid -> BOOLEAN]

DbInit ==
  /\ proc = [s \in Slot |-> Idle]
  /\ online = [u \in Uid |-> NoGroup]
  /\ blob = [u \in Uid |-> 0]
  /\ lock = [u \in Uid |-> FALSE]

(* Between taking the lock and the end of the procedure. *)
InLogin(s, u) == proc[s].pc \in {"info", "online"} /\ proc[s].uid = u

Done(s) == proc' = [proc EXCEPT ![s] = Idle]
Answer(s, m) == db2logic' = Send(db2logic, proc[s].from, m)

-----------------------------------------------------------------------------
(* RecvUserLoginReq and RecvUserLogoutReq up to the go statement. *)
RecvUserLoginReq(g, s) ==
  /\ proc[s] = Idle
  /\ Pending(logic2db, g, "LOGIN_REQ")
  /\ LET m == Head(logic2db[g])
     IN  proc' = [proc EXCEPT ![s] = [pc |-> "pass", from |-> g,
                                      key |-> m.key, uid |-> m.uid,
                                      snap |-> 0]]
  /\ logic2db' = Recv(logic2db, g)
  /\ UNCHANGED <<online, blob, lock, conn2logic, logic2conn, db2logic,
                 logic2disp, disp2logic>>

RecvUserLogoutReq(g, s) ==
  /\ proc[s] = Idle
  /\ Pending(logic2db, g, "LOGOUT_REQ")
  /\ LET m == Head(logic2db[g])
     IN  proc' = [proc EXCEPT ![s] = [pc |-> "save", uid |-> m.uid,
                                      reason |-> m.reason, info |-> m.info]]
  /\ logic2db' = Recv(logic2db, g)
  /\ UNCHANGED <<online, blob, lock, conn2logic, logic2conn, db2logic,
                 logic2disp, disp2logic>>

(* user_login_check_pass: the password is the one registered. *)
AnyPass(s) == TRUE
PassMatches(s) == proc[s].uid \in Knows[proc[s].key]

CheckPassFails(s) ==
  /\ proc[s].pc = "pass"
  /\ ~PassMatches(s)
  /\ Answer(s, LoginRsp(proc[s].key, NoUid, "PASS", 0, NoGroup))
  /\ Done(s)
  /\ UNCHANGED <<online, blob, lock, conn2logic, logic2conn, logic2db,
                 logic2disp, disp2logic>>

(* The NX of SET user:login_lock:<uid> EX 20 NX. *)
NeverLocked(s) == FALSE
Locked(s) == lock[proc[s].uid]

(* The password is right: try the lock.  One already there is answered     *)
(* MULTI_ON without uid and online_logic.                                  *)
LoginLock(s) ==
  /\ proc[s].pc = "pass"
  /\ PassMatches(s)
  /\ IF Locked(s)
     THEN /\ Answer(s, LoginRsp(proc[s].key, NoUid, "MULTI_ON", 0, NoGroup))
          /\ Done(s)
          /\ UNCHANGED lock
     ELSE /\ lock' = [lock EXCEPT ![proc[s].uid] = TRUE]
          /\ proc' = [proc EXCEPT ![s].pc = "info"]
          /\ UNCHANGED db2logic
  /\ UNCHANGED <<online, blob, conn2logic, logic2conn, logic2db, logic2disp,
                 disp2logic>>

(* HGETALL user:<uid> and user_login_get_info.  A user online at another   *)
(* logic_serv is answered MULTI_ON with its id; the lock is left to expire. *)
NoneElsewhere(s) == FALSE
OnlineElsewhere(s) == online[proc[s].uid] \notin {NoGroup, proc[s].from}

LoginGetInfo(s) ==
  /\ proc[s].pc = "info"
  /\ LET u == proc[s].uid
     IN  IF OnlineElsewhere(s)
         THEN /\ Answer(s, LoginRsp(proc[s].key, u, "MULTI_ON", 0, online[u]))
              /\ Done(s)
         ELSE /\ proc' = [proc EXCEPT ![s].pc = "online", ![s].snap = blob[u]]
              /\ UNCHANGED db2logic
  /\ UNCHANGED <<online, blob, lock, conn2logic, logic2conn, logic2db,
                 logic2disp, disp2logic>>

(* HSET user:<uid> online_logic from, and the answer with what was read.   *)
LoginUpdateOnline(s) ==
  /\ proc[s].pc = "online"
  /\ online' = [online EXCEPT ![proc[s].uid] = proc[s].from]
  /\ Answer(s, LoginRsp(proc[s].key, proc[s].uid, "SUCCESS", proc[s].snap,
                        NoGroup))
  /\ Done(s)
  /\ UNCHANGED <<blob, lock, conn2logic, logic2conn, logic2db, logic2disp,
                 disp2logic>>

(* The HSET is done but its reply is lost with the connection. *)
UpdateReplyLost(s) ==
  /\ RedisFails
  /\ proc[s].pc = "online"
  /\ online' = [online EXCEPT ![proc[s].uid] = proc[s].from]
  /\ Done(s)
  /\ UNCHANGED <<blob, lock, channels>>

(* HMSET of the user's data and online_logic -1, or HSET of online_logic   *)
(* alone.  Neither looks at what online_logic is.                          *)
LogoutSave(s) ==
  /\ proc[s].pc = "save"
  /\ online' = [online EXCEPT ![proc[s].uid] = NoGroup]
  /\ blob' = IF proc[s].info # NoInfo /\ proc[s].reason # "OFFLINE_USER"
             THEN [blob EXCEPT ![proc[s].uid] = proc[s].info]
             ELSE blob
  /\ Done(s)
  /\ UNCHANGED <<lock, channels>>

(* AllocSyncCmdHead finds no connection or a command fails: the goroutine  *)
(* logs and returns.                                                       *)
RedisError(s) ==
  /\ RedisFails
  /\ proc[s] # Idle
  /\ Done(s)
  /\ UNCHANGED <<online, blob, lock, channels>>

(* EX LOGIN_LOCK_LIFE: redis drops the key, whoever set it. *)
LockExpire(u) ==
  /\ lock[u]
  /\ LockOutlives => \A s \in Slot : ~InLogin(s, u)
  /\ lock' = [lock EXCEPT ![u] = FALSE]
  /\ UNCHANGED <<proc, online, blob, channels>>
=============================================================================
