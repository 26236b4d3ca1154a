----------------------------- MODULE RedisPool -----------------------------
(***************************************************************************)
(* comm/redis.go: a RedisClient keeps connections to one redis in numbered *)
(* slots.  Goroutines that execute commands take a slot from idle_queue    *)
(* and give it back to it, or to err_queue after an error.  The manager    *)
(* goroutine wakes up from time to time: it closes the slots in err_queue, *)
(* takes a reset, connects when connections are missing or busy and closes *)
(* idle ones when they are too many; each dial is a goroutine of its own.  *)
(***************************************************************************)
EXTENDS Integers, Sequences, FiniteSets

CONSTANTS
  Cmd,           \* goroutines that execute commands
  Conn, NoConn,  \* connections
  Limit,         \* HARD_MAX_CONN_LIMIT
  MaxConn, NormalConn,  \* what the pool starts with
  Tries,         \* slots a command tries
  ResetTo,       \* reset_attr values a Reset may ask for
  MaxResets,     \* bound: resets asked for
  MaxFails       \* bound: commands and dials that fail

AttrType == [addr : BOOLEAN, max_count : Nat, normal_count : Nat]
None == [addr |-> FALSE, max_count |-> 0, normal_count |-> 0]  \* no use
Slot == 0 .. Limit - 1

ASSUME PoolConstantsOK ==
  /\ Limit \in Nat \ {0} /\ MaxConn \in 1 .. Limit
  /\ NormalConn \in 1 .. MaxConn
  /\ Tries \in Nat \ {0} /\ MaxResets \in Nat /\ MaxFails \in Nat
  /\ NoConn \notin Conn /\ IsFiniteSet(Cmd)
  /\ ResetTo \subseteq AttrType

VARIABLES
  conn_stats,   \* [Slot -> {"none", "ing", "done"}], REDIS_CONN_XX
  conns,        \* [Slot -> Conn \cup {NoConn}]
  conn_count,
  idle_queue,   \* Seq(Slot)
  err_queue,    \* the slots in it; the manager always takes all of them
  block_queue,  \* number of tokens
  max_count, normal_count,
  reset_queue,  \* a reset is waiting, with reset_attr
  reset_attr,
  dialing,      \* [Slot -> Nat]: goroutines that dial for a slot
  arriving,     \* [Slot -> Nat]: those about to put it into idle_queue
  cmd,          \* [Cmd -> a command under way]
  mgr,          \* [pc, need, release]: the manager
  open,         \* connections not closed
  resets, fails \* resets and failures so far

slots  == <<conn_stats, conns, conn_count, open>>
config == <<max_count, normal_count, reset_queue, reset_attr, resets>>
vars   == <<slots, config, fails, idle_queue, err_queue, block_queue,
            dialing, arriving, cmd, mgr>>

Nothing == [i \in Slot |-> 0]
Put(q, i) == [q EXCEPT ![i] = @ + 1]
Drop(q, i) == [q EXCEPT ![i] = @ - 1]

NoCmd == [pc |-> "none", sync |-> FALSE, idx |-> 0, try |-> 0,
          conn |-> NoConn, close |-> FALSE]
Sleeping == [pc |-> "sleep", need |-> 0, release |-> {}]
Done(i) == conn_stats[i] = "done" /\ conns[i] # NoConn

(* Redis or the network lets a command or a dial down. *)
Fails(b) == IF b THEN fails < MaxFails /\ fails' = fails + 1 ELSE fails' = fails

Init ==
  /\ conn_stats = [i \in Slot |-> IF i < NormalConn THEN "ing" ELSE "none"]
  /\ conns = [i \in Slot |-> NoConn] /\ open = {}
  /\ conn_count = 0
  /\ idle_queue = <<>> /\ err_queue = {} /\ block_queue = 0
  /\ max_count = MaxConn /\ normal_count = NormalConn
  /\ reset_queue = FALSE /\ reset_attr = None
  /\ dialing = [i \in Slot |-> IF i < NormalConn THEN 1 ELSE 0]
  /\ arriving = Nothing
  /\ cmd = [c \in Cmd |-> NoCmd]
  /\ mgr = Sleeping
  /\ resets = 0 /\ fails = 0

-----------------------------------------------------------------------------
(* Commands. *)

(* RedisExeCmd or AllocSyncCmdHead. *)
Request(c, sync) ==
  /\ cmd[c].pc = "none"
  /\ block_queue' = block_queue + 1
  /\ cmd' = [cmd EXCEPT ![c] = [NoCmd EXCEPT !.pc = "take", !.sync = sync]]
  /\ UNCHANGED <<fails, slots, config, idle_queue, err_queue, dialing, arriving, mgr>>

Take(c) ==
  /\ cmd[c].pc = "take" /\ idle_queue # <<>>
  /\ idle_queue' = Tail(idle_queue)
  /\ cmd' = [cmd EXCEPT ![c].pc = "check", ![c].idx = Head(idle_queue),
                        ![c].try = @ + 1]
  /\ UNCHANGED <<fails, slots, config, err_queue, block_queue, dialing, arriving, mgr>>

(* The slot is checked in the loop, and once more behind it.               *)
CheckAgain(c) ==
  /\ cmd[c].pc = "check" /\ ~Done(cmd[c].idx) /\ cmd[c].try < Tries
  /\ cmd' = [cmd EXCEPT ![c].pc = "take"]
  /\ UNCHANGED <<fails, slots, config, idle_queue, err_queue, block_queue,
                 dialing, arriving, mgr>>

CheckBreak(c) ==
  /\ cmd[c].pc = "check" /\ (Done(cmd[c].idx) \/ cmd[c].try = Tries)
  /\ cmd' = [cmd EXCEPT ![c].pc = "found"]
  /\ UNCHANGED <<fails, slots, config, idle_queue, err_queue, block_queue,
                 dialing, arriving, mgr>>

CheckValid(c) ==
  /\ cmd[c].pc = "found" /\ Done(cmd[c].idx)
  /\ cmd' = [cmd EXCEPT ![c].pc = "use"]
  /\ UNCHANGED <<fails, slots, config, idle_queue, err_queue, block_queue,
                 dialing, arriving, mgr>>

CheckDrop(c) ==
  /\ cmd[c].pc = "found" /\ ~Done(cmd[c].idx)
  /\ block_queue' = block_queue - 1
  /\ cmd' = [cmd EXCEPT ![c] = NoCmd]
  /\ UNCHANGED <<fails, slots, config, idle_queue, err_queue, dialing, arriving, mgr>>

(* Reads conns[idx], which a reset may have set to nil since the check.    *)
Use(c) ==
  /\ cmd[c].pc = "use"
  /\ cmd' = [cmd EXCEPT ![c].pc = "exe", ![c].conn = conns[cmd[c].idx]]
  /\ UNCHANGED <<fails, slots, config, idle_queue, err_queue, block_queue,
                 dialing, arriving, mgr>>

(* The last command on the connection: on a closed one it fails.  A nil    *)
(* connection is an error of its own for RedisExeCmdSync.                  *)
ExeCmd(c, err) ==
  /\ cmd[c].pc = "exe"
  /\ cmd[c].conn = NoConn => cmd[c].sync /\ ~err
  /\ cmd[c].conn \in Conn \ open => err
  /\ Fails(err /\ cmd[c].conn \in open)
  /\ block_queue' = IF cmd[c].sync THEN block_queue ELSE block_queue - 1
  /\ cmd' = [cmd EXCEPT ![c].pc = "free", ![c].close = err, ![c].conn = NoConn]
  /\ UNCHANGED <<slots, config, idle_queue, err_queue, dialing, arriving, mgr>>

(* RedisExeCmd panics on a nil connection: neither slot nor token return.  *)
ExePanic(c) ==
  /\ cmd[c].pc = "exe" /\ cmd[c].conn = NoConn /\ ~cmd[c].sync
  /\ cmd' = [cmd EXCEPT ![c] = NoCmd]
  /\ UNCHANGED <<fails, slots, config, idle_queue, err_queue, block_queue,
                 dialing, arriving, mgr>>

FreeBoth(c) ==
  LET i == cmd[c].idx IN
  /\ cmd[c].pc = "free"
  /\ err_queue' = IF cmd[c].close THEN err_queue \cup {i} ELSE err_queue
  /\ idle_queue' = IF i < max_count THEN Append(idle_queue, i) ELSE idle_queue
  /\ block_queue' = IF cmd[c].sync THEN block_queue - 1 ELSE block_queue
  /\ cmd' = [cmd EXCEPT ![c] = NoCmd]
  /\ UNCHANGED <<fails, slots, config, dialing, arriving, mgr>>
FreeLost(c) ==
  LET i == cmd[c].idx IN
  /\ cmd[c].pc = "free"
  /\ err_queue' = IF cmd[c].close THEN err_queue \cup {i} ELSE err_queue
  /\ idle_queue' = IF ~cmd[c].close /\ i >= max_count
                   THEN Append(idle_queue, i) ELSE idle_queue
  /\ block_queue' = IF cmd[c].sync THEN block_queue - 1 ELSE block_queue
  /\ cmd' = [cmd EXCEPT ![c] = NoCmd]
  /\ UNCHANGED <<fails, slots, config, dialing, arriving, mgr>>

(* Gives the slot back, or up; one beyond max_count is not given back.     *)
Free(c) ==
  LET i == cmd[c].idx IN
  /\ cmd[c].pc = "free"
  /\ err_queue' = IF cmd[c].close THEN err_queue \cup {i} ELSE err_queue
  /\ idle_queue' = IF ~cmd[c].close /\ i < max_count
                   THEN Append(idle_queue, i) ELSE idle_queue
  /\ block_queue' = IF cmd[c].sync THEN block_queue - 1 ELSE block_queue
  /\ cmd' = [cmd EXCEPT ![c] = NoCmd]
  /\ UNCHANGED <<fails, slots, config, dialing, arriving, mgr>>

-----------------------------------------------------------------------------
(* The goroutines of connect_redis_num. *)

DialFail(i) ==
  /\ dialing[i] > 0
  /\ Fails(TRUE)
  /\ conn_stats' = [conn_stats EXCEPT ![i] = "none"]
  /\ dialing' = Drop(dialing, i)
  /\ UNCHANGED <<conns, conn_count, open, config, idle_queue, err_queue,
                 block_queue, arriving, cmd, mgr>>

Fresh(k) ==
  k \notin open /\ k \notin {conns[i] : i \in Slot} \cup {cmd[c].conn : c \in Cmd}

DialDone(i, k) ==
  /\ dialing[i] > 0 /\ Fresh(k)
  /\ conn_count' = conn_count + 1
  /\ conn_stats' = [conn_stats EXCEPT ![i] = "done"]
  /\ conns' = [conns EXCEPT ![i] = k]
  /\ open' = open \cup {k}
  /\ dialing' = Drop(dialing, i)
  /\ arriving' = Put(arriving, i)
  /\ UNCHANGED <<fails, config, idle_queue, err_queue, block_queue, cmd, mgr>>

Arrive(i) ==
  /\ arriving[i] > 0
  /\ arriving' = Drop(arriving, i)
  /\ idle_queue' = Append(idle_queue, i)
  /\ UNCHANGED <<fails, slots, config, err_queue, block_queue, dialing, cmd, mgr>>

-----------------------------------------------------------------------------
(* The manager. *)

(* connect_redis_num: the first n slots that are not connected. *)
Chosen(n) ==
  {i \in 0 .. max_count - 1 :
     /\ conn_stats[i] = "none"
     /\ Cardinality({j \in 0 .. i - 1 : conn_stats[j] = "none"}) < n}
Connect(S) ==
  /\ conn_stats' = [i \in Slot |-> IF i \in S THEN "ing" ELSE conn_stats[i]]
  /\ dialing' = [i \in Slot |-> IF i \in S THEN dialing[i] + 1 ELSE dialing[i]]

CloseSpecUncounted(S) ==
  /\ open' = open \ {conns[i] : i \in {j \in S : conn_stats[j] # "none"}}
  /\ conn_count' = conn_count
  /\ conn_stats' = [i \in Slot |-> IF i \in S THEN "none" ELSE conn_stats[i]]
  /\ conns' = [i \in Slot |-> IF i \in S THEN NoConn ELSE conns[i]]
CloseSpecAny(S) ==
  /\ open' = open \ {conns[i] : i \in {j \in S : conn_stats[j] # "none"}}
  /\ conn_count' = conn_count - Cardinality(S)
  /\ conn_stats' = [i \in Slot |-> IF i \in S THEN "none" ELSE conn_stats[i]]
  /\ conns' = [i \in Slot |-> IF i \in S THEN NoConn ELSE conns[i]]

(* close_redis_conn for the slots of S. *)
CloseSpec(S) ==
  /\ open' = open \ {conns[i] : i \in {j \in S : conn_stats[j] # "none"}}
  /\ conn_count' = conn_count - Cardinality({i \in S : Done(i)})
  /\ conn_stats' = [i \in Slot |-> IF i \in S THEN "none" ELSE conn_stats[i]]
  /\ conns' = [i \in Slot |-> IF i \in S THEN NoConn ELSE conns[i]]

ManageErr ==
  /\ mgr.pc = "sleep"
  /\ CloseSpec(err_queue)
  /\ err_queue' = {}
  /\ mgr' = [mgr EXCEPT !.pc = "reset"]
  /\ UNCHANGED <<fails, config, idle_queue, block_queue, dialing, arriving, cmd>>

SetAttr ==
  LET max == IF reset_attr.max_count \in 1 .. Limit
             THEN reset_attr.max_count ELSE max_count
      normal == IF reset_attr.normal_count \in 1 .. max
                THEN reset_attr.normal_count ELSE normal_count
  IN /\ max_count' = max /\ normal_count' = normal
     /\ reset_attr' = None
     /\ UNCHANGED resets

ManageNoReset ==
  /\ mgr.pc = "reset" /\ ~reset_queue
  /\ mgr' = [mgr EXCEPT !.pc = "connect"]
  /\ UNCHANGED <<fails, slots, config, idle_queue, err_queue, block_queue,
                 dialing, arriving, cmd>>

(* reset_redis_attr; a new address or password closes all, in two steps.   *)
ManageReset ==
  /\ mgr.pc = "reset" /\ reset_queue
  /\ reset_queue' = FALSE
  /\ IF reset_attr.addr
     THEN /\ idle_queue' = <<>>
          /\ mgr' = [mgr EXCEPT !.pc = "close"]
          /\ UNCHANGED <<max_count, normal_count, reset_attr, resets>>
     ELSE /\ SetAttr
          /\ mgr' = [mgr EXCEPT !.pc = "connect"]
          /\ UNCHANGED idle_queue
  /\ UNCHANGED <<fails, slots, err_queue, block_queue, dialing, arriving, cmd>>

ManageClose ==
  /\ mgr.pc = "close"
  /\ LET S == 0 .. max_count - 1 IN
     /\ open' = open \ {conns[i] : i \in {j \in S : conn_stats[j] # "none"}}
     /\ conn_stats' = [i \in Slot |-> IF i \in S THEN "none" ELSE conn_stats[i]]
     /\ conns' = [i \in Slot |-> IF i \in S THEN NoConn ELSE conns[i]]
  /\ conn_count' = 0
  /\ SetAttr
  /\ mgr' = [mgr EXCEPT !.pc = "connect"]
  /\ UNCHANGED <<fails, reset_queue, idle_queue, err_queue, block_queue,
                 dialing, arriving, cmd>>

Missing == normal_count - conn_count
Busy == Len(idle_queue) <= 2 \/ block_queue > 0
Spare == Len(idle_queue) - normal_count

ManageConnect ==
  /\ mgr.pc = "connect" /\ Missing > 0
  /\ Connect(Chosen(Missing))
  /\ mgr' = Sleeping
  /\ UNCHANGED <<fails, conns, conn_count, open, config, idle_queue, err_queue,
                 block_queue, arriving, cmd>>

ManageExpand ==
  /\ mgr.pc = "connect" /\ Missing <= 0 /\ Busy
  /\ Connect(Chosen((max_count - conn_count) \div 3))
  /\ mgr' = Sleeping
  /\ UNCHANGED <<fails, conns, conn_count, open, config, idle_queue, err_queue,
                 block_queue, arriving, cmd>>

ManageShrink ==
  /\ mgr.pc = "connect" /\ Missing <= 0 /\ ~Busy
  /\ mgr' = IF Spare <= 0 THEN Sleeping
            ELSE [pc |-> "shrink", release |-> {},
                  need |-> IF Spare < 3 THEN Spare ELSE Spare \div 3]
  /\ UNCHANGED <<fails, slots, config, idle_queue, err_queue, block_queue,
                 dialing, arriving, cmd>>

(* Waits for an idle slot as a command does. *)
ShrinkTake ==
  /\ mgr.pc = "shrink" /\ mgr.need > 0 /\ idle_queue # <<>>
  /\ idle_queue' = Tail(idle_queue)
  /\ mgr' = [mgr EXCEPT !.need = @ - 1, !.release = @ \cup {Head(idle_queue)}]
  /\ UNCHANGED <<fails, slots, config, err_queue, block_queue, dialing, arriving, cmd>>

ShrinkClose ==
  /\ mgr.pc = "shrink" /\ mgr.need = 0
  /\ CloseSpec(mgr.release)
  /\ mgr' = Sleeping
  /\ UNCHANGED <<fails, config, idle_queue, err_queue, block_queue,
                 dialing, arriving, cmd>>

(* ResetRedis, when db_serv reloads its configuration. *)
Reset(a) ==
  /\ resets < MaxResets
  /\ resets' = resets + 1
  /\ reset_queue' = TRUE
  /\ reset_attr' = a
  /\ UNCHANGED <<fails, slots, max_count, normal_count, idle_queue, err_queue,
                 block_queue, dialing, arriving, cmd, mgr>>

-----------------------------------------------------------------------------
Run(c) ==
  \/ CheckAgain(c) \/ CheckBreak(c) \/ CheckValid(c) \/ CheckDrop(c)
  \/ Use(c) \/ ExePanic(c) \/ Free(c)
  \/ \E err \in BOOLEAN : ExeCmd(c, err)
Command(c) ==
  \/ \E sync \in BOOLEAN : Request(c, sync)
  \/ Take(c)
  \/ Run(c)
Landing(i) == Arrive(i) \/ \E k \in Conn : DialDone(i, k)
Manage ==
  \/ ManageErr \/ ManageNoReset \/ ManageReset \/ ManageClose
  \/ ManageConnect \/ ManageExpand \/ ManageShrink \/ ShrinkClose

Next ==
  \/ \E c \in Cmd : Command(c)
  \/ \E i \in Slot : Landing(i) \/ DialFail(i)
  \/ Manage \/ ShrinkTake
  \/ \E a \in ResetTo : Reset(a)

Spec == Init /\ [][Next]_vars

(* Goroutines run, dials and commands end, and those that wait for an idle *)
(* slot are served in turn.                                                *)
Fairness ==
  /\ \A c \in Cmd : WF_vars(Run(c)) /\ SF_vars(Take(c))
  /\ \A i \in Slot : WF_vars(Landing(i))
  /\ WF_vars(Manage) /\ SF_vars(ShrinkTake)
FairSpec == Spec /\ Fairness

-----------------------------------------------------------------------------
CmdType ==
  [pc : {"none", "take", "check", "found", "use", "exe", "free"}, sync : BOOLEAN,
   idx : Slot, try : Nat, conn : Conn \cup {NoConn}, close : BOOLEAN]
MgrType ==
  [pc : {"sleep", "reset", "close", "connect", "shrink"},
   need : Nat, release : SUBSET Slot]

(* Types. *)
TypeOK ==
  /\ conn_stats \in [Slot -> {"none", "ing", "done"}]
  /\ conns \in [Slot -> Conn \cup {NoConn}] /\ open \in SUBSET Conn
  /\ conn_count \in Int /\ block_queue \in Int
  /\ idle_queue \in Seq(Slot) /\ err_queue \in SUBSET Slot
  /\ max_count \in 1 .. Limit /\ normal_count \in Nat \ {0}
  /\ reset_queue \in BOOLEAN /\ reset_attr \in AttrType
  /\ dialing \in [Slot -> Nat] /\ arriving \in [Slot -> Nat]
  /\ cmd \in [Cmd -> CmdType] /\ mgr \in MgrType
  /\ resets \in Nat /\ fails \in Nat

Connected == {i \in Slot : conn_stats[i] = "done"}

(* Without a reset, through failures, reconnects, expansion and shrinking, *)
(* a connection serves one command at a time and is not closed under it.   *)
Pool == INSTANCE Lending WITH lent <- [c \in Cmd |-> cmd[c].conn]
ImplementsLending == Pool!Spec

(* conn_count, by which the manager connects and expands and db_serv finds *)
(* a client dead or alive, is the number of slots connected.               *)
CountExact == conn_count = Cardinality(Connected)

(* While no reset lowers max_count, as the comment on Reset asks           *)
(* (redis.go:148) and nothing enforces, conn_count, which resets leave too *)
(* high at times, never reports a client dead that has a slot connected.   *)
(* (A slot connected beyond a lowered max_count is neither closed nor      *)
(* counted after the next change of the address.)                          *)
Raising == max_count' >= max_count
CountCovers == conn_count >= Cardinality(Connected)

(* Every command that asks for a connection comes to an end, though some   *)
(* fail: the pool gets its connections back.                               *)
Served == \A c \in Cmd : cmd[c].pc # "none" ~> cmd[c].pc = "none"

(* idle_queue is commented "idle index of conn": a slot in it is idle.     *)
IdleIsIdle ==
  \A c \in Cmd, n \in DOMAIN idle_queue :
     cmd[c].pc \in {"use", "exe", "free"} => cmd[c].idx # idle_queue[n]

(* The manager's comment says "connect to normal": again and again there   *)
(* are that many connections that no error waits to close.                 *)
KeepsNormal == []<>(Cardinality(Connected \ err_queue) >= normal_count)
=============================================================================
