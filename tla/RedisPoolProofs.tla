-------------------------- MODULE RedisPoolProofs --------------------------
(***************************************************************************)
(* Theorems about RedisPool.  A slot that is connected is in one place at  *)
(* most: with the goroutine that dialled, in idle_queue, with a command,   *)
(* in err_queue or among those the manager releases.  A reset breaks this, *)
(* so the theorems about lending and the exact count are for pools never   *)
(* reset; what the count still covers is proved through resets.            *)
(***************************************************************************)
EXTENDS RedisPool, FiniteSetTheorems, TLAPS

USE PoolConstantsOK

(* What the first and the other elements of a queue are. *)
LEMMA TailOf ==
  ASSUME NEW T, NEW q \in Seq(T), q # <<>>
  PROVE  /\ Head(q) = q[1] /\ Head(q) \in T /\ Tail(q) \in Seq(T)
         /\ 1 \in 1 .. Len(q)
         /\ Len(q) \in Nat /\ Len(Tail(q)) = Len(q) - 1
         /\ \A n \in 1 .. Len(Tail(q)) :
               n + 1 \in 1 .. Len(q) /\ Tail(q)[n] = q[n + 1]
  OBVIOUS

LEMMA AppendOf ==
  ASSUME NEW T, NEW q \in Seq(T), NEW i \in T
  PROVE  /\ Append(q, i) \in Seq(T)
         /\ Len(q) \in Nat /\ Len(Append(q, i)) = Len(q) + 1
         /\ \A n \in 1 .. Len(Append(q, i)) :
               \/ n \in 1 .. Len(q) /\ Append(q, i)[n] = q[n]
               \/ n = Len(q) + 1 /\ Append(q, i)[n] = i
  OBVIOUS

LEMMA SlotFacts ==
  /\ IsFiniteSet(Slot) /\ Slot \subseteq Nat /\ 0 \in Slot
  /\ None \in AttrType /\ Nothing \in [Slot -> Nat]
  /\ NoCmd \in CmdType /\ Sleeping \in MgrType
  <1>1. IsFiniteSet(Slot) BY FS_Interval DEF Slot
  <1>2. Slot \subseteq Nat /\ 0 \in Slot BY DEF Slot
  <1>3. None \in AttrType /\ Nothing \in [Slot -> Nat]
    BY DEF None, AttrType, Nothing
  <1>4. NoCmd \in CmdType /\ Sleeping \in MgrType
    BY <1>2 DEF NoCmd, CmdType, Sleeping, MgrType
  <1> QED BY <1>1, <1>2, <1>3, <1>4

-----------------------------------------------------------------------------
(* Types. *)

(* A step of a command keeps the types.                                    *)
LEMMA CommandType ==
  ASSUME TypeOK, NEW c \in Cmd, Command(c)
  PROVE  TypeOK'
<1> DEFINE x == cmd[c]
<1>0. x \in CmdType BY DEF TypeOK
<1>1. ASSUME NEW sync \in BOOLEAN, Request(c, sync) PROVE TypeOK'
  <2>1. [NoCmd EXCEPT !.pc = "take", !.sync = sync] \in CmdType
    BY SlotFacts DEF CmdType
  <2>2. cmd' \in [Cmd -> CmdType] BY <1>1, <2>1 DEF Request, TypeOK
  <2>3. block_queue' \in Int BY <1>1 DEF Request, TypeOK
  <2>4. UNCHANGED <<fails, slots, config, idle_queue, err_queue, dialing, arriving, mgr>>
    BY <1>1 DEF Request
  <2> QED BY <2>2, <2>3, <2>4 DEF TypeOK, slots, config
<1>2. CASE Take(c)
  <2>1. Head(idle_queue) \in Slot /\ Tail(idle_queue) \in Seq(Slot)
    BY <1>2, TailOf DEF Take, TypeOK
  <2>2. [x EXCEPT !.pc = "check", !.idx = Head(idle_queue), !.try = @ + 1] \in CmdType
    <3>1. x.try + 1 \in Nat BY <1>0 DEF CmdType
    <3> HIDE DEF x
    <3> QED BY <1>0, <2>1, <3>1 DEF CmdType
  <2>3. cmd' \in [Cmd -> CmdType] BY <1>2, <2>2 DEF Take, TypeOK
  <2> QED BY <1>2, <2>1, <2>3 DEF Take, TypeOK, slots, config
<1>3. CASE CheckValid(c)
  <2>1. [x EXCEPT !.pc = "use"] \in CmdType BY <1>0 DEF CmdType
  <2>2. cmd' \in [Cmd -> CmdType] BY <1>3, <2>1 DEF CheckValid, TypeOK
  <2> QED BY <1>3, <2>2 DEF CheckValid, TypeOK, slots, config
<1>4. CASE CheckAgain(c)
  <2>1. [x EXCEPT !.pc = "take"] \in CmdType BY <1>0 DEF CmdType
  <2>2. cmd' \in [Cmd -> CmdType] BY <1>4, <2>1 DEF CheckAgain, TypeOK
  <2> QED BY <1>4, <2>2 DEF CheckAgain, TypeOK, slots, config
<1>10. CASE CheckBreak(c)
  <2>1. [x EXCEPT !.pc = "found"] \in CmdType BY <1>0 DEF CmdType
  <2>2. cmd' \in [Cmd -> CmdType] BY <1>10, <2>1 DEF CheckBreak, TypeOK
  <2> QED BY <1>10, <2>2 DEF CheckBreak, TypeOK, slots, config
<1>5. CASE CheckDrop(c)
  <2>1. cmd' \in [Cmd -> CmdType] BY <1>5, SlotFacts DEF CheckDrop, TypeOK
  <2> QED BY <1>5, <2>1 DEF CheckDrop, TypeOK, slots, config
<1>6. CASE Use(c)
  <2>1. conns[x.idx] \in Conn \cup {NoConn} BY <1>0 DEF TypeOK, CmdType
  <2>2. [x EXCEPT !.pc = "exe", !.conn = conns[x.idx]] \in CmdType
    BY <1>0, <2>1 DEF CmdType
  <2>3. cmd' \in [Cmd -> CmdType] BY <1>6, <2>2 DEF Use, TypeOK
  <2> QED BY <1>6, <2>3 DEF Use, TypeOK, slots, config
<1>7. CASE ExePanic(c)
  <2>1. cmd' \in [Cmd -> CmdType] BY <1>7, SlotFacts DEF ExePanic, TypeOK
  <2> QED BY <1>7, <2>1 DEF ExePanic, TypeOK, slots, config
<1>8. ASSUME NEW err \in BOOLEAN, ExeCmd(c, err) PROVE TypeOK'
  <2>1. [x EXCEPT !.pc = "free", !.close = err, !.conn = NoConn] \in CmdType
    BY <1>0 DEF CmdType
  <2>2. cmd' \in [Cmd -> CmdType] BY <1>8, <2>1 DEF ExeCmd, TypeOK
  <2>3. block_queue' \in Int /\ fails' \in Nat
    BY <1>8 DEF ExeCmd, Fails, TypeOK
  <2> QED BY <1>8, <2>2, <2>3 DEF ExeCmd, TypeOK, slots, config
<1>9. CASE Free(c)
  <2>1. cmd' \in [Cmd -> CmdType] BY <1>9, SlotFacts DEF Free, TypeOK
  <2>2. x.idx \in Slot BY <1>0 DEF CmdType
  <2>3. idle_queue' \in Seq(Slot) /\ err_queue' \in SUBSET Slot
    BY <1>9, <2>2, AppendOf DEF Free, TypeOK
  <2>4. block_queue' \in Int BY <1>9 DEF Free, TypeOK
  <2> QED BY <1>9, <2>1, <2>3, <2>4 DEF Free, TypeOK, slots, config
<1> QED
  <2>1. CASE \E sync \in BOOLEAN : Request(c, sync) BY <2>1, <1>1
  <2>2. CASE \E err \in BOOLEAN : ExeCmd(c, err) BY <2>2, <1>8
  <2> QED BY <2>1, <2>2, <1>2, <1>3, <1>4, <1>5, <1>6, <1>7, <1>9, <1>10
      DEF Command, Run

(* A step of a dial keeps the types.                                       *)
LEMMA DialType ==
  ASSUME TypeOK, NEW i \in Slot, Landing(i) \/ DialFail(i)
  PROVE  TypeOK'
<1>1. CASE DialFail(i)
  <2>1. dialing' \in [Slot -> Nat] BY <1>1 DEF DialFail, Drop, TypeOK
  <2>2. fails' \in Nat BY <1>1 DEF DialFail, Fails, TypeOK
  <2> QED BY <1>1, <2>1, <2>2 DEF DialFail, TypeOK, config
<1>2. CASE Arrive(i)
  <2>1. arriving' \in [Slot -> Nat] BY <1>2 DEF Arrive, Drop, TypeOK
  <2>2. idle_queue' \in Seq(Slot) BY <1>2, AppendOf DEF Arrive, TypeOK
  <2> QED BY <1>2, <2>1, <2>2 DEF Arrive, TypeOK, slots, config
<1>3. ASSUME NEW k \in Conn, DialDone(i, k) PROVE TypeOK'
  <2>1. dialing' \in [Slot -> Nat] /\ arriving' \in [Slot -> Nat]
    BY <1>3 DEF DialDone, Drop, Put, TypeOK
  <2>2. /\ conn_stats' \in [Slot -> {"none", "ing", "done"}]
        /\ conns' \in [Slot -> Conn \cup {NoConn}] /\ open' \in SUBSET Conn
        /\ conn_count' \in Int
    BY <1>3 DEF DialDone, TypeOK
  <2> QED BY <1>3, <2>1, <2>2 DEF DialDone, TypeOK, config
<1> QED BY <1>1, <1>2, <1>3 DEF Landing

LEMMA ConnectType ==
  ASSUME TypeOK, NEW S \in SUBSET Slot, Connect(S)
  PROVE  /\ conn_stats' \in [Slot -> {"none", "ing", "done"}]
         /\ dialing' \in [Slot -> Nat]
  BY DEF Connect, TypeOK

LEMMA CloseType ==
  ASSUME TypeOK, NEW S \in SUBSET Slot, CloseSpec(S)
  PROVE  /\ conn_stats' \in [Slot -> {"none", "ing", "done"}]
         /\ conns' \in [Slot -> Conn \cup {NoConn}]
         /\ open' \in SUBSET Conn /\ conn_count' \in Int
<1>1. IsFiniteSet({i \in S : Done(i)}) BY SlotFacts, FS_Subset
<1>2. Cardinality({i \in S : Done(i)}) \in Nat BY <1>1, FS_CardinalityType
<1>3. conn_count' \in Int BY <1>2 DEF CloseSpec, TypeOK
<1> QED BY <1>3 DEF CloseSpec, TypeOK

LEMMA AttrStep ==
  ASSUME TypeOK, SetAttr
  PROVE  /\ max_count' \in 1 .. Limit /\ normal_count' \in Nat \ {0}
         /\ reset_attr' \in AttrType /\ resets' \in Nat
<1>1. reset_attr.max_count \in Nat /\ reset_attr.normal_count \in Nat
  BY DEF TypeOK, AttrType
<1>2. max_count' \in 1 .. Limit BY <1>1 DEF SetAttr, TypeOK
<1>3. normal_count' \in Nat \ {0} BY <1>1, <1>2 DEF SetAttr, TypeOK
<1> QED BY <1>2, <1>3, SlotFacts DEF SetAttr, TypeOK

LEMMA ChosenType == ASSUME NEW n PROVE Chosen(n) \in SUBSET (0 .. max_count - 1)
  BY DEF Chosen

LEMMA BelowMax == TypeOK => 0 .. max_count - 1 \subseteq Slot
  BY DEF TypeOK, Slot

(* A step of the manager keeps the types.                                  *)
LEMMA ManageType ==
  ASSUME TypeOK, Manage
  PROVE  TypeOK'
<1>0. mgr \in MgrType BY DEF TypeOK
<1>1. CASE ManageErr
  <2>1. mgr' \in MgrType BY <1>0, <1>1 DEF ManageErr, MgrType
  <2>2. err_queue \in SUBSET Slot /\ CloseSpec(err_queue)
    BY <1>1 DEF ManageErr, TypeOK
  <2> QED BY <1>1, <2>1, <2>2, CloseType DEF ManageErr, TypeOK, config
<1>2. CASE ManageNoReset
  <2>1. mgr' \in MgrType BY <1>0, <1>2 DEF ManageNoReset, MgrType
  <2> QED BY <1>2, <2>1 DEF ManageNoReset, TypeOK, slots, config
<1>3. CASE ManageReset
  <2>1. mgr' \in MgrType BY <1>0, <1>3 DEF ManageReset, MgrType
  <2>2. CASE reset_attr.addr
    <3>1. idle_queue' = <<>> /\ UNCHANGED <<max_count, normal_count, reset_attr, resets>>
      BY <1>3, <2>2 DEF ManageReset
    <3>2. reset_queue' \in BOOLEAN BY <1>3 DEF ManageReset
    <3> QED BY <1>3, <2>1, <3>1, <3>2 DEF ManageReset, TypeOK, slots
  <2>3. CASE ~reset_attr.addr
    <3>1. SetAttr BY <1>3, <2>3 DEF ManageReset
    <3> QED BY <1>3, <2>1, <2>3, <3>1, AttrStep DEF ManageReset, TypeOK, slots
  <2> QED BY <2>2, <2>3
<1>4. CASE ManageClose
  <2>1. mgr' \in MgrType BY <1>0, <1>4 DEF ManageClose, MgrType
  <2>2. /\ conn_stats' \in [Slot -> {"none", "ing", "done"}]
        /\ conns' \in [Slot -> Conn \cup {NoConn}]
        /\ open' \in SUBSET Conn /\ conn_count' \in Int
    BY <1>4 DEF ManageClose, TypeOK
  <2>3. SetAttr BY <1>4 DEF ManageClose
  <2> QED BY <1>4, <2>1, <2>2, <2>3, AttrStep DEF ManageClose, TypeOK
<1>5. CASE ManageConnect \/ ManageExpand
  <2>1. PICK n : Connect(Chosen(n)) BY <1>5 DEF ManageConnect, ManageExpand
  <2>2. Chosen(n) \in SUBSET Slot BY ChosenType, BelowMax
  <2>3. mgr' \in MgrType BY <1>5, SlotFacts DEF ManageConnect, ManageExpand
  <2>4. /\ conn_stats' \in [Slot -> {"none", "ing", "done"}]
        /\ dialing' \in [Slot -> Nat]
    BY <2>1, <2>2, ConnectType
  <2> QED BY <1>5, <2>3, <2>4 DEF ManageConnect, ManageExpand, TypeOK, config
<1>6. CASE ManageShrink
  <2>1. Spare \in Int BY DEF Spare, TypeOK
  <2>2. mgr' \in MgrType
    <3>1. CASE Spare <= 0 BY <1>6, <3>1, SlotFacts DEF ManageShrink
    <3>2. CASE Spare > 0
      <4>1. (IF Spare < 3 THEN Spare ELSE Spare \div 3) \in Nat BY <2>1, <3>2
      <4> QED BY <1>6, <2>1, <3>2, <4>1 DEF ManageShrink, MgrType
    <3> QED BY <2>1, <3>1, <3>2
  <2> QED BY <1>6, <2>2 DEF ManageShrink, TypeOK, slots, config
<1>7. CASE ShrinkClose
  <2>1. mgr' \in MgrType BY <1>7, SlotFacts DEF ShrinkClose
  <2>2. mgr.release \in SUBSET Slot BY <1>0 DEF MgrType
  <2>3. CloseSpec(mgr.release) BY <1>7 DEF ShrinkClose
  <2> QED BY <1>7, <2>1, <2>2, <2>3, CloseType DEF ShrinkClose, TypeOK, config
<1> QED BY <1>1, <1>2, <1>3, <1>4, <1>5, <1>6, <1>7 DEF Manage

(* Each variable keeps its type through every step, resets included.       *)
LEMMA TypeStep == TypeOK /\ [Next]_vars => TypeOK'
<1> SUFFICES ASSUME TypeOK, [Next]_vars PROVE TypeOK'
  OBVIOUS
<1>1. CASE ShrinkTake
  <2>1. Head(idle_queue) \in Slot /\ Tail(idle_queue) \in Seq(Slot)
    BY <1>1, TailOf DEF ShrinkTake, TypeOK
  <2>2. mgr \in MgrType /\ mgr.need > 0 BY <1>1 DEF ShrinkTake, TypeOK
  <2>3. [mgr EXCEPT !.need = @ - 1, !.release = @ \cup {Head(idle_queue)}] \in MgrType
    <3>1. mgr.need - 1 \in Nat /\ mgr.release \cup {Head(idle_queue)} \in SUBSET Slot
      BY <2>1, <2>2 DEF MgrType
    <3> QED BY <2>2, <3>1 DEF MgrType
  <2> QED BY <1>1, <2>1, <2>3 DEF ShrinkTake, TypeOK, slots, config
<1>2. ASSUME NEW a \in ResetTo, Reset(a) PROVE TypeOK'
  <2>1. a \in AttrType OBVIOUS
  <2> QED BY <1>2, <2>1 DEF Reset, TypeOK, slots
<1>3. CASE UNCHANGED vars BY <1>3 DEF vars, slots, config, TypeOK
<1> QED
  BY <1>1, <1>2, <1>3, CommandType, DialType, ManageType DEF Next

LEMMA InitTyped == Init => TypeOK
  <2> SUFFICES ASSUME Init PROVE TypeOK
    OBVIOUS
  <2>1. cmd \in [Cmd -> CmdType] /\ mgr \in MgrType BY SlotFacts DEF Init
  <2>2. dialing \in [Slot -> Nat] /\ arriving \in [Slot -> Nat]
    BY SlotFacts DEF Init
  <2>3. /\ conn_stats \in [Slot -> {"none", "ing", "done"}]
        /\ conns \in [Slot -> Conn \cup {NoConn}] /\ open \in SUBSET Conn
        /\ conn_count \in Int /\ block_queue \in Int
        /\ idle_queue \in Seq(Slot) /\ err_queue \in SUBSET Slot
    BY DEF Init
  <2>4. /\ max_count \in 1 .. Limit /\ normal_count \in Nat \ {0}
        /\ reset_queue \in BOOLEAN /\ reset_attr \in AttrType
        /\ resets \in Nat /\ fails \in Nat
    BY SlotFacts DEF Init
  <2> QED BY <2>1, <2>2, <2>3, <2>4 DEF TypeOK

(* Every variable keeps its type, for any pool and any resets.             *)
THEOREM Typing == Spec => []TypeOK
  BY InitTyped, TypeStep, PTL DEF Spec

-----------------------------------------------------------------------------
(* Where a slot is. *)

(* Without a reset none is ever asked for. *)
NeverReset == ~reset_queue /\ mgr.pc # "close"

(* A connected slot has an open connection of its own. *)
Wired ==
  \A i \in Slot :
     /\ conn_stats[i] = "done" <=> conns[i] # NoConn
     /\ conns[i] # NoConn => conns[i] \in open
     /\ \A j \in Slot : conns[i] = conns[j] /\ conns[i] # NoConn => i = j

(* One goroutine dials for a slot, and only for one not connected. *)
Dialled ==
  \A i \in Slot :
     /\ dialing[i] > 0 <=> conn_stats[i] = "ing"
     /\ arriving[i] > 0 => conn_stats[i] = "done"
     /\ dialing[i] <= 1 /\ arriving[i] <= 1

(* Connected, and its dial is over. *)
Landed(i) == conn_stats[i] = "done" /\ arriving[i] = 0

(* The slots in idle_queue; none is in it twice or is anywhere else. *)
Waiting == {idle_queue[n] : n \in 1 .. Len(idle_queue)}
Once ==
  \A m, n \in 1 .. Len(idle_queue) : idle_queue[m] = idle_queue[n] => m = n
Queued ==
  /\ Once
  /\ \A i \in Waiting : Landed(i) /\ i \notin err_queue /\ i \notin mgr.release

(* Nor is one that the manager is to close. *)
GivenUp ==
  /\ \A i \in Slot : i \in err_queue \/ i \in mgr.release => Landed(i)
  /\ \A i \in Slot : ~(i \in err_queue /\ i \in mgr.release)

Has(c, i) == cmd[c].pc \in {"check", "found", "use", "exe", "free"} /\ cmd[c].idx = i

(* Nor is one that a command has; while it executes it uses the connection *)
(* of its slot, and no other time any.                                     *)
Borrowed ==
  /\ \A c \in Cmd, i \in Slot : Has(c, i) =>
        /\ Landed(i)
        /\ i \notin err_queue /\ i \notin mgr.release /\ i \notin Waiting
        /\ \A d \in Cmd : Has(d, i) => d = c
  /\ \A c \in Cmd :
        cmd[c].conn = IF cmd[c].pc = "exe" THEN conns[cmd[c].idx] ELSE NoConn

IInv ==
  TypeOK /\ NeverReset /\ Wired /\ Dialled /\ Queued /\ GivenUp /\ Borrowed

LEMMA InitSafe == Init => IInv
<1> SUFFICES ASSUME Init PROVE IInv
  OBVIOUS
<1>1. TypeOK BY InitTyped
<1>2. NeverReset /\ Wired BY DEF Init, NeverReset, Wired, Sleeping
<1>3. Dialled BY DEF Init, Dialled, Nothing
<1>4. Queued /\ GivenUp BY DEF Init, Queued, Once, Waiting, GivenUp, Sleeping
<1>5. Borrowed BY DEF Init, Borrowed, Has, NoCmd
<1> QED BY <1>1, <1>2, <1>3, <1>4, <1>5 DEF IInv

LEMMA WaitingSlots == TypeOK => Waiting \subseteq Slot
<1> SUFFICES ASSUME TypeOK, NEW n \in 1 .. Len(idle_queue)
             PROVE  idle_queue[n] \in Slot
  BY DEF Waiting
<1>1. idle_queue \in Seq(Slot) BY DEF TypeOK
<1> QED BY <1>1

LEMMA SameQueue ==
  ASSUME idle_queue' = idle_queue
  PROVE  Waiting' = Waiting /\ (Once' <=> Once)
  BY DEF Waiting, Once

(* What taking the first slot and giving back a slot do to idle_queue.     *)
LEMMA TakeFirst ==
  ASSUME TypeOK, Once, idle_queue # <<>>, idle_queue' = Tail(idle_queue)
  PROVE  /\ Head(idle_queue) \in Slot /\ Head(idle_queue) \in Waiting
         /\ Waiting' = Waiting \ {Head(idle_queue)} /\ Once'
<1> DEFINE q == idle_queue
           t == Tail(idle_queue)
<1>1. /\ Head(q) = q[1] /\ Head(q) \in Slot /\ 1 \in 1 .. Len(q)
      /\ Len(q) \in Nat /\ Len(t) = Len(q) - 1
      /\ \A n \in 1 .. Len(t) : n + 1 \in 1 .. Len(q) /\ t[n] = q[n + 1]
  BY TailOf DEF TypeOK
<1>2. \A m, n \in 1 .. Len(q) : q[m] = q[n] => m = n BY DEF Once
<1>3. Waiting = {q[n] : n \in 1 .. Len(q)} BY DEF Waiting
<1>4. Waiting' = {t[n] : n \in 1 .. Len(t)} BY DEF Waiting
<1>5. Once' <=> \A m, n \in 1 .. Len(t) : t[m] = t[n] => m = n BY DEF Once
<1> HIDE DEF q, t
<1>6. ASSUME NEW m \in 1 .. Len(t), NEW n \in 1 .. Len(t), t[m] = t[n]
      PROVE  m = n
  <2>1. PICK j, k : j = m + 1 /\ k = n + 1 OBVIOUS
  <2>2. j \in 1 .. Len(q) /\ k \in 1 .. Len(q) /\ q[j] = q[k]
    BY <1>1, <1>6, <2>1
  <2>3. j = k BY <1>2, <2>2
  <2> QED BY <1>1, <2>1, <2>3
<1>7. ASSUME NEW n \in 1 .. Len(t) PROVE t[n] \in Waiting \ {q[1]}
  <2>1. PICK k : k = n + 1 OBVIOUS
  <2>2. k \in 1 .. Len(q) /\ t[n] = q[k] BY <1>1, <2>1
  <2>3. q[k] # q[1] BY <1>1, <1>2, <2>1, <2>2
  <2> QED BY <1>3, <2>2, <2>3
<1>8. ASSUME NEW k \in 1 .. Len(q), q[k] # q[1]
      PROVE  \E n \in 1 .. Len(t) : t[n] = q[k]
  <2>1. PICK n : n = k - 1 OBVIOUS
  <2>2. k # 1 BY <1>8
  <2>3. n \in 1 .. Len(t) /\ n + 1 = k BY <1>1, <2>1, <2>2
  <2> QED BY <1>1, <2>3
<1>9. {t[n] : n \in 1 .. Len(t)} = Waiting \ {q[1]}
  <2>1. {t[n] : n \in 1 .. Len(t)} \subseteq Waiting \ {q[1]} BY <1>7
  <2>2. ASSUME NEW x \in Waiting \ {q[1]}
        PROVE  x \in {t[n] : n \in 1 .. Len(t)}
    <3>1. PICK k \in 1 .. Len(q) : x = q[k] BY <1>3, <2>2
    <3>2. PICK n \in 1 .. Len(t) : t[n] = q[k] BY <1>8, <2>2, <3>1
    <3> QED BY <3>1, <3>2
  <2> QED BY <2>1, <2>2
<1>10. Head(q) \in Waiting BY <1>1, <1>3
<1> QED BY <1>1, <1>4, <1>5, <1>6, <1>9, <1>10 DEF q

LEMMA GiveBack ==
  ASSUME TypeOK, Once, NEW i \in Slot, i \notin Waiting,
         idle_queue' = Append(idle_queue, i)
  PROVE  Waiting' = Waiting \cup {i} /\ Once'
<1> DEFINE q == idle_queue
           t == Append(idle_queue, i)
<1>0. q \in Seq(Slot) BY DEF TypeOK
<1>1. /\ Len(q) \in Nat /\ Len(t) = Len(q) + 1
      /\ \A n \in 1 .. Len(t) : \/ n \in 1 .. Len(q) /\ t[n] = q[n]
                                \/ n = Len(q) + 1 /\ t[n] = i
  BY <1>0, AppendOf
<1>2. \A m, n \in 1 .. Len(q) : q[m] = q[n] => m = n BY DEF Once
<1>3. Waiting = {q[n] : n \in 1 .. Len(q)} BY DEF Waiting
<1>4. Waiting' = {t[n] : n \in 1 .. Len(t)} BY DEF Waiting
<1>5. Once' <=> \A m, n \in 1 .. Len(t) : t[m] = t[n] => m = n BY DEF Once
<1> HIDE DEF q, t
<1>6. ASSUME NEW n \in 1 .. Len(q) PROVE n \in 1 .. Len(t) /\ t[n] = q[n]
  BY <1>1
<1>7. Len(t) \in 1 .. Len(t) /\ t[Len(t)] = i BY <1>1
<1>8. {t[n] : n \in 1 .. Len(t)} = Waiting \cup {i}
  BY <1>1, <1>3, <1>6, <1>7
<1>9. ASSUME NEW m \in 1 .. Len(t), NEW n \in 1 .. Len(t), t[m] = t[n]
      PROVE  m = n
  BY <1>1, <1>2, <1>3, <1>9
<1> QED BY <1>4, <1>5, <1>8, <1>9

(* Borrowed is kept by a step in which no command or queue comes by a slot *)
(* and the slots that commands have stay as they are.                      *)
LEMMA StillBorrowed ==
  ASSUME IInv, UNCHANGED cmd,
         \A c \in Cmd, i \in Slot : Has(c, i) =>
            /\ Landed(i)' /\ conns'[i] = conns[i]
            /\ i \notin err_queue' /\ i \notin mgr'.release /\ i \notin Waiting'
  PROVE  Borrowed'
<1>1. \A c \in Cmd, i \in Slot : Has(c, i)' <=> Has(c, i) BY DEF Has
<1>2. ASSUME NEW c \in Cmd, NEW i \in Slot, Has(c, i)'
      PROVE  /\ Landed(i)'
             /\ i \notin err_queue' /\ i \notin mgr'.release /\ i \notin Waiting'
             /\ \A d \in Cmd : Has(d, i)' => d = c
  <2>1. Has(c, i) BY <1>1, <1>2
  <2>2. \A d \in Cmd : Has(d, i)' => d = c BY <1>1, <2>1 DEF IInv, Borrowed
  <2> QED BY <2>1, <2>2
<1>3. ASSUME NEW c \in Cmd
      PROVE  cmd'[c].conn =
               IF cmd'[c].pc = "exe" THEN conns'[cmd'[c].idx] ELSE NoConn
  <2>1. CASE cmd[c].pc = "exe"
    <3>1. Has(c, cmd[c].idx) /\ cmd[c].idx \in Slot
      BY <2>1 DEF Has, IInv, TypeOK, CmdType
    <3>2. conns'[cmd[c].idx] = conns[cmd[c].idx] BY <3>1
    <3> QED BY <2>1, <3>2 DEF IInv, Borrowed
  <2>2. CASE cmd[c].pc # "exe" BY <2>2 DEF IInv, Borrowed
  <2> QED BY <2>1, <2>2
<1> QED BY <1>2, <1>3 DEF Borrowed

(* A step that leaves the slots, the queues, the dials and the manager and *)
(* changes one command, which does not come by a slot.                     *)
LEMMA CommandOnly ==
  ASSUME IInv, NEW c \in Cmd, NEW x \in CmdType,
         cmd' = [cmd EXCEPT ![c] = x],
         x.pc \in {"check", "found", "use", "exe", "free"} => Has(c, x.idx),
         x.pc = "exe" => x.conn = conns[x.idx],
         x.pc # "exe" => x.conn = NoConn,
         TypeOK',
         UNCHANGED <<slots, config, idle_queue, err_queue, dialing, arriving, mgr>>
  PROVE  IInv'
<1>1. NeverReset' BY DEF IInv, NeverReset, config
<1>2. Wired' /\ Dialled' BY DEF IInv, Wired, Dialled, slots
<1>3. Queued' /\ GivenUp'
  <2>1. \A i \in Slot : Landed(i)' <=> Landed(i) BY DEF Landed, slots
  <2> QED BY <2>1, SameQueue, WaitingSlots DEF IInv, Queued, GivenUp
<1>4. cmd'[c] = x /\ \A d \in Cmd \ {c} : cmd'[d] = cmd[d]
  BY DEF IInv, TypeOK
<1>5. ASSUME NEW d \in Cmd, NEW i \in Slot, Has(d, i)' PROVE Has(d, i)
  BY <1>4, <1>5 DEF Has
<1>6. UNCHANGED <<conn_stats, conns, arriving, err_queue, mgr, idle_queue>>
  BY DEF slots
<1>7. \A d \in Cmd, i \in Slot : Has(d, i)' =>
        /\ Landed(i)' /\ i \notin err_queue' /\ i \notin mgr'.release
        /\ i \notin Waiting'
        /\ \A e \in Cmd : Has(e, i)' => e = d
  BY <1>5, <1>6 DEF IInv, Borrowed, Landed, Waiting
<1>8. \A d \in Cmd :
        cmd'[d].conn = IF cmd'[d].pc = "exe" THEN conns'[cmd'[d].idx] ELSE NoConn
  BY <1>4, <1>6 DEF IInv, Borrowed
<1>9. Borrowed' BY <1>7, <1>8 DEF Borrowed
<1> QED BY <1>1, <1>2, <1>3, <1>9 DEF IInv

(* A command that has a slot finds it connected.                           *)
LEMMA HasConn ==
  ASSUME IInv, NEW c \in Cmd, cmd[c].pc \in {"check", "found", "use", "exe", "free"}
  PROVE  /\ cmd[c].idx \in Slot /\ Has(c, cmd[c].idx) /\ Done(cmd[c].idx)
         /\ conns[cmd[c].idx] \in open /\ conns[cmd[c].idx] # NoConn
<1>1. cmd[c].idx \in Slot BY DEF IInv, TypeOK, CmdType
<1>2. Has(c, cmd[c].idx) BY DEF Has
<1>3. conn_stats[cmd[c].idx] = "done" BY <1>1, <1>2 DEF IInv, Borrowed, Landed
<1> QED BY <1>1, <1>2, <1>3 DEF IInv, Wired, Done

(* A command takes a slot, keeps it, and gives it back or up.              *)
LEMMA CommandSafe ==
  ASSUME IInv, NEW c \in Cmd, Command(c), TypeOK'
  PROVE  IInv'
<1>0. cmd[c] \in CmdType /\ TypeOK BY DEF IInv, TypeOK
<1>1. ASSUME NEW sync \in BOOLEAN, Request(c, sync) PROVE IInv'
  <2> DEFINE x == [NoCmd EXCEPT !.pc = "take", !.sync = sync]
  <2>1. x \in CmdType BY SlotFacts DEF CmdType
  <2>2. x.pc = "take" /\ x.conn = NoConn BY DEF NoCmd
  <2>3. cmd' = [cmd EXCEPT ![c] = x] BY <1>1 DEF Request
  <2> HIDE DEF x
  <2> QED BY <1>1, <2>1, <2>2, <2>3, CommandOnly DEF Request
<1>9. CASE CheckBreak(c)
  <2> DEFINE x == [cmd[c] EXCEPT !.pc = "found"]
  <2>1. x \in CmdType BY <1>0 DEF CmdType
  <2>2. x.pc = "found" /\ x.conn = cmd[c].conn /\ x.idx = cmd[c].idx
    BY <1>0 DEF CmdType
  <2>3. cmd' = [cmd EXCEPT ![c] = x] BY <1>9 DEF CheckBreak
  <2>4. cmd[c].pc = "check" BY <1>9 DEF CheckBreak
  <2>5. Has(c, x.idx) BY <2>2, <2>4, HasConn
  <2>6. x.conn = NoConn BY <2>2, <2>4 DEF IInv, Borrowed
  <2> HIDE DEF x
  <2> QED BY <1>9, <2>1, <2>2, <2>3, <2>5, <2>6, CommandOnly DEF CheckBreak
<1>2. CASE CheckValid(c)
  <2> DEFINE x == [cmd[c] EXCEPT !.pc = "use"]
  <2>1. x \in CmdType BY <1>0 DEF CmdType
  <2>2. x.pc = "use" /\ x.conn = cmd[c].conn /\ x.idx = cmd[c].idx
    BY <1>0 DEF CmdType
  <2>3. cmd' = [cmd EXCEPT ![c] = x] BY <1>2 DEF CheckValid
  <2>4. cmd[c].pc = "found" BY <1>2 DEF CheckValid
  <2>5. Has(c, x.idx) BY <2>2, <2>4, HasConn
  <2>6. x.conn = NoConn BY <2>2, <2>4 DEF IInv, Borrowed
  <2> HIDE DEF x
  <2> QED BY <1>2, <2>1, <2>2, <2>3, <2>5, <2>6, CommandOnly DEF CheckValid
<1>3. CASE CheckAgain(c) \/ CheckDrop(c)
  BY <1>3, HasConn DEF CheckAgain, CheckDrop
<1>4. CASE Use(c)
  <2> DEFINE x == [cmd[c] EXCEPT !.pc = "exe", !.conn = conns[cmd[c].idx]]
  <2>1. cmd[c].pc = "use" BY <1>4 DEF Use
  <2>2. conns[cmd[c].idx] \in Conn \cup {NoConn} BY <1>0, <2>1, HasConn DEF TypeOK
  <2>3. x \in CmdType BY <1>0, <2>2 DEF CmdType
  <2>4. x.pc = "exe" /\ x.idx = cmd[c].idx /\ x.conn = conns[cmd[c].idx]
    BY <1>0 DEF CmdType
  <2>5. cmd' = [cmd EXCEPT ![c] = x] BY <1>4 DEF Use
  <2>6. Has(c, x.idx) BY <2>1, <2>4, HasConn
  <2>7. UNCHANGED <<slots, config, idle_queue, err_queue, dialing, arriving, mgr>>
    BY <1>4 DEF Use
  <2> HIDE DEF x
  <2>8. x.conn = conns[x.idx] BY <2>4
  <2> QED BY <2>3, <2>4, <2>5, <2>6, <2>7, <2>8, CommandOnly
<1>5. CASE ExePanic(c)
  <2>1. cmd[c].pc = "exe" /\ cmd[c].conn = NoConn BY <1>5 DEF ExePanic
  <2>2. cmd[c].conn = conns[cmd[c].idx] BY <2>1 DEF IInv, Borrowed
  <2> QED BY <2>1, <2>2, HasConn
<1>6. ASSUME NEW err \in BOOLEAN, ExeCmd(c, err) PROVE IInv'
  <2> DEFINE x == [cmd[c] EXCEPT !.pc = "free", !.close = err, !.conn = NoConn]
  <2>1. x \in CmdType BY <1>0 DEF CmdType
  <2>2. x.pc = "free" /\ x.idx = cmd[c].idx /\ x.conn = NoConn
    BY <1>0 DEF CmdType
  <2>3. cmd' = [cmd EXCEPT ![c] = x] BY <1>6 DEF ExeCmd
  <2>4. cmd[c].pc = "exe" BY <1>6 DEF ExeCmd
  <2>5. Has(c, x.idx) BY <2>2, <2>4, HasConn
  <2> HIDE DEF x
  <2> QED BY <1>6, <2>1, <2>2, <2>3, <2>5, CommandOnly DEF ExeCmd
<1>7. CASE Take(c)
  <2>1. PICK h : h = Head(idle_queue) OBVIOUS
  <2>2. h \in Slot /\ h \in Waiting /\ Waiting' = Waiting \ {h} /\ Once'
    BY <1>0, <1>7, <2>1, TakeFirst DEF Take, IInv, Queued
  <2>3. UNCHANGED <<conn_stats, conns, open, reset_queue, err_queue,
                    dialing, arriving, mgr>>
    BY <1>7 DEF Take, slots, config
  <2>4. /\ cmd'[c].pc = "check" /\ cmd'[c].idx = h
        /\ cmd'[c].conn = cmd[c].conn
        /\ \A d \in Cmd \ {c} : cmd'[d] = cmd[d]
    BY <1>0, <1>7, <2>1 DEF Take, TypeOK, CmdType
  <2>5. NeverReset' /\ Wired' /\ Dialled' /\ GivenUp'
    BY <2>3 DEF IInv, NeverReset, Wired, Dialled, GivenUp, Landed
  <2>6. Queued' BY <2>2, <2>3 DEF IInv, Queued, Landed
  <2>7. Landed(h) /\ h \notin err_queue /\ h \notin mgr.release
    BY <2>2 DEF IInv, Queued
  <2>8. \A d \in Cmd : ~Has(d, h) BY <2>2 DEF IInv, Borrowed
  <2>9. \A d \in Cmd, i \in Slot : Has(d, i)' => (d = c /\ i = h) \/ Has(d, i)
    BY <2>4 DEF Has
  <2>10. \A i \in Slot : Has(c, i)' => i = h BY <2>4 DEF Has
  <2>11. ASSUME NEW d \in Cmd, NEW i \in Slot, Has(d, i)'
         PROVE  /\ Landed(i)' /\ i \notin err_queue' /\ i \notin mgr'.release
                /\ i \notin Waiting'
                /\ \A e \in Cmd : Has(e, i)' => e = d
    <3>1. CASE d = c
      <4>1. i = h BY <2>10, <2>11, <3>1
      <4> QED BY <2>2, <2>3, <2>7, <2>8, <2>9, <3>1, <4>1 DEF Landed
    <3>2. CASE d # c
      <4>1. Has(d, i) BY <2>9, <2>11, <3>2
      <4>2. /\ Landed(i) /\ i \notin err_queue /\ i \notin mgr.release
            /\ i \notin Waiting
            /\ \A e \in Cmd : Has(e, i) => e = d
        BY <4>1 DEF IInv, Borrowed
      <4>3. i # h BY <2>8, <4>1
      <4> QED BY <2>2, <2>3, <2>9, <2>10, <4>2, <4>3 DEF Landed
    <3> QED BY <3>1, <3>2
  <2>12. \A d \in Cmd :
           cmd'[d].conn = IF cmd'[d].pc = "exe" THEN conns'[cmd'[d].idx] ELSE NoConn
    <3>1. cmd[c].pc = "take" BY <1>7 DEF Take
    <3> QED BY <2>3, <2>4, <3>1 DEF IInv, Borrowed
  <2>13. Borrowed' BY <2>11, <2>12 DEF Borrowed
  <2> QED BY <2>5, <2>6, <2>13 DEF IInv
<1>8. CASE Free(c)
  <2>0. PICK i : i = cmd[c].idx OBVIOUS
  <2>1. cmd[c].pc = "free" BY <1>8 DEF Free
  <2>2. i \in Slot /\ Has(c, i) BY <2>0, <2>1, HasConn
  <2>3. /\ Landed(i)
        /\ i \notin err_queue /\ i \notin mgr.release /\ i \notin Waiting
        /\ \A d \in Cmd : Has(d, i) => d = c
    BY <2>2 DEF IInv, Borrowed
  <2>4. UNCHANGED <<conn_stats, conns, open, reset_queue, dialing, arriving, mgr>>
    BY <1>8 DEF Free, slots, config
  <2>5. cmd'[c] = NoCmd /\ \A d \in Cmd \ {c} : cmd'[d] = cmd[d]
    BY <1>0, <1>8 DEF Free, TypeOK
  <2>6. NeverReset' /\ Wired' /\ Dialled'
    BY <2>4 DEF IInv, NeverReset, Wired, Dialled
  <2>7. \A d \in Cmd, j \in Slot : Has(d, j)' => Has(d, j) /\ j # i
    BY <2>0, <2>3, <2>5 DEF Has, NoCmd
  <2>8. \A d \in Cmd :
          cmd'[d].conn = IF cmd'[d].pc = "exe" THEN conns'[cmd'[d].idx] ELSE NoConn
    BY <2>4, <2>5 DEF IInv, Borrowed, NoCmd
  <2>9. \/ idle_queue' = idle_queue /\ err_queue' \subseteq err_queue \cup {i}
        \/ idle_queue' = Append(idle_queue, i) /\ err_queue' = err_queue
    BY <1>8, <2>0 DEF Free
  <2>10. /\ Once'
         /\ \/ Waiting' = Waiting /\ err_queue' \subseteq err_queue \cup {i}
            \/ Waiting' = Waiting \cup {i} /\ err_queue' = err_queue
    <3>1. Once BY DEF IInv, Queued
    <3>2. CASE idle_queue' = idle_queue /\ err_queue' \subseteq err_queue \cup {i}
      BY <3>1, <3>2 DEF Once, Waiting
    <3>3. CASE idle_queue' = Append(idle_queue, i) /\ err_queue' = err_queue
      BY <1>0, <2>2, <2>3, <3>1, <3>3, GiveBack
    <3> QED BY <2>9, <3>2, <3>3
  <2>11. Queued' BY <2>3, <2>4, <2>10 DEF IInv, Queued, Landed
  <2>12. GivenUp' BY <2>3, <2>4, <2>10 DEF IInv, GivenUp, Landed
  <2>13. Borrowed'
    <3>1. ASSUME NEW d \in Cmd, NEW j \in Slot, Has(d, j)'
          PROVE  /\ Landed(j)' /\ j \notin err_queue' /\ j \notin mgr'.release
                 /\ j \notin Waiting'
                 /\ \A e \in Cmd : Has(e, j)' => e = d
      <4>1. Has(d, j) /\ j # i BY <2>7, <3>1
      <4>2. /\ Landed(j) /\ j \notin err_queue /\ j \notin mgr.release
            /\ j \notin Waiting
            /\ \A e \in Cmd : Has(e, j) => e = d
        BY <4>1 DEF IInv, Borrowed
      <4> QED BY <2>4, <2>7, <2>10, <4>1, <4>2 DEF Landed
    <3> QED BY <2>8, <3>1 DEF Borrowed
  <2> QED BY <2>6, <2>11, <2>12, <2>13 DEF IInv
<1> QED
  <2>1. CASE \E sync \in BOOLEAN : Request(c, sync) BY <2>1, <1>1
  <2>2. CASE \E err \in BOOLEAN : ExeCmd(c, err) BY <2>2, <1>6
  <2> QED BY <2>1, <2>2, <1>2, <1>3, <1>4, <1>5, <1>7, <1>8, <1>9
      DEF Command, Run

(* A dial fails, or connects a slot that was nowhere and then puts it into *)
(* idle_queue.                                                             *)
LEMMA DialSafe ==
  ASSUME IInv, NEW i \in Slot, Landing(i) \/ DialFail(i), TypeOK'
  PROVE  IInv'
<1>0. TypeOK /\ dialing[i] \in Nat /\ arriving[i] \in Nat BY DEF IInv, TypeOK
<1>1. CASE DialFail(i)
  <2>1. UNCHANGED <<conns, open, reset_queue, idle_queue, err_queue,
                    arriving, cmd, mgr>>
    BY <1>1 DEF DialFail, config
  <2>2. dialing[i] = 1 /\ conn_stats[i] = "ing" /\ conns[i] = NoConn
    BY <1>0, <1>1 DEF DialFail, IInv, Dialled, Wired
  <2>3. /\ conn_stats'[i] = "none" /\ dialing'[i] = 0
        /\ \A j \in Slot \ {i} : /\ conn_stats'[j] = conn_stats[j]
                                 /\ dialing'[j] = dialing[j]
    BY <1>0, <1>1, <2>2 DEF DialFail, Drop, TypeOK
  <2>4. \A j \in Slot : Landed(j)' <=> Landed(j) BY <2>1, <2>2, <2>3 DEF Landed
  <2>5. NeverReset' BY <2>1 DEF IInv, NeverReset
  <2>6. Wired' BY <2>1, <2>2, <2>3 DEF IInv, Wired
  <2>7. Dialled'
    <3> SUFFICES ASSUME NEW j \in Slot
                 PROVE  /\ dialing'[j] > 0 <=> conn_stats'[j] = "ing"
                        /\ arriving'[j] > 0 => conn_stats'[j] = "done"
                        /\ dialing'[j] <= 1 /\ arriving'[j] <= 1
      BY DEF Dialled
    <3>1. CASE j = i BY <2>1, <2>2, <2>3, <3>1 DEF IInv, Dialled
    <3>2. CASE j # i BY <2>1, <2>3, <3>2 DEF IInv, Dialled
    <3> QED BY <3>1, <3>2
  <2>8. Waiting \subseteq Slot /\ Waiting' = Waiting /\ (Once' <=> Once)
    BY <1>0, <2>1, WaitingSlots, SameQueue
  <2>9. Queued' /\ GivenUp' BY <2>1, <2>4, <2>8 DEF IInv, Queued, GivenUp
  <2>10. Borrowed' BY <2>1, <2>4, <2>8, StillBorrowed DEF IInv, Borrowed
  <2> QED BY <2>5, <2>6, <2>7, <2>9, <2>10 DEF IInv
<1>2. ASSUME NEW k \in Conn, DialDone(i, k) PROVE IInv'
  <2>1. UNCHANGED <<reset_queue, idle_queue, err_queue, cmd, mgr>>
    BY <1>2 DEF DialDone, config
  <2>2. dialing[i] = 1 /\ conn_stats[i] = "ing" /\ arriving[i] = 0
    BY <1>0, <1>2 DEF DialDone, IInv, Dialled
  <2>3. /\ conn_stats'[i] = "done" /\ dialing'[i] = 0 /\ arriving'[i] = 1
        /\ conns'[i] = k /\ open' = open \cup {k}
        /\ \A j \in Slot \ {i} :
             /\ conn_stats'[j] = conn_stats[j] /\ conns'[j] = conns[j]
             /\ dialing'[j] = dialing[j] /\ arriving'[j] = arriving[j]
    BY <1>0, <1>2, <2>2 DEF DialDone, Drop, Put, TypeOK
  <2>4. k # NoConn /\ \A j \in Slot : conns[j] # k BY <1>2 DEF DialDone, Fresh
  <2>5. \A j \in Slot : Landed(j)' <=> Landed(j) BY <2>2, <2>3 DEF Landed
  <2>6. NeverReset' BY <2>1 DEF IInv, NeverReset
  <2>7. Wired' BY <2>3, <2>4 DEF IInv, Wired
  <2>8. Dialled'
    <3> SUFFICES ASSUME NEW j \in Slot
                 PROVE  /\ dialing'[j] > 0 <=> conn_stats'[j] = "ing"
                        /\ arriving'[j] > 0 => conn_stats'[j] = "done"
                        /\ dialing'[j] <= 1 /\ arriving'[j] <= 1
      BY DEF Dialled
    <3>1. CASE j = i BY <2>3, <3>1
    <3>2. CASE j # i BY <2>3, <3>2 DEF IInv, Dialled
    <3> QED BY <3>1, <3>2
  <2>9. Waiting \subseteq Slot /\ Waiting' = Waiting /\ (Once' <=> Once)
    BY <1>0, <2>1, WaitingSlots, SameQueue
  <2>10. Queued' /\ GivenUp' BY <2>1, <2>5, <2>9 DEF IInv, Queued, GivenUp
  <2>11. ~Landed(i) BY <2>2 DEF Landed
  <2>12. \A d \in Cmd, j \in Slot : Has(d, j) => j # i
    BY <2>11 DEF IInv, Borrowed
  <2>13. Borrowed'
    BY <2>1, <2>3, <2>5, <2>9, <2>12, StillBorrowed DEF IInv, Borrowed
  <2> QED BY <2>6, <2>7, <2>8, <2>10, <2>13 DEF IInv
<1>3. CASE Arrive(i)
  <2>1. UNCHANGED <<conn_stats, conns, open, reset_queue, err_queue, dialing,
                    cmd, mgr>>
    BY <1>3 DEF Arrive, slots, config
  <2>2. arriving[i] = 1 /\ conn_stats[i] = "done"
    BY <1>0, <1>3 DEF Arrive, IInv, Dialled
  <2>3. arriving'[i] = 0 /\ \A j \in Slot \ {i} : arriving'[j] = arriving[j]
    BY <1>0, <1>3, <2>2 DEF Arrive, Drop, TypeOK
  <2>4. ~Landed(i) /\ Landed(i)' /\ \A j \in Slot \ {i} : Landed(j)' <=> Landed(j)
    BY <2>1, <2>2, <2>3 DEF Landed
  <2>5. i \notin Waiting /\ i \notin err_queue /\ i \notin mgr.release
    BY <2>4 DEF IInv, Queued, GivenUp
  <2>6. \A d \in Cmd : ~Has(d, i) BY <2>4 DEF IInv, Borrowed
  <2>7. Waiting \subseteq Slot /\ Waiting' = Waiting \cup {i} /\ Once'
    <3>1. Waiting \subseteq Slot BY <1>0, WaitingSlots
    <3> QED BY <1>0, <1>3, <2>5, <3>1, GiveBack DEF Arrive, IInv, Queued
  <2>8. NeverReset' /\ Wired' BY <2>1 DEF IInv, NeverReset, Wired
  <2>9. Dialled'
    <3> SUFFICES ASSUME NEW j \in Slot
                 PROVE  /\ dialing'[j] > 0 <=> conn_stats'[j] = "ing"
                        /\ arriving'[j] > 0 => conn_stats'[j] = "done"
                        /\ dialing'[j] <= 1 /\ arriving'[j] <= 1
      BY DEF Dialled
    <3>1. CASE j = i BY <2>1, <2>2, <2>3, <3>1 DEF IInv, Dialled
    <3>2. CASE j # i BY <2>1, <2>3, <3>2 DEF IInv, Dialled
    <3> QED BY <3>1, <3>2
  <2>10. Queued' BY <2>1, <2>4, <2>5, <2>7 DEF IInv, Queued
  <2>11. GivenUp' BY <2>1, <2>4, <2>5 DEF IInv, GivenUp
  <2>12. \A d \in Cmd, j \in Slot : Has(d, j) => j # i
    BY <2>6
  <2>13. Borrowed'
    BY <2>1, <2>4, <2>7, <2>12, StillBorrowed DEF IInv, Borrowed
  <2> QED BY <2>8, <2>9, <2>10, <2>11, <2>13 DEF IInv
<1> QED BY <1>1, <1>2, <1>3 DEF Landing

(* The manager closes slots that it alone has.                             *)
LEMMA CloseSafe ==
  ASSUME IInv, NEW S \in SUBSET Slot, CloseSpec(S), TypeOK', NeverReset',
         \A i \in S : Landed(i) /\ i \notin Waiting,
         \A i \in S, c \in Cmd : ~Has(c, i),
         \A i \in Slot : i \in err_queue' => i \in err_queue \ S,
         \A i \in Slot : i \in mgr'.release => i \in mgr.release \ S,
         UNCHANGED <<idle_queue, dialing, arriving, cmd>>
  PROVE  /\ IInv'
         /\ open' = open \ {conns[i] : i \in S}
         /\ \A i \in S : conns[i] # NoConn
<1>1. \A i \in S : conn_stats[i] = "done" /\ conns[i] # NoConn /\ arriving[i] = 0
  BY DEF IInv, Wired, Landed
<1>2. open' = open \ {conns[i] : i \in S}
  <2>1. {i \in S : conn_stats[i] # "none"} = S BY <1>1
  <2> QED BY <2>1 DEF CloseSpec
<1>3. /\ \A i \in S : conn_stats'[i] = "none" /\ conns'[i] = NoConn
      /\ \A i \in Slot \ S : conn_stats'[i] = conn_stats[i] /\ conns'[i] = conns[i]
  BY DEF CloseSpec
<1>4. Wired'
  <2> SUFFICES ASSUME NEW i \in Slot
               PROVE  /\ conn_stats'[i] = "done" <=> conns'[i] # NoConn
                      /\ conns'[i] # NoConn => conns'[i] \in open'
                      /\ \A j \in Slot : conns'[i] = conns'[j] /\ conns'[i] # NoConn
                                           => i = j
    BY DEF Wired
  <2>1. CASE i \in S BY <1>3, <2>1
  <2>2. CASE i \notin S
    <3>1. conns'[i] = conns[i] /\ conn_stats'[i] = conn_stats[i] BY <1>3, <2>2
    <3>2. conns[i] # NoConn => conns[i] \in open' BY <1>2, <2>2 DEF IInv, Wired
    <3>3. \A j \in Slot : conns'[i] = conns'[j] /\ conns'[i] # NoConn => i = j
      BY <1>3, <3>1 DEF IInv, Wired
    <3> QED BY <3>1, <3>2, <3>3 DEF IInv, Wired
  <2> QED BY <2>1, <2>2
<1>5. Dialled'
  <2> SUFFICES ASSUME NEW i \in Slot
               PROVE  /\ dialing'[i] > 0 <=> conn_stats'[i] = "ing"
                      /\ arriving'[i] > 0 => conn_stats'[i] = "done"
                      /\ dialing'[i] <= 1 /\ arriving'[i] <= 1
    BY DEF Dialled
  <2>1. CASE i \in S BY <1>1, <1>3, <2>1 DEF IInv, Dialled
  <2>2. CASE i \notin S BY <1>3, <2>2 DEF IInv, Dialled
  <2> QED BY <2>1, <2>2
<1>6. \A i \in Slot \ S : Landed(i)' <=> Landed(i) BY <1>3 DEF Landed
<1>7. Waiting \subseteq Slot /\ Waiting' = Waiting /\ (Once' <=> Once)
  BY WaitingSlots, SameQueue DEF IInv
<1>8. Queued' BY <1>6, <1>7 DEF IInv, TypeOK, Queued
<1>9. GivenUp' BY <1>6 DEF IInv, TypeOK, GivenUp
<1>10. \A d \in Cmd, j \in Slot : Has(d, j) => j \notin S OBVIOUS
<1>11. Borrowed'
  BY <1>3, <1>6, <1>7, <1>10, StillBorrowed DEF IInv, Borrowed
<1> QED BY <1>1, <1>2, <1>4, <1>5, <1>8, <1>9, <1>11 DEF IInv

(* So do the two closes of the manager.                                    *)
LEMMA ManageErrSafe ==
  ASSUME IInv, ManageErr, TypeOK'
  PROVE  /\ IInv' /\ open' = open \ {conns[i] : i \in err_queue}
         /\ \A i \in err_queue : i \in Slot /\ conns[i] # NoConn /\ Landed(i)
<1>1. err_queue \in SUBSET Slot /\ mgr \in MgrType BY DEF IInv, TypeOK
<1>2. /\ mgr'.pc = "reset" /\ mgr'.release = mgr.release /\ ~reset_queue'
      /\ CloseSpec(err_queue) /\ err_queue' = {}
      /\ UNCHANGED <<idle_queue, dialing, arriving, cmd>>
  BY <1>1 DEF ManageErr, MgrType, IInv, NeverReset, config
<1>3. \A i \in err_queue : Landed(i) /\ i \notin Waiting /\ i \notin mgr.release
  BY <1>1 DEF IInv, GivenUp, Queued
<1>4. \A i \in err_queue, c \in Cmd : ~Has(c, i) BY <1>1 DEF IInv, Borrowed
<1>5. NeverReset' BY <1>2 DEF NeverReset
<1>6. /\ \A i \in Slot : i \in err_queue' => i \in err_queue \ err_queue
      /\ \A i \in Slot : i \in mgr'.release => i \in mgr.release \ err_queue
  BY <1>2, <1>3
<1>7. /\ IInv' /\ open' = open \ {conns[i] : i \in err_queue}
      /\ \A i \in err_queue : conns[i] # NoConn
  BY <1>1, <1>2, <1>3, <1>4, <1>5, <1>6, CloseSafe
<1> QED BY <1>1, <1>3, <1>7

LEMMA ShrinkCloseSafe ==
  ASSUME IInv, ShrinkClose, TypeOK'
  PROVE  /\ IInv' /\ open' = open \ {conns[i] : i \in mgr.release}
         /\ \A i \in mgr.release : i \in Slot /\ conns[i] # NoConn /\ Landed(i)
<1>1. mgr.release \in SUBSET Slot BY DEF IInv, TypeOK, MgrType
<1>2. /\ mgr'.pc = "sleep" /\ mgr'.release = {} /\ ~reset_queue'
      /\ CloseSpec(mgr.release)
      /\ UNCHANGED <<idle_queue, err_queue, dialing, arriving, cmd>>
  BY DEF ShrinkClose, Sleeping, IInv, NeverReset, config
<1>3. \A i \in mgr.release : Landed(i) /\ i \notin Waiting /\ i \notin err_queue
  BY <1>1 DEF IInv, GivenUp, Queued
<1>4. \A i \in mgr.release, c \in Cmd : ~Has(c, i) BY <1>1 DEF IInv, Borrowed
<1>5. NeverReset' BY <1>2 DEF NeverReset
<1>6. /\ \A i \in Slot : i \in err_queue' => i \in err_queue \ mgr.release
      /\ \A i \in Slot : i \in mgr'.release => i \in mgr.release \ mgr.release
  BY <1>2, <1>3
<1>7. /\ IInv' /\ open' = open \ {conns[i] : i \in mgr.release}
      /\ \A i \in mgr.release : conns[i] # NoConn
  BY <1>1, <1>2, <1>3, <1>4, <1>5, <1>6, CloseSafe
<1> QED BY <1>1, <1>3, <1>7

(* The manager dials for slots that are not connected.                     *)
LEMMA ConnectSafe ==
  ASSUME IInv, ManageConnect \/ ManageExpand, TypeOK'
  PROVE  IInv'
<1>1. PICK n : Connect(Chosen(n)) BY DEF ManageConnect, ManageExpand
<1>2. PICK S : S = Chosen(n) OBVIOUS
<1>3. S \in SUBSET Slot /\ \A i \in S : conn_stats[i] = "none"
  BY <1>2, ChosenType, BelowMax DEF IInv, Chosen
<1>4. UNCHANGED <<conns, open, reset_queue, idle_queue, err_queue, arriving, cmd>>
  BY DEF ManageConnect, ManageExpand, config
<1>5. mgr'.pc = "sleep" /\ mgr'.release = {}
  BY DEF ManageConnect, ManageExpand, Sleeping
<1>6. \A i \in Slot : dialing[i] \in Nat BY DEF IInv, TypeOK
<1>7. /\ \A i \in S : conn_stats'[i] = "ing" /\ dialing'[i] = dialing[i] + 1
      /\ \A i \in Slot \ S : conn_stats'[i] = conn_stats[i] /\ dialing'[i] = dialing[i]
  BY <1>1, <1>2, <1>3 DEF Connect
<1>8. \A i \in S : dialing[i] = 0 /\ ~ (arriving[i] > 0) BY <1>3, <1>6 DEF IInv, Dialled
<1>9. \A i \in Slot : Landed(i)' <=> Landed(i) BY <1>3, <1>4, <1>7 DEF Landed
<1>10. NeverReset' BY <1>4, <1>5 DEF IInv, NeverReset
<1>11. Wired' BY <1>3, <1>4, <1>7 DEF IInv, Wired
<1>12. Dialled'
  <2> SUFFICES ASSUME NEW i \in Slot
               PROVE  /\ dialing'[i] > 0 <=> conn_stats'[i] = "ing"
                      /\ arriving'[i] > 0 => conn_stats'[i] = "done"
                      /\ dialing'[i] <= 1 /\ arriving'[i] <= 1
    BY DEF Dialled
  <2>1. CASE i \in S BY <1>4, <1>7, <1>8, <2>1 DEF IInv, Dialled
  <2>2. CASE i \notin S BY <1>4, <1>7, <2>2 DEF IInv, Dialled
  <2> QED BY <2>1, <2>2
<1>13. Waiting \subseteq Slot /\ Waiting' = Waiting /\ (Once' <=> Once)
  BY <1>4, WaitingSlots, SameQueue DEF IInv
<1>14. Queued' /\ GivenUp'
  BY <1>4, <1>5, <1>9, <1>13 DEF IInv, Queued, GivenUp
<1>15. Borrowed' BY <1>4, <1>5, <1>9, <1>13, StillBorrowed DEF IInv, Borrowed
<1> QED BY <1>10, <1>11, <1>12, <1>14, <1>15 DEF IInv

(* Its other steps change nothing but what it is to do.                    *)
LEMMA ManagerOnly ==
  ASSUME IInv, TypeOK', mgr'.pc # "close", mgr'.release \subseteq mgr.release,
         UNCHANGED <<slots, config, idle_queue, err_queue, dialing, arriving, cmd>>
  PROVE  IInv'
<1>1. UNCHANGED <<conn_stats, conns, open, reset_queue>> BY DEF slots, config
<1>2. NeverReset' /\ Wired' /\ Dialled'
  BY <1>1 DEF IInv, NeverReset, Wired, Dialled
<1>3. \A i \in Slot : Landed(i)' <=> Landed(i) BY <1>1 DEF Landed
<1>4. Waiting \subseteq Slot /\ Waiting' = Waiting /\ (Once' <=> Once)
  BY WaitingSlots, SameQueue DEF IInv
<1>5. Queued' /\ GivenUp' BY <1>3, <1>4 DEF IInv, Queued, GivenUp
<1>6. Borrowed' BY <1>1, <1>3, <1>4, StillBorrowed DEF IInv, Borrowed
<1> QED BY <1>2, <1>5, <1>6 DEF IInv

LEMMA ShrinkTakeSafe ==
  ASSUME IInv, ShrinkTake, TypeOK'
  PROVE  IInv'
<1>0. TypeOK /\ mgr \in MgrType BY DEF IInv, TypeOK
<1>1. PICK h : h = Head(idle_queue) OBVIOUS
<1>2. /\ h \in Slot /\ h \in Waiting /\ Waiting' = Waiting \ {h} /\ Once'
      /\ Waiting \subseteq Slot
  BY <1>0, <1>1, TakeFirst, WaitingSlots DEF ShrinkTake, IInv, Queued
<1>3. UNCHANGED <<conn_stats, conns, open, reset_queue, err_queue, dialing,
                  arriving, cmd>>
  BY DEF ShrinkTake, slots, config
<1>4. mgr'.pc = "shrink" /\ mgr'.release = mgr.release \cup {h}
  BY <1>0, <1>1 DEF ShrinkTake, MgrType
<1>5. Landed(h) /\ h \notin err_queue BY <1>2 DEF IInv, Queued
<1>6. \A c \in Cmd : ~Has(c, h) BY <1>2 DEF IInv, Borrowed
<1>7. NeverReset' BY <1>3, <1>4 DEF IInv, NeverReset
<1>8. Wired' /\ Dialled' BY <1>3 DEF IInv, Wired, Dialled
<1>9. \A i \in Slot : Landed(i)' <=> Landed(i) BY <1>3 DEF Landed
<1>10. Queued' BY <1>2, <1>3, <1>4, <1>9 DEF IInv, Queued
<1>11. GivenUp' BY <1>3, <1>4, <1>5, <1>9 DEF IInv, GivenUp
<1>12. \A c \in Cmd, i \in Slot : Has(c, i) => i # h BY <1>6
<1>13. Borrowed'
  BY <1>2, <1>3, <1>4, <1>9, <1>12, StillBorrowed DEF IInv, Borrowed
<1> QED BY <1>7, <1>8, <1>10, <1>11, <1>13 DEF IInv

(* No step of a pool that is not reset puts a slot in two places.          *)
LEMMA SafeStep ==
  ASSUME ResetTo = {}
  PROVE  IInv /\ [Next]_vars => IInv'
<1> SUFFICES ASSUME IInv, [Next]_vars PROVE IInv'
  OBVIOUS
<1>0. TypeOK' BY TypeStep DEF IInv
<1>1. CASE ManageNoReset
  <2>1. mgr'.pc = "connect" /\ mgr'.release = mgr.release
    BY <1>1 DEF ManageNoReset, IInv, TypeOK, MgrType
  <2> QED BY <1>0, <1>1, <2>1, ManagerOnly DEF ManageNoReset
<1>2. CASE ManageShrink
  <2>1. mgr'.pc # "close" /\ mgr'.release = {}
    BY <1>2 DEF ManageShrink, Sleeping
  <2> QED BY <1>0, <1>2, <2>1, ManagerOnly DEF ManageShrink
<1>3. ~ManageReset /\ ~ManageClose
  BY DEF ManageReset, ManageClose, IInv, NeverReset
<1>4. CASE UNCHANGED vars
  <2>1. NeverReset' /\ Wired' /\ Dialled'
    BY <1>4 DEF vars, slots, config, IInv, NeverReset, Wired, Dialled
  <2> QED BY <1>0, <1>4, ManagerOnly DEF vars, IInv, NeverReset
<1> QED
  BY <1>0, <1>1, <1>2, <1>3, <1>4, CommandSafe, DialSafe, ManageErrSafe,
     ShrinkCloseSafe, ConnectSafe, ShrinkTakeSafe
     DEF Next, Manage

-----------------------------------------------------------------------------
(* What the pool promises. *)

Lent == [c \in Cmd |-> cmd[c].conn]

(* The connection of a slot is lent to who has the slot. *)
LEMMA LentOf ==
  ASSUME IInv, NEW c \in Cmd, NEW i \in Slot, cmd[c].conn = conns[i],
         conns[i] # NoConn
  PROVE  cmd[c].pc = "exe" /\ Has(c, i)
<1>1. cmd[c].pc = "exe" /\ cmd[c].conn = conns[cmd[c].idx] BY DEF IInv, Borrowed
<1>2. cmd[c].idx \in Slot BY <1>1, HasConn
<1>3. cmd[c].idx = i BY <1>1, <1>2 DEF IInv, Wired
<1> QED BY <1>1, <1>3 DEF Has

(* Closing slots that no command has closes idle connections.              *)
LEMMA CloseIdle ==
  ASSUME IInv, NEW S \in SUBSET Slot, UNCHANGED cmd,
         open' = open \ {conns[i] : i \in S},
         \A i \in S : conns[i] # NoConn,
         \A i \in S, c \in Cmd : ~Has(c, i)
  PROVE  Pool!Next
<1> DEFINE K == {conns[i] : i \in S}
<1>1. K \in SUBSET Conn BY DEF IInv, TypeOK
<1>2. ASSUME NEW k \in K PROVE k \in open /\ \A c \in Cmd : cmd[c].conn # k
  <2>1. PICK i \in S : k = conns[i] OBVIOUS
  <2>2. k \in open BY <2>1 DEF IInv, Wired
  <2>3. \A c \in Cmd : cmd[c].conn # k BY <2>1, LentOf
  <2> QED BY <2>2, <2>3
<1>3. Pool!Close(K)
  <2>1. \A k \in K : Pool!Idle(k) BY <1>2 DEF Pool!Idle
  <2>2. UNCHANGED [c \in Cmd |-> cmd[c].conn] OBVIOUS
  <2> HIDE DEF K
  <2>3. open' = open \ K BY DEF K
  <2> QED BY <2>1, <2>2, <2>3 DEF Pool!Close
<1> QED BY <1>1, <1>3 DEF Pool!Next

(* A command is lent a connection that is idle, and returns it.            *)
LEMMA CommandLends ==
  ASSUME IInv, IInv', NEW c \in Cmd, Command(c)
  PROVE  Pool!Next \/ UNCHANGED <<open, Lent>>
<1>0. /\ \A d \in Cmd : cmd[d].pc # "exe" => cmd[d].conn = NoConn
      /\ \A d \in Cmd : cmd'[d].pc # "exe" => cmd'[d].conn = NoConn
      /\ cmd[c] \in CmdType /\ cmd \in [Cmd -> CmdType]
      /\ cmd' \in [Cmd -> CmdType]
  BY DEF IInv, Borrowed, TypeOK
<1>1. open' = open
  BY DEF Command, Run, Request, Take, CheckAgain, CheckBreak, CheckValid, CheckDrop, Use,
         ExeCmd, ExePanic, Free, slots
<1>2. CASE Use(c)
  <2>1. PICK i : i = cmd[c].idx OBVIOUS
  <2>2. PICK k : k = conns[i] OBVIOUS
  <2>3. cmd[c].pc = "use" BY <1>2 DEF Use
  <2>4. i \in Slot /\ Has(c, i) /\ k \in open /\ k # NoConn
    BY <2>1, <2>2, <2>3, HasConn
  <2>5. k \in Conn BY <2>4 DEF IInv, TypeOK
  <2>6. \A d \in Cmd : cmd[d].conn # k
    <3> SUFFICES ASSUME NEW d \in Cmd, cmd[d].conn = k PROVE FALSE
      OBVIOUS
    <3>1. cmd[d].pc = "exe" /\ Has(d, i) BY <2>2, <2>4, LentOf
    <3>2. d = c BY <2>4, <3>1 DEF IInv, Borrowed
    <3> QED BY <2>3, <3>1, <3>2
  <2>7. cmd'[c].conn = k /\ \A d \in Cmd \ {c} : cmd'[d] = cmd[d]
    BY <1>0, <1>2, <2>1, <2>2 DEF Use, CmdType
  <2>8. [d \in Cmd |-> cmd[d].conn]' =
          [[d \in Cmd |-> cmd[d].conn] EXCEPT ![c] = k]
    BY <2>7
  <2>9. Pool!Lend(c, k) BY <1>0, <1>1, <2>3, <2>4, <2>6, <2>8 DEF Pool!Lend, Pool!Idle
  <2> QED BY <2>5, <2>9 DEF Pool!Next
<1>3. ASSUME NEW err \in BOOLEAN, ExeCmd(c, err) PROVE Pool!Next
  <2>1. cmd[c].pc = "exe" BY <1>3 DEF ExeCmd
  <2>2. cmd[c].conn # NoConn BY <2>1, HasConn DEF IInv, Borrowed
  <2>3. cmd'[c].conn = NoConn /\ \A d \in Cmd \ {c} : cmd'[d] = cmd[d]
    BY <1>0, <1>3 DEF ExeCmd, CmdType
  <2>4. [d \in Cmd |-> cmd[d].conn]' =
          [[d \in Cmd |-> cmd[d].conn] EXCEPT ![c] = NoConn]
    BY <2>3
  <2>5. Pool!Return(c) BY <1>1, <2>2, <2>4 DEF Pool!Return
  <2> QED BY <2>5 DEF Pool!Next
<1>4. CASE ExePanic(c)
  <2>1. cmd[c].pc = "exe" /\ cmd[c].conn = NoConn BY <1>4 DEF ExePanic
  <2> QED BY <2>1, HasConn DEF IInv, Borrowed
<1>5. ASSUME cmd[c].pc # "exe", cmd'[c].pc # "exe",
             \A d \in Cmd \ {c} : cmd'[d] = cmd[d]
      PROVE  UNCHANGED <<open, Lent>>
  <2>1. \A d \in Cmd : cmd'[d].conn = cmd[d].conn BY <1>0, <1>5
  <2> QED BY <1>1, <2>1 DEF Lent
<1>6. CASE \E sync \in BOOLEAN : Request(c, sync)
  <2>1. /\ cmd[c].pc = "none" /\ cmd'[c].pc = "take"
        /\ \A d \in Cmd \ {c} : cmd'[d] = cmd[d]
    BY <1>0, <1>6 DEF Request, NoCmd
  <2> QED BY <1>5, <2>1
<1>7. CASE Take(c)
  <2>1. /\ cmd[c].pc = "take" /\ cmd'[c].pc = "check"
        /\ \A d \in Cmd \ {c} : cmd'[d] = cmd[d]
    BY <1>0, <1>7 DEF Take, CmdType
  <2> QED BY <1>5, <2>1
<1>8. CASE CheckValid(c)
  <2>1. /\ cmd[c].pc = "found" /\ cmd'[c].pc = "use"
        /\ \A d \in Cmd \ {c} : cmd'[d] = cmd[d]
    BY <1>0, <1>8 DEF CheckValid, CmdType
  <2> QED BY <1>5, <2>1
<1>9. CASE CheckAgain(c)
  <2>1. /\ cmd[c].pc = "check" /\ cmd'[c].pc = "take"
        /\ \A d \in Cmd \ {c} : cmd'[d] = cmd[d]
    BY <1>0, <1>9 DEF CheckAgain, CmdType
  <2> QED BY <1>5, <2>1
<1>11. CASE CheckBreak(c)
  <2>1. /\ cmd[c].pc = "check" /\ cmd'[c].pc = "found"
        /\ \A d \in Cmd \ {c} : cmd'[d] = cmd[d]
    BY <1>0, <1>11 DEF CheckBreak, CmdType
  <2> QED BY <1>5, <2>1
<1>10. CASE CheckDrop(c) \/ Free(c)
  <2>1. /\ cmd[c].pc # "exe" /\ cmd'[c].pc = "none"
        /\ \A d \in Cmd \ {c} : cmd'[d] = cmd[d]
    BY <1>0, <1>10 DEF CheckDrop, Free, NoCmd
  <2> QED BY <1>5, <2>1
<1> QED BY <1>2, <1>3, <1>4, <1>6, <1>7, <1>8, <1>9, <1>10, <1>11
       DEF Command, Run

(* A step of the pool is a step of what it promises, or none.              *)
LEMMA LendingStep ==
  ASSUME ResetTo = {}, IInv, IInv', [Next]_vars
  PROVE  Pool!Next \/ UNCHANGED <<open, Lent>>
<1>1. ASSUME NEW c \in Cmd, Command(c)
      PROVE  Pool!Next \/ UNCHANGED <<open, Lent>>
  BY <1>1, CommandLends
<1>2. ASSUME NEW i \in Slot, NEW k \in Conn, DialDone(i, k) PROVE Pool!Next
  <2>1. /\ k \notin open /\ \A c \in Cmd : cmd[c].conn # k
        /\ open' = open \cup {k} /\ cmd' = cmd
    BY <1>2 DEF DialDone, Fresh
  <2>2. Pool!Connect(k) BY <2>1 DEF Pool!Connect
  <2> QED BY <2>2 DEF Pool!Next
<1>3. ASSUME open' = open, cmd' = cmd PROVE UNCHANGED <<open, Lent>>
  BY <1>3 DEF Lent
<1>4. ASSUME NEW i \in Slot, DialFail(i) \/ Arrive(i) PROVE UNCHANGED <<open, Lent>>
  BY <1>3, <1>4 DEF DialFail, Arrive, slots
<1>5. CASE ManageErr
  <2>1. /\ open' = open \ {conns[i] : i \in err_queue}
        /\ \A i \in err_queue : i \in Slot /\ conns[i] # NoConn
    BY <1>5, ManageErrSafe DEF IInv
  <2>2. \A i \in err_queue, c \in Cmd : ~Has(c, i) BY <2>1 DEF IInv, Borrowed
  <2>3. err_queue \in SUBSET Slot /\ cmd' = cmd BY <1>5, <2>1 DEF ManageErr
  <2> QED BY <2>1, <2>2, <2>3, CloseIdle
<1>6. CASE ShrinkClose
  <2>1. /\ open' = open \ {conns[i] : i \in mgr.release}
        /\ \A i \in mgr.release : i \in Slot /\ conns[i] # NoConn
    BY <1>6, ShrinkCloseSafe DEF IInv
  <2>2. \A i \in mgr.release, c \in Cmd : ~Has(c, i) BY <2>1 DEF IInv, Borrowed
  <2>3. mgr.release \in SUBSET Slot /\ cmd' = cmd BY <1>6, <2>1 DEF ShrinkClose
  <2> QED BY <2>1, <2>2, <2>3, CloseIdle
<1>7. ~ManageReset /\ ~ManageClose
  BY DEF ManageReset, ManageClose, IInv, NeverReset
<1>8. CASE ManageNoReset \/ ManageConnect \/ ManageExpand \/ ManageShrink \/ ShrinkTake
  BY <1>3, <1>8
     DEF ManageNoReset, ManageConnect, ManageExpand, ManageShrink, ShrinkTake, slots
<1>9. CASE UNCHANGED vars BY <1>3, <1>9 DEF vars, slots
<1>10. CASE \E i \in Slot : Landing(i) \/ DialFail(i)
  BY <1>2, <1>4, <1>10 DEF Landing
<1> QED BY <1>1, <1>5, <1>6, <1>7, <1>8, <1>9, <1>10 DEF Next, Manage

(* Of a pool that is not reset: a connection serves one command at a time, *)
(* and is closed only when no command has it, for any numbers of commands, *)
(* slots and connections and any failures.                                 *)
THEOREM Lends == ASSUME ResetTo = {} PROVE Spec => ImplementsLending
<1>1. Init => Pool!Init
  BY DEF Init, Pool!Init, NoCmd
<1>2. IInv /\ IInv' /\ [Next]_vars =>
        [Pool!Next]_<<open, [c \in Cmd |-> cmd[c].conn]>>
  BY LendingStep DEF Lent
<1>3. IInv /\ [Next]_vars => IInv' BY SafeStep
<1> QED BY <1>1, <1>2, <1>3, InitSafe, PTL DEF Spec, ImplementsLending, Pool!Spec

-----------------------------------------------------------------------------
(* The counter. *)

LEMMA CountStep ==
  ASSUME ResetTo = {}, IInv, CountExact, [Next]_vars
  PROVE  CountExact'
<1>0. TypeOK /\ Connected \in SUBSET Slot /\ IsFiniteSet(Connected)
  BY SlotFacts, FS_Subset DEF IInv, Connected
<1>1. ASSUME conn_count' = conn_count,
             \A i \in Slot : conn_stats'[i] = "done" <=> conn_stats[i] = "done"
      PROVE  CountExact'
  BY <1>1 DEF CountExact, Connected
<1>2. ASSUME NEW c \in Cmd, Command(c) PROVE CountExact'
  <2>1. UNCHANGED slots
    BY <1>2 DEF Command, Run, Request, Take, CheckAgain, CheckBreak, CheckValid, CheckDrop,
                Use, ExeCmd, ExePanic, Free
  <2> QED BY <1>1, <2>1 DEF slots
<1>3. ASSUME NEW i \in Slot, DialFail(i) PROVE CountExact'
  <2>1. conn_stats[i] = "ing" BY <1>3 DEF DialFail, IInv, Dialled
  <2>2. conn_count' = conn_count /\ conn_stats' = [conn_stats EXCEPT ![i] = "none"]
    BY <1>3 DEF DialFail
  <2> QED BY <1>0, <1>1, <2>1, <2>2 DEF TypeOK
<1>4. ASSUME NEW i \in Slot, NEW k \in Conn, DialDone(i, k) PROVE CountExact'
  <2>1. conn_stats[i] = "ing" BY <1>4 DEF DialDone, IInv, Dialled
  <2>2. /\ conn_count' = conn_count + 1
        /\ conn_stats' = [conn_stats EXCEPT ![i] = "done"]
    BY <1>4 DEF DialDone
  <2>3. i \notin Connected /\ Connected' = Connected \cup {i}
    BY <1>0, <2>1, <2>2 DEF Connected, TypeOK
  <2>4. Cardinality(Connected \cup {i}) = Cardinality(Connected) + 1
    BY <1>0, <2>3, FS_AddElement
  <2> QED BY <2>2, <2>3, <2>4 DEF CountExact
<1>5. ASSUME NEW i \in Slot, Arrive(i) PROVE CountExact'
  BY <1>1, <1>5 DEF Arrive, slots
<1>6. ASSUME NEW S \in SUBSET Slot, CloseSpec(S),
             \A i \in S : Landed(i) /\ conns[i] # NoConn
      PROVE  CountExact'
  <2>1. S \in SUBSET Connected /\ {i \in S : Done(i)} = S
    BY <1>6 DEF Landed, Connected, Done
  <2>2. Connected' = Connected \ S BY <1>6 DEF CloseSpec, Connected
  <2>3. conn_count' = conn_count - Cardinality(S) BY <1>6, <2>1 DEF CloseSpec
  <2>4. IsFiniteSet(S) /\ Connected \cap S = S BY <1>0, <2>1, FS_Subset
  <2>5. Cardinality(Connected \ S) = Cardinality(Connected) - Cardinality(S)
    BY <1>0, <2>4, FS_Difference
  <2> QED BY <2>2, <2>3, <2>5 DEF CountExact
<1>7. CASE ManageErr
  <2>1. \A i \in err_queue : i \in Slot /\ conns[i] # NoConn /\ Landed(i)
    BY <1>7, TypeStep, ManageErrSafe DEF IInv
  <2> QED BY <1>6, <1>7, <2>1 DEF ManageErr
<1>8. CASE ShrinkClose
  <2>1. \A i \in mgr.release : i \in Slot /\ conns[i] # NoConn /\ Landed(i)
    BY <1>8, TypeStep, ShrinkCloseSafe DEF IInv
  <2> QED BY <1>6, <1>8, <2>1 DEF ShrinkClose
<1>9. CASE ManageConnect \/ ManageExpand
  <2>1. PICK n : Connect(Chosen(n)) BY <1>9 DEF ManageConnect, ManageExpand
  <2>2. conn_count' = conn_count BY <1>9 DEF ManageConnect, ManageExpand
  <2>3. \A i \in Chosen(n) : conn_stats[i] = "none" BY DEF Chosen
  <2>4. \A i \in Slot :
          conn_stats'[i] = IF i \in Chosen(n) THEN "ing" ELSE conn_stats[i]
    BY <2>1 DEF Connect
  <2> QED BY <1>1, <2>2, <2>3, <2>4
<1>10. ~ManageReset /\ ~ManageClose
  BY DEF ManageReset, ManageClose, IInv, NeverReset
<1>11. CASE ManageNoReset \/ ManageShrink \/ ShrinkTake \/ UNCHANGED vars
  BY <1>1, <1>11 DEF ManageNoReset, ManageShrink, ShrinkTake, vars, slots
<1>12. CASE \E i \in Slot : Landing(i) \/ DialFail(i)
  BY <1>3, <1>4, <1>5, <1>12 DEF Landing
<1> QED BY <1>2, <1>7, <1>8, <1>9, <1>10, <1>11, <1>12 DEF Next, Manage

(* Of a pool that is not reset: conn_count is the number of slots that are *)
(* connected, after any dials, failures, expansion and shrinking.          *)
THEOREM Counts == ASSUME ResetTo = {} PROVE Spec => []CountExact
<1>1. Init => CountExact
  <2> SUFFICES ASSUME Init PROVE CountExact
    OBVIOUS
  <2>1. Connected = {} BY DEF Init, Connected
  <2> QED BY <2>1, FS_EmptySet DEF Init, CountExact
<1>2. IInv /\ CountExact /\ [Next]_vars => CountExact' BY CountStep
<1>3. IInv /\ [Next]_vars => IInv' BY SafeStep
<1> QED BY <1>1, <1>2, <1>3, InitSafe, PTL DEF Spec

-----------------------------------------------------------------------------
(* What is left of the count when the pool is reset. *)

(* Slots that are dialled or connected are among the first max_count, and  *)
(* conn_count covers those connected.                                      *)
Within ==
  /\ \A i \in Slot : dialing[i] > 0 \/ i \in Connected => i < max_count
  /\ CountCovers

(* A step that connects and dials no other slot, and neither lowers        *)
(* conn_count nor max_count, leaves the count covered.                     *)
LEMMA FewerConnected ==
  ASSUME TypeOK, Within, TypeOK', Raising, conn_count' >= conn_count,
         \A i \in Slot : /\ i \in Connected' => i \in Connected
                         /\ dialing'[i] > 0 => dialing[i] > 0
  PROVE  Within'
<1>0. Connected' \subseteq Slot BY DEF Connected
<1>1. Connected' \subseteq Connected BY <1>0
<1>2. IsFiniteSet(Connected) BY SlotFacts, FS_Subset DEF Connected
<1>3. /\ Cardinality(Connected') <= Cardinality(Connected)
      /\ Cardinality(Connected) \in Nat /\ Cardinality(Connected') \in Nat
  BY <1>1, <1>2, FS_Subset, FS_CardinalityType
<1>4. CountCovers' BY <1>3 DEF CountCovers, Within, TypeOK
<1>5. ASSUME NEW i \in Slot, dialing'[i] > 0 \/ i \in Connected'
      PROVE  i < max_count'
  <2>1. dialing[i] > 0 \/ i \in Connected BY <1>5
  <2>2. i < max_count BY <2>1 DEF Within
  <2>3. i \in Nat /\ max_count \in Int /\ max_count' \in Int
    BY SlotFacts DEF TypeOK
  <2> QED BY <2>2, <2>3 DEF Raising
<1> QED BY <1>4, <1>5 DEF Within

(* What close_redis_conn takes off the count it also disconnects.          *)
LEMMA CloseCovers ==
  ASSUME TypeOK, Within, TypeOK', Raising, dialing' = dialing,
         NEW S \in SUBSET Slot, CloseSpec(S)
  PROVE  Within'
<1> DEFINE D == {i \in S : Done(i)}
<1>1. D \in SUBSET Connected BY DEF Done, Connected
<1>2. IsFiniteSet(Connected) /\ IsFiniteSet(D) /\ Connected \cap D = D
  BY <1>1, SlotFacts, FS_Subset DEF Connected
<1>3. Cardinality(Connected \ D) = Cardinality(Connected) - Cardinality(D)
  BY <1>2, FS_Difference
<1>4. Connected' \subseteq Connected \ D BY DEF CloseSpec, Connected
<1>5. IsFiniteSet(Connected \ D) BY <1>2, FS_Subset
<1>6. /\ Cardinality(Connected') <= Cardinality(Connected \ D)
      /\ Cardinality(Connected') \in Nat /\ Cardinality(Connected \ D) \in Nat
      /\ Cardinality(Connected) \in Nat /\ Cardinality(D) \in Nat
  BY <1>2, <1>4, <1>5, FS_Subset, FS_CardinalityType
<1>7. conn_count' = conn_count - Cardinality(D) BY DEF CloseSpec
<1>8. CountCovers' BY <1>3, <1>6, <1>7 DEF CountCovers, Within, TypeOK
<1>9. \A i \in Slot : dialing'[i] > 0 \/ i \in Connected' => i < max_count'
  BY <1>4, SlotFacts DEF Within, Raising, TypeOK
<1> QED BY <1>8, <1>9 DEF Within

(* A step keeps the count covered, unless it lowers max_count.             *)
LEMMA CoverStep ==
  ASSUME TypeOK, Within, [Next]_vars, Raising
  PROVE  Within'
<1>0. TypeOK' BY TypeStep
<1>1. ASSUME UNCHANGED <<slots, dialing>> PROVE Within'
  <2>1. Connected' = Connected BY <1>1 DEF slots, Connected
  <2>2. conn_count' >= conn_count BY <1>1 DEF slots, TypeOK
  <2> QED BY <1>0, <1>1, <2>1, <2>2, FewerConnected
<1>2. ASSUME NEW c \in Cmd, Command(c) PROVE Within'
  BY <1>1, <1>2 DEF Command, Run, Request, Take, CheckAgain, CheckBreak,
     CheckValid, CheckDrop, Use, ExePanic, Free, ExeCmd
<1>3. ASSUME NEW i \in Slot, DialFail(i) PROVE Within'
  <2>1. \A j \in Slot : /\ j \in Connected' => j \in Connected
                        /\ dialing'[j] > 0 => dialing[j] > 0
    BY <1>3 DEF DialFail, Drop, Connected, TypeOK
  <2>2. conn_count' >= conn_count BY <1>3 DEF DialFail, TypeOK
  <2> QED BY <1>0, <2>1, <2>2, FewerConnected
<1>4. ASSUME NEW i \in Slot, NEW k \in Conn, DialDone(i, k) PROVE Within'
  <2>1. Connected' = Connected \cup {i} BY <1>4 DEF DialDone, Connected, TypeOK
  <2>2. IsFiniteSet(Connected) BY SlotFacts, FS_Subset DEF Connected
  <2>3. /\ Cardinality(Connected \cup {i}) <= Cardinality(Connected) + 1
        /\ Cardinality(Connected) \in Nat
        /\ Cardinality(Connected \cup {i}) \in Nat
    <3>1. Cardinality(Connected) \in Nat BY <2>2, FS_CardinalityType
    <3>2. CASE i \in Connected
      <4>1. Connected \cup {i} = Connected BY <3>2
      <4>2. Cardinality(Connected \cup {i}) = Cardinality(Connected) BY <4>1
      <4> QED BY <3>1, <4>2
    <3>3. CASE i \notin Connected
      <4>1. Cardinality(Connected \cup {i}) = Cardinality(Connected) + 1
        BY <2>2, <3>3, FS_AddElement
      <4> QED BY <3>1, <4>1
    <3> QED BY <3>2, <3>3
  <2>4. CountCovers'
    BY <1>4, <2>1, <2>3 DEF DialDone, CountCovers, Within, TypeOK
  <2>5. i < max_count /\ max_count' = max_count
    BY <1>4 DEF DialDone, Within, config
  <2>6. \A j \in Slot : dialing'[j] > 0 => dialing[j] > 0
    BY <1>4 DEF DialDone, Drop, TypeOK
  <2>7. \A j \in Slot : dialing'[j] > 0 \/ j \in Connected' => j < max_count'
    BY <2>1, <2>5, <2>6 DEF Within
  <2> QED BY <2>4, <2>7 DEF Within
<1>5. CASE \E i \in Slot : Arrive(i)
  BY <1>1, <1>5 DEF Arrive, slots
<1>6. CASE ManageErr
  BY <1>0, <1>6, CloseCovers DEF ManageErr, TypeOK
<1>7. CASE ShrinkClose
  <2>1. mgr.release \in SUBSET Slot BY DEF TypeOK, MgrType
  <2> QED BY <1>0, <1>7, <2>1, CloseCovers DEF ShrinkClose
<1>8. CASE ManageConnect \/ ManageExpand
  <2>1. PICK n : Connect(Chosen(n)) BY <1>8 DEF ManageConnect, ManageExpand
  <2>2. conn_count' = conn_count /\ max_count' = max_count
    BY <1>8 DEF ManageConnect, ManageExpand, config
  <2>3. \A i \in Slot : i \in Chosen(n) => conn_stats[i] = "none" /\ i < max_count
    BY SlotFacts DEF Chosen, TypeOK
  <2>4. Connected' = Connected BY <2>1, <2>3 DEF Connect, Connected
  <2>5. \A i \in Slot : dialing'[i] > 0 => dialing[i] > 0 \/ i \in Chosen(n)
    BY <2>1 DEF Connect
  <2> QED BY <2>2, <2>3, <2>4, <2>5 DEF Within, CountCovers
<1>9. CASE ManageReset \/ ManageNoReset \/ ManageShrink \/ ShrinkTake
           \/ (\E a \in ResetTo : Reset(a)) \/ UNCHANGED vars
  BY <1>1, <1>9
     DEF ManageReset, ManageNoReset, ManageShrink, ShrinkTake, Reset, vars, slots
<1>10. CASE ManageClose
  <2>1. \A i \in Slot : i \in Connected => i \in 0 .. max_count - 1
    BY SlotFacts DEF Within, TypeOK
  <2>2. \A i \in Slot : conn_stats'[i] = IF i \in 0 .. max_count - 1 THEN "none"
                                         ELSE conn_stats[i]
    BY <1>10 DEF ManageClose
  <2>3. Connected' = {} BY <2>1, <2>2 DEF Connected
  <2>4. conn_count' = 0 /\ dialing' = dialing BY <1>10 DEF ManageClose
  <2>5. CountCovers' BY <2>3, <2>4, FS_EmptySet DEF CountCovers
  <2>6. \A i \in Slot : dialing'[i] > 0 => i < max_count'
    BY <1>0, <2>4, SlotFacts DEF Within, Raising, TypeOK
  <2> QED BY <2>3, <2>5, <2>6 DEF Within
<1>11. CASE \E i \in Slot : Landing(i) \/ DialFail(i)
  BY <1>3, <1>4, <1>5, <1>11 DEF Landing
<1> QED BY <1>2, <1>6, <1>7, <1>8, <1>9, <1>10, <1>11 DEF Next, Manage

(* While no reset lowers max_count, whatever else it changes: conn_count   *)
(* is at least the number of slots that are connected.                     *)
THEOREM Covering == Spec /\ [][Raising]_max_count => []CountCovers
<1>1. Init => Within
  <2> SUFFICES ASSUME Init PROVE Within
    OBVIOUS
  <2>1. Connected = {} BY DEF Init, Connected
  <2>2. CountCovers BY <2>1, FS_EmptySet DEF Init, CountCovers
  <2>3. \A i \in Slot : dialing[i] > 0 => i < max_count BY SlotFacts DEF Init
  <2> QED BY <2>1, <2>2, <2>3 DEF Within
<1>2. ASSUME TypeOK, Within, [Next]_vars, [Raising]_max_count PROVE Within'
  <2>1. Raising BY <1>2 DEF Raising, TypeOK
  <2> QED BY <1>2, <2>1, CoverStep
<1>3. TypeOK /\ [Next]_vars => TypeOK' BY TypeStep
<1>4. Within => CountCovers BY DEF Within
<1> QED BY <1>1, <1>2, <1>3, <1>4, InitTyped, PTL DEF Spec
=============================================================================
