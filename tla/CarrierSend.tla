----------------------------- MODULE CarrierSend -----------------------------
(***************************************************************************)
(* The sending half of bridge_carrier, which carries what its server       *)
(* writes into the send channel of their bridge to the carriers of other   *)
(* servers.  One thread; each target has a send buffer that grows, and a   *)
(* bit in the bitmap of the bridge which stops the server from sending to  *)
(* that target while the buffer is nearly full.  Bytes are counted: which  *)
(* package they belong to is left out.                                     *)
(***************************************************************************)
EXTENDS Integers

CONSTANTS
  Target,    \* processes this one sends to
  Unseen,    \* those whose proc_id % 8 = 7
  PackLen,   \* BRIDGE_PACK_LEN: the longest package
  Packed,    \* STLV_PACK_SAFE_LEN of it: what it may take once packed
  Mega,      \* 1024*1024
  SendBuff,  \* send_buff_size of the bridge
  ChanRoom   \* bytes the packages of a full send channel take once packed

MaxExpand == 2 * SendBuff + Mega
BlockSize == SendBuff + Mega

(* What "防止丢包" (carrier_base.h:411) needs of the sizes.  With the        *)
(* 50 * 100K of send_buff_size in bridge.cfg it holds if packing adds no   *)
(* more than half a megabyte, a tenth, to the packages of a full channel.  *)
ASSUME CarrierConstantsOK ==
  /\ Unseen \subseteq Target
  /\ PackLen \in Nat \ {0} /\ Packed \in PackLen .. 2 * PackLen - 1
  /\ Mega \in Nat /\ SendBuff \in Nat /\ ChanRoom \in Nat
  /\ 3 * Packed <= Mega /\ Packed <= SendBuff
  /\ ChanRoom + Packed < BlockSize /\ 2 * ChanRoom + 2 <= MaxExpand

VARIABLES
  connected,  \* [Target -> "none", "proc" (connecting) or "done"]
  buff,       \* [Target -> snd_buff: [len, head, data, block]]; the tail is
              \*  data bytes behind the head
  bitmap,     \* snd_bitmap: targets whose bit is set
  sending,    \* sending_list: targets with in_append
  chan,       \* [Target -> bytes of its packages in the send channel]
  writing,    \* {} or {<<t, n>>}: a package the server is about to write
  full,       \* history: targets that lost a package for want of room
  left        \* history: those with data a reload took off the list

vars == <<connected, buff, bitmap, sending, chan, writing, full, left>>

NoBuff == [len |-> 0, head |-> 0, data |-> 0, block |-> FALSE]

Init ==
  /\ connected = [t \in Target |-> "none"]
  /\ buff = [t \in Target |-> NoBuff]
  /\ bitmap = {} /\ sending = {} /\ full = {} /\ left = {}
  /\ chan = [t \in Target |-> 0]
  /\ writing = {}

-----------------------------------------------------------------------------
(* Send buffers. *)

Package == 1 .. Packed
EmptyToTheLast(b) == b.len - b.data
EmptySpace(b) == b.len - b.data - 1

(* The length a buffer of length l is expanded to; the last step leaves    *)
(* BlockSize free above MaxExpand.                                         *)
Doubled(l) == IF l < Mega THEN 2 * l ELSE l + Mega
Unreserved(l) == l
Reserved(l) == IF l < MaxExpand \/ l >= MaxExpand + BlockSize
                 THEN l ELSE MaxExpand + BlockSize
NewLen(l) == IF l = 0 THEN 2 * PackLen ELSE Reserved(Doubled(l))

CanExpand(b) == b.len < MaxExpand
Expand(b) == [b EXCEPT !.len = NewLen(@), !.head = 0]

(* The buffer a package of n bytes is put in, expanded if it holds data    *)
(* and has no room.                                                        *)
RoomFor(b, n) ==
  IF b.data > 0 /\ EmptySpace(b) < n /\ CanExpand(b) THEN Expand(b) ELSE b
Put(b, n) == [b EXCEPT !.data = @ + n]

(* flush_target moves k of the bytes to the socket.  With the socket full, *)
(* before the first byte or where the buffer wraps and a second send would *)
(* begin, the target may only be blocked; else it may be unblocked too.    *)
SocketFull(b, k) == k = 0 \/ b.head + k = b.len
Empty(b, k) == b.len - b.data + k
Low(b, k) == b.len >= MaxExpand /\ Empty(b, k) <= BlockSize
High(b, k) == b.len >= MaxExpand /\ Empty(b, k) >= BlockSize

BlockedWhenFlushed(b, k) ==
  IF k = b.data THEN b.block
  ELSE IF b.block THEN SocketFull(b, k) \/ ~High(b, k)
  ELSE Low(b, k)
BlockAfter(b, k) ==
  IF k = b.data THEN FALSE
  ELSE IF b.block THEN SocketFull(b, k) \/ ~High(b, k)
  ELSE Low(b, k)

Wrap(i, l) == IF i < l THEN i ELSE i - l
Sent(b, k) == [len |-> b.len, head |-> Wrap(b.head + k, b.len),
               data |-> b.data - k, block |-> BlockAfter(b, k)]

-----------------------------------------------------------------------------
(* Parts of the handlers. *)

(* A target's buffer changes, and its bit with its block. *)
SetBuff(t, b) ==
  /\ buff' = [buff EXCEPT ![t] = b]
  /\ bitmap' = IF b.block THEN bitmap \cup {t} ELSE bitmap \ {t}

(* close_target_fd; the target stays on the sending list. *)
CloseBlocked(t) ==
  /\ connected' = [connected EXCEPT ![t] = "none"]
  /\ buff' = [buff EXCEPT ![t] = NoBuff]
  /\ left' = left \ {t}
  /\ UNCHANGED bitmap
Close(t) ==
  /\ connected' = [connected EXCEPT ![t] = "none"]
  /\ SetBuff(t, NoBuff)
  /\ left' = left \ {t}

(* append_sending_node. *)
Enlist(t) == sending' = sending \cup {t} /\ left' = left \ {t}
EnlistIf(t, yes) == IF yes THEN Enlist(t) ELSE UNCHANGED <<sending, left>>

(* A package of n bytes goes into b, or is dropped. *)
StoreUnlisted(t, b, n) ==
  LET c == RoomFor(b, n)
      fits == EmptySpace(c) >= n
  IN /\ SetBuff(t, IF fits THEN Put(c, n) ELSE c)
     /\ EnlistIf(t, b.data > 0)
     /\ full' = IF fits THEN full ELSE full \cup {t}
Store(t, b, n) ==
  LET c == RoomFor(b, n)
      fits == EmptySpace(c) >= n
  IN /\ SetBuff(t, IF fits THEN Put(c, n) ELSE c)
     /\ EnlistIf(t, fits \/ b.data > 0)
     /\ full' = IF fits THEN full ELSE full \cup {t}

Buffer(t) == IF buff[t].len = 0 THEN Expand(buff[t]) ELSE buff[t]

-----------------------------------------------------------------------------
(* The server: _send_to_bridge looks at the bit and at the room in the     *)
(* channel, and writes.  (What packages to other targets take of the       *)
(* channel only leaves less room.)                                         *)

SendCheck(t, n) ==
  /\ writing = {}
  /\ t \notin bitmap \/ t \in Unseen
  /\ chan[t] + n <= ChanRoom
  /\ writing' = {<<t, n>>}
  /\ UNCHANGED <<connected, buff, bitmap, sending, chan, full, left>>

SendWrite(t, n) ==
  /\ writing = {<<t, n>>}
  /\ writing' = {}
  /\ chan' = [chan EXCEPT ![t] = @ + n]
  /\ UNCHANGED <<connected, buff, bitmap, sending, full, left>>

-----------------------------------------------------------------------------
(* dispatch_bridge takes one package from the channel. *)

Fetch(t, n) ==
  /\ n <= chan[t]
  /\ chan' = [chan EXCEPT ![t] = @ - n]
  /\ UNCHANGED writing

DispatchDrop(t, n) ==
  /\ Fetch(t, n)
  /\ connected[t] # "done"
  /\ UNCHANGED <<connected, buff, bitmap, sending, full, left>>

(* There is less than a package in the buffer. *)
DispatchStore(t, n) ==
  /\ Fetch(t, n)
  /\ connected[t] = "done"
  /\ Buffer(t).data < PackLen
  /\ Store(t, Buffer(t), n)
  /\ UNCHANGED connected

DispatchFlush(t, n) ==
  /\ Fetch(t, n)
  /\ connected[t] = "done"
  /\ Buffer(t).data >= PackLen
  /\ \E k \in 0 .. buff[t].data : Store(t, Sent(buff[t], k), n)
  /\ UNCHANGED connected

(* The flush fails; so does the package in hand, uncounted. *)
DispatchClose(t, n) ==
  /\ Fetch(t, n)
  /\ connected[t] = "done"
  /\ Buffer(t).data >= PackLen
  /\ Close(t)
  /\ UNCHANGED <<sending, full>>

-----------------------------------------------------------------------------
(* iter_sending_list at one target of the list. *)

Flushable(t) == connected[t] = "done" /\ buff[t].data > 0

IterForget(t) ==
  /\ t \in sending
  /\ ~Flushable(t)
  /\ sending' = sending \ {t}
  /\ UNCHANGED <<connected, buff, bitmap, chan, writing, full, left>>

IterFlush(t, k) ==
  /\ t \in sending
  /\ Flushable(t)
  /\ SetBuff(t, Sent(buff[t], k))
  /\ sending' = IF k = buff[t].data THEN sending \ {t} ELSE sending
  /\ UNCHANGED <<connected, chan, writing, full, left>>

IterClose(t) ==
  /\ t \in sending
  /\ Flushable(t)
  /\ Close(t)
  /\ sending' = sending \ {t}
  /\ UNCHANGED <<chan, writing, full>>

-----------------------------------------------------------------------------
(* Connections. *)

(* connect_to_remote; a connection made at once sends no VERIFY_REQ. *)
Connect(t) ==
  /\ connected[t] = "none"
  /\ \/ connected' = [connected EXCEPT ![t] = "proc"] /\ UNCHANGED buff
     \/ /\ connected' = [connected EXCEPT ![t] = "done"]
        /\ buff' = [buff EXCEPT ![t] = NoBuff]
  /\ UNCHANGED <<bitmap, sending, chan, writing, full, left>>

(* handle_connecting_fd; a writable socket is sent a VERIFY_REQ of n bytes *)
(* by inner_send_pkg, one in EISCONN is not.                               *)
ConnectDone(t, n) ==
  /\ connected[t] = "proc"
  /\ connected' = [connected EXCEPT ![t] = "done"]
  /\ \E k \in 0 .. n :
       /\ SetBuff(t, Sent(Put(Expand(NoBuff), n), k))
       /\ EnlistIf(t, k < n)
  /\ UNCHANGED <<chan, writing, full>>

ConnectUnverified(t) ==
  /\ connected[t] = "proc"
  /\ connected' = [connected EXCEPT ![t] = "done"]
  /\ SetBuff(t, NoBuff)
  /\ UNCHANGED <<sending, chan, writing, full, left>>

(* A connection fails, or the peer closes one that was made.               *)
ConnectionLost(t) ==
  /\ connected[t] # "none"
  /\ Close(t)
  /\ UNCHANGED <<sending, chan, writing, full>>

-----------------------------------------------------------------------------
(* Timers, signals and restarts, target by target. *)

ShrunkLen(l) == (2 * l) \div 3

(* check_snd_buff_memory; an empty buffer keeps its head and tail, which   *)
(* may be beyond its new end.                                              *)
Shrink(t) ==
  LET b == buff[t] IN
  /\ b.len >= Mega /\ b.data < b.len \div 3
  /\ buff' = [buff EXCEPT ![t] =
                [b EXCEPT !.len = ShrunkLen(@), !.head = IF b.data > 0 THEN 0 ELSE @]]
  /\ UNCHANGED <<connected, bitmap, sending, chan, writing, full, left>>

(* copy_target_info after SIGUSR1: connections to changed addresses are    *)
(* closed; del_sending_list flushes what is on the list and empties it.    *)
ReloadChanged(t) ==
  /\ Close(t)
  /\ sending' = sending \ {t}
  /\ UNCHANGED <<chan, writing, full>>

ReloadKept(t, k) ==
  /\ t \in sending
  /\ Flushable(t)
  /\ SetBuff(t, Sent(buff[t], k))
  /\ sending' = sending \ {t}
  /\ left' = IF k < buff[t].data THEN left \cup {t} ELSE left
  /\ UNCHANGED <<connected, chan, writing, full>>

(* The carrier dies and is started again; the channel is shared memory.    *)
Restart ==
  /\ connected' = [t \in Target |-> "none"]
  /\ buff' = [t \in Target |-> NoBuff]
  /\ bitmap' = {} /\ sending' = {} /\ left' = {}
  /\ UNCHANGED <<chan, writing, full>>

-----------------------------------------------------------------------------
Server == \E t \in Target, n \in Package : SendCheck(t, n) \/ SendWrite(t, n)

Dispatch ==
  \E t \in Target, n \in Package :
    \/ DispatchDrop(t, n) \/ DispatchStore(t, n)
    \/ DispatchFlush(t, n) \/ DispatchClose(t, n)

IterSending(t) ==
  \/ IterForget(t) \/ IterClose(t)
  \/ \E k \in 0 .. buff[t].data : IterFlush(t, k)

Connection(t) ==
  \/ Connect(t) \/ ConnectUnverified(t) \/ ConnectionLost(t)
  \/ \E n \in Package : ConnectDone(t, n)

Reload(t) ==
  ReloadChanged(t) \/ \E k \in 0 .. buff[t].data : ReloadKept(t, k)

(* A package was put behind a head beyond the end of the buffer: it was    *)
(* written over what lies behind it on the heap.  (A head that is at the   *)
(* end does no harm, it stands for 0.)  The carrier may do anything then,  *)
(* and is followed again when it is started anew.                          *)
Astray == \E t \in Target : buff[t].data > 0 /\ buff[t].head > buff[t].len

Sending ==
  \/ Server
  \/ /\ ~Astray
     /\ \/ Dispatch
        \/ \E t \in Target : IterSending(t) \/ Connection(t) \/ Shrink(t) \/ Reload(t)
Next == Sending \/ Restart

Spec == Init /\ [][Next]_vars

(* The main loop walks the sending list in every turn, and the peer reads  *)
(* its socket until it is empty, so that a flush moves bytes again and     *)
(* again.                                                                  *)
Moves(t) == ~Astray /\ \E k \in 1 .. buff[t].data : IterFlush(t, k)
Forgets(t) == ~Astray /\ IterForget(t)
FairSpec == Spec /\ \A t \in Target : WF_vars(Moves(t)) /\ WF_vars(Forgets(t))

-----------------------------------------------------------------------------
Buff == [len : Nat, head : Nat, data : Nat, block : BOOLEAN]

(* Types.                                                                  *)
TypeOK ==
  /\ connected \in [Target -> {"none", "proc", "done"}]
  /\ buff \in [Target -> Buff]
  /\ bitmap \subseteq Target /\ sending \subseteq Target /\ full \subseteq Target
  /\ left \subseteq Target
  /\ chan \in [Target -> 0 .. ChanRoom]
  /\ writing \in {{}} \cup {{w} : w \in Target \X Package}

(* A buffer is never filled to the last byte, through growth, wrapping and *)
(* shrinking: head and tail would meet, and all of its data be forgotten   *)
(* as if it were empty (TARGET_IS_EMPTY).                                  *)
NotFilled == \A t \in Target : buff[t].len > 0 => buff[t].data < buff[t].len

(* Head and tail lie in the buffer, a ring of snd_buff_len bytes           *)
(* (carrier_base.h:173).  It does not hold: see Shrink.                    *)
IndexInRange ==
  \A t \in Target : buff[t].data > 0 => buff[t].head <= buff[t].len

(* carrier_base.h:410-411: the bit is set early enough that everything the *)
(* channel may still hold finds room, whatever the buffer has been through *)
(* before.  No package to a connected target is dropped for want of room,  *)
(* provided the server can see the bit.                                    *)
NeverFull == full \subseteq Unseen

(* A server is kept from sending to a target only while there is a         *)
(* connection to it and something to flush: each way of losing or emptying *)
(* the buffer also clears the bit.                                         *)
BlockedHasData ==
  \A t \in bitmap : buff[t].block /\ Flushable(t)

(* No data is stranded: what lies in the buffer of a connected target is   *)
(* flushed in the next turns, for the target is on the sending list; but   *)
(* del_sending_list empties the list.                                      *)
Listed == \A t \in Target : Flushable(t) => t \in sending \cup left

(* A block is temporary (carrier_lib.c:2933): it is lifted, by a flush, by *)
(* the loss of the connection or by a restart, unless a reload has taken   *)
(* the target off the list or a package went astray.                       *)
Lifted ==
  \A t \in Target \ Unseen : t \in bitmap ~> (t \notin bitmap \/ t \in left \/ Astray)
=============================================================================
