-------------------------------- MODULE Ring --------------------------------
(***************************************************************************)
(* One of the two channels of a bridge: a ring of bytes in memory shared   *)
(* by a server and its carrier.  send_head, send_tail and sending_count,   *)
(* or recv_head, recv_tail and recving_count, are the same ring with the   *)
(* two processes exchanged.  A writer copies a package behind the tail and *)
(* then moves the tail, a reader copies one and then moves the head.       *)
(***************************************************************************)
EXTENDS Integers, Sequences, FiniteSets

CONSTANTS
  Pkg, DataLen, HeadLen, Size,  \* as in ByteFifo
  RecvLen,    \* recv_len: room of the reader's buffer for data
  NoPkg,      \* no package
  Sender,     \* goroutines of the writer that send
  MayRestart, \* of {"writer", "reader"}, the processes that may restart
  MaxCount    \* bound: count, an int, wraps at -MaxCount and MaxCount

ASSUME RingConstantsOK ==
  /\ DataLen \in [Pkg -> Nat \ {0}]
  /\ HeadLen \in Nat \ {0} /\ Size \in Nat \ {0}
  /\ RecvLen \in Nat /\ MaxCount \in Nat
  /\ NoPkg \notin Pkg

NoByte == <<>>    \* a byte never written
Nobody == {}      \* holder of an unlocked mutex

VARIABLES
  buff,   \* [0 .. Size - 1 -> bytes]
  head,   \* where the reader reads next
  tail,   \* where the writer writes next
  count,  \* sending_count, recving_count
  mutex,  \* Proc.Mutex: {} or the {goroutine} that sends
  w,      \* [Sender -> [pc, pkg, pos, n, cnt]]: a send under way
  r,      \* [pc, pos, got, cnt]: a receive under way
  out     \* the package the reader last returned

vars == <<buff, head, tail, count, mutex, w, r, out>>

Byte == {NoByte} \cup (Pkg \X Nat)
Total(p) == HeadLen + DataLen[p]
Forward(pos) == IF pos + 1 = Size THEN 0 ELSE pos + 1
At(pos, n) == IF pos + n < Size THEN pos + n ELSE pos + n - Size

EmptyWhole == IF tail >= head THEN Size - tail + head + 1
              ELSE head - tail + 1

(* empty_space, from the writer's tail and the head it sees. *)
Empty == IF tail >= head THEN Size - tail + head ELSE head - tail

WIdle == [pc |-> "idle", pkg |-> NoPkg, pos |-> 0, n |-> 0, cnt |-> 0]
RIdle == [pc |-> "idle", pos |-> 0, got |-> <<>>, cnt |-> 0]
Inc(c) == IF c < MaxCount THEN c + 1 ELSE -MaxCount
Dec(c) == IF c > -MaxCount THEN c - 1 ELSE MaxCount

Init ==
  /\ buff = [i \in 0 .. Size - 1 |-> NoByte]
  /\ head = 0 /\ tail = 0 /\ count = 0
  /\ mutex = Nobody
  /\ w = [s \in Sender |-> WIdle]
  /\ r = RIdle
  /\ out = <<>>

-----------------------------------------------------------------------------
(* The writer. *)

(* Takes the lock and finds room for p; without room it would return -3,   *)
(* which leaves everything as it was.                                      *)
SendBegin(s, p) ==
  /\ mutex = Nobody
  /\ Empty - 1 >= Total(p)
  /\ mutex' = {s}
  /\ w' = [w EXCEPT ![s] = [WIdle EXCEPT !.pc = "copy", !.pkg = p, !.pos = tail]]
  /\ UNCHANGED <<buff, head, tail, count, r, out>>

(* One byte of head or data; memcpy may stop anywhere. *)
SendCopy(s) ==
  /\ w[s].pc = "copy" /\ w[s].n < Total(w[s].pkg)
  /\ buff' = [buff EXCEPT ![w[s].pos] = <<w[s].pkg, w[s].n>>]
  /\ w' = [w EXCEPT ![s].pos = Forward(@), ![s].n = @ + 1]
  /\ UNCHANGED <<head, tail, count, mutex, r, out>>

SendPublish(s) ==
  /\ w[s].pc = "copy" /\ w[s].n = Total(w[s].pkg)
  /\ tail' = w[s].pos
  /\ w' = [w EXCEPT ![s] = [WIdle EXCEPT !.pc = "load"]]
  /\ UNCHANGED <<buff, head, count, mutex, r, out>>

(* count++ is a load and a store. *)
SendLoad(s) ==
  /\ w[s].pc = "load"
  /\ w' = [w EXCEPT ![s].pc = "store", ![s].cnt = count]
  /\ UNCHANGED <<buff, head, tail, count, mutex, r, out>>

SendStore(s) ==
  /\ w[s].pc = "store"
  /\ count' = Inc(w[s].cnt)
  /\ w' = [w EXCEPT ![s] = WIdle]
  /\ mutex' = Nobody
  /\ UNCHANGED <<buff, head, tail, r, out>>

WriterRestart ==
  /\ "writer" \in MayRestart
  /\ w' = [s \in Sender |-> WIdle]
  /\ mutex' = Nobody
  /\ UNCHANGED <<buff, head, tail, count, r, out>>

-----------------------------------------------------------------------------
(* The reader. *)

RecvBegin ==
  /\ r.pc = "idle" /\ head # tail
  /\ r' = [RIdle EXCEPT !.pc = "copy", !.pos = head]
  /\ UNCHANGED <<buff, head, tail, count, mutex, w, out>>

(* data_len lies at the front of the head. *)
Wanted(got) ==
  IF Len(got) < HeadLen THEN HeadLen ELSE HeadLen + DataLen[got[1][1]]

TooLongByOne(got) ==
  Len(got) = HeadLen /\ Wanted(got) >= HeadLen + RecvLen
TooLong(got) == Len(got) = HeadLen /\ Wanted(got) > HeadLen + RecvLen

RecvCopy ==
  /\ r.pc = "copy" /\ Len(r.got) < Wanted(r.got) /\ ~TooLong(r.got)
  /\ r' = [r EXCEPT !.got = Append(@, buff[r.pos]), !.pos = Forward(@)]
  /\ UNCHANGED <<buff, head, tail, count, mutex, w, out>>

(* Returns -3; the package stays where it is. *)
RecvTooLong ==
  /\ r.pc = "copy" /\ TooLong(r.got)
  /\ r' = RIdle
  /\ UNCHANGED <<buff, head, tail, count, mutex, w, out>>

RecvLoad ==
  /\ r.pc = "copy" /\ Len(r.got) = Wanted(r.got)
  /\ r' = [r EXCEPT !.pc = "store", !.cnt = count]
  /\ UNCHANGED <<buff, head, tail, count, mutex, w, out>>

RecvStore ==
  /\ r.pc = "store"
  /\ count' = Dec(r.cnt)
  /\ r' = [r EXCEPT !.pc = "advance", !.cnt = 0]
  /\ UNCHANGED <<buff, head, tail, mutex, w, out>>

RecvAdvance ==
  /\ r.pc = "advance"
  /\ head' = r.pos
  /\ out' = r.got
  /\ r' = RIdle
  /\ UNCHANGED <<buff, tail, count, mutex, w>>

ReaderRestart ==
  /\ "reader" \in MayRestart
  /\ r' = RIdle
  /\ UNCHANGED <<buff, head, tail, count, mutex, w, out>>

-----------------------------------------------------------------------------
Reader ==
  RecvBegin \/ RecvCopy \/ RecvTooLong \/ RecvLoad \/ RecvStore \/ RecvAdvance
Writer ==
  \E s \in Sender :
    \/ \E p \in Pkg : SendBegin(s, p)
    \/ SendCopy(s) \/ SendPublish(s) \/ SendLoad(s) \/ SendStore(s)

Next == Writer \/ Reader \/ WriterRestart \/ ReaderRestart

Spec == Init /\ [][Next]_vars

(* The process that reads polls its channel in every turn of its loop. *)
FairSpec == Spec /\ WF_vars(Reader)

-----------------------------------------------------------------------------
(* Types; the mutex is held exactly by the goroutine that sends.           *)
TypeOK ==
  /\ buff \in [0 .. Size - 1 -> Byte]
  /\ head \in 0 .. Size - 1 /\ tail \in 0 .. Size - 1
  /\ count \in -MaxCount .. MaxCount
  /\ mutex \in SUBSET Sender
  /\ w \in [Sender -> [pc : {"idle", "copy", "load", "store"},
                       pkg : Pkg \cup {NoPkg}, pos : 0 .. Size - 1,
                       n : Nat, cnt : -MaxCount .. MaxCount]]
  /\ r \in [pc : {"idle", "copy", "store", "advance"}, pos : 0 .. Size - 1,
            got : Seq(Byte), cnt : -MaxCount .. MaxCount]
  /\ out \in Seq(Byte)
  /\ \A s \in Sender : /\ w[s].pc # "idle" <=> mutex = {s}
                       /\ w[s].pc = "copy" => w[s].pkg \in Pkg

(* The bytes between head and tail, which is what a channel holds.         *)
Used == IF tail >= head THEN tail - head ELSE tail - head + Size
Stream == [i \in 1 .. Used |-> buff[At(head, i - 1)]]

(* Through every wrap, every interleaving of the two processes and their   *)
(* restarts, a channel is a queue of whole packages: none is torn, lost,   *)
(* repeated or overwritten before the reader has moved its head past it.   *)
Fifo == INSTANCE ByteFifo WITH stream <- Stream
ImplementsFifo == Fifo!Spec

(* No package that fits the reader's buffer stays at the head of the ring  *)
(* for ever, unless the reader keeps restarting: neither process waits on  *)
(* a position the other never moves.  (RecvTooLong, after which the reader *)
(* starts afresh too, is no restart.)                                      *)
Fits == head # tail /\ DataLen[buff[head][1]] <= RecvLen
Progress ==
  <>[][ReaderRestart => RecvTooLong]_vars =>
     \A h \in 0 .. Size - 1 : (head = h /\ Fits) ~> (head # h)

=============================================================================
