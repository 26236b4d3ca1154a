---------------------------- MODULE CarrierProofs ----------------------------
(***************************************************************************)
(* The theorems about the carrier.  First the receiving half, for any      *)
(* connections, sizes and plans that satisfy RecvConstantsOK and PlansOK   *)
(* (InOrderOnce, NoneLost), then the sending half, for any targets and     *)
(* sizes that satisfy CarrierConstantsOK (Typing, NoDrop, Blocked,         *)
(* NotStranded, Filled).                                                   *)
(***************************************************************************)
EXTENDS Carrier, TLAPS, SequenceTheorems

-----------------------------------------------------------------------------
(* Types. *)

CellType == [pkg : Pkg, last : BOOLEAN]
PeerAt == {"none", "up", "closed", "reset"}
PeerType == [at : PeerAt, todo : Seq(CellType), stream : Seq(CellType)]
BuffType == [pkgs : Seq(Pkg), tail : Int, len : Int]
ClientAt == {"none", "open", "gone"}
ClientType ==
  [at : ClientAt, verify : BOOLEAN, time : Nat, cache : Seq(CellType),
   recv_buffer : BuffType, handled : Nat, dropped : Nat]
TurnAt == {"loop", "recv", "unpack", "flush", "store"}
TurnType == [at : TurnAt, client : Client, pkg : Pkg]

RecvTypeOK ==
  /\ clock \in Nat
  /\ peer \in [Client -> PeerType]
  /\ client \in [Client -> ClientType]
  /\ turn \in TurnType
  /\ channel \in [pkgs : Seq(Pkg), used : Int]
  /\ out \in [Client -> Seq(Nat)]

LEMMA PkgFields == \A p \in Pkg : p.seq \in Nat /\ p.size \in Int
BY RecvConstantsOK DEF Pkg

LEMMA LoopType == Loop \in TurnType /\ Loop.at = "loop" /\ Loop.client \in Client
BY RecvConstantsOK DEF Loop, TurnType, TurnAt, NoPkg, Numbered, Pkg, Kind

LEMMA NewClientType ==
  ASSUME NEW t \in Nat, NEW a \in ClientAt
  PROVE  /\ NewClient(a, t) \in ClientType
         /\ NewClient(a, t).at = a /\ NewClient(a, t).verify = FALSE
         /\ NewClient(a, t).cache = <<>> /\ NewClient(a, t).recv_buffer.pkgs = <<>>
         /\ NewClient(a, t).handled = 0 /\ NewClient(a, t).dropped = 0
<1>1. <<>> \in Seq(CellType) /\ <<>> \in Seq(Pkg)  OBVIOUS
<1>2. NoRecvBuffer \in BuffType  BY <1>1 DEF NoRecvBuffer, BuffType
<1>3. NewClient(a, t) \in ClientType
  BY <1>1, <1>2 DEF NewClient, ClientType
<1> QED BY <1>3 DEF NewClient, NoRecvBuffer

LEMMA BuffSound ==
  ASSUME NEW b \in BuffType, NEW p \in Pkg
  PROVE  /\ b.pkgs \in Seq(Pkg)
         /\ b.pkgs # <<>> => /\ Head(b.pkgs) \in Pkg
                             /\ Drained(b) \in BuffType /\ Drained(b).pkgs = Tail(b.pkgs)
         /\ RoomIn(b, p) \in BuffType /\ RoomIn(b, p).pkgs = b.pkgs
         /\ PutIn(RoomIn(b, p), p) \in BuffType
         /\ PutIn(RoomIn(b, p), p).pkgs = Append(b.pkgs, p)
<1>1. ASSUME b.pkgs # <<>>
      PROVE  /\ Head(b.pkgs) \in Pkg
             /\ Drained(b) \in BuffType /\ Drained(b).pkgs = Tail(b.pkgs)
  <2>1. b.pkgs \in Seq(Pkg)  BY DEF BuffType
  <2>2. Head(b.pkgs) \in Pkg /\ Tail(b.pkgs) \in Seq(Pkg)  BY <1>1, <2>1
  <2> QED BY <2>2, PkgFields DEF Drained, BuffType
<1>2. RoomIn(b, p) \in BuffType /\ RoomIn(b, p).pkgs = b.pkgs
  BY RecvConstantsOK DEF RoomIn, Expanded, Space, BuffType
<1>3. ASSUME NEW d \in BuffType
      PROVE  PutIn(d, p) \in BuffType /\ PutIn(d, p).pkgs = Append(d.pkgs, p)
  <2>1. d.pkgs \in Seq(Pkg)  BY DEF BuffType
  <2>2. Append(d.pkgs, p) \in Seq(Pkg)  BY <2>1
  <2> QED BY <2>2, PkgFields DEF PutIn, BuffType
<1>4. b.pkgs \in Seq(Pkg)  BY DEF BuffType
<1> QED BY <1>1, <1>2, <1>3, <1>4

\* What each step makes of a client, and what it leaves alone.
Same(k, cl) ==
  /\ k \in ClientType /\ k.at = cl.at
Kept(k, cl) ==
  /\ k.cache = cl.cache /\ k.recv_buffer = cl.recv_buffer
LEMMA ClientFields ==
  ASSUME NEW cl \in ClientType
  PROVE  /\ cl.cache \in Seq(CellType) /\ cl.recv_buffer \in BuffType
         /\ cl.handled \in Nat /\ cl.dropped \in Nat /\ cl.verify \in BOOLEAN
BY DEF ClientType

LEMMA VerifiedSound ==
  ASSUME NEW cl \in ClientType
  PROVE  LET k == Verified(cl) IN
         /\ Same(k, cl) /\ Kept(k, cl) /\ k.verify = TRUE
         /\ k.handled = cl.handled /\ k.dropped = cl.dropped
BY DEF ClientType, Verified, Same, Kept

LEMMA HandledSound ==
  ASSUME NEW cl \in ClientType
  PROVE  LET k == Handled(cl) IN
         /\ Same(k, cl) /\ Kept(k, cl) /\ k.verify = cl.verify
         /\ k.handled = cl.handled + 1 /\ k.dropped = cl.dropped
BY DEF ClientType, Handled, Same, Kept

LEMMA DroppedSound ==
  ASSUME NEW cl \in ClientType
  PROVE  LET k == Dropped(cl) IN
         /\ Same(k, cl) /\ Kept(k, cl) /\ k.verify = cl.verify
         /\ k.handled = cl.handled /\ k.dropped = cl.dropped + 1
BY DEF ClientType, Dropped, Same, Kept

LEMMA GoneSound ==
  ASSUME NEW cl \in ClientType
  PROVE  LET k == [cl EXCEPT !.at = "gone"] IN
         /\ k \in ClientType /\ k.at = "gone" /\ Kept(k, cl) /\ k.verify = cl.verify
         /\ k.handled = cl.handled /\ k.dropped = cl.dropped
BY DEF ClientType, ClientAt, Kept

LEMMA BufferSound ==
  ASSUME NEW cl \in ClientType, NEW b \in BuffType
  PROVE  LET k == WithBuffer(cl, b) IN
         /\ Same(k, cl) /\ k.cache = cl.cache /\ k.recv_buffer = b
         /\ k.verify = cl.verify /\ k.handled = cl.handled /\ k.dropped = cl.dropped
BY DEF ClientType, WithBuffer, Same

LEMMA CacheSound ==
  ASSUME NEW cl \in ClientType, NEW q \in Seq(CellType)
  PROVE  LET k == [cl EXCEPT !.cache = q] IN
         /\ Same(k, cl) /\ k.cache = q /\ k.recv_buffer = cl.recv_buffer
         /\ k.verify = cl.verify /\ k.handled = cl.handled /\ k.dropped = cl.dropped
BY DEF ClientType, Same

LEMMA TurnSound ==
  ASSUME RecvTypeOK, NEW a \in TurnAt
  PROVE  /\ LET k == [turn EXCEPT !.at = a] IN
            k \in TurnType /\ k.at = a /\ k.client = turn.client /\ k.pkg = turn.pkg
         /\ \A c \in Client : LET k == [turn EXCEPT !.at = a, !.client = c] IN
              k \in TurnType /\ k.at = a /\ k.client = c
         /\ \A p \in Pkg : LET k == [turn EXCEPT !.pkg = p, !.at = a] IN
              k \in TurnType /\ k.at = a /\ k.client = turn.client /\ k.pkg = p
BY DEF RecvTypeOK, TurnType

-----------------------------------------------------------------------------
(* The invariant.  Of one connection: the packages posted, those in        *)
(* recv_buffer, the one in hand and those still to be read are numbered in *)
(* this order.                                                             *)

Increasing(q) == \A i, j \in 1 .. Len(q) : i < j => q[i] < q[j]

Ordered(o, b, h, l) ==
  /\ Increasing(o)
  /\ \A i, j \in 1 .. Len(b) : i < j => b[i].seq < b[j].seq
  /\ \A i \in 1 .. Len(o), j \in 1 .. Len(b) : o[i] < b[j].seq
  /\ \A i \in 1 .. Len(o), k \in 1 .. Len(l) : o[i] < l[k].pkg.seq
  /\ \A j \in 1 .. Len(b), k \in 1 .. Len(l) : b[j].seq < l[k].pkg.seq
  /\ \A x \in h : /\ \A i \in 1 .. Len(o) : o[i] < x
                  /\ \A j \in 1 .. Len(b) : b[j].seq < x
                  /\ \A k \in 1 .. Len(l) : x < l[k].pkg.seq
  /\ Rising(l)

Line(c) == client[c].cache \o (peer[c].stream \o peer[c].todo)
Hand(c) == IF InHand(c) = 1 THEN {turn.pkg.seq} ELSE {}

Orderly(c) ==
  /\ Len(client[c].cache) <= CacheLen
  /\ Ordered(out[c], client[c].recv_buffer.pkgs, Hand(c), Line(c))
  /\ (out[c] # <<>> \/ client[c].recv_buffer.pkgs # <<>> \/ InHand(c) = 1) => client[c].verify
  /\ client[c].at = "none" =>
       client[c].cache = <<>> /\ client[c].recv_buffer.pkgs = <<>> /\ out[c] = <<>>
Busy == turn.at # "loop" => client[turn.client].at = "open"

Counted(c) ==
  client[c].at = "open" =>
    client[c].handled = Len(out[c]) + Len(client[c].recv_buffer.pkgs) + client[c].dropped
                        + InHand(c)
Good(c) == Orderly(c) /\ Counted(c)

RInv == RecvTypeOK /\ Busy /\ \A c \in Client : Good(c)

-----------------------------------------------------------------------------
(* Lemmas on one connection.                                               *)

\* m is what is left of l without some cells in front or behind.
Within(m, l, d) ==
  /\ d \in Nat /\ Len(m) + d <= Len(l)
  /\ \A i \in 1 .. Len(m) : m[i] = l[i + d]

LEMMA Shorter ==
  ASSUME NEW o, NEW b, NEW h, NEW l, NEW m, NEW d,
         Len(l) \in Nat, Len(m) \in Nat,
         Ordered(o, b, h, l), Within(m, l, d)
  PROVE  Ordered(o, b, h, m)
<1>1. \A i \in 1 .. Len(m) : i + d \in 1 .. Len(l) /\ m[i] = l[i + d]
  BY DEF Within
<1>2. Rising(m)
  <2> SUFFICES ASSUME NEW i \in 1 .. Len(m), NEW j \in 1 .. Len(m), i + 2 <= j
               PROVE  m[i].pkg.seq < m[j].pkg.seq
    BY DEF Rising
  <2>1. (i + d) + 2 <= j + d  BY DEF Within
  <2> QED BY <1>1, <2>1 DEF Ordered, Rising
<1> QED BY <1>1, <1>2 DEF Ordered

LEMMA Taken ==
  ASSUME NEW o, NEW b, NEW l \in Seq(CellType), NEW m \in Seq(CellType),
         Ordered(o, b, {}, l), Len(l) >= 2, Within(m, l, 2)
  PROVE  Ordered(o, b, {l[1].pkg.seq}, m)
<1>1. Ordered(o, b, {}, m)  BY Shorter
<1>2. \A k \in 1 .. Len(m) : l[1].pkg.seq < m[k].pkg.seq
  <2> SUFFICES ASSUME NEW k \in 1 .. Len(m) PROVE l[1].pkg.seq < m[k].pkg.seq
    OBVIOUS
  <2>1. k + 2 \in 1 .. Len(l) /\ m[k] = l[k + 2] /\ 1 + 2 <= k + 2  BY DEF Within
  <2> QED BY <2>1 DEF Ordered, Rising
<1>3. 1 \in 1 .. Len(l)  OBVIOUS
<1> QED BY <1>1, <1>2, <1>3 DEF Ordered

\* p is o with x behind it, and q is b without its first package.
Longer(p, o, x) ==
  /\ Len(o) \in Nat /\ Len(p) = Len(o) + 1 /\ p[Len(o) + 1] = x
  /\ \A i \in 1 .. Len(o) : p[i] = o[i]
Rest(q, b) ==
  /\ Len(b) \in Nat /\ Len(b) >= 1 /\ Len(q) = Len(b) - 1
  /\ \A j \in 1 .. Len(q) : q[j] = b[j + 1]

LEMMA AppendLonger ==
  ASSUME NEW S, NEW o \in Seq(S), NEW x \in S
  PROVE  Longer(Append(o, x), o, x)
BY DEF Longer

LEMMA TailRest ==
  ASSUME NEW S, NEW b \in Seq(S), b # <<>>
  PROVE  Rest(Tail(b), b) /\ Head(b) = b[1]
BY DEF Rest

LEMMA FlushedAt ==
  ASSUME NEW o, NEW b, NEW p, NEW q, NEW h, NEW l,
         Longer(p, o, b[1].seq), Rest(q, b), Ordered(o, b, h, l)
  PROVE  Ordered(p, q, h, l)
<1> DEFINE n == Len(o) + 1
<1>1. 1 \in 1 .. Len(b) /\ \A j \in 1 .. Len(q) : j + 1 \in 1 .. Len(b) /\ 1 < j + 1
  BY DEF Rest
<1>2. \A i \in 1 .. Len(p) : i = n \/ i \in 1 .. Len(o)
  BY DEF Longer
<1>3. Increasing(p)
  <2> SUFFICES ASSUME NEW i \in 1 .. Len(p), NEW j \in 1 .. Len(p), i < j PROVE p[i] < p[j]
    BY DEF Increasing
  <2>1. i \in 1 .. Len(o)  BY <1>2 DEF Longer
  <2>2. CASE j = n  BY <1>1, <2>1, <2>2 DEF Longer, Ordered
  <2>3. CASE j \in 1 .. Len(o)  BY <2>1, <2>3 DEF Longer, Ordered, Increasing
  <2> QED BY <1>2, <2>2, <2>3
<1>4. \A i, j \in 1 .. Len(q) : i < j => q[i].seq < q[j].seq
  <2> SUFFICES ASSUME NEW i \in 1 .. Len(q), NEW j \in 1 .. Len(q), i < j
               PROVE q[i].seq < q[j].seq
    OBVIOUS
  <2>1. i + 1 < j + 1  OBVIOUS
  <2> QED BY <1>1, <2>1 DEF Rest, Ordered
<1>5. \A i \in 1 .. Len(p), j \in 1 .. Len(q) : p[i] < q[j].seq
  <2> SUFFICES ASSUME NEW i \in 1 .. Len(p), NEW j \in 1 .. Len(q) PROVE p[i] < q[j].seq
    OBVIOUS
  <2>1. CASE i = n  BY <1>1, <2>1 DEF Longer, Rest, Ordered
  <2>2. CASE i \in 1 .. Len(o)  BY <1>1, <2>2 DEF Longer, Rest, Ordered
  <2> QED BY <1>2, <2>1, <2>2
<1>6. \A i \in 1 .. Len(p), k \in 1 .. Len(l) : p[i] < l[k].pkg.seq
  <2> SUFFICES ASSUME NEW i \in 1 .. Len(p), NEW k \in 1 .. Len(l) PROVE p[i] < l[k].pkg.seq
    OBVIOUS
  <2>1. CASE i = n  BY <1>1, <2>1 DEF Longer, Ordered
  <2>2. CASE i \in 1 .. Len(o)  BY <2>2 DEF Longer, Ordered
  <2> QED BY <1>2, <2>1, <2>2
<1>7. \A j \in 1 .. Len(q), k \in 1 .. Len(l) : q[j].seq < l[k].pkg.seq
  BY <1>1 DEF Rest, Ordered
<1>8. ASSUME NEW x \in h
      PROVE  /\ \A i \in 1 .. Len(p) : p[i] < x
             /\ \A j \in 1 .. Len(q) : q[j].seq < x
             /\ \A k \in 1 .. Len(l) : x < l[k].pkg.seq
  <2>1. ASSUME NEW i \in 1 .. Len(p) PROVE p[i] < x
    <3>1. CASE i = n  BY <1>1, <3>1 DEF Longer, Ordered
    <3>2. CASE i \in 1 .. Len(o)  BY <3>2 DEF Longer, Ordered
    <3> QED BY <1>2, <3>1, <3>2
  <2>2. \A j \in 1 .. Len(q) : q[j].seq < x  BY <1>1 DEF Rest, Ordered
  <2> QED BY <2>1, <2>2 DEF Ordered
<1> QED BY <1>3, <1>4, <1>5, <1>6, <1>7, <1>8 DEF Ordered

LEMMA Flushed ==
  ASSUME NEW o \in Seq(Nat), NEW b \in Seq(Pkg), NEW h, NEW l, b # <<>>,
         Ordered(o, b, h, l)
  PROVE  Ordered(Append(o, Head(b).seq), Tail(b), h, l)
<1>1. Rest(Tail(b), b) /\ Head(b) = b[1] /\ Head(b) \in Pkg  BY TailRest
<1>2. Longer(Append(o, b[1].seq), o, b[1].seq)  BY <1>1, AppendLonger, PkgFields
<1> QED BY <1>1, <1>2, FlushedAt

LEMMA Posted ==
  ASSUME NEW o \in Seq(Nat), NEW x \in Nat, NEW l, Ordered(o, <<>>, {x}, l)
  PROVE  Ordered(Append(o, x), <<>>, {}, l)
<1> DEFINE p == Append(o, x)
<1>1. Longer(p, o, x)  BY AppendLonger
<1> HIDE DEF p
<1>2. \A i \in 1 .. Len(p) : i = Len(o) + 1 \/ i \in 1 .. Len(o)
  BY <1>1 DEF Longer
<1>3. Increasing(p)
  <2> SUFFICES ASSUME NEW i \in 1 .. Len(p), NEW j \in 1 .. Len(p), i < j PROVE p[i] < p[j]
    BY DEF Increasing
  <2>1. i \in 1 .. Len(o)  BY <1>1, <1>2 DEF Longer
  <2>2. CASE j = Len(o) + 1  BY <1>1, <2>1, <2>2 DEF Longer, Ordered
  <2>3. CASE j \in 1 .. Len(o)  BY <1>1, <2>1, <2>3 DEF Longer, Ordered, Increasing
  <2> QED BY <1>2, <2>2, <2>3
<1>4. ASSUME NEW i \in 1 .. Len(p), NEW k \in 1 .. Len(l) PROVE p[i] < l[k].pkg.seq
  <2>1. CASE i = Len(o) + 1  BY <1>1, <2>1 DEF Longer, Ordered
  <2>2. CASE i \in 1 .. Len(o)  BY <1>1, <2>2 DEF Longer, Ordered
  <2> QED BY <1>2, <2>1, <2>2
<1>5. 1 .. Len(<<>>) = {}  OBVIOUS
<1>6. Rising(l)  BY DEF Ordered
<1>7. Ordered(p, <<>>, {}, l)  BY <1>3, <1>4, <1>5, <1>6 DEF Ordered
<1> QED BY <1>7 DEF p

LEMMA Waits ==
  ASSUME NEW o \in Seq(Nat), NEW b \in Seq(Pkg), NEW p \in Pkg, NEW l,
         Ordered(o, b, {p.seq}, l)
  PROVE  Ordered(o, Append(b, p), {}, l)
<1> DEFINE q == Append(b, p)
<1>1. Longer(q, b, p)  BY AppendLonger
<1> HIDE DEF q
<1>2. \A i \in 1 .. Len(q) : i = Len(b) + 1 \/ i \in 1 .. Len(b)
  BY <1>1 DEF Longer
<1>3. ASSUME NEW i \in 1 .. Len(q), NEW j \in 1 .. Len(q), i < j PROVE q[i].seq < q[j].seq
  <2>1. i \in 1 .. Len(b)  BY <1>1, <1>2, <1>3 DEF Longer
  <2>2. CASE j = Len(b) + 1  BY <1>1, <2>1, <2>2 DEF Longer, Ordered
  <2>3. CASE j \in 1 .. Len(b)  BY <1>1, <1>3, <2>1, <2>3 DEF Longer, Ordered
  <2> QED BY <1>2, <2>2, <2>3
<1>4. ASSUME NEW i \in 1 .. Len(o), NEW j \in 1 .. Len(q) PROVE o[i] < q[j].seq
  <2>1. CASE j = Len(b) + 1  BY <1>1, <2>1 DEF Longer, Ordered
  <2>2. CASE j \in 1 .. Len(b)  BY <1>1, <2>2 DEF Longer, Ordered
  <2> QED BY <1>2, <2>1, <2>2
<1>5. ASSUME NEW j \in 1 .. Len(q), NEW k \in 1 .. Len(l) PROVE q[j].seq < l[k].pkg.seq
  <2>1. CASE j = Len(b) + 1  BY <1>1, <2>1 DEF Longer, Ordered
  <2>2. CASE j \in 1 .. Len(b)  BY <1>1, <2>2 DEF Longer, Ordered
  <2> QED BY <1>2, <2>1, <2>2
<1>6. Ordered(o, q, {}, l)  BY <1>3, <1>4, <1>5 DEF Ordered
<1> QED BY <1>6 DEF q

LEMMA LetGo ==
  ASSUME NEW o, NEW b, NEW h, NEW l, Ordered(o, b, h, l)
  PROVE  Ordered(o, b, {}, l)
BY DEF Ordered

LEMMA Starts ==
  ASSUME NEW l PROVE Rising(l) => Ordered(<<>>, <<>>, {}, l)
BY DEF Ordered, Increasing

\* l is a, s and t, one behind the other, cell by cell.
Joined(l, a, s, t) ==
  /\ Len(a) \in Nat /\ Len(s) \in Nat /\ Len(t) \in Nat
  /\ Len(l) = Len(a) + Len(s) + Len(t)
  /\ \A i \in 1 .. Len(l) :
       /\ i <= Len(a) => l[i] = a[i]
       /\ i > Len(a) /\ i <= Len(a) + Len(s) => l[i] = s[i - Len(a)]
       /\ i > Len(a) + Len(s) => l[i] = t[i - Len(a) - Len(s)]

LEMMA LineJoined ==
  ASSUME NEW a \in Seq(CellType), NEW s \in Seq(CellType), NEW t \in Seq(CellType)
  PROVE  a \o (s \o t) \in Seq(CellType) /\ Joined(a \o (s \o t), a, s, t)
<1>1. s \o t \in Seq(CellType) /\ Len(s \o t) = Len(s) + Len(t)  OBVIOUS
<1>2. \A i \in 1 .. Len(s \o t) : (s \o t)[i] = IF i <= Len(s) THEN s[i] ELSE t[i - Len(s)]
  OBVIOUS
<1> QED BY <1>1, <1>2 DEF Joined

LEMMA SentAt ==
  ASSUME NEW l, NEW m, NEW a, NEW s, NEW t, NEW u, NEW v,
         Joined(l, a, s, t), Joined(m, a, u, v), Longer(u, s, t[1]), Rest(v, t)
  PROVE  Within(m, l, 0)
<1>1. Len(m) = Len(l)  BY DEF Joined, Longer, Rest
<1>2. ASSUME NEW i \in 1 .. Len(m) PROVE m[i] = l[i + 0]
  <2>0. i \in 1 .. Len(l) /\ i + 0 = i  BY <1>1
  <2>1. CASE i <= Len(a)  BY <2>0, <2>1 DEF Joined
  <2>2. CASE i > Len(a) /\ i <= Len(a) + Len(s)
    <3>1. i - Len(a) \in 1 .. Len(s) /\ i <= Len(a) + Len(u)  BY <2>2 DEF Joined, Longer
    <3>2. m[i] = u[i - Len(a)] /\ l[i] = s[i - Len(a)]  BY <2>0, <2>2, <3>1 DEF Joined
    <3> QED BY <2>0, <3>1, <3>2 DEF Longer
  <2>3. CASE i = Len(a) + Len(s) + 1
    <3>1. /\ i > Len(a) /\ i <= Len(a) + Len(u) /\ i - Len(a) = Len(s) + 1
          /\ i > Len(a) + Len(s) /\ i - Len(a) - Len(s) = 1
      BY <2>3 DEF Joined, Longer
    <3>2. m[i] = u[Len(s) + 1] /\ l[i] = t[1]  BY <2>0, <3>1 DEF Joined
    <3> QED BY <2>0, <3>2 DEF Longer
  <2>4. CASE i > Len(a) + Len(s) + 1
    <3> DEFINE j == i - Len(a) - Len(u)
    <3>1. /\ i > Len(a) + Len(u) /\ i > Len(a) + Len(s)
          /\ j + 1 = i - Len(a) - Len(s) /\ j \in 1 .. Len(v)
      BY <2>4 DEF Joined, Longer
    <3>2. m[i] = v[j] /\ l[i] = t[j + 1]  BY <2>0, <3>1 DEF Joined
    <3> QED BY <2>0, <3>1, <3>2 DEF Rest
  <2> QED BY <2>1, <2>2, <2>3, <2>4 DEF Joined
<1> QED BY <1>1, <1>2 DEF Within, Joined

LEMMA SendCells ==
  ASSUME NEW a \in Seq(CellType), NEW s \in Seq(CellType), NEW t \in Seq(CellType), t # <<>>
  PROVE  /\ Append(s, Head(t)) \in Seq(CellType) /\ Tail(t) \in Seq(CellType)
         /\ Within(a \o (Append(s, Head(t)) \o Tail(t)), a \o (s \o t), 0)
<1>1. Head(t) \in CellType /\ Tail(t) \in Seq(CellType)  OBVIOUS
<1>2. Append(s, Head(t)) \in Seq(CellType)  BY <1>1
<1>3. Longer(Append(s, Head(t)), s, t[1]) /\ Rest(Tail(t), t)
  BY <1>1, AppendLonger, TailRest
<1> QED BY <1>1, <1>2, <1>3, LineJoined, SentAt

\* f is the front of s, n cells, and r is what follows it.
Cut(f, r, s, n) ==
  /\ n \in Nat /\ n <= Len(s) /\ Len(f) = n /\ Len(r) = Len(s) - n
  /\ \A i \in 1 .. n : f[i] = s[i]
  /\ \A i \in 1 .. Len(r) : r[i] = s[i + n]

LEMMA ReadAt ==
  ASSUME NEW l, NEW m, NEW a, NEW s, NEW t, NEW f, NEW r, NEW u, NEW n,
         Joined(l, a, s, t), Joined(m, u, r, t), Cut(f, r, s, n), Joined(u, a, f, <<>>)
  PROVE  Within(m, l, 0)
<1>1. Len(<<>>) = 0  OBVIOUS
<1>2. Len(u) = Len(a) + n /\ Len(m) = Len(l) /\ Len(m) \in Nat
  BY <1>1 DEF Joined, Cut
<1>3. ASSUME NEW i \in 1 .. Len(m) PROVE m[i] = l[i + 0]
  <2>0. i \in 1 .. Len(l) /\ i + 0 = i  BY <1>2
  <2>1. CASE i <= Len(a)
    <3>1. i \in 1 .. Len(u) /\ i <= Len(u)  BY <1>2, <2>1 DEF Joined, Cut
    <3> QED BY <2>0, <2>1, <3>1 DEF Joined
  <2>2. CASE i > Len(a) /\ i <= Len(a) + n
    <3>1. /\ i \in 1 .. Len(u) /\ i <= Len(u) /\ i <= Len(a) + Len(s)
          /\ i <= Len(a) + Len(f) /\ i - Len(a) \in 1 .. n
      BY <1>2, <2>2 DEF Joined, Cut
    <3>2. m[i] = u[i] /\ u[i] = f[i - Len(a)] /\ l[i] = s[i - Len(a)]
      BY <2>0, <2>2, <3>1 DEF Joined
    <3> QED BY <2>0, <3>1, <3>2 DEF Cut
  <2>3. CASE i > Len(a) + n /\ i <= Len(a) + Len(s)
    <3> DEFINE j == i - Len(u)
    <3>1. /\ i > Len(u) /\ i <= Len(u) + Len(r) /\ i > Len(a)
          /\ j \in 1 .. Len(r) /\ j + n = i - Len(a)
      BY <1>2, <2>3 DEF Joined, Cut
    <3>2. m[i] = r[j] /\ l[i] = s[j + n]  BY <2>0, <2>3, <3>1 DEF Joined
    <3> QED BY <2>0, <3>1, <3>2 DEF Cut
  <2>4. CASE i > Len(a) + Len(s)
    <3>1. i > Len(u) + Len(r) /\ i - Len(u) - Len(r) = i - Len(a) - Len(s)
      BY <1>2, <2>4 DEF Joined, Cut
    <3> QED BY <2>0, <2>4, <3>1 DEF Joined
  <2> QED BY <2>1, <2>2, <2>3, <2>4 DEF Joined, Cut
<1> QED BY <1>2, <1>3 DEF Within

LEMMA ReadCells ==
  ASSUME NEW a \in Seq(CellType), NEW s \in Seq(CellType), NEW t \in Seq(CellType),
         NEW n \in 0 .. Len(s)
  PROVE  /\ a \o SubSeq(s, 1, n) \in Seq(CellType) /\ SubSeq(s, n + 1, Len(s)) \in Seq(CellType)
         /\ Len(a \o SubSeq(s, 1, n)) = Len(a) + n
         /\ Within((a \o SubSeq(s, 1, n)) \o (SubSeq(s, n + 1, Len(s)) \o t), a \o (s \o t), 0)
<1> DEFINE f == SubSeq(s, 1, n)
           r == SubSeq(s, n + 1, Len(s))
<1>1. f \in Seq(CellType) /\ Len(f) = n /\ \A i \in 1 .. n : f[i] = s[i]
  <2>1. \A i \in 1 .. n : s[i] \in CellType  OBVIOUS
  <2> QED BY <2>1, SubSeqProperties
<1>2. r \in Seq(CellType) /\ Len(r) = Len(s) - n /\ \A i \in 1 .. Len(r) : r[i] = s[i + n]
  <2>1. \A i \in n + 1 .. Len(s) : s[i] \in CellType  OBVIOUS
  <2> QED BY <2>1, SubSeqProperties
<1>3. Cut(f, r, s, n)  BY <1>1, <1>2 DEF Cut
<1> HIDE DEF f, r
<1>4. a \o f \in Seq(CellType) /\ Len(a \o f) = Len(a) + n  BY <1>1
<1>5. Joined(a \o f, a, f, <<>>)  BY <1>1 DEF Joined
<1>6. Within((a \o f) \o (r \o t), a \o (s \o t), 0)
  BY <1>2, <1>3, <1>4, <1>5, LineJoined, ReadAt
<1> QED BY <1>2, <1>4, <1>6 DEF f, r

LEMMA UnpackedAt ==
  ASSUME NEW l, NEW m, NEW a, NEW u, NEW w, NEW s, NEW t,
         Joined(l, a, s, t), Joined(m, u, s, t), Rest(w, a), Rest(u, w)
  PROVE  Len(l) >= 2 /\ l[1] = a[1] /\ Within(m, l, 2)
<1>1. Len(a) >= 2 /\ Len(u) = Len(a) - 2 /\ Len(l) >= 2 /\ 1 \in 1 .. Len(l)
      /\ Len(m) + 2 = Len(l)
  BY DEF Joined, Rest
<1>2. ASSUME NEW i \in 1 .. Len(m) PROVE m[i] = l[i + 2]
  <2>0. i + 2 \in 1 .. Len(l)  BY <1>1 DEF Joined
  <2>1. CASE i <= Len(u)
    <3>1. i \in 1 .. Len(u) /\ i + 1 \in 1 .. Len(w) /\ (i + 1) + 1 = i + 2 /\ i + 2 <= Len(a)
      BY <1>1, <2>1 DEF Rest
    <3>2. u[i] = w[i + 1] /\ w[i + 1] = a[i + 2]  BY <3>1 DEF Rest
    <3> QED BY <2>0, <2>1, <3>1, <3>2 DEF Joined
  <2>2. CASE i > Len(u) /\ i <= Len(u) + Len(s)
    <3>1. i + 2 > Len(a) /\ i + 2 <= Len(a) + Len(s) /\ (i + 2) - Len(a) = i - Len(u)
      BY <1>1, <2>2 DEF Joined
    <3> QED BY <2>0, <2>2, <3>1 DEF Joined
  <2>3. CASE i > Len(u) + Len(s)
    <3>1. i + 2 > Len(a) + Len(s) /\ (i + 2) - Len(a) - Len(s) = i - Len(u) - Len(s)
      BY <1>1, <2>3 DEF Joined
    <3> QED BY <2>0, <2>3, <3>1 DEF Joined
  <2> QED BY <2>1, <2>2, <2>3 DEF Joined
<1>3. l[1] = a[1]  BY <1>1 DEF Joined
<1>4. Len(m) + 2 <= Len(l)  BY <1>1 DEF Joined
<1> QED BY <1>1, <1>2, <1>3, <1>4 DEF Within

LEMMA UnpackCells ==
  ASSUME NEW a \in Seq(CellType), NEW s \in Seq(CellType), NEW t \in Seq(CellType), Whole(a)
  PROVE  /\ Tail(Tail(a)) \in Seq(CellType) /\ Len(Tail(Tail(a))) = Len(a) - 2
         /\ Head(a) \in CellType /\ Head(a) = (a \o (s \o t))[1]
         /\ Len(a \o (s \o t)) >= 2
         /\ Within(Tail(Tail(a)) \o (s \o t), a \o (s \o t), 2)
<1>1. Len(a) \in Nat /\ Len(a) >= 2 /\ a # <<>>  BY DEF Whole
<1>2. Head(a) \in CellType /\ Tail(a) \in Seq(CellType) /\ Rest(Tail(a), a) /\ Head(a) = a[1]
  BY <1>1, TailRest
<1>3. Tail(a) # <<>>
  <2>1. Len(Tail(a)) >= 1  BY <1>1, <1>2 DEF Rest
  <2>2. Len(<<>>) = 0  OBVIOUS
  <2> QED BY <2>1, <2>2
<1>4. Tail(Tail(a)) \in Seq(CellType) /\ Rest(Tail(Tail(a)), Tail(a))
  <2> DEFINE w == Tail(a)
  <2>1. w \in Seq(CellType) /\ w # <<>>  BY <1>2, <1>3
  <2> HIDE DEF w
  <2>2. Tail(w) \in Seq(CellType) /\ Rest(Tail(w), w)  BY <2>1, TailRest
  <2> QED BY <2>2 DEF w
<1>5. Joined(a \o (s \o t), a, s, t) /\ Joined(Tail(Tail(a)) \o (s \o t), Tail(Tail(a)), s, t)
  BY <1>4, LineJoined
<1>6. Len(Tail(Tail(a))) = Len(a) - 2  BY <1>1, <1>2, <1>4 DEF Rest
<1> QED BY <1>2, <1>4, <1>5, <1>6, UnpackedAt

LEMMA CloseCells ==
  ASSUME NEW a \in Seq(CellType), NEW s \in Seq(CellType), NEW t \in Seq(CellType)
  PROVE  /\ Within(a \o (s \o <<>>), a \o (s \o t), 0)
         /\ Within(a \o (<<>> \o <<>>), a \o (s \o t), 0)
<1>1. ASSUME NEW l, NEW m, NEW e, Joined(l, a, s, t), Joined(m, a, s, e), Len(e) = 0
      PROVE  Within(m, l, 0)
  BY <1>1 DEF Joined, Within
<1>2. ASSUME NEW l, NEW m, NEW e, Joined(l, a, s, t), Joined(m, a, e, e), Len(e) = 0
      PROVE  Within(m, l, 0)
  BY <1>2 DEF Joined, Within
<1>3. <<>> \in Seq(CellType) /\ Len(<<>>) = 0  OBVIOUS
<1> QED BY <1>1, <1>2, <1>3, LineJoined

-----------------------------------------------------------------------------
(* What the actions do to the types.                                       *)

LEMMA At ==
  ASSUME RecvTypeOK, NEW c \in Client
  PROVE  /\ client[c] \in ClientType /\ peer[c] \in PeerType /\ out[c] \in Seq(Nat)
         /\ client[c].cache \in Seq(CellType) /\ client[c].recv_buffer \in BuffType
         /\ client[c].recv_buffer.pkgs \in Seq(Pkg)
         /\ peer[c].todo \in Seq(CellType) /\ peer[c].stream \in Seq(CellType)
         /\ Line(c) \in Seq(CellType)
<1>1. client[c] \in ClientType /\ peer[c] \in PeerType /\ out[c] \in Seq(Nat)
  BY DEF RecvTypeOK
<1>2. client[c].cache \in Seq(CellType) /\ client[c].recv_buffer \in BuffType
  BY <1>1, ClientFields
<1>3. client[c].recv_buffer.pkgs \in Seq(Pkg)  BY <1>2 DEF BuffType
<1>4. peer[c].todo \in Seq(CellType) /\ peer[c].stream \in Seq(CellType)
  BY <1>1 DEF PeerType
<1> QED BY <1>1, <1>2, <1>3, <1>4, LineJoined DEF Line

LEMMA InitTypes == ASSUME NEW plan \in Plans, RecvInit(plan) PROVE RecvTypeOK
<1>1. \A c \in DOMAIN plan : plan[c] \in Seq(CellType)
  BY PlansOK DEF CellType
<1>2. peer \in [Client -> PeerType]
  <2>1. <<>> \in Seq(CellType)  OBVIOUS
  <2>2. ASSUME NEW q \in Seq(CellType), NEW a \in PeerAt
        PROVE  [at |-> a, todo |-> q, stream |-> <<>>] \in PeerType
    BY <2>1 DEF PeerType
  <2>3. [at |-> "none", todo |-> <<>>, stream |-> <<>>] \in PeerType  BY <2>1, <2>2 DEF PeerAt
  <2>4. \A c \in DOMAIN plan : [at |-> "up", todo |-> plan[c], stream |-> <<>>] \in PeerType
    BY <1>1, <2>2 DEF PeerAt
  <2> QED BY <2>3, <2>4 DEF RecvInit
<1>3. NewClient("none", 0) \in ClientType  BY NewClientType DEF ClientAt
<1>4. client \in [Client -> ClientType]  BY <1>3 DEF RecvInit
<1>5. channel \in [pkgs : Seq(Pkg), used : Int]  BY DEF RecvInit
<1>6. out \in [Client -> Seq(Nat)]  BY DEF RecvInit
<1> QED BY <1>2, <1>4, <1>5, <1>6, LoopType DEF RecvInit, RecvTypeOK

\* What holds of a connection still holds when the step is about another,
\* and when the client is freed.
LEMMA Stays ==
  ASSUME NEW d \in Client, Good(d),
         out'[d] = out[d], Ordered(out[d], client[d].recv_buffer.pkgs, Hand(d)', Line(d)'),
         client'[d].cache = client[d].cache, client'[d].recv_buffer = client[d].recv_buffer,
         client'[d].handled = client[d].handled, client'[d].dropped = client[d].dropped,
         client'[d].verify = client[d].verify,
         client'[d].at \in {client[d].at, "gone"},
         InHand(d)' = InHand(d) \/ (InHand(d)' = 0 /\ client'[d].at # "open")
  PROVE  Good(d)'
<1>1. Orderly(d)'  BY DEF Good, Orderly
<1>2. Counted(d)'  BY DEF Good, Counted
<1> QED BY <1>1, <1>2 DEF Good

LEMMA Others ==
  ASSUME NEW d \in Client, Good(d), out'[d] = out[d], client'[d] = client[d], peer'[d] = peer[d],
         Hand(d)' = Hand(d), InHand(d)' = InHand(d)
  PROVE  Good(d)'
<1>1. Line(d)' = Line(d)  BY DEF Line
<1>2. Ordered(out[d], client[d].recv_buffer.pkgs, Hand(d)', Line(d)')
  BY <1>1 DEF Good, Orderly
<1> QED BY <1>2, Stays

\* While the thread has no package in hand.
LEMMA NoHand ==
  \A d \in Client :
    /\ turn.at \notin {"flush", "store"} \/ turn.client # d => InHand(d) = 0 /\ Hand(d) = {}
    /\ turn.at \in {"flush", "store"} /\ turn.client = d => InHand(d) = 1 /\ Hand(d) = {turn.pkg.seq}
BY DEF InHand, Hand

LEMMA NoHandNext ==
  \A d \in Client :
    /\ turn'.at \notin {"flush", "store"} \/ turn'.client # d => InHand(d)' = 0 /\ Hand(d)' = {}
    /\ turn'.at \in {"flush", "store"} /\ turn'.client = d
         => InHand(d)' = 1 /\ Hand(d)' = {turn'.pkg.seq}
BY DEF InHand, Hand

LEMMA SameTurn ==
  ASSUME turn' = turn
  PROVE  \A d \in Client : Hand(d)' = Hand(d) /\ InHand(d)' = InHand(d)
BY DEF InHand, Hand

LEMMA PeerSendsInv ==
  ASSUME RInv, NEW c \in Client, PeerSends(c)
  PROVE  RInv'
<1>1. RecvTypeOK /\ Good(c)  BY DEF RInv
<1>2. /\ peer' \in [Client -> PeerType]
      /\ peer'[c].todo = Tail(peer[c].todo)
      /\ peer'[c].stream = Append(peer[c].stream, Head(peer[c].todo))
      /\ \A d \in Client : d # c => peer'[d] = peer[d]
  <2>1. peer[c] \in PeerType /\ peer \in [Client -> PeerType]  BY <1>1 DEF RecvTypeOK
  <2>2. /\ Tail(peer[c].todo) \in Seq(CellType)
        /\ Append(peer[c].stream, Head(peer[c].todo)) \in Seq(CellType)
    BY <1>1, At, SendCells DEF PeerSends
  <2>3. ASSUME NEW q \in Seq(CellType), NEW s \in Seq(CellType)
        PROVE  LET k == [peer[c] EXCEPT !.todo = q, !.stream = s] IN
               k \in PeerType /\ k.todo = q /\ k.stream = s
    BY <2>1 DEF PeerType
  <2>4. peer' = [peer EXCEPT ![c] = [peer[c] EXCEPT !.todo = Tail(peer[c].todo),
                                        !.stream = Append(peer[c].stream, Head(peer[c].todo))]]
    BY <2>1 DEF PeerSends, PeerType
  <2> QED BY <2>1, <2>2, <2>3, <2>4
<1>3. RecvTypeOK'  BY <1>1, <1>2 DEF RecvTypeOK, PeerSends
<1>4. Busy'  BY DEF RInv, Busy, PeerSends
<1>5. Good(c)'
  <2>1. Within(Line(c)', Line(c), 0)
    BY <1>1, <1>2, At, SendCells DEF Line, PeerSends
  <2>2. Len(Line(c)) \in Nat /\ Len(Line(c)') \in Nat
    <3>1. Line(c)' \in Seq(CellType)  BY <1>2, <1>1, At, SendCells, LineJoined DEF Line, PeerSends
    <3> QED BY <3>1, <1>1, At
  <2>3. Ordered(out[c], client[c].recv_buffer.pkgs, Hand(c)', Line(c)')
    BY <1>1, <2>1, <2>2, Shorter, SameTurn DEF PeerSends, Good, Orderly
  <2> QED BY <1>1, <2>3, Stays, SameTurn DEF PeerSends
<1>6. \A d \in Client : d # c => Good(d)'
  BY <1>2, Others, SameTurn DEF RInv, PeerSends
<1> QED BY <1>3, <1>4, <1>5, <1>6 DEF RInv

LEMMA PeerClosesInv ==
  ASSUME RInv, NEW c \in Client, PeerCloses(c)
  PROVE  RInv'
<1>1. RecvTypeOK /\ Good(c)  BY DEF RInv
<1>2. /\ peer' \in [Client -> PeerType]
      /\ peer'[c].todo = <<>> /\ peer'[c].stream \in {peer[c].stream, <<>>}
      /\ \A d \in Client : d # c => peer'[d] = peer[d]
  <2>1. peer[c] \in PeerType /\ peer \in [Client -> PeerType]  BY <1>1 DEF RecvTypeOK
  <2>2. <<>> \in Seq(CellType)  OBVIOUS
  <2>3. CASE peer' = [peer EXCEPT ![c].at = "closed", ![c].todo = <<>>]
    <3>1. LET k == [peer[c] EXCEPT !.at = "closed", !.todo = <<>>] IN
          k \in PeerType /\ k.todo = <<>> /\ k.stream = peer[c].stream
      BY <2>1, <2>2 DEF PeerType, PeerAt
    <3>2. peer' = [peer EXCEPT ![c] = [peer[c] EXCEPT !.at = "closed", !.todo = <<>>]]
      BY <2>1, <2>3 DEF PeerType
    <3> QED BY <2>1, <3>1, <3>2
  <2>4. CASE peer' = [peer EXCEPT ![c] = [at |-> "reset", todo |-> <<>>, stream |-> <<>>]]
    <3>1. [at |-> "reset", todo |-> <<>>, stream |-> <<>>] \in PeerType
      BY <2>2 DEF PeerType, PeerAt
    <3> QED BY <2>1, <2>4, <3>1
  <2> QED BY <2>3, <2>4 DEF PeerCloses
<1>3. RecvTypeOK'  BY <1>1, <1>2 DEF RecvTypeOK, PeerCloses
<1>4. Busy'  BY DEF RInv, Busy, PeerCloses
<1>5. Good(c)'
  <2>1. Within(Line(c)', Line(c), 0)
    BY <1>1, <1>2, At, CloseCells DEF Line, PeerCloses
  <2>2. Len(Line(c)) \in Nat /\ Len(Line(c)') \in Nat
    <3>1. <<>> \in Seq(CellType)  OBVIOUS
    <3>2. Line(c)' \in Seq(CellType)  BY <1>1, <1>2, <3>1, At, LineJoined DEF Line, PeerCloses
    <3> QED BY <3>2, <1>1, At
  <2>3. Ordered(out[c], client[c].recv_buffer.pkgs, Hand(c)', Line(c)')
    BY <1>1, <2>1, <2>2, Shorter, SameTurn DEF PeerCloses, Good, Orderly
  <2> QED BY <1>1, <2>3, Stays, SameTurn DEF PeerCloses
<1>6. \A d \in Client : d # c => Good(d)'
  BY <1>2, Others, SameTurn DEF RInv, PeerCloses
<1> QED BY <1>3, <1>4, <1>5, <1>6 DEF RInv

LEMMA OutsideInv ==
  ASSUME RInv, ServerReads \/ Second
  PROVE  RInv'
<1>1. UNCHANGED <<peer, client, turn, out>>  BY DEF ServerReads, Second
<1>2. RecvTypeOK'
  <2>1. CASE ServerReads
    <3>1. channel.pkgs \in Seq(Pkg) /\ channel.used \in Int  BY DEF RInv, RecvTypeOK
    <3>2. Tail(channel.pkgs) \in Seq(Pkg) /\ Head(channel.pkgs) \in Pkg
      BY <2>1, <3>1 DEF ServerReads
    <3> QED BY <2>1, <3>1, <3>2, PkgFields DEF RInv, RecvTypeOK, ServerReads
  <2>2. CASE Second  BY <2>2 DEF RInv, RecvTypeOK, Second
  <2> QED BY <2>1, <2>2
<1>3. \A d \in Client : Good(d)'  BY <1>1, Others, SameTurn DEF RInv
<1> QED BY <1>1, <1>2, <1>3 DEF RInv, Busy

LEMMA AcceptInv ==
  ASSUME RInv, NEW c \in Client, Accept(c)
  PROVE  RInv'
<1>1. RecvTypeOK /\ Good(c) /\ turn' = turn /\ turn.at = "loop" /\ client[c].at = "none"
      /\ UNCHANGED <<peer, out>>
  BY DEF RInv, Accept
<1>2. LET k == NewClient("open", clock) IN
      /\ k \in ClientType /\ k.cache = <<>> /\ k.recv_buffer.pkgs = <<>>
      /\ k.handled = 0 /\ k.dropped = 0
  BY <1>1, NewClientType DEF RecvTypeOK, ClientAt
<1>3. /\ client' \in [Client -> ClientType] /\ client'[c] = NewClient("open", clock)
      /\ \A d \in Client : d # c => client'[d] = client[d]
  BY <1>1, <1>2 DEF RecvTypeOK, Accept
<1>4. RecvTypeOK'  BY <1>1, <1>3 DEF RecvTypeOK, Accept
<1>5. Good(c)'
  <2>1. client[c].cache = <<>> /\ client[c].recv_buffer.pkgs = <<>> /\ out[c] = <<>>
    BY <1>1 DEF Good, Orderly
  <2>2. Line(c)' = Line(c) /\ Hand(c)' = Hand(c) /\ InHand(c)' = 0
    BY <1>1, <1>2, <1>3, <2>1, NoHand, SameTurn DEF Line
  <2>3. Len(<<>>) = 0 /\ 0 <= CacheLen  BY RecvConstantsOK
  <2>4. Orderly(c)'
    BY <1>1, <1>2, <1>3, <2>1, <2>2, <2>3 DEF Good, Orderly
  <2>5. Counted(c)'  BY <1>1, <1>2, <1>3, <2>1, <2>2, <2>3 DEF Counted
  <2> QED BY <2>4, <2>5 DEF Good
<1>6. \A d \in Client : d # c => Good(d)'
  BY <1>1, <1>3, Others, SameTurn DEF RInv
<1> QED BY <1>1, <1>4, <1>5, <1>6 DEF RInv, Busy

LEMMA ReadableInv ==
  ASSUME RInv, NEW c \in Client, Readable(c)
  PROVE  RInv'
<1>1. RecvTypeOK /\ turn.at = "loop" /\ client[c].at = "open"
      /\ UNCHANGED <<clock, peer, client, channel, out>>
  BY DEF RInv, Readable
<1>2. turn' \in TurnType /\ turn'.at = "recv" /\ turn'.client = c
  <2>1. turn' = [turn EXCEPT !.at = "recv", !.client = c]  BY DEF Readable
  <2>2. turn \in TurnType /\ "recv" \in TurnAt  BY <1>1 DEF RecvTypeOK, TurnAt
  <2> QED BY <2>1, <2>2 DEF TurnType
<1>3. RecvTypeOK'  BY <1>1, <1>2 DEF RecvTypeOK
<1>4. Busy'  BY <1>1, <1>2 DEF Busy
<1>5. \A d \in Client : Good(d)'  BY <1>1, <1>2, Others, NoHand, NoHandNext DEF RInv
<1> QED BY <1>3, <1>4, <1>5 DEF RInv

LEMMA CheckInv ==
  ASSUME RInv, check_client_info
  PROVE  RInv'
<1>1. RecvTypeOK /\ turn.at = "loop" /\ UNCHANGED <<clock, peer, turn, channel, out>>
  BY DEF RInv, check_client_info
<1>2. ASSUME NEW d \in Client
      PROVE  client'[d] \in ClientType /\ Good(d)'
  <2>1. client[d] \in ClientType /\ Good(d)  BY <1>1, At DEF RInv
  <2>2. CASE Late(d)
    <3>1. client'[d] = [client[d] EXCEPT !.at = "gone"]  BY <2>2 DEF check_client_info
    <3>2. /\ client'[d] \in ClientType /\ client'[d].at = "gone" /\ Kept(client'[d], client[d])
          /\ client'[d].verify = client[d].verify
          /\ client'[d].handled = client[d].handled /\ client'[d].dropped = client[d].dropped
      BY <2>1, <3>1, GoneSound
    <3>3. Ordered(out[d], client[d].recv_buffer.pkgs, Hand(d)', Line(d)')
      BY <1>1, <2>1, <3>2, SameTurn DEF Good, Orderly, Line, Kept
    <3> QED BY <1>1, <2>1, <3>2, <3>3, Stays, SameTurn DEF Kept
  <2>3. CASE ~Late(d)
    <3>1. client'[d] = client[d]  BY <2>3 DEF check_client_info
    <3> QED BY <1>1, <2>1, <3>1, Others, SameTurn
  <2> QED BY <2>2, <2>3
<1>3. client' \in [Client -> ClientType]  BY <1>2 DEF check_client_info
<1>4. RecvTypeOK'  BY <1>1, <1>3 DEF RecvTypeOK
<1> QED BY <1>1, <1>2, <1>4 DEF RInv, Busy

LEMMA RestartRInv ==
  ASSUME RInv, RecvRestart
  PROVE  RInv'
<1>1. RecvTypeOK /\ turn' = Loop /\ UNCHANGED <<clock, peer, channel, out>>
  BY DEF RInv, RecvRestart
<1>2. turn' \in TurnType /\ turn'.at = "loop"  BY <1>1, LoopType
<1>3. ASSUME NEW d \in Client
      PROVE  client'[d] \in ClientType /\ Good(d)'
  <2>1. client[d] \in ClientType /\ Good(d)  BY <1>1, At DEF RInv
  <2>2. InHand(d)' = 0 /\ Hand(d)' = {}  BY <1>2, NoHandNext
  <2>3. /\ client'[d] \in ClientType /\ Kept(client'[d], client[d])
        /\ client'[d].at \in {client[d].at, "gone"} /\ client'[d].at # "open"
        /\ client'[d].verify = client[d].verify
        /\ client'[d].handled = client[d].handled /\ client'[d].dropped = client[d].dropped
    <3>1. CASE client[d].at = "open"
      <4>1. client'[d] = [client[d] EXCEPT !.at = "gone"]  BY <3>1 DEF RecvRestart
      <4> QED BY <2>1, <4>1, GoneSound
    <3>2. CASE client[d].at # "open"
      <4>1. client'[d] = client[d]  BY <3>2 DEF RecvRestart
      <4> QED BY <2>1, <3>2, <4>1 DEF Kept
    <3> QED BY <3>1, <3>2
  <2>4. Ordered(out[d], client[d].recv_buffer.pkgs, Hand(d)', Line(d)')
    <3>1. Line(d)' = Line(d)  BY <1>1, <2>3 DEF Line, Kept
    <3> QED BY <2>1, <2>2, <3>1, LetGo DEF Good, Orderly
  <2> QED BY <1>1, <2>1, <2>2, <2>3, <2>4, Stays DEF Kept
<1>4. client' \in [Client -> ClientType]  BY <1>3 DEF RecvRestart
<1>5. RecvTypeOK'  BY <1>1, <1>2, <1>4 DEF RecvTypeOK
<1> QED BY <1>2, <1>3, <1>5 DEF RInv, Busy

\* A step of the thread on connection c changes nothing of the others.
LEMMA TurnOthers ==
  ASSUME RInv, NEW c \in Client, turn.client = c, turn'.client = c,
         \A d \in Client : d # c =>
           out'[d] = out[d] /\ client'[d] = client[d] /\ peer'[d] = peer[d]
  PROVE  \A d \in Client : d # c => Good(d)'
BY Others, NoHand, NoHandNext DEF RInv

\* The client is freed.
LEMMA FreeInv ==
  ASSUME RInv, NEW c \in Client, turn.client = c, Free(c), Goes("loop"),
         UNCHANGED <<clock, peer, channel, out>>
  PROVE  RInv'
<1>1. RecvTypeOK /\ Good(c) /\ client[c] \in ClientType  BY At DEF RInv
<1>2. turn' \in TurnType /\ turn'.at = "loop" /\ turn'.client = c
  BY <1>1, TurnSound DEF Goes, TurnAt
<1>3. client'[c] = [client[c] EXCEPT !.at = "gone"] /\ client' \in [Client -> ClientType]
      /\ \A d \in Client : d # c => client'[d] = client[d]
  BY <1>1, GoneSound DEF Free, RecvTypeOK
<1>4. RecvTypeOK'  BY <1>1, <1>2, <1>3 DEF RecvTypeOK
<1>5. Good(c)'
  <2>1. /\ client'[c].at = "gone" /\ Kept(client'[c], client[c])
        /\ client'[c].verify = client[c].verify
        /\ client'[c].handled = client[c].handled /\ client'[c].dropped = client[c].dropped
    BY <1>1, <1>3, GoneSound
  <2>2. InHand(c)' = 0 /\ Hand(c)' = {}  BY <1>2, NoHandNext
  <2>3. Ordered(out[c], client[c].recv_buffer.pkgs, Hand(c)', Line(c)')
    <3>1. Line(c)' = Line(c)  BY <2>1 DEF Line, Kept
    <3> QED BY <1>1, <2>2, <3>1, LetGo DEF Good, Orderly
  <2> QED BY <1>1, <2>1, <2>2, <2>3, Stays DEF Kept
<1>6. \A d \in Client : d # c => Good(d)'  BY <1>2, <1>3, TurnOthers
<1> QED BY <1>2, <1>4, <1>5, <1>6 DEF RInv, Busy

\* Only the place of the thread changes; what is in hand stays in hand.
LEMMA GoesInv ==
  ASSUME RInv, NEW a \in TurnAt, turn.at # "loop", Goes(a),
         a \in {"flush", "store"} <=> turn.at \in {"flush", "store"},
         UNCHANGED <<clock, peer, client, channel, out>>
  PROVE  RInv'
<1>1. RecvTypeOK  BY DEF RInv
<1>2. turn' \in TurnType /\ turn'.at = a /\ turn'.client = turn.client /\ turn'.pkg = turn.pkg
  BY <1>1, TurnSound DEF Goes
<1>3. RecvTypeOK'  BY <1>1, <1>2 DEF RecvTypeOK
<1>4. \A d \in Client : InHand(d)' = InHand(d) /\ Hand(d)' = Hand(d)
  BY <1>2 DEF InHand, Hand
<1>5. \A d \in Client : Good(d)'  BY <1>4, Others DEF RInv
<1> QED BY <1>2, <1>3, <1>5 DEF RInv, Busy

LEMMA RecvInv ==
  ASSUME RInv, NEW c \in Client, Recv(c)
  PROVE  RInv'
<1> DEFINE a == client[c].cache
           s == peer[c].stream
           n == IF Len(s) < CacheLen - Len(a) THEN Len(s) ELSE CacheLen - Len(a)
<1>1. RecvTypeOK /\ Good(c) /\ turn.at = "recv" /\ turn.client = c
      /\ UNCHANGED <<clock, channel, out>>
  BY DEF RInv, Recv
<1>2. /\ client[c] \in ClientType /\ peer[c] \in PeerType
      /\ a \in Seq(CellType) /\ s \in Seq(CellType) /\ peer[c].todo \in Seq(CellType)
      /\ client[c].at = "open"
  BY <1>1, At DEF RInv, Busy
<1>3. CASE /\ client' = [client EXCEPT ![c].cache = @ \o SubSeq(s, 1, n)]
           /\ peer' = [peer EXCEPT ![c].stream = SubSeq(@, n + 1, Len(@))]
           /\ Goes("unpack")
  <2>1. n \in 0 .. Len(s) /\ n <= CacheLen - Len(a)
    <3>1. Len(a) \in Nat /\ Len(s) \in Nat /\ Len(a) <= CacheLen /\ CacheLen \in Nat
      BY <1>1, <1>2, RecvConstantsOK DEF Good, Orderly
    <3>2. ASSUME NEW x \in Nat, NEW y \in Nat, x <= CacheLen
          PROVE  LET m == IF y < CacheLen - x THEN y ELSE CacheLen - x IN
                 m \in 0 .. y /\ m <= CacheLen - x
      BY <3>1, <3>2
    <3> QED BY <3>1, <3>2
  <2> HIDE DEF n
  <2>2. /\ a \o SubSeq(s, 1, n) \in Seq(CellType) /\ SubSeq(s, n + 1, Len(s)) \in Seq(CellType)
        /\ Len(a \o SubSeq(s, 1, n)) = Len(a) + n
        /\ Within((a \o SubSeq(s, 1, n)) \o (SubSeq(s, n + 1, Len(s)) \o peer[c].todo),
                  a \o (s \o peer[c].todo), 0)
    BY <1>2, <2>1, ReadCells
  <2>3. turn' \in TurnType /\ turn'.at = "unpack" /\ turn'.client = c
    BY <1>1, <1>3, TurnSound DEF Goes, TurnAt
  <2>4. LET k == [client[c] EXCEPT !.cache = a \o SubSeq(s, 1, n)] IN
        /\ client' \in [Client -> ClientType] /\ client'[c] = k
        /\ \A d \in Client : d # c => client'[d] = client[d]
    <3>1. client' = [client EXCEPT ![c] = [client[c] EXCEPT !.cache = a \o SubSeq(s, 1, n)]]
      BY <1>1, <1>2, <1>3 DEF RecvTypeOK
    <3>2. [client[c] EXCEPT !.cache = a \o SubSeq(s, 1, n)] \in ClientType
      BY <1>2, <2>2, CacheSound DEF Same
    <3> QED BY <1>1, <3>1, <3>2 DEF RecvTypeOK
  <2>5. LET k == client'[c] IN
        /\ k.at = "open" /\ k.cache = a \o SubSeq(s, 1, n) /\ k.recv_buffer = client[c].recv_buffer
        /\ k.verify = client[c].verify /\ k.handled = client[c].handled
        /\ k.dropped = client[c].dropped
    BY <1>2, <2>2, <2>4, CacheSound DEF Same
  <2>6. /\ peer' \in [Client -> PeerType]
        /\ peer'[c].todo = peer[c].todo /\ peer'[c].stream = SubSeq(s, n + 1, Len(s))
        /\ \A d \in Client : d # c => peer'[d] = peer[d]
    <3>1. peer' = [peer EXCEPT ![c] = [peer[c] EXCEPT !.stream = SubSeq(s, n + 1, Len(s))]]
      BY <1>1, <1>2, <1>3 DEF RecvTypeOK
    <3>2. ASSUME NEW q \in Seq(CellType)
          PROVE  LET k == [peer[c] EXCEPT !.stream = q] IN
                 k \in PeerType /\ k.todo = peer[c].todo /\ k.stream = q
      BY <1>2 DEF PeerType
    <3> QED BY <1>1, <2>2, <3>1, <3>2 DEF RecvTypeOK
  <2>7. RecvTypeOK'  BY <1>1, <2>3, <2>4, <2>6 DEF RecvTypeOK
  <2>8. Good(c)'
    <3>1. InHand(c) = 0 /\ Hand(c) = {} /\ InHand(c)' = 0 /\ Hand(c)' = {}
      BY <1>1, <2>3, NoHand, NoHandNext
    <3>2. Within(Line(c)', Line(c), 0)  BY <2>2, <2>5, <2>6 DEF Line
    <3>3. Len(Line(c)) \in Nat /\ Len(Line(c)') \in Nat
      <4>1. Line(c)' \in Seq(CellType)  BY <1>2, <2>2, <2>5, <2>6, LineJoined DEF Line
      <4> QED BY <4>1, <1>1, At
    <3>4. Ordered(out[c], client[c].recv_buffer.pkgs, {}, Line(c)')
      BY <1>1, <3>1, <3>2, <3>3, Shorter DEF Good, Orderly
    <3>5. Len(a \o SubSeq(s, 1, n)) <= CacheLen
      <4>1. Len(a) \in Nat /\ Len(s) \in Nat /\ CacheLen \in Nat  BY <1>2, RecvConstantsOK
      <4>2. n \in Nat /\ n <= CacheLen - Len(a)  BY <4>1, <2>1
      <4>3. Len(a) + n <= CacheLen  BY <4>1, <4>2
      <4>4. Len(a \o SubSeq(s, 1, n)) = Len(a) + n  BY <2>2
      <4> QED BY <4>3, <4>4
    <3>6. Orderly(c)'  BY <1>1, <2>5, <3>1, <3>4, <3>5 DEF Good, Orderly
    <3>7. Counted(c)'  BY <1>1, <1>2, <2>5, <3>1 DEF Good, Counted
    <3> QED BY <3>6, <3>7 DEF Good
  <2>9. \A d \in Client : d # c => Good(d)'  BY <1>1, <2>3, <2>4, <2>6, TurnOthers
  <2> QED BY <2>3, <2>5, <2>7, <2>8, <2>9 DEF RInv, Busy
<1>4. CASE Goes("loop") /\ UNCHANGED <<client, peer>>
  <2>1. turn' \in TurnType /\ turn'.at = "loop" /\ turn'.client = c
    BY <1>1, <1>4, TurnSound DEF Goes, TurnAt
  <2>2. RecvTypeOK'  BY <1>1, <1>4, <2>1 DEF RecvTypeOK
  <2>3. \A d \in Client : Good(d)'
    BY <1>1, <1>4, <2>1, Others, NoHand, NoHandNext DEF RInv
  <2> QED BY <2>1, <2>2, <2>3 DEF RInv, Busy
<1>5. CASE Goes("loop") /\ Free(c) /\ UNCHANGED peer
  BY <1>1, <1>5, FreeInv
<1> QED BY <1>3, <1>4, <1>5 DEF Recv

\* A package that is not for the channel is taken from the cache.
LEMMA TakeOut ==
  ASSUME RInv, NEW c \in Client, turn.at = "unpack", turn.client = c, Whole(client[c].cache),
         NEW k \in ClientType, client' = [client EXCEPT ![c] = k],
         UNCHANGED <<clock, peer, channel, out>>,
         turn' \in TurnType, turn'.client = c, turn'.at # "loop",
         k.cache = Tail(Tail(client[c].cache)), k.recv_buffer = client[c].recv_buffer,
         k.at = "open", client[c].verify => k.verify, k.dropped = client[c].dropped,
         k.handled = client[c].handled + InHand(c)',
         InHand(c)' = 1 => k.verify /\ turn'.pkg = Head(client[c].cache).pkg
  PROVE  RInv'
<1>1. RecvTypeOK /\ Good(c) /\ client[c] \in ClientType /\ client[c].at = "open"
  BY At DEF RInv, Busy
<1>2. client' \in [Client -> ClientType] /\ client'[c] = k
      /\ \A d \in Client : d # c => client'[d] = client[d]
  BY <1>1 DEF RecvTypeOK
<1>3. RecvTypeOK'  BY <1>1, <1>2 DEF RecvTypeOK
<1>4. Busy'  BY <1>2 DEF Busy
<1> DEFINE a == client[c].cache
<1>5. /\ Tail(Tail(a)) \in Seq(CellType) /\ Len(Tail(Tail(a))) = Len(a) - 2
      /\ Head(a) = Line(c)[1] /\ Len(Line(c)) >= 2
      /\ Within(Line(c)', Line(c), 2)
  <2>1. a \in Seq(CellType) /\ peer[c].stream \in Seq(CellType) /\ peer[c].todo \in Seq(CellType)
    BY <1>1, At
  <2>2. /\ Line(c) = a \o (peer[c].stream \o peer[c].todo)
        /\ Line(c)' = Tail(Tail(a)) \o (peer[c].stream \o peer[c].todo)
    BY <1>2 DEF Line
  <2>3. ASSUME NEW s \in Seq(CellType), NEW t \in Seq(CellType), NEW q \in Seq(CellType), Whole(q)
        PROVE  /\ Tail(Tail(q)) \in Seq(CellType) /\ Len(Tail(Tail(q))) = Len(q) - 2
               /\ Head(q) = (q \o (s \o t))[1] /\ Len(q \o (s \o t)) >= 2
               /\ Within(Tail(Tail(q)) \o (s \o t), q \o (s \o t), 2)
    BY <2>3, UnpackCells
  <2> HIDE DEF a
  <2>4. Whole(a)  BY DEF a
  <2>5. LET l == a \o (peer[c].stream \o peer[c].todo)
            m == Tail(Tail(a)) \o (peer[c].stream \o peer[c].todo)
        IN
        /\ Tail(Tail(a)) \in Seq(CellType) /\ Len(Tail(Tail(a))) = Len(a) - 2
        /\ Head(a) = l[1] /\ Len(l) >= 2 /\ Within(m, l, 2)
    BY <2>1, <2>3, <2>4, Zenon
  <2> QED BY <2>2, <2>5
<1>6. Line(c)' \in Seq(CellType)
  BY <1>1, <1>2, <1>5, At, LineJoined DEF Line
<1>7. InHand(c) = 0 /\ Hand(c) = {}  BY <1>1, NoHand
<1>8. Ordered(out[c], client[c].recv_buffer.pkgs, {Line(c)[1].pkg.seq}, Line(c)')
  <2>1. Ordered(out[c], client[c].recv_buffer.pkgs, {}, Line(c))
    BY <1>1, <1>7 DEF Good, Orderly
  <2>2. Line(c) \in Seq(CellType)  BY <1>1, At
  <2> QED BY <1>5, <1>6, <2>1, <2>2, Taken
<1>9. Ordered(out[c], client[c].recv_buffer.pkgs, Hand(c)', Line(c)')
  <2>1. CASE InHand(c)' = 1
    <3>1. Hand(c)' = {Line(c)[1].pkg.seq}  BY <1>5, <2>1 DEF Hand
    <3> QED BY <1>8, <3>1
  <2>2. CASE InHand(c)' = 0
    <3>1. Hand(c)' = {}  BY <2>2 DEF Hand
    <3> QED BY <1>8, <3>1, LetGo
  <2> QED BY <2>1, <2>2, NoHandNext
<1>10. Orderly(c)'
  <2>1. Len(k.cache) <= CacheLen
    <3>1. Len(a) \in Nat /\ Len(a) <= CacheLen /\ CacheLen \in Nat
      BY <1>1, At, RecvConstantsOK DEF Good, Orderly
    <3> QED BY <3>1, <1>5
  <2>2. (out[c] # <<>> \/ client[c].recv_buffer.pkgs # <<>> \/ InHand(c)' = 1) => k.verify
    BY <1>1 DEF Good, Orderly
  <2> QED BY <1>2, <1>9, <2>1, <2>2 DEF Orderly
<1>11. Counted(c)'
  <2>1. /\ client[c].handled \in Nat /\ client[c].dropped \in Nat
        /\ Len(out[c]) \in Nat /\ Len(client[c].recv_buffer.pkgs) \in Nat /\ InHand(c)' \in {0, 1}
    BY <1>1, At, ClientFields, NoHandNext
  <2>2. client[c].handled = Len(out[c]) + Len(client[c].recv_buffer.pkgs) + client[c].dropped
    <3>1. client[c].handled = Len(out[c]) + Len(client[c].recv_buffer.pkgs) + client[c].dropped
                              + InHand(c)
      BY <1>1 DEF Good, Counted
    <3>2. InHand(c) = 0  BY <1>7
    <3>3. ASSUME NEW x \in Nat, NEW y \in Nat, NEW z \in Nat PROVE x + y + z + 0 = x + y + z
      OBVIOUS
    <3> QED BY <2>1, <3>1, <3>2, <3>3
  <2> QED BY <1>2, <2>1, <2>2 DEF Counted
<1>12. \A d \in Client : d # c => Good(d)'  BY <1>2, TurnOthers
<1> QED BY <1>3, <1>4, <1>10, <1>11, <1>12 DEF RInv, Good

LEMMA UnpackInv ==
  ASSUME RInv, NEW c \in Client, Unpack(c)
  PROVE  RInv'
<1> DEFINE p == Head(client[c].cache).pkg
           rest == Unpacked(client[c])
<1>1. RecvTypeOK /\ turn.at = "unpack" /\ turn.client = c /\ Whole(client[c].cache)
      /\ UNCHANGED <<clock, peer, channel, out>>
  BY DEF RInv, Unpack
<1>2. client[c] \in ClientType /\ client[c].at = "open" /\ client[c].cache \in Seq(CellType)
      /\ turn \in TurnType
  BY <1>1, At DEF RInv, Busy, RecvTypeOK
<1>3. Tail(Tail(client[c].cache)) \in Seq(CellType) /\ p \in Pkg
  <2>1. <<>> \in Seq(CellType)  OBVIOUS
  <2>2. Tail(Tail(client[c].cache)) \in Seq(CellType) /\ Head(client[c].cache) \in CellType
    BY <1>1, <1>2, <2>1, UnpackCells
  <2> QED BY <2>2 DEF CellType
<1>4. /\ rest \in ClientType /\ rest.at = "open" /\ rest.cache = Tail(Tail(client[c].cache))
      /\ rest.recv_buffer = client[c].recv_buffer /\ rest.verify = client[c].verify
      /\ rest.handled = client[c].handled /\ rest.dropped = client[c].dropped
  BY <1>2, <1>3, CacheSound DEF Unpacked, Same
<1> HIDE DEF rest
<1>5. client[c].handled \in Nat  BY <1>2, ClientFields
<1>6. CASE p.kind = "verify" /\ client' = [client EXCEPT ![c] = Verified(rest)] /\ UNCHANGED turn
  <2>1. InHand(c)' = 0  BY <1>1, <1>6, NoHandNext
  <2>2. Same(Verified(rest), rest) /\ Kept(Verified(rest), rest) /\ Verified(rest).verify = TRUE
        /\ Verified(rest).handled = rest.handled /\ Verified(rest).dropped = rest.dropped
    BY <1>4, VerifiedSound
  <2>3. LET k == Verified(rest) IN
        /\ k \in ClientType /\ k.at = "open" /\ k.cache = Tail(Tail(client[c].cache))
        /\ k.recv_buffer = client[c].recv_buffer /\ k.verify = TRUE
        /\ k.handled = client[c].handled + InHand(c)' /\ k.dropped = client[c].dropped
    BY <1>4, <1>5, <2>1, <2>2 DEF Same, Kept
  <2>4. turn' \in TurnType /\ turn'.client = c /\ turn'.at # "loop"  BY <1>1, <1>2, <1>6
  <2>5. ~(InHand(c)' = 1)  BY <2>1
  <2> HIDE DEF p
  <2> QED BY <1>1, <1>6, <2>3, <2>4, <2>5, TakeOut
<1>7. CASE p.kind \in Inner /\ client' = [client EXCEPT ![c] = rest] /\ UNCHANGED turn
  <2>1. InHand(c)' = 0  BY <1>1, <1>7, NoHandNext
  <2>2. turn' \in TurnType /\ turn'.client = c /\ turn'.at # "loop"  BY <1>1, <1>2, <1>7
  <2>3. ~(InHand(c)' = 1) /\ rest.handled = client[c].handled + InHand(c)'
    BY <1>4, <1>5, <2>1
  <2> HIDE DEF p
  <2> QED BY <1>1, <1>4, <1>7, <2>2, <2>3, TakeOut
<1>8. CASE Free(c) /\ Goes("loop")
  BY <1>1, <1>8, FreeInv
<1>9. CASE /\ p.kind = "data" /\ client[c].verify
           /\ client' = [client EXCEPT ![c] = Handled(rest)]
           /\ turn' = [turn EXCEPT !.pkg = p,
                         !.at = IF rest.recv_buffer.pkgs # <<>> THEN "flush" ELSE "store"]
  <2>1. turn' \in TurnType /\ turn'.at \in {"flush", "store"} /\ turn'.client = c /\ turn'.pkg = p
    <3>1. \A b \in TurnAt : LET k == [turn EXCEPT !.pkg = p, !.at = b] IN
            k \in TurnType /\ k.at = b /\ k.client = turn.client /\ k.pkg = p
      BY <1>2, <1>3 DEF TurnType
    <3>2. "flush" \in TurnAt /\ "store" \in TurnAt  BY DEF TurnAt
    <3>3. CASE rest.recv_buffer.pkgs # <<>>
      <4>1. turn' = [turn EXCEPT !.pkg = p, !.at = "flush"]  BY <1>9, <3>3
      <4> QED BY <1>1, <3>1, <3>2, <4>1
    <3>4. CASE rest.recv_buffer.pkgs = <<>>
      <4>1. turn' = [turn EXCEPT !.pkg = p, !.at = "store"]  BY <1>9, <3>4
      <4> QED BY <1>1, <3>1, <3>2, <4>1
    <3> QED BY <3>3, <3>4
  <2>2. InHand(c)' = 1  BY <2>1, NoHandNext
  <2>3. Same(Handled(rest), rest) /\ Kept(Handled(rest), rest) /\ Handled(rest).verify = rest.verify
        /\ Handled(rest).handled = rest.handled + 1 /\ Handled(rest).dropped = rest.dropped
    BY <1>4, HandledSound
  <2>4. turn'.at # "loop"  BY <2>1
  <2> QED BY <1>1, <1>2, <1>4, <1>5, <1>9, <2>1, <2>2, <2>3, <2>4, TakeOut DEF Same, Kept
<1> QED BY <1>6, <1>7, <1>8, <1>9 DEF Unpack, rest

\* What append_recv_channel changes.
LEMMA AppendTypes ==
  ASSUME RecvTypeOK, NEW c \in Client, NEW p \in Pkg, append_recv_channel(c, p)
  PROVE  /\ channel' \in [pkgs : Seq(Pkg), used : Int]
         /\ out' \in [Client -> Seq(Nat)] /\ out'[c] = Append(out[c], p.seq)
         /\ Len(out'[c]) = Len(out[c]) + 1 /\ out'[c] # <<>>
         /\ \A d \in Client : d # c => out'[d] = out[d]
<1>1. channel.pkgs \in Seq(Pkg) /\ channel.used \in Int /\ out[c] \in Seq(Nat)
      /\ p.seq \in Nat /\ p.size \in Int
  BY PkgFields DEF RecvTypeOK
<1>2. Append(channel.pkgs, p) \in Seq(Pkg) /\ Append(out[c], p.seq) \in Seq(Nat)
      /\ Len(Append(out[c], p.seq)) = Len(out[c]) + 1 /\ Append(out[c], p.seq) # <<>>
  BY <1>1
<1> QED BY <1>1, <1>2 DEF append_recv_channel, RecvTypeOK

\* A package moves from one of the four places to another.
LEMMA Sums ==
  ASSUME NEW o \in Nat, NEW b \in Nat, NEW d \in Nat
  PROVE  /\ o + b + d + 1 = (o + 1) + (b - 1) + d + 1
         /\ o + b + d + 1 = (o + 1) + b + d + 0
         /\ o + b + d + 1 = o + (b + 1) + d + 0
         /\ o + b + d + 1 = o + b + (d + 1) + 0
OBVIOUS

LEMMA FlushRInv ==
  ASSUME RInv, NEW c \in Client, flush_recving_buff(c)
  PROVE  RInv'
<1> DEFINE b == client[c].recv_buffer
           p == Head(b.pkgs)
<1>1. RecvTypeOK /\ Good(c) /\ turn.at = "flush" /\ turn.client = c /\ UNCHANGED <<clock, peer>>
  BY DEF RInv, flush_recving_buff
<1>2. client[c] \in ClientType /\ client[c].at = "open" /\ b \in BuffType
      /\ b.pkgs \in Seq(Pkg) /\ out[c] \in Seq(Nat) /\ Line(c) \in Seq(CellType)
  BY <1>1, At DEF RInv, Busy
<1>3. CASE /\ b.pkgs # <<>> /\ append_recv_channel(c, p)
           /\ client' = [client EXCEPT ![c] = WithBuffer(@, Drained(@.recv_buffer))]
           /\ UNCHANGED turn
  <2>1. p \in Pkg /\ Drained(b) \in BuffType /\ Drained(b).pkgs = Tail(b.pkgs)
        /\ Tail(b.pkgs) \in Seq(Pkg) /\ Len(Tail(b.pkgs)) = Len(b.pkgs) - 1
    <3>1. b.pkgs # <<>>  BY <1>3
    <3>2. \E q : q \in Pkg  BY LoopType DEF TurnType
    <3>3. p \in Pkg /\ Drained(b) \in BuffType /\ Drained(b).pkgs = Tail(b.pkgs)
      BY <1>2, <3>1, <3>2, BuffSound
    <3>4. Tail(b.pkgs) \in Seq(Pkg) /\ Len(Tail(b.pkgs)) = Len(b.pkgs) - 1  BY <1>2, <3>1
    <3> QED BY <3>3, <3>4
  <2>2. /\ channel' \in [pkgs : Seq(Pkg), used : Int]
        /\ out' \in [Client -> Seq(Nat)] /\ out'[c] = Append(out[c], p.seq)
        /\ Len(out'[c]) = Len(out[c]) + 1
        /\ \A d \in Client : d # c => out'[d] = out[d]
    BY <1>1, <1>3, <2>1, AppendTypes
  <2>3. LET k == WithBuffer(client[c], Drained(b)) IN
        /\ client' = [client EXCEPT ![c] = k]
        /\ k \in ClientType /\ k.at = "open" /\ k.cache = client[c].cache
        /\ k.recv_buffer = Drained(b) /\ k.verify = client[c].verify
        /\ k.handled = client[c].handled /\ k.dropped = client[c].dropped
    <3>1. client' = [client EXCEPT ![c] = WithBuffer(client[c], Drained(b))]
      BY <1>1, <1>3 DEF RecvTypeOK
    <3> QED BY <1>2, <2>1, <3>1, BufferSound DEF Same
  <2>4. /\ client' \in [Client -> ClientType] /\ client'[c] = WithBuffer(client[c], Drained(b))
        /\ \A d \in Client : d # c => client'[d] = client[d]
    BY <1>1, <2>3 DEF RecvTypeOK
  <2>5. RecvTypeOK'  BY <1>1, <1>3, <2>2, <2>4 DEF RecvTypeOK
  <2>6. Busy'  BY <1>1, <1>3, <2>3, <2>4 DEF Busy
  <2>7. InHand(c) = 1 /\ InHand(c)' = 1 /\ Hand(c)' = Hand(c) /\ Line(c)' = Line(c)
    BY <1>1, <1>3, <2>3, <2>4, NoHand, SameTurn DEF Line
  <2>8. Orderly(c)'
    <3>1. Ordered(out[c], b.pkgs, Hand(c), Line(c))  BY <1>1 DEF Good, Orderly
    <3>2. Ordered(Append(out[c], p.seq), Tail(b.pkgs), Hand(c), Line(c))
      BY <1>2, <1>3, <3>1, Flushed
    <3>3. Len(client[c].cache) <= CacheLen /\ client[c].verify  BY <1>1, <2>7 DEF Good, Orderly
    <3> QED BY <2>1, <2>2, <2>3, <2>4, <2>7, <3>2, <3>3 DEF Orderly
  <2>9. Counted(c)'
    <3>1. client[c].handled = Len(out[c]) + Len(b.pkgs) + client[c].dropped + 1
      BY <1>1, <1>2, <2>7 DEF Good, Counted
    <3>2. /\ Len(out[c]) \in Nat /\ Len(b.pkgs) \in Nat /\ client[c].dropped \in Nat
      BY <1>2, ClientFields
    <3>3. client[c].handled \in Nat  BY <1>2, ClientFields
    <3>4. client[c].handled = (Len(out[c]) + 1) + (Len(b.pkgs) - 1) + client[c].dropped + 1
      BY <3>1, <3>2, <3>3, Sums
    <3>5. /\ client'[c].handled = client[c].handled /\ client'[c].dropped = client[c].dropped
          /\ client'[c].recv_buffer.pkgs = Tail(b.pkgs)
      BY <2>1, <2>3, <2>4
    <3>6. Len(out'[c]) = Len(out[c]) + 1 /\ Len(client'[c].recv_buffer.pkgs) = Len(b.pkgs) - 1
      BY <2>1, <2>2, <3>5
    <3>7. client'[c].handled
            = Len(out'[c]) + Len(client'[c].recv_buffer.pkgs) + client'[c].dropped + 1
      BY <3>4, <3>5, <3>6
    <3> QED BY <2>7, <3>7 DEF Counted
  <2>10. \A d \in Client : d # c => Good(d)'  BY <1>1, <1>3, <2>2, <2>4, TurnOthers
  <2> QED BY <2>5, <2>6, <2>8, <2>9, <2>10 DEF RInv, Good
<1>4. CASE Goes("store") /\ UNCHANGED <<client, channel, out>>
  BY <1>1, <1>4, GoesInv DEF TurnAt
<1> QED BY <1>3, <1>4 DEF flush_recving_buff

\* The package in hand is posted, put into the buffer or dropped.
LEMMA DeliverInv ==
  ASSUME RInv, NEW c \in Client, Deliver(c)
  PROVE  RInv'
<1> DEFINE b == client[c].recv_buffer
           p == turn.pkg
           w == PutIn(RoomIn(b, p), p)
<1>1. RecvTypeOK /\ Good(c) /\ turn.at = "store" /\ turn.client = c /\ UNCHANGED <<clock, peer>>
      /\ p \in Pkg
  BY DEF RInv, Deliver, RecvTypeOK, TurnType
<1>2. client[c] \in ClientType /\ client[c].at = "open" /\ b \in BuffType
      /\ b.pkgs \in Seq(Pkg) /\ out[c] \in Seq(Nat) /\ Line(c) \in Seq(CellType)
      /\ client[c].handled \in Nat /\ client[c].dropped \in Nat
      /\ Len(out[c]) \in Nat /\ Len(b.pkgs) \in Nat
  BY <1>1, At, ClientFields DEF RInv, Busy
<1>3. turn' \in TurnType /\ turn'.at = "unpack" /\ turn'.client = c
  BY <1>1, TurnSound DEF Deliver, Goes, TurnAt
<1>4. InHand(c) = 1 /\ Hand(c) = {p.seq} /\ InHand(c)' = 0 /\ Hand(c)' = {}
  BY <1>1, <1>3, NoHand, NoHandNext
<1>5. /\ Ordered(out[c], b.pkgs, {p.seq}, Line(c)) /\ client[c].verify
      /\ Len(client[c].cache) <= CacheLen
      /\ client[c].handled = Len(out[c]) + Len(b.pkgs) + client[c].dropped + 1
  BY <1>1, <1>2, <1>4 DEF Good, Orderly, Counted
<1> HIDE DEF p
<1>6. CASE /\ b.pkgs = <<>> /\ append_recv_channel(c, p) /\ UNCHANGED client
  <2>1. /\ channel' \in [pkgs : Seq(Pkg), used : Int]
        /\ out' \in [Client -> Seq(Nat)] /\ out'[c] = Append(out[c], p.seq)
        /\ Len(out'[c]) = Len(out[c]) + 1
        /\ \A d \in Client : d # c => out'[d] = out[d]
    BY <1>1, <1>6, AppendTypes
  <2>2. RecvTypeOK'  BY <1>1, <1>3, <1>6, <2>1 DEF RecvTypeOK
  <2>3. Ordered(Append(out[c], p.seq), <<>>, {}, Line(c))
    BY <1>1, <1>2, <1>5, <1>6, Posted, PkgFields
  <2>4. Line(c)' = Line(c)  BY <1>1, <1>6 DEF Line
  <2>5. Orderly(c)'  BY <1>2, <1>4, <1>5, <1>6, <2>1, <2>3, <2>4 DEF Orderly
  <2>6. Counted(c)'
    <3>1. client[c].handled = (Len(out[c]) + 1) + Len(b.pkgs) + client[c].dropped + 0
      BY <1>2, <1>5, Sums
    <3>2. client[c].handled = Len(out'[c]) + Len(b.pkgs) + client[c].dropped + 0
      BY <2>1, <3>1
    <3> QED BY <1>4, <1>6, <3>2 DEF Counted
  <2>7. \A d \in Client : d # c => Good(d)'  BY <1>1, <1>3, <1>6, <2>1, TurnOthers
  <2> QED BY <1>2, <1>3, <1>6, <2>2, <2>5, <2>6, <2>7 DEF RInv, Good, Busy
<1>7. CASE Keep(c, p) /\ UNCHANGED <<channel, out>>
  <2>1. w \in BuffType /\ w.pkgs = Append(b.pkgs, p) /\ Len(Append(b.pkgs, p)) = Len(b.pkgs) + 1
    BY <1>1, <1>2, BuffSound
  <2> HIDE DEF w
  <2>2. PICK k \in ClientType :
          /\ client' = [client EXCEPT ![c] = k]
          /\ k.at = "open" /\ k.cache = client[c].cache /\ k.verify = client[c].verify
          /\ k.handled = client[c].handled
          /\ \/ k.recv_buffer = w /\ k.dropped = client[c].dropped
             \/ k.recv_buffer = b /\ k.dropped = client[c].dropped + 1
    <3>1. CASE client' = [client EXCEPT ![c] = WithBuffer(client[c], w)]
      <4>1. LET k == WithBuffer(client[c], w) IN
            /\ Same(k, client[c]) /\ k.cache = client[c].cache /\ k.recv_buffer = w
            /\ k.verify = client[c].verify /\ k.handled = client[c].handled
            /\ k.dropped = client[c].dropped
        BY <1>2, <2>1, BufferSound
      <4> QED BY <1>2, <3>1, <4>1 DEF Same
    <3>2. CASE client' = [client EXCEPT ![c] = Dropped(client[c])]
      <4>1. LET k == Dropped(client[c]) IN
            /\ Same(k, client[c]) /\ Kept(k, client[c]) /\ k.verify = client[c].verify
            /\ k.handled = client[c].handled /\ k.dropped = client[c].dropped + 1
        BY <1>2, DroppedSound
      <4> QED BY <1>2, <3>2, <4>1 DEF Same, Kept
    <3>3. \/ client' = [client EXCEPT ![c] = WithBuffer(client[c], w)]
          \/ client' = [client EXCEPT ![c] = Dropped(client[c])]
      BY <1>1, <1>7 DEF Keep, RecvTypeOK, w
    <3> QED BY <3>1, <3>2, <3>3
  <2>3. /\ client' \in [Client -> ClientType] /\ client'[c] = k
        /\ \A d \in Client : d # c => client'[d] = client[d]
    BY <1>1, <2>2 DEF RecvTypeOK
  <2>4. RecvTypeOK'  BY <1>1, <1>3, <1>7, <2>3 DEF RecvTypeOK
  <2>5. Line(c)' = Line(c)  BY <1>1, <2>2, <2>3 DEF Line
  <2>6. ASSUME k.recv_buffer = w, k.dropped = client[c].dropped PROVE Good(c)'
    <3>1. Ordered(out[c], w.pkgs, {}, Line(c))  BY <1>1, <1>2, <1>5, <2>1, Waits
    <3>2. Orderly(c)'  BY <1>4, <1>5, <1>7, <2>2, <2>3, <2>5, <2>6, <3>1 DEF Orderly
    <3>3. client[c].handled = Len(out[c]) + (Len(b.pkgs) + 1) + client[c].dropped + 0
      BY <1>2, <1>5, Sums
    <3>4. Len(k.recv_buffer.pkgs) = Len(b.pkgs) + 1  BY <2>1, <2>6
    <3>5. k.handled = Len(out[c]) + Len(k.recv_buffer.pkgs) + k.dropped + 0
      BY <2>2, <2>6, <3>3, <3>4
    <3>6. Counted(c)'  BY <1>4, <1>7, <2>3, <3>5 DEF Counted
    <3> QED BY <3>2, <3>6 DEF Good
  <2>7. ASSUME k.recv_buffer = b, k.dropped = client[c].dropped + 1 PROVE Good(c)'
    <3>1. Ordered(out[c], b.pkgs, {}, Line(c))  BY <1>5, LetGo
    <3>2. Orderly(c)'  BY <1>4, <1>5, <1>7, <2>2, <2>3, <2>5, <2>7, <3>1 DEF Orderly
    <3>3. k.handled = Len(out[c]) + Len(k.recv_buffer.pkgs) + k.dropped + 0
      <4>1. /\ Len(out[c]) \in Nat /\ Len(b.pkgs) \in Nat /\ client[c].dropped \in Nat
            /\ client[c].handled = Len(out[c]) + Len(b.pkgs) + client[c].dropped + 1
        BY <1>2, <1>5
      <4>2. client[c].handled = Len(out[c]) + Len(b.pkgs) + (client[c].dropped + 1) + 0
        BY <4>1, Sums
      <4> QED BY <2>2, <2>7, <4>2
    <3>4. Counted(c)'  BY <1>4, <1>7, <2>3, <3>3 DEF Counted
    <3> QED BY <3>2, <3>4 DEF Good
  <2>8. \A d \in Client : d # c => Good(d)'  BY <1>1, <1>3, <1>7, <2>3, TurnOthers
  <2>9. Busy'  BY <1>3, <2>2, <2>3 DEF Busy
  <2> QED BY <2>2, <2>4, <2>6, <2>7, <2>8, <2>9 DEF RInv, Good
<1> QED BY <1>6, <1>7 DEF Deliver, p

-----------------------------------------------------------------------------
(* The theorems.                                                           *)

LEMMA InitRInv == ASSUME NEW plan \in Plans, RecvInit(plan) PROVE RInv
<1>1. RecvTypeOK  BY InitTypes
<1>2. turn.at = "loop"  BY LoopType DEF RecvInit
<1>3. ASSUME NEW c \in Client PROVE Good(c)
  <2>1. /\ client[c].at = "none" /\ client[c].cache = <<>> /\ client[c].recv_buffer.pkgs = <<>>
        /\ out[c] = <<>>
    BY NewClientType DEF RecvInit, ClientAt
  <2>2. Rising(Line(c))
    <3>1. peer[c].stream = <<>> /\ peer[c].todo \in Seq(CellType)  BY <1>1, At DEF RecvInit
    <3>2. Line(c) = peer[c].todo  BY <2>1, <3>1 DEF Line
    <3>3. Rising(peer[c].todo)
      <4>1. CASE c \in DOMAIN plan
        <5>1. peer[c].todo = plan[c]  BY <4>1 DEF RecvInit
        <5> QED BY <4>1, <5>1, PlansOK
      <4>2. CASE c \notin DOMAIN plan
        <5>1. peer[c].todo = <<>>  BY <4>2 DEF RecvInit
        <5>2. Len(<<>>) = 0  OBVIOUS
        <5> QED BY <5>1, <5>2 DEF Rising
      <4> QED BY <4>1, <4>2
    <3> QED BY <3>2, <3>3
  <2>3. InHand(c) = 0 /\ Hand(c) = {}  BY <1>2, NoHand
  <2>4. Len(<<>>) = 0 /\ 0 <= CacheLen  BY RecvConstantsOK
  <2>5. Ordered(<<>>, <<>>, {}, Line(c))  BY <2>2, Starts
  <2>6. Orderly(c)  BY <2>1, <2>3, <2>4, <2>5 DEF Orderly
  <2>7. Counted(c)  BY <2>1 DEF Counted
  <2> QED BY <2>6, <2>7 DEF Good
<1> QED BY <1>1, <1>2, <1>3 DEF RInv, Busy

LEMMA StepRInv == ASSUME RInv, [RecvNext]_recvVars PROVE RInv'
<1>1. ASSUME NEW c \in Client, PeerSends(c) PROVE RInv'  BY <1>1, PeerSendsInv
<1>2. ASSUME NEW c \in Client, PeerCloses(c) PROVE RInv'  BY <1>2, PeerClosesInv
<1>3. ASSUME NEW c \in Client, Accept(c) PROVE RInv'  BY <1>3, AcceptInv
<1>4. ASSUME NEW c \in Client, Readable(c) PROVE RInv'  BY <1>4, ReadableInv
<1>5. ASSUME NEW c \in Client, Recv(c) PROVE RInv'  BY <1>5, RecvInv
<1>6. ASSUME NEW c \in Client, UnpackEnds(c) PROVE RInv'
  BY <1>6, GoesInv DEF UnpackEnds, TurnAt
<1>7. ASSUME NEW c \in Client, Unpack(c) PROVE RInv'  BY <1>7, UnpackInv
<1>8. ASSUME NEW c \in Client, flush_recving_buff(c) PROVE RInv'  BY <1>8, FlushRInv
<1>9. ASSUME NEW c \in Client, Deliver(c) PROVE RInv'  BY <1>9, DeliverInv
<1>10. CASE ServerReads \/ Second  BY <1>10, OutsideInv
<1>11. CASE check_client_info  BY <1>11, CheckInv
<1>12. CASE RecvRestart  BY <1>12, RestartRInv
<1>13. CASE UNCHANGED recvVars
  <2>1. RecvTypeOK' /\ Busy'  BY <1>13 DEF RInv, RecvTypeOK, Busy, recvVars
  <2>2. \A d \in Client : Good(d)'  BY <1>13, Others, SameTurn DEF RInv, recvVars
  <2> QED BY <2>1, <2>2 DEF RInv
<1> QED
  BY <1>1, <1>2, <1>3, <1>4, <1>5, <1>6, <1>7, <1>8, <1>9, <1>10, <1>11, <1>12, <1>13
  DEF RecvNext, Receiving, Thread

LEMMA Always == CarrierSpec => []RInv
<1>1. CarrierInit => RInv  BY InitRInv DEF CarrierInit
<1>2. RInv /\ [CarrierNext]_<<vars, recvVars>> => RInv'
  <2> SUFFICES ASSUME RInv, [CarrierNext]_<<vars, recvVars>> PROVE RInv'  OBVIOUS
  <2>1. [RecvNext]_recvVars  BY DEF CarrierNext, RecvNext
  <2> QED BY <2>1, StepRInv
<1> QED BY <1>1, <1>2, PTL DEF CarrierSpec

(* Both halves of the carrier together keep the order of every connection: *)
(* recv_client_pkg (bridge_carrier.c:3067) never lets a package overtake    *)
(* one that waits, nor posts one twice, nor serves a client that is not     *)
(* verified, whatever the peers, the server and the clock do.              *)
THEOREM InOrderOnce == CarrierSpec => []InTurn
<1>1. RInv => InTurn
  <2> SUFFICES ASSUME RInv, NEW c \in Client
               PROVE  /\ \A i, j \in 1 .. Len(out[c]) : i < j => out[c][i] < out[c][j]
                      /\ out[c] # <<>> => client[c].verify
    BY DEF InTurn
  <2> QED BY DEF RInv, Good, Orderly, Ordered, Increasing
<1> QED BY <1>1, Always, PTL

(* Every package that a living connection counts as handled is in the      *)
(* channel, in recv_buffer, in hand or counted as dropped                  *)
(* (bridge_carrier.c:1682-1731).                                           *)
THEOREM NoneLost == CarrierSpec => []Accounted
<1>1. RInv => Accounted  BY DEF RInv, Good, Counted, Accounted
<1> QED BY <1>1, Always, PTL

-----------------------------------------------------------------------------
(* The sending half. *)

USE CarrierConstantsOK

-----------------------------------------------------------------------------
(* One buffer. *)

(* A buffer holds a package at least, is never full, and blocked only with *)
(* data in it.                                                             *)
Sound(b) ==
  /\ b \in Buff
  /\ b.len = 0 => b = NoBuff
  /\ b.len > 0 => Packed < b.len /\ b.data < b.len
  /\ b.block => b.data > 0

(* It takes p more bytes if it is blocked, and whatever the channel may    *)
(* hold if it is not.                                                      *)
Takes(b, p) ==
  b.len >= MaxExpand => IF b.block THEN EmptySpace(b) >= p
                                   ELSE EmptySpace(b) >= ChanRoom

(* It does so after one more package.                                      *)
Ready(b) ==
  b.len >= MaxExpand /\ ~b.block => EmptySpace(b) >= ChanRoom + Packed

(* The buffer a connection begins with.                                    *)
LEMMA NoBuffSound == Sound(NoBuff) /\ \A p \in Nat : Takes(NoBuff, p)
BY DEF Sound, Takes, NoBuff, Buff, MaxExpand

(* Expansion leaves room for a package, and for the channel if it is the   *)
(* last.                                                                   *)
LEMMA NewLenRoom ==
  ASSUME NEW l \in Nat, l = 0 \/ Packed < l, l < MaxExpand
  PROVE  /\ NewLen(l) \in Nat /\ Packed < NewLen(l)
         /\ NewLen(l) >= l + Packed
         /\ NewLen(l) >= MaxExpand => NewLen(l) >= MaxExpand + BlockSize
BY DEF NewLen, Doubled, Reserved, MaxExpand, BlockSize

LEMMA ExpandNoBuff ==
  Expand(NoBuff) = [len |-> 2 * PackLen, head |-> 0, data |-> 0, block |-> FALSE]
<1>1. NewLen(0) = 2 * PackLen
  BY DEF NewLen
<1>2. NoBuff.len = 0
  BY DEF NoBuff
<1>3. Expand(NoBuff) = [NoBuff EXCEPT !.len = 2 * PackLen, !.head = 0]
  BY <1>1, <1>2 DEF Expand
<1> QED BY <1>3 DEF NoBuff

(* A package is put into the buffer, with an expansion if that is needed.  *)
LEMMA StoreSound ==
  ASSUME NEW b, Sound(b), b.len > 0, NEW n \in Package
  PROVE  LET c == RoomFor(b, n) IN
         /\ Sound(c) /\ c.data = b.data /\ c.block = b.block /\ c.len > 0
         /\ EmptySpace(c) >= n => Sound(Put(c, n)) /\ Put(c, n).block = b.block
                                  /\ Put(c, n).data > 0
         /\ \A p \in Nat : Takes(b, p + n) /\ Ready(b) /\ p + n <= ChanRoom =>
               EmptySpace(c) >= n /\ Takes(Put(c, n), p)
<1> DEFINE c == RoomFor(b, n)
<1>1. b \in Buff /\ b = [len |-> b.len, head |-> b.head, data |-> b.data, block |-> b.block]
  BY DEF Sound, Buff
<1>2. n \in Nat /\ n <= Packed /\ n >= 1
  BY DEF Package
<1>3. CASE b.data > 0 /\ EmptySpace(b) < n /\ CanExpand(b)
  <2>1. c = [len |-> NewLen(b.len), head |-> 0, data |-> b.data, block |-> b.block]
    BY <1>1, <1>3 DEF RoomFor, Expand, Buff
  <2>2. b.len < MaxExpand /\ Packed < b.len /\ b.data < b.len /\ b.len \in Nat /\ b.data \in Nat
        /\ b.block \in BOOLEAN
    BY <1>1, <1>3 DEF CanExpand, Sound, Buff
  <2>3. /\ NewLen(b.len) \in Nat /\ Packed < NewLen(b.len)
        /\ NewLen(b.len) >= b.len + Packed
        /\ NewLen(b.len) >= MaxExpand => NewLen(b.len) >= MaxExpand + BlockSize
    BY <2>2, NewLenRoom
  <2>4. Put(c, n) = [len |-> NewLen(b.len), head |-> 0, data |-> b.data + n, block |-> b.block]
    BY <2>1 DEF Put
  <2> HIDE DEF c
  <2>5. EmptySpace(c) >= n
    BY <1>2, <2>1, <2>2, <2>3 DEF EmptySpace
  <2>6. Sound(c) /\ Sound(Put(c, n)) /\ c.len > 0
    BY <1>2, <1>3, <2>1, <2>2, <2>3, <2>4 DEF Sound, Buff, NoBuff
  <2>7. \A p \in Nat : p + n <= ChanRoom => Takes(Put(c, n), p)
    BY <1>2, <2>2, <2>3, <2>4 DEF Takes, EmptySpace, MaxExpand, BlockSize
  <2> QED
    BY <1>2, <2>1, <2>2, <2>4, <2>5, <2>6, <2>7 DEF c
<1>4. CASE ~(b.data > 0 /\ EmptySpace(b) < n /\ CanExpand(b))
  <2>1. c = b
    BY <1>4 DEF RoomFor
  <2>2. Put(b, n) = [len |-> b.len, head |-> b.head, data |-> b.data + n, block |-> b.block]
    BY <1>1 DEF Put
  <2>3. Packed < b.len /\ b.data < b.len /\ b.len \in Nat /\ b.data \in Nat /\ b.head \in Nat
        /\ b.block \in BOOLEAN
    BY <1>1 DEF Sound, Buff
  <2>4. EmptySpace(b) >= n => Sound(Put(b, n)) /\ Put(b, n).data > 0
    BY <1>2, <2>2, <2>3 DEF Sound, Buff, NoBuff, EmptySpace
  <2>5. ASSUME NEW p \in Nat, Takes(b, p + n), Ready(b), p + n <= ChanRoom
        PROVE  EmptySpace(b) >= n /\ Takes(Put(b, n), p)
    <3>1. CASE b.len >= MaxExpand
      BY <1>2, <2>2, <2>3, <2>5, <3>1 DEF Takes, Ready, EmptySpace
    <3>2. CASE b.len < MaxExpand
      BY <1>2, <1>4, <2>2, <2>3, <3>2 DEF Takes, EmptySpace, CanExpand, MaxExpand
    <3> QED BY <2>3, <3>1, <3>2 DEF MaxExpand
  <2> QED
    BY <2>1, <2>2, <2>3, <2>4, <2>5
<1> QED BY <1>3, <1>4

(* A flush moves k bytes; it blocks and unblocks in time.                  *)
LEMMA SentSound ==
  ASSUME NEW b, Sound(b), b.data > 0, NEW k \in 0 .. b.data
  PROVE  LET c == Sent(b, k) IN
         /\ Sound(c) /\ c.len = b.len /\ c.len > 0 /\ c.data = b.data - k
         /\ \A p \in Nat : p <= ChanRoom /\ Takes(b, p) => Takes(c, p) /\ Ready(c)
<1> DEFINE c == Sent(b, k)
           h == Wrap(b.head + k, b.len)
<1>1. /\ b.len \in Nat /\ b.head \in Nat /\ b.data \in Nat /\ b.block \in BOOLEAN
      /\ Packed < b.len /\ b.data < b.len
  BY DEF Sound, Buff, NoBuff
<1>2. h \in Nat
  BY <1>1 DEF Wrap
<1>3. c = [len |-> b.len, head |-> h, data |-> b.data - k, block |-> BlockAfter(b, k)]
  BY DEF Sent
<1>4. BlockAfter(b, k) \in BOOLEAN /\ (BlockAfter(b, k) => k # b.data)
  BY <1>1 DEF BlockAfter, SocketFull, High, Low
<1> HIDE DEF c, h
<1>5. Sound(c) /\ c.len > 0
  BY <1>1, <1>2, <1>3, <1>4 DEF Sound, Buff, NoBuff
<1>6. ASSUME NEW p \in Nat, p <= ChanRoom, Takes(b, p)
      PROVE  Takes(c, p) /\ Ready(c)
  <2>1. CASE k = b.data
    BY <1>1, <1>3, <2>1 DEF Takes, Ready, EmptySpace, MaxExpand, BlockSize, BlockAfter
  <2>2. CASE k # b.data /\ b.block
    <3>1. c.block \/ (b.len >= MaxExpand => b.len - b.data + k >= BlockSize)
      BY <1>1, <1>3, <2>2 DEF BlockAfter, High, Empty
    <3>2. b.len >= MaxExpand => EmptySpace(b) >= p
      BY <1>6, <2>2 DEF Takes
    <3> QED
      BY <1>1, <1>3, <1>6, <3>1, <3>2 DEF Takes, Ready, EmptySpace, MaxExpand, BlockSize
  <2>3. CASE k # b.data /\ ~b.block
    <3>1. c.block \/ (b.len >= MaxExpand => b.len - b.data + k > BlockSize)
      <4>1. CASE c.block
        BY <4>1
      <4>2. CASE ~c.block
        <5>1. ~Low(b, k) BY <1>3, <2>3, <4>2 DEF BlockAfter
        <5> QED BY <1>1, <5>1 DEF Low, Empty, MaxExpand, BlockSize
      <4> QED BY <4>1, <4>2
    <3>2. b.len >= MaxExpand => EmptySpace(b) >= ChanRoom
      BY <1>6, <2>3 DEF Takes
    <3> QED
      BY <1>1, <1>3, <1>6, <3>1, <3>2 DEF Takes, Ready, EmptySpace, MaxExpand, BlockSize
  <2> QED BY <2>1, <2>2, <2>3
<1> QED BY <1>1, <1>3, <1>5, <1>6 DEF c

LEMMA ShrunkBuffer ==
  ASSUME NEW b \in Buff, NEW l \in Nat, NEW h \in Nat
  PROVE  [b EXCEPT !.len = l, !.head = h]
           = [len |-> l, head |-> h, data |-> b.data, block |-> b.block]
<1>1. b \in [len : Nat, head : Nat, data : Nat, block : BOOLEAN]
  BY DEF Buff
<1>2. [b EXCEPT !.len = l] = [len |-> l, head |-> b.head, data |-> b.data, block |-> b.block]
  BY <1>1
<1>3. PICK c : c = [b EXCEPT !.len = l]
  OBVIOUS
<1>4. [c EXCEPT !.head = h] = [len |-> l, head |-> h, data |-> b.data, block |-> b.block]
  <2>1. /\ c \in [len : Nat, head : Nat, data : Nat, block : BOOLEAN]
        /\ c.len = l /\ c.data = b.data /\ c.block = b.block
    BY <1>1, <1>2, <1>3
  <2>2. [c EXCEPT !.head = h]
          = [len |-> c.len, head |-> h, data |-> c.data, block |-> c.block]
    BY <2>1
  <2> QED BY <2>1, <2>2
<1> QED BY <1>3, <1>4

(* A shrunk buffer takes what it must.                                     *)
LEMMA ShrinkSound ==
  ASSUME NEW b, Sound(b), b.len >= Mega, b.data < b.len \div 3, NEW h \in Nat
  PROVE  LET c == [len |-> ShrunkLen(b.len), head |-> h, data |-> b.data,
                   block |-> b.block] IN
         /\ Sound(c)
         /\ \A p \in Nat : p <= ChanRoom => Takes(c, p)
<1>1. b.len \in Nat /\ b.data \in Nat /\ b.block \in BOOLEAN /\ (b.block => b.data > 0)
  BY DEF Sound, Buff
<1>2. /\ ShrunkLen(b.len) \in Nat /\ Packed < ShrunkLen(b.len)
      /\ b.data < ShrunkLen(b.len)
      /\ 2 * (ShrunkLen(b.len) - b.data) >= ShrunkLen(b.len) + 1
  BY <1>1 DEF ShrunkLen
<1> QED
  BY <1>1, <1>2 DEF Sound, Takes, Buff, NoBuff, EmptySpace, MaxExpand

-----------------------------------------------------------------------------
(* The invariant. *)

(* The server may still make the channel hold p bytes for t: what is there *)
(* and what it is about to write.                                          *)
Owes(t, p) ==
  p = chan[t] \/ \E n \in Package : <<t, n>> \in writing /\ p = chan[t] + n

TargetInv(t) ==
  /\ Sound(buff[t])
  /\ connected[t] # "done" => buff[t] = NoBuff
  /\ t \in bitmap <=> buff[t].block
  /\ buff[t].data > 0 => t \in sending \cup left
  /\ \A p \in Nat : Owes(t, p) => p <= ChanRoom /\ (t \in Unseen \/ Takes(buff[t], p))

IInv == TypeOK /\ full \subseteq Unseen /\ \A t \in Target : TargetInv(t)

(* The parts a step at target t leaves alone. *)
Elsewhere(t) ==
  \A u \in Target \ {t} :
    /\ connected'[u] = connected[u]
    /\ u \in sending <=> u \in sending'
    /\ u \in left <=> u \in left'
    /\ \A p \in Nat : Owes(u, p)' => Owes(u, p)

(* A step that changes the buffer of t to b preserves the invariant if it  *)
(* does at t.                                                              *)
LEMMA StepAt ==
  ASSUME IInv, NEW t \in Target, NEW b, Sound(b),
         buff' = [buff EXCEPT ![t] = b],
         bitmap' \subseteq Target,
         \A u \in Target : u \in bitmap' <=> IF u = t THEN b.block ELSE u \in bitmap,
         connected' \in [Target -> {"none", "proc", "done"}],
         connected'[t] # "done" => b = NoBuff,
         sending' \subseteq Target, left' \subseteq Target,
         b.data > 0 => t \in sending' \cup left',
         chan' \in [Target -> 0 .. ChanRoom],
         writing' \in {{}} \cup {{w} : w \in Target \X Package},
         full' \subseteq Unseen,
         Elsewhere(t),
         \A p \in Nat : Owes(t, p)' => p <= ChanRoom /\ (t \in Unseen \/ Takes(b, p))
  PROVE  IInv'
<1>1. buff \in [Target -> Buff] /\ b \in Buff
  BY DEF IInv, TypeOK, Sound
<1>2. TypeOK'
  BY <1>1 DEF TypeOK
<1>3. ASSUME NEW u \in Target PROVE TargetInv(u)'
  <2>1. CASE u = t
    <3>1. buff'[u] = b BY <1>1, <2>1
    <3> QED BY <2>1, <3>1 DEF TargetInv
  <2>2. CASE u # t
    <3>1. buff'[u] = buff[u] BY <1>1, <2>2
    <3>2. TargetInv(u) BY DEF IInv
    <3> QED BY <2>2, <3>1, <3>2 DEF TargetInv, Elsewhere
  <2> QED BY <2>1, <2>2
<1> QED BY <1>2, <1>3 DEF IInv

(* What SetBuff does. *)
LEMMA SetBuffDoes ==
  ASSUME TypeOK, NEW t \in Target, NEW b \in Buff, SetBuff(t, b)
  PROVE  /\ buff' = [buff EXCEPT ![t] = b]
         /\ bitmap' \subseteq Target
         /\ \A u \in Target : u \in bitmap' <=> IF u = t THEN b.block ELSE u \in bitmap
BY DEF SetBuff, TypeOK, Buff

(* The channel as it was. *)
LEMMA SameOwes ==
  ASSUME IInv, UNCHANGED <<chan, writing>>
  PROVE  /\ \A u \in Target : \A p \in Nat : Owes(u, p)' => Owes(u, p)
         /\ chan' \in [Target -> 0 .. ChanRoom]
         /\ writing' \in {{}} \cup {{w} : w \in Target \X Package}
BY DEF Owes, IInv, TypeOK

(* The channel with one package less. *)
LEMMA FetchOwes ==
  ASSUME IInv, NEW t \in Target, NEW n \in Package, Fetch(t, n)
  PROVE  /\ \A u \in Target \ {t} : \A p \in Nat : Owes(u, p)' => Owes(u, p)
         /\ \A p \in Nat : Owes(t, p)' => Owes(t, p + n)
         /\ chan' \in [Target -> 0 .. ChanRoom]
         /\ writing' \in {{}} \cup {{w} : w \in Target \X Package}
<1>1. chan \in [Target -> 0 .. ChanRoom] /\ n \in Nat
  BY DEF IInv, TypeOK, Package
<1>2. writing' = writing /\ chan' = [chan EXCEPT ![t] = @ - n] /\ n <= chan[t]
  BY DEF Fetch
<1>3. chan'[t] = chan[t] - n /\ \A u \in Target \ {t} : chan'[u] = chan[u]
  BY <1>1, <1>2
<1>4. chan' \in [Target -> 0 .. ChanRoom]
  BY <1>1, <1>2
<1>5. \A u \in Target \ {t} : \A p \in Nat : Owes(u, p)' => Owes(u, p)
  BY <1>2, <1>3 DEF Owes
<1>6. ASSUME NEW p \in Nat, Owes(t, p)' PROVE Owes(t, p + n)
  <2>0. chan[t] \in Nat BY <1>1
  <2>1. CASE p = chan'[t]
    BY <1>1, <1>3, <2>0, <2>1 DEF Owes
  <2>2. CASE \E m \in Package : <<t, m>> \in writing' /\ p = chan'[t] + m
    <3>1. PICK m \in Package : <<t, m>> \in writing /\ p = chan'[t] + m
      BY <1>2, <2>2
    <3>2. p + n = chan[t] + m
      BY <1>1, <1>3, <2>0, <3>1 DEF Package
    <3> QED BY <3>1, <3>2 DEF Owes
  <2> QED BY <1>6, <2>1, <2>2 DEF Owes
<1> QED BY <1>2, <1>4, <1>5, <1>6 DEF IInv, TypeOK

-----------------------------------------------------------------------------
(* The actions. *)

LEMMA InitInv == Init => IInv
<1> SUFFICES ASSUME Init PROVE IInv OBVIOUS
<1>1. TypeOK BY DEF Init, TypeOK, NoBuff, Buff
<1>2. ASSUME NEW t \in Target PROVE TargetInv(t)
  <2>1. buff[t] = NoBuff /\ chan[t] = 0 /\ writing = {} /\ bitmap = {}
    BY DEF Init
  <2> QED BY <2>1, NoBuffSound DEF TargetInv, Owes, NoBuff
<1> QED BY <1>1, <1>2 DEF IInv, Init

(* A connection is closed: nothing is left of its buffer. *)
LEMMA CloseInv ==
  ASSUME IInv, NEW t \in Target, Close(t), UNCHANGED <<chan, writing, full>>,
         sending' \in {sending, sending \ {t}}
  PROVE  IInv'
<1>1. SetBuff(t, NoBuff) /\ NoBuff \in Buff /\ Sound(NoBuff)
  BY NoBuffSound DEF Close, Sound
<1>2. /\ buff' = [buff EXCEPT ![t] = NoBuff] /\ bitmap' \subseteq Target
      /\ \A u \in Target : u \in bitmap' <=> IF u = t THEN NoBuff.block ELSE u \in bitmap
  BY <1>1, SetBuffDoes DEF IInv
<1>3. Elsewhere(t)
  BY SameOwes DEF Elsewhere, Close, IInv, TypeOK
<1>4. \A p \in Nat : Owes(t, p)' => p <= ChanRoom /\ (t \in Unseen \/ Takes(NoBuff, p))
  BY SameOwes, NoBuffSound DEF IInv, TargetInv
<1>5. /\ connected' \in [Target -> {"none", "proc", "done"}]
      /\ sending' \subseteq Target /\ left' \subseteq Target /\ full' \subseteq Unseen
      /\ NoBuff.data > 0 => t \in sending' \cup left'
      /\ connected'[t] # "done" => NoBuff = NoBuff
  BY DEF Close, IInv, TypeOK, NoBuff
<1>6. /\ chan' \in [Target -> 0 .. ChanRoom]
      /\ writing' \in {{}} \cup {{w} : w \in Target \X Package}
  BY SameOwes
<1> QED BY <1>1, <1>2, <1>3, <1>4, <1>5, <1>6, StepAt

(* Steps that leave every buffer and bit as they are. *)
LEMMA KeepInv ==
  ASSUME IInv, NEW t \in Target, UNCHANGED <<connected, buff, bitmap, full>>,
         sending' \subseteq Target, left' \subseteq Target,
         buff[t].data > 0 => t \in sending' \cup left',
         chan' \in [Target -> 0 .. ChanRoom],
         writing' \in {{}} \cup {{w} : w \in Target \X Package},
         Elsewhere(t),
         \A p \in Nat : Owes(t, p)' =>
            p <= ChanRoom /\ (t \in Unseen \/ Takes(buff[t], p))
  PROVE  IInv'
<1> DEFINE b == buff[t]
<1>1. Sound(b) /\ (connected[t] # "done" => b = NoBuff) /\ (t \in bitmap <=> b.block)
  BY DEF IInv, TargetInv
<1>2. /\ buff \in [Target -> Buff] /\ bitmap \subseteq Target /\ full \subseteq Unseen
      /\ connected \in [Target -> {"none", "proc", "done"}]
  BY DEF IInv, TypeOK
<1>3. buff' = [buff EXCEPT ![t] = b]
  BY <1>2
<1>4. \A u \in Target : u \in bitmap' <=> IF u = t THEN b.block ELSE u \in bitmap
  BY <1>1
<1>5. \A p \in Nat : Owes(t, p)' => p <= ChanRoom /\ (t \in Unseen \/ Takes(b, p))
  OBVIOUS
<1>6. b.data > 0 => t \in sending' \cup left'
  OBVIOUS
<1> HIDE DEF b
<1> QED BY <1>1, <1>2, <1>3, <1>4, <1>5, <1>6, StepAt

LEMMA CloseFetchInv ==
  ASSUME IInv, NEW t \in Target, NEW n \in Package, Fetch(t, n), Close(t),
         UNCHANGED <<sending, full>>
  PROVE  IInv'
<1>1. SetBuff(t, NoBuff) /\ NoBuff \in Buff /\ Sound(NoBuff)
  BY NoBuffSound DEF Close, Sound
<1>2. /\ buff' = [buff EXCEPT ![t] = NoBuff] /\ bitmap' \subseteq Target
      /\ \A u \in Target : u \in bitmap' <=> IF u = t THEN NoBuff.block ELSE u \in bitmap
  BY <1>1, SetBuffDoes DEF IInv
<1>3. Elsewhere(t)
  BY FetchOwes DEF Elsewhere, Close, IInv, TypeOK
<1>4. ASSUME NEW p \in Nat, Owes(t, p)'
      PROVE  p <= ChanRoom /\ (t \in Unseen \/ Takes(NoBuff, p))
  <2>1. Owes(t, p + n) /\ n \in Nat /\ p + n \in Nat
    BY <1>4, FetchOwes DEF Package
  <2>2. p + n <= ChanRoom
    BY <2>1 DEF IInv, TargetInv
  <2> QED BY <2>1, <2>2, NoBuffSound
<1>5. /\ connected' \in [Target -> {"none", "proc", "done"}]
      /\ sending' \subseteq Target /\ left' \subseteq Target /\ full' \subseteq Unseen
      /\ NoBuff.data > 0 => t \in sending' \cup left'
      /\ connected'[t] # "done" => NoBuff = NoBuff
  BY DEF Close, IInv, TypeOK, NoBuff
<1>6. /\ chan' \in [Target -> 0 .. ChanRoom]
      /\ writing' \in {{}} \cup {{w} : w \in Target \X Package}
  BY FetchOwes
<1> QED BY <1>1, <1>2, <1>3, <1>4, <1>5, <1>6, StepAt

LEMMA ServerInv ==
  ASSUME IInv, NEW t \in Target, NEW n \in Package,
         SendCheck(t, n) \/ SendWrite(t, n)
  PROVE  IInv'
<1>1. /\ chan \in [Target -> 0 .. ChanRoom] /\ n \in Nat
      /\ sending \subseteq Target /\ left \subseteq Target
      /\ TargetInv(t) /\ chan[t] \in Nat /\ chan[t] + n \in Nat
  BY DEF IInv, TypeOK, Package
<1>2. buff[t].data > 0 => t \in sending \cup left
  BY <1>1 DEF TargetInv
<1>3. CASE SendCheck(t, n)
  <2>1. /\ chan' = chan /\ writing' = {<<t, n>>} /\ UNCHANGED <<connected, buff, bitmap, full>>
        /\ sending' = sending /\ left' = left /\ chan[t] + n <= ChanRoom
        /\ t \notin bitmap \/ t \in Unseen
    BY <1>3 DEF SendCheck
  <2>2. \A u \in Target, p \in Nat :
           Owes(u, p)' => p = chan[u] \/ (u = t /\ p = chan[t] + n)
    BY <2>1 DEF Owes
  <2>3. Elsewhere(t)
    BY <2>1, <2>2 DEF Elsewhere, Owes
  <2>4. Owes(t, chan[t])
    BY DEF Owes
  <2>5. ASSUME NEW p \in Nat, Owes(t, p)'
        PROVE  p <= ChanRoom /\ (t \in Unseen \/ Takes(buff[t], p))
    <3>1. chan[t] <= ChanRoom /\ (t \in Unseen \/ Takes(buff[t], chan[t]))
      BY <1>1, <2>4 DEF TargetInv
    <3>2. t \in Unseen \/ ~buff[t].block
      BY <1>1, <2>1 DEF TargetInv
    <3>3. p \in {chan[t], chan[t] + n}
      BY <2>2, <2>5
    <3> QED BY <2>1, <3>1, <3>2, <3>3 DEF Takes
  <2>6. writing' \in {{}} \cup {{w} : w \in Target \X Package}
    BY <2>1
  <2> QED BY <1>1, <1>2, <2>1, <2>3, <2>5, <2>6, KeepInv
<1>4. CASE SendWrite(t, n)
  <2>1. /\ writing = {<<t, n>>} /\ writing' = {} /\ chan' = [chan EXCEPT ![t] = @ + n]
        /\ UNCHANGED <<connected, buff, bitmap, full>>
        /\ sending' = sending /\ left' = left
    BY <1>4 DEF SendWrite
  <2>2. Owes(t, chan[t] + n)
    BY <2>1 DEF Owes
  <2>3. chan[t] + n <= ChanRoom /\ (t \in Unseen \/ Takes(buff[t], chan[t] + n))
    BY <1>1, <2>2 DEF TargetInv
  <2>4. chan' \in [Target -> 0 .. ChanRoom] /\ chan'[t] = chan[t] + n
    BY <1>1, <2>1, <2>3
  <2>5. \A u \in Target \ {t} : chan'[u] = chan[u]
    BY <1>1, <2>1
  <2>6. Elsewhere(t)
    BY <2>1, <2>5 DEF Elsewhere, Owes
  <2>7. \A p \in Nat : Owes(t, p)' => p <= ChanRoom /\ (t \in Unseen \/ Takes(buff[t], p))
    BY <2>1, <2>3, <2>4 DEF Owes
  <2>8. writing' \in {{}} \cup {{w} : w \in Target \X Package}
    BY <2>1
  <2> QED BY <1>1, <1>2, <2>1, <2>4, <2>6, <2>7, <2>8, KeepInv
<1> QED BY <1>3, <1>4

LEMMA DropInv ==
  ASSUME IInv, NEW t \in Target, NEW n \in Package, DispatchDrop(t, n)
  PROVE  IInv'
<1>1. /\ Fetch(t, n) /\ connected[t] # "done"
      /\ UNCHANGED <<connected, buff, bitmap, full>> /\ sending' = sending /\ left' = left
  BY DEF DispatchDrop
<1>2. /\ sending \subseteq Target /\ left \subseteq Target
      /\ TargetInv(t) /\ buff[t] = NoBuff
  BY <1>1 DEF IInv, TypeOK, TargetInv
<1>3. Elsewhere(t)
  BY <1>1, FetchOwes DEF Elsewhere
<1>4. ASSUME NEW p \in Nat, Owes(t, p)'
      PROVE  p <= ChanRoom /\ (t \in Unseen \/ Takes(buff[t], p))
  <2>1. Owes(t, p + n) /\ n \in Nat /\ p + n \in Nat
    BY <1>1, <1>4, FetchOwes DEF Package
  <2>2. p + n <= ChanRoom
    BY <1>2, <2>1 DEF TargetInv
  <2> QED BY <1>2, <2>1, <2>2, NoBuffSound
<1>5. /\ chan' \in [Target -> 0 .. ChanRoom]
      /\ writing' \in {{}} \cup {{w} : w \in Target \X Package}
  BY <1>1, FetchOwes
<1>6. buff[t].data > 0 => t \in sending' \cup left'
  BY <1>1, <1>2 DEF TargetInv
<1> QED BY <1>1, <1>2, <1>3, <1>4, <1>5, <1>6, KeepInv

(* A package is put in a buffer that is ready for one. *)
LEMMA StoreInv ==
  ASSUME IInv, NEW t \in Target, NEW n \in Package, NEW b,
         Fetch(t, n), connected[t] = "done", UNCHANGED connected, Store(t, b, n),
         Sound(b), b.len > 0, t \in Unseen \/ Ready(b),
         \A p \in Nat : Owes(t, p) => t \in Unseen \/ Takes(b, p)
  PROVE  IInv'
<1> DEFINE c == RoomFor(b, n)
           fits == EmptySpace(c) >= n
           d == IF fits THEN Put(c, n) ELSE c
<1>1. /\ Sound(c) /\ c.data = b.data /\ c.block = b.block
      /\ fits => Sound(Put(c, n)) /\ Put(c, n).block = b.block /\ Put(c, n).data > 0
      /\ \A p \in Nat : Takes(b, p + n) /\ Ready(b) /\ p + n <= ChanRoom =>
            fits /\ Takes(Put(c, n), p)
  BY StoreSound
<1>2. /\ SetBuff(t, d) /\ EnlistIf(t, fits \/ b.data > 0)
      /\ full' = IF fits THEN full ELSE full \cup {t}
  BY DEF Store
<1> HIDE DEF c, fits
<1>3. Sound(d) /\ d \in Buff
  BY <1>1 DEF Sound
<1>4. ASSUME NEW p \in Nat, Owes(t, p)'
      PROVE  /\ p <= ChanRoom /\ (t \in Unseen \/ Takes(d, p))
             /\ t \in Unseen \/ fits
  <2>1. Owes(t, p + n) /\ n \in Nat /\ p + n \in Nat
    BY <1>4, FetchOwes DEF Package
  <2>2. p + n <= ChanRoom /\ (t \in Unseen \/ Takes(b, p + n))
    BY <2>1 DEF IInv, TargetInv
  <2>3. p <= ChanRoom
    BY <2>1, <2>2
  <2>4. t \in Unseen \/ (fits /\ Takes(Put(c, n), p))
    BY <1>1, <2>2
  <2> QED BY <2>3, <2>4
<1>5. t \in Unseen \/ fits
  <2>1. PICK p \in Nat : p = chan'[t]
    BY FetchOwes
  <2>2. Owes(t, p)'
    BY <2>1 DEF Owes
  <2> QED BY <1>4, <2>2
<1>6. /\ sending' \subseteq Target /\ left' \subseteq Target /\ full' \subseteq Unseen
      /\ connected' \in [Target -> {"none", "proc", "done"}]
      /\ connected'[t] # "done" => d = NoBuff
  BY <1>2, <1>5 DEF EnlistIf, Enlist, IInv, TypeOK
<1>7. d.data > 0 => t \in sending' \cup left'
  BY <1>1, <1>2 DEF EnlistIf, Enlist
<1>8. Elsewhere(t)
  BY <1>2, FetchOwes DEF Elsewhere, EnlistIf, Enlist
<1>9. /\ buff' = [buff EXCEPT ![t] = d] /\ bitmap' \subseteq Target
      /\ \A u \in Target : u \in bitmap' <=> IF u = t THEN d.block ELSE u \in bitmap
  BY <1>2, <1>3, SetBuffDoes DEF IInv
<1>10. /\ chan' \in [Target -> 0 .. ChanRoom]
       /\ writing' \in {{}} \cup {{w} : w \in Target \X Package}
  BY FetchOwes
<1>11. \A p \in Nat : Owes(t, p)' => p <= ChanRoom /\ (t \in Unseen \/ Takes(d, p))
  BY <1>4
<1> HIDE DEF d
<1> QED BY <1>3, <1>6, <1>7, <1>8, <1>9, <1>10, <1>11, StepAt

LEMMA DispatchInv ==
  ASSUME IInv, NEW t \in Target, NEW n \in Package,
         DispatchStore(t, n) \/ DispatchFlush(t, n) \/ DispatchClose(t, n)
  PROVE  IInv'
<1>1. /\ Sound(buff[t]) /\ \A p \in Nat : Owes(t, p) =>
            p <= ChanRoom /\ (t \in Unseen \/ Takes(buff[t], p))
      /\ n \in Nat
  BY DEF IInv, TargetInv, Package
<1>2. CASE buff[t].len # 0
  <2>1. Buffer(t) = buff[t] /\ buff[t].len > 0
    BY <1>1, <1>2 DEF Buffer, Sound, Buff
  <2>2. CASE DispatchStore(t, n)
    <3>1. /\ Fetch(t, n) /\ connected[t] = "done" /\ UNCHANGED connected
          /\ buff[t].data < PackLen /\ Store(t, buff[t], n)
      BY <2>1, <2>2 DEF DispatchStore
    <3>2. Ready(buff[t])
      BY <1>1, <3>1 DEF Ready, EmptySpace, MaxExpand, BlockSize, Sound, Buff
    <3> QED BY <1>1, <2>1, <3>1, <3>2, StoreInv
  <2>3. CASE DispatchFlush(t, n)
    <3>1. /\ Fetch(t, n) /\ connected[t] = "done" /\ UNCHANGED connected
          /\ buff[t].data >= PackLen
      BY <2>1, <2>3 DEF DispatchFlush
    <3>2. PICK k \in 0 .. buff[t].data : Store(t, Sent(buff[t], k), n)
      BY <2>3 DEF DispatchFlush
    <3>3. buff[t].data > 0
      BY <1>1, <3>1 DEF Sound, Buff
    <3>4. PICK b : b = Sent(buff[t], k)
      OBVIOUS
    <3>5. /\ Sound(b) /\ b.len > 0
          /\ \A p \in Nat : p <= ChanRoom /\ Takes(buff[t], p) => Takes(b, p) /\ Ready(b)
      BY <1>1, <3>3, <3>4, SentSound
    <3>6. t \in Unseen \/ Ready(b)
      <4>1. chan[t] \in Nat /\ Owes(t, chan[t]) BY DEF Owes, IInv, TypeOK
      <4> QED BY <1>1, <3>5, <4>1
    <3>7. \A p \in Nat : Owes(t, p) => t \in Unseen \/ Takes(b, p)
      BY <1>1, <3>5
    <3>8. Store(t, b, n) BY <3>2, <3>4
    <3> QED BY <3>1, <3>5, <3>6, <3>7, <3>8, StoreInv
  <2>4. CASE DispatchClose(t, n)
    BY <2>4, CloseFetchInv DEF DispatchClose
  <2> QED BY <2>2, <2>3, <2>4
<1>3. CASE buff[t].len = 0
  <2>1. buff[t] = NoBuff BY <1>1, <1>3 DEF Sound
  <2>2. Buffer(t) = [len |-> 2 * PackLen, head |-> 0, data |-> 0, block |-> FALSE]
    <3>1. Buffer(t) = Expand(NoBuff) BY <2>1 DEF Buffer, NoBuff
    <3> QED BY <3>1, ExpandNoBuff
  <2>3. PICK b : b = Buffer(t) OBVIOUS
  <2>4. Sound(b) /\ b.len > 0 /\ b.data < PackLen /\ Ready(b) /\ \A p \in Nat : Takes(b, p)
    BY <2>2, <2>3 DEF Sound, Ready, Takes, Buff, NoBuff, MaxExpand
  <2>5. DispatchStore(t, n)
    BY <2>2, <2>3, <2>4 DEF DispatchFlush, DispatchClose
  <2>6. Fetch(t, n) /\ connected[t] = "done" /\ UNCHANGED connected /\ Store(t, b, n)
    BY <2>3, <2>5 DEF DispatchStore
  <2> QED BY <2>4, <2>6, StoreInv
<1> QED BY <1>2, <1>3

(* A flush outside dispatch_bridge. *)
LEMMA FlushInv ==
  ASSUME IInv, NEW t \in Target, NEW k \in 0 .. buff[t].data,
         Flushable(t), SetBuff(t, Sent(buff[t], k)),
         UNCHANGED <<connected, chan, writing, full>>,
         sending' \in {sending, sending \ {t}},
         left' \in {left, left \cup {t}},
         k < buff[t].data => t \in sending' \cup left'
  PROVE  IInv'
<1>1. PICK b : b = Sent(buff[t], k)
  OBVIOUS
<1>2. /\ Sound(buff[t]) /\ connected[t] = "done"
      /\ \A p \in Nat : Owes(t, p) =>
            p <= ChanRoom /\ (t \in Unseen \/ Takes(buff[t], p))
  BY DEF IInv, TargetInv, Flushable
<1>3. /\ Sound(b) /\ b.data = buff[t].data - k /\ b \in Buff
      /\ \A p \in Nat : p <= ChanRoom /\ Takes(buff[t], p) => Takes(b, p)
  BY <1>1, <1>2, SentSound DEF Flushable, Sound
<1>4. SetBuff(t, b)
  BY <1>1
<1>5. /\ buff' = [buff EXCEPT ![t] = b] /\ bitmap' \subseteq Target
      /\ \A u \in Target : u \in bitmap' <=> IF u = t THEN b.block ELSE u \in bitmap
  BY <1>3, <1>4, SetBuffDoes DEF IInv
<1>6. \A p \in Nat : Owes(t, p)' => p <= ChanRoom /\ (t \in Unseen \/ Takes(b, p))
  BY <1>2, <1>3, SameOwes
<1>7. b.data > 0 => t \in sending' \cup left'
  BY <1>2, <1>3 DEF Sound, Buff
<1>8. Elsewhere(t)
  BY SameOwes DEF Elsewhere
<1>9. /\ sending' \subseteq Target /\ left' \subseteq Target /\ full' \subseteq Unseen
      /\ connected' \in [Target -> {"none", "proc", "done"}]
      /\ connected'[t] # "done" => b = NoBuff
  BY <1>2 DEF IInv, TypeOK
<1>10. /\ chan' \in [Target -> 0 .. ChanRoom]
       /\ writing' \in {{}} \cup {{w} : w \in Target \X Package}
  BY SameOwes
<1> QED BY <1>3, <1>5, <1>6, <1>7, <1>8, <1>9, <1>10, StepAt

LEMMA IterInv ==
  ASSUME IInv, NEW t \in Target, IterSending(t) \/ Reload(t)
  PROVE  IInv'
<1>1. CASE IterForget(t)
  <2>1. /\ UNCHANGED <<connected, buff, bitmap, full, chan, writing>>
        /\ sending' = sending \ {t} /\ left' = left /\ ~Flushable(t)
    BY <1>1 DEF IterForget
  <2>2. sending' \subseteq Target /\ left' \subseteq Target
    BY <2>1 DEF IInv, TypeOK
  <2>3. Elsewhere(t)
    BY <2>1, SameOwes DEF Elsewhere
  <2>4. ~(buff[t].data > 0)
    BY <2>1 DEF IInv, TargetInv, Flushable, NoBuff
  <2>5. \A p \in Nat : Owes(t, p)' => p <= ChanRoom /\ (t \in Unseen \/ Takes(buff[t], p))
    BY <2>1, SameOwes DEF IInv, TargetInv
  <2>6. /\ chan' \in [Target -> 0 .. ChanRoom]
        /\ writing' \in {{}} \cup {{w} : w \in Target \X Package}
    BY <2>1, SameOwes
  <2> QED BY <2>1, <2>2, <2>3, <2>4, <2>5, <2>6, KeepInv
<1>2. CASE IterClose(t)
  BY <1>2, CloseInv DEF IterClose
<1>3. CASE ReloadChanged(t)
  BY <1>3, CloseInv DEF ReloadChanged
<1>4. ASSUME NEW k \in 0 .. buff[t].data, IterFlush(t, k) \/ ReloadKept(t, k)
      PROVE  IInv'
  <2>1. /\ Flushable(t) /\ SetBuff(t, Sent(buff[t], k)) /\ t \in sending
        /\ UNCHANGED <<connected, chan, writing, full>>
        /\ sending' \in {sending, sending \ {t}}
        /\ left' \in {left, left \cup {t}}
        /\ k # buff[t].data => t \in sending' \cup left' \/ ~(k < buff[t].data)
    BY <1>4 DEF IterFlush, ReloadKept
  <2>2. k < buff[t].data => k # buff[t].data
    BY DEF IInv, TypeOK, Buff
  <2> QED BY <2>1, <2>2, FlushInv
<1> QED BY <1>1, <1>2, <1>3, <1>4 DEF IterSending, Reload

(* A connection gets an empty buffer, whatever there was is gone by then. *)
LEMMA ConnectedInv ==
  ASSUME IInv, NEW t \in Target, NEW b, Sound(b), b.block = FALSE,
         b.len < MaxExpand,
         SetBuff(t, b), connected' = [connected EXCEPT ![t] = "done"],
         UNCHANGED <<chan, writing, full>>,
         EnlistIf(t, b.data > 0)
  PROVE  IInv'
<1>1. b \in Buff
  BY DEF Sound
<1>2. /\ buff' = [buff EXCEPT ![t] = b] /\ bitmap' \subseteq Target
      /\ \A u \in Target : u \in bitmap' <=> IF u = t THEN b.block ELSE u \in bitmap
  BY <1>1, SetBuffDoes DEF IInv
<1>3. Elsewhere(t)
  BY SameOwes DEF Elsewhere, EnlistIf, Enlist, IInv, TypeOK
<1>4. \A p \in Nat : Takes(b, p)
  BY <1>1 DEF Takes, Buff, MaxExpand
<1>5. \A p \in Nat : Owes(t, p)' => p <= ChanRoom /\ (t \in Unseen \/ Takes(b, p))
  BY <1>4, SameOwes DEF IInv, TargetInv
<1>6. /\ connected' \in [Target -> {"none", "proc", "done"}]
      /\ sending' \subseteq Target /\ left' \subseteq Target /\ full' \subseteq Unseen
      /\ b.data > 0 => t \in sending' \cup left'
      /\ connected'[t] # "done" => b = NoBuff
  BY DEF EnlistIf, Enlist, IInv, TypeOK
<1>7. /\ chan' \in [Target -> 0 .. ChanRoom]
      /\ writing' \in {{}} \cup {{w} : w \in Target \X Package}
  BY SameOwes
<1> QED BY <1>2, <1>3, <1>5, <1>6, <1>7, StepAt

LEMMA ConnectionInv ==
  ASSUME IInv, NEW t \in Target, Connection(t)
  PROVE  IInv'
<1>1. CASE Connect(t)
  <2>1. /\ connected[t] = "none" /\ buff[t] = NoBuff /\ t \notin bitmap
        /\ buff \in [Target -> Buff] /\ bitmap \subseteq Target
    BY <1>1 DEF Connect, IInv, TargetInv, NoBuff, TypeOK
  <2>2. /\ buff' = [buff EXCEPT ![t] = NoBuff] /\ bitmap' = bitmap
        /\ sending' = sending /\ left' = left
        /\ UNCHANGED <<chan, writing, full>>
        /\ \/ connected' = [connected EXCEPT ![t] = "proc"]
           \/ connected' = [connected EXCEPT ![t] = "done"]
    BY <1>1, <2>1 DEF Connect
  <2>3. /\ Sound(NoBuff) /\ NoBuff.data = 0 /\ NoBuff.block = FALSE
    BY NoBuffSound DEF NoBuff
  <2>4. Elsewhere(t)
    BY <2>2, SameOwes DEF Elsewhere, IInv, TypeOK
  <2>5. \A p \in Nat : Owes(t, p)' => p <= ChanRoom /\ (t \in Unseen \/ Takes(NoBuff, p))
    BY <2>2, SameOwes, NoBuffSound DEF IInv, TargetInv
  <2>6. /\ connected' \in [Target -> {"none", "proc", "done"}]
        /\ sending' \subseteq Target /\ left' \subseteq Target /\ full' \subseteq Unseen
        /\ bitmap' \subseteq Target
        /\ NoBuff.data > 0 => t \in sending' \cup left'
        /\ connected'[t] # "done" => NoBuff = NoBuff
        /\ \A u \in Target : u \in bitmap' <=> IF u = t THEN NoBuff.block ELSE u \in bitmap
    BY <2>1, <2>2, <2>3 DEF IInv, TypeOK
  <2>7. /\ chan' \in [Target -> 0 .. ChanRoom]
        /\ writing' \in {{}} \cup {{w} : w \in Target \X Package}
    BY <2>2, SameOwes
  <2> QED BY <2>2, <2>3, <2>4, <2>5, <2>6, <2>7, StepAt
<1>2. CASE ConnectUnverified(t)
  <2>1. /\ SetBuff(t, NoBuff) /\ connected' = [connected EXCEPT ![t] = "done"]
        /\ UNCHANGED <<sending, chan, writing, full, left>>
    BY <1>2 DEF ConnectUnverified
  <2>2. /\ NoBuff.block = FALSE /\ NoBuff.len < MaxExpand /\ NoBuff.data = 0
    BY DEF NoBuff, MaxExpand
  <2>3. EnlistIf(t, NoBuff.data > 0)
    BY <2>1, <2>2 DEF EnlistIf
  <2> QED BY <2>1, <2>2, <2>3, NoBuffSound, ConnectedInv
<1>3. CASE ConnectionLost(t)
  BY <1>3, CloseInv DEF ConnectionLost
<1>4. ASSUME NEW n \in Package, ConnectDone(t, n) PROVE IInv'
  <2>1. PICK k \in 0 .. n : /\ SetBuff(t, Sent(Put(Expand(NoBuff), n), k))
                            /\ EnlistIf(t, k < n)
    BY <1>4 DEF ConnectDone
  <2>2. /\ connected' = [connected EXCEPT ![t] = "done"]
        /\ UNCHANGED <<chan, writing, full>>
    BY <1>4 DEF ConnectDone
  <2>3. PICK a : a = Put(Expand(NoBuff), n)
    OBVIOUS
  <2>4. /\ a = [len |-> 2 * PackLen, head |-> 0, data |-> n, block |-> FALSE]
        /\ n \in 1 .. Packed
    <3>1. PICK e : e = Expand(NoBuff) OBVIOUS
    <3>2. /\ e = [len |-> 2 * PackLen, head |-> 0, data |-> 0, block |-> FALSE]
          /\ a = [e EXCEPT !.data = @ + n]
      BY <2>3, <3>1, ExpandNoBuff DEF Put
    <3>3. a = [len |-> 2 * PackLen, head |-> 0, data |-> 0 + n, block |-> FALSE]
      BY <3>2
    <3> QED BY <3>3 DEF Package
  <2>5. Sound(a) /\ a.data > 0 /\ a.data = n
    BY <2>4 DEF Sound, Buff, NoBuff
  <2>6. PICK b : b = Sent(a, k)
    OBVIOUS
  <2>7. Sound(b) /\ b.len = a.len /\ b.data = n - k
    BY <2>5, <2>6, SentSound
  <2>8. b.len < MaxExpand /\ a.len < MaxExpand
    BY <2>4, <2>7 DEF MaxExpand
  <2>9. b.block = FALSE
    <3>1. a.block = FALSE /\ ~Low(a, k)
      BY <2>4, <2>8 DEF Low, MaxExpand
    <3>2. b.block = BlockAfter(a, k)
      BY <2>6 DEF Sent
    <3> QED BY <3>1, <3>2 DEF BlockAfter
  <2>10. SetBuff(t, b) /\ (k < n <=> b.data > 0)
    BY <2>1, <2>3, <2>4, <2>6, <2>7
  <2>11. EnlistIf(t, b.data > 0)
    BY <2>1, <2>10 DEF EnlistIf
  <2> QED BY <2>2, <2>7, <2>8, <2>9, <2>10, <2>11, ConnectedInv
<1> QED BY <1>1, <1>2, <1>3, <1>4 DEF Connection

LEMMA ShrinkInv ==
  ASSUME IInv, NEW t \in Target, Shrink(t)
  PROVE  IInv'
<1> DEFINE a == buff[t]
<1>1. /\ Sound(a) /\ buff \in [Target -> Buff] /\ a \in Buff
      /\ (connected[t] # "done" => a = NoBuff)
      /\ (t \in bitmap <=> a.block) /\ (a.data > 0 => t \in sending \cup left)
  BY DEF IInv, TargetInv, TypeOK
<1>2. /\ a.len >= Mega /\ a.data < a.len \div 3
      /\ UNCHANGED <<connected, bitmap, sending, chan, writing, full, left>>
  BY DEF Shrink
<1>3. PICK h \in Nat : h = IF a.data > 0 THEN 0 ELSE a.head
  BY <1>1 DEF Buff
<1>4. PICK b : b = [len |-> ShrunkLen(a.len), head |-> h, data |-> a.data, block |-> a.block]
  OBVIOUS
<1>5. buff' = [buff EXCEPT ![t] = b]
  <2>1. buff' = [buff EXCEPT ![t] = [a EXCEPT !.len = ShrunkLen(@), !.head = h]]
    BY <1>3 DEF Shrink
  <2>2. b = [a EXCEPT !.len = ShrunkLen(@), !.head = h]
    <3>1. ShrunkLen(a.len) \in Nat
      BY <1>1 DEF ShrunkLen, Buff
    <3>2. PICK c \in Buff : c = a
      BY <1>1
    <3>3. PICK l \in Nat : l = ShrunkLen(c.len)
      BY <3>1, <3>2
    <3>4. [c EXCEPT !.len = l, !.head = h]
            = [len |-> l, head |-> h, data |-> c.data, block |-> c.block]
      BY ShrunkBuffer
    <3> QED BY <1>4, <3>2, <3>3, <3>4
  <2> QED BY <2>1, <2>2
<1>6. Sound(b) /\ \A p \in Nat : p <= ChanRoom => Takes(b, p)
  BY <1>1, <1>2, <1>4, ShrinkSound
<1>7. b.data = a.data /\ b.block = a.block
  BY <1>4
<1>8. Elsewhere(t)
  BY <1>2, SameOwes DEF Elsewhere
<1>9. \A p \in Nat : Owes(t, p)' => p <= ChanRoom /\ (t \in Unseen \/ Takes(b, p))
  BY <1>2, <1>6, SameOwes DEF IInv, TargetInv
<1>10. a # NoBuff
  BY <1>2 DEF NoBuff
<1>11. /\ connected' \in [Target -> {"none", "proc", "done"}]
       /\ sending' \subseteq Target /\ left' \subseteq Target /\ full' \subseteq Unseen
       /\ bitmap' \subseteq Target
       /\ b.data > 0 => t \in sending' \cup left'
       /\ connected'[t] # "done" => b = NoBuff
       /\ \A u \in Target : u \in bitmap' <=> IF u = t THEN b.block ELSE u \in bitmap
  BY <1>1, <1>2, <1>7, <1>10 DEF IInv, TypeOK
<1>12. /\ chan' \in [Target -> 0 .. ChanRoom]
       /\ writing' \in {{}} \cup {{w} : w \in Target \X Package}
  BY <1>2, SameOwes
<1> HIDE DEF a
<1> QED BY <1>5, <1>6, <1>8, <1>9, <1>11, <1>12, StepAt

LEMMA RestartInv ==
  ASSUME IInv, Restart
  PROVE  IInv'
<1>1. UNCHANGED <<chan, writing, full>>
  BY DEF Restart
<1>2. TypeOK'
  BY <1>1 DEF Restart, IInv, TypeOK, NoBuff, Buff
<1>3. ASSUME NEW t \in Target PROVE TargetInv(t)'
  <2>1. buff'[t] = NoBuff /\ bitmap' = {} /\ NoBuff.data = 0 /\ NoBuff.block = FALSE
    BY DEF Restart, NoBuff
  <2>2. \A p \in Nat : Owes(t, p)' => p <= ChanRoom /\ Takes(NoBuff, p)
    BY <1>1, SameOwes, NoBuffSound DEF IInv, TargetInv
  <2> QED BY <2>1, <2>2, NoBuffSound DEF TargetInv
<1> QED BY <1>1, <1>2, <1>3 DEF IInv

THEOREM Inductive == Spec => []IInv
<1>1. IInv /\ [Next]_vars => IInv'
  <2> SUFFICES ASSUME IInv, [Next]_vars PROVE IInv' OBVIOUS
  <2>1. CASE Server
    BY <2>1, ServerInv DEF Server
  <2>2. CASE Dispatch
    BY <2>2, DropInv, DispatchInv DEF Dispatch
  <2>3. CASE Restart
    BY <2>3, RestartInv
  <2>4. ASSUME NEW t \in Target, IterSending(t) \/ Connection(t) \/ Shrink(t) \/ Reload(t)
        PROVE  IInv'
    BY <2>4, IterInv, ConnectionInv, ShrinkInv
  <2>5. CASE UNCHANGED vars
    BY <2>5 DEF vars, IInv, TypeOK, TargetInv, Owes
  <2> QED BY <2>1, <2>2, <2>3, <2>4, <2>5 DEF Next, Sending
<1> QED BY <1>1, InitInv, PTL DEF Spec

-----------------------------------------------------------------------------
(* The theorems. *)

(* Types, whatever the sizes. *)
THEOREM Typing == Spec => []TypeOK
<1>1. IInv => TypeOK BY DEF IInv
<1> QED BY <1>1, Inductive, PTL

(* No package to a connected target is dropped for want of room: the bit   *)
(* is set in time, for any sizes, packages and order of flushes.           *)
THEOREM NoDrop == Spec => []NeverFull
<1>1. IInv => NeverFull BY DEF IInv, NeverFull
<1> QED BY <1>1, Inductive, PTL

(* Who is blocked has something to flush.                                  *)
THEOREM Blocked == Spec => []BlockedHasData
<1>1. ASSUME IInv, NEW t \in bitmap PROVE buff[t].block /\ Flushable(t)
  <2>1. TargetInv(t) /\ buff[t].block
    BY <1>1 DEF IInv, TypeOK, TargetInv
  <2>2. buff[t] # NoBuff
    BY <2>1 DEF NoBuff
  <2> QED BY <2>1, <2>2 DEF TargetInv, Sound, Flushable
<1>2. IInv => BlockedHasData
  BY <1>1 DEF BlockedHasData
<1> QED BY <1>2, Inductive, PTL

(* What is to be flushed is on the sending list.                           *)
THEOREM NotStranded == Spec => []Listed
<1>1. IInv => Listed BY DEF IInv, TargetInv, Listed, Flushable
<1> QED BY <1>1, Inductive, PTL

(* A buffer is not filled to the last byte, however it grows and shrinks.  *)
THEOREM Filled == Spec => []NotFilled
<1>1. IInv => NotFilled BY DEF IInv, TargetInv, Sound, NotFilled
<1> QED BY <1>1, Inductive, PTL
=============================================================================
