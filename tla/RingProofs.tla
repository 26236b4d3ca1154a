----------------------------- MODULE RingProofs -----------------------------
(***************************************************************************)
(* Proofs about Ring.  Whatever the size of the ring and of the packages,  *)
(* it implements ByteFifo.                                                 *)
(***************************************************************************)
EXTENDS Ring, SequenceTheorems, TLAPS

USE DEF Nobody

(* Positions on the ring. *)
LEMMA AtType ==
  ASSUME NEW a \in 0 .. Size - 1, NEW n \in 0 .. Size
  PROVE  At(a, n) \in 0 .. Size - 1
BY RingConstantsOK DEF At

LEMMA AtAt ==
  ASSUME NEW a \in 0 .. Size - 1, NEW m \in Nat, NEW n \in Nat, m + n <= Size
  PROVE  At(At(a, m), n) = At(a, m + n)
BY RingConstantsOK DEF At

LEMMA AtApart ==
  ASSUME NEW a \in 0 .. Size - 1, NEW m \in 0 .. Size - 1,
         NEW n \in 0 .. Size - 1, m # n
  PROVE  At(a, m) # At(a, n)
BY RingConstantsOK DEF At

LEMMA ForwardIsAt ==
  ASSUME NEW a \in 0 .. Size - 1, NEW n \in 0 .. Size - 1
  PROVE  Forward(At(a, n)) = At(a, n + 1)
BY RingConstantsOK DEF At, Forward

LEMMA TotalType == ASSUME NEW p \in Pkg PROVE Total(p) \in Nat \ {0}
BY RingConstantsOK DEF Total

LEMMA UsedType ==
  ASSUME head \in 0 .. Size - 1, tail \in 0 .. Size - 1
  PROVE  /\ Used \in 0 .. Size - 1
         /\ tail = At(head, Used)
         /\ Used = 0 <=> head = tail
         /\ Empty = Size - Used
BY RingConstantsOK DEF Used, At, Empty

-----------------------------------------------------------------------------
(* The byte i places behind the head. *)
Cell(i) == buff[At(head, i)]

(* A whole package p lies from place i on. *)
WholeAt(p, i) ==
  /\ i >= 0 /\ i + Total(p) <= Used
  /\ \A j \in 0 .. Total(p) - 1 : Cell(i + j) = <<p, j>>

(* Every byte of the channel belongs to a package that is there whole. *)
Framed ==
  \A i \in 0 .. Used - 1 : \E p \in Pkg, k \in Nat :
     k < Total(p) /\ WholeAt(p, i - k) /\ Cell(i) = <<p, k>>

(* A send has room for its package and has copied n bytes of it. *)
Sending ==
  \A s \in Sender : w[s].pc = "copy" =>
     /\ w[s].pkg \in Pkg
     /\ w[s].n <= Total(w[s].pkg)
     /\ Used + Total(w[s].pkg) < Size
     /\ w[s].pos = At(tail, w[s].n)
     /\ \A j \in 0 .. w[s].n - 1 : buff[At(tail, j)] = <<w[s].pkg, j>>

(* A receive has the first bytes of the channel, and at last a package. *)
Receiving ==
  r.pc # "idle" =>
     /\ Used > 0
     /\ Len(r.got) <= Used
     /\ r.pos = At(head, Len(r.got))
     /\ \A j \in 1 .. Len(r.got) : r.got[j] = Cell(j - 1)
     /\ r.pc \in {"store", "advance"} => Len(r.got) = Wanted(r.got)

IInv == TypeOK /\ Framed /\ Sending /\ Receiving

(* A channel that is not empty begins with a whole package. *)
LEMMA FirstIsWhole ==
  ASSUME TypeOK, Framed, Used > 0
  PROVE  \E p \in Pkg : WholeAt(p, 0) /\ Cell(0) = <<p, 0>>
<1>0. Used \in 0 .. Size - 1 BY UsedType DEF TypeOK
<1>1. PICK p \in Pkg, k \in Nat :
         k < Total(p) /\ WholeAt(p, 0 - k) /\ Cell(0) = <<p, k>>
  BY <1>0 DEF Framed
<1>2. k = 0 BY <1>1 DEF WholeAt
<1> QED BY <1>1, <1>2

-----------------------------------------------------------------------------
(* Types and the mutex. *)
LEMMA TypingInit == Init => TypeOK
<1> SUFFICES ASSUME Init PROVE TypeOK OBVIOUS
<1>1. buff \in [0 .. Size - 1 -> Byte] BY DEF Init, Byte
<1>2. /\ head \in 0 .. Size - 1 /\ tail \in 0 .. Size - 1
      /\ count \in -MaxCount .. MaxCount
  BY RingConstantsOK DEF Init
<1>3. WIdle \in [pc : {"idle", "copy", "load", "store"},
                pkg : Pkg \cup {NoPkg}, pos : 0 .. Size - 1,
                n : Nat, cnt : -MaxCount .. MaxCount]
  BY RingConstantsOK DEF WIdle
<1>4. RIdle \in [pc : {"idle", "copy", "store", "advance"},
                pos : 0 .. Size - 1, got : Seq(Byte),
                cnt : -MaxCount .. MaxCount]
  BY RingConstantsOK DEF RIdle
<1>5. \A s \in Sender : w[s].pc # "idle" <=> mutex = {s}
  BY DEF Init, WIdle
<1> QED BY <1>1, <1>2, <1>3, <1>4, <1>5 DEF Init, TypeOK

(* Step by step. *)
LEMMA TypingNext == TypeOK /\ [Next]_vars => TypeOK'
<1> SUFFICES ASSUME TypeOK, [Next]_vars PROVE TypeOK' OBVIOUS
<1> DEFINE WType == [pc : {"idle", "copy", "load", "store"},
                     pkg : Pkg \cup {NoPkg}, pos : 0 .. Size - 1,
                     n : Nat, cnt : -MaxCount .. MaxCount]
           RType == [pc : {"idle", "copy", "store", "advance"},
                     pos : 0 .. Size - 1, got : Seq(Byte),
                     cnt : -MaxCount .. MaxCount]
<1>w. WIdle \in WType BY RingConstantsOK DEF WIdle
<1>r. RIdle \in RType BY RingConstantsOK DEF RIdle
<1>f. \A a \in 0 .. Size - 1 : Forward(a) \in 0 .. Size - 1
  BY RingConstantsOK DEF Forward
<1>c. \A c \in -MaxCount .. MaxCount :
         Inc(c) \in -MaxCount .. MaxCount /\ Dec(c) \in -MaxCount .. MaxCount
  BY RingConstantsOK DEF Inc, Dec
<1>1. ASSUME NEW s \in Sender, NEW p \in Pkg, SendBegin(s, p) PROVE TypeOK'
  <2>1. w'[s] \in WType /\ w'[s].pc = "copy"
    BY <1>1, <1>w DEF SendBegin, TypeOK, WIdle
  <2>2. \A t \in Sender \ {s} : w'[t] = w[t] /\ w[t].pc = "idle"
    BY <1>1 DEF SendBegin, TypeOK
  <2> QED BY <1>1, <2>1, <2>2 DEF SendBegin, TypeOK
<1>2. ASSUME NEW s \in Sender, SendCopy(s) PROVE TypeOK'
  <2>0. w[s] \in WType /\ w[s].pkg \in Pkg BY <1>2 DEF SendCopy, TypeOK
  <2>a. w'[s] = [w[s] EXCEPT !.pos = Forward(@), !.n = @ + 1]
    BY <1>2 DEF SendCopy, TypeOK
  <2>b. Forward(w[s].pos) \in 0 .. Size - 1 /\ w[s].n + 1 \in Nat
    BY <2>0, <1>f
  <2>c. w'[s] = [pc |-> "copy", pkg |-> w[s].pkg, pos |-> Forward(w[s].pos),
                 n |-> w[s].n + 1, cnt |-> w[s].cnt]
    <3>1. w[s].pc = "copy" BY <1>2 DEF SendCopy
    <3> QED BY <2>0, <2>a, <3>1
  <2>1. w'[s] \in WType /\ w'[s].pc = "copy" /\ w'[s].pkg = w[s].pkg
    BY <2>0, <2>b, <2>c
  <2>2. \A t \in Sender \ {s} : w'[t] = w[t]
    BY <1>2 DEF SendCopy, TypeOK
  <2>4. buff' \in [0 .. Size - 1 -> Byte]
    BY <1>2, <2>0 DEF SendCopy, TypeOK, Byte
  <2> QED BY <1>2, <2>1, <2>2, <2>4 DEF SendCopy, TypeOK
<1>3. ASSUME NEW s \in Sender, SendPublish(s) PROVE TypeOK'
  <2>1. w'[s] \in WType /\ w'[s].pc = "load"
    BY <1>3, <1>w DEF SendPublish, TypeOK, WIdle
  <2>2. \A t \in Sender \ {s} : w'[t] = w[t]
    BY <1>3 DEF SendPublish, TypeOK
  <2> QED BY <1>3, <2>1, <2>2 DEF SendPublish, TypeOK
<1>4. ASSUME NEW s \in Sender, SendLoad(s) PROVE TypeOK'
  <2>0. w[s] \in WType /\ count \in -MaxCount .. MaxCount BY DEF TypeOK
  <2>a. w'[s] = [w[s] EXCEPT !.pc = "store", !.cnt = count]
    BY <1>4 DEF SendLoad, TypeOK
  <2>1. w'[s] \in WType /\ w'[s].pc = "store" BY <2>0, <2>a
  <2>2. \A t \in Sender \ {s} : w'[t] = w[t]
    BY <1>4 DEF SendLoad, TypeOK
  <2> QED BY <1>4, <2>1, <2>2 DEF SendLoad, TypeOK
<1>5. ASSUME NEW s \in Sender, SendStore(s) PROVE TypeOK'
  <2>1. w'[s] = WIdle /\ w'[s].pc = "idle" BY <1>5 DEF SendStore, TypeOK, WIdle
  <2>2. \A t \in Sender \ {s} : w'[t] = w[t] /\ w[t].pc = "idle"
    BY <1>5 DEF SendStore, TypeOK
  <2> QED BY <1>5, <1>w, <1>c, <2>1, <2>2 DEF SendStore, TypeOK
<1>6. CASE WriterRestart
  BY <1>6, <1>w DEF WriterRestart, TypeOK, WIdle
<1>7. CASE RecvBegin
  BY <1>7, <1>r DEF RecvBegin, TypeOK, RIdle
<1>8. CASE RecvCopy
  <2>1. r \in RType BY DEF TypeOK
  <2>2. /\ buff[r.pos] \in Byte /\ Forward(r.pos) \in 0 .. Size - 1
        /\ Append(r.got, buff[r.pos]) \in Seq(Byte)
    BY <2>1, <1>f DEF TypeOK
  <2>3. r' \in RType BY <1>8, <2>1, <2>2 DEF RecvCopy
  <2> QED BY <1>8, <2>3 DEF RecvCopy, TypeOK
<1>9. CASE RecvTooLong BY <1>9, <1>r DEF RecvTooLong, TypeOK
<1>10. CASE RecvLoad BY <1>10 DEF RecvLoad, TypeOK
<1>11. CASE RecvStore
  <2>1. r \in RType /\ 0 \in -MaxCount .. MaxCount
    BY RingConstantsOK DEF TypeOK
  <2>2. r' \in RType BY <1>11, <2>1 DEF RecvStore
  <2>3. count' \in -MaxCount .. MaxCount BY <1>11, <2>1, <1>c DEF RecvStore
  <2> QED BY <1>11, <2>2, <2>3 DEF RecvStore, TypeOK
<1>12. CASE RecvAdvance BY <1>12, <1>r DEF RecvAdvance, TypeOK
<1>13. CASE ReaderRestart BY <1>13, <1>r DEF ReaderRestart, TypeOK
<1>14. CASE UNCHANGED vars BY <1>14 DEF vars, TypeOK
<1> QED
  BY <1>1, <1>2, <1>3, <1>4, <1>5, <1>6, <1>7, <1>8, <1>9, <1>10, <1>11,
     <1>12, <1>13, <1>14 DEF Next, Writer, Reader

(* The ring is well typed and the mutex is held by whoever sends. *)
THEOREM Typing == Spec => []TypeOK
BY TypingInit, TypingNext, PTL DEF Spec

(* While one goroutine sends, the others do not. *)
LEMMA OneSends ==
  ASSUME TypeOK, NEW s \in Sender, w[s].pc # "idle"
  PROVE  \A t \in Sender \ {s} : w[t].pc = "idle"
<1>1. mutex = {s} BY DEF TypeOK
<1>2. \A t \in Sender \ {s} : mutex # {t} BY <1>1
<1> QED BY <1>2 DEF TypeOK

-----------------------------------------------------------------------------
(* What the steps do to the bytes of the channel. *)
LEMMA Untouched ==
  ASSUME Framed, UNCHANGED <<buff, head, tail>>
  PROVE  /\ Framed' /\ Used' = Used /\ Stream' = Stream
         /\ \A i \in Int : Cell(i)' = Cell(i)
<1>1. Used' = Used BY DEF Used
<1>2. \A i \in Int : At(head, i)' = At(head, i) BY DEF At
<1>3. \A i \in Int : Cell(i)' = Cell(i) BY <1>2 DEF Cell
<1>4. Stream' = Stream BY <1>1 DEF Stream, At
<1>5. \A p, i : WholeAt(p, i)' <=> WholeAt(p, i)
  BY <1>1 DEF WholeAt, Cell, At, Total
<1>6. \A i : Cell(i)' = Cell(i) BY DEF Cell, At
<1>7. Framed' BY <1>1, <1>5, <1>6 DEF Framed, Total
<1> QED BY <1>1, <1>3, <1>4, <1>7

(* The bytes of the channel stay when others are copied behind them. *)
LEMMA CopyBehind ==
  ASSUME TypeOK, Sending, NEW s \in Sender, SendCopy(s)
  PROVE  /\ Used' = Used
         /\ \A i \in 0 .. Used - 1 : Cell(i)' = Cell(i)
         /\ \A j \in 0 .. w[s].n - 1 : buff'[At(tail, j)] = buff[At(tail, j)]
         /\ buff'[At(tail, w[s].n)] = <<w[s].pkg, w[s].n>>
<1>0. /\ head \in 0 .. Size - 1 /\ tail \in 0 .. Size - 1
      /\ Used \in 0 .. Size - 1 /\ tail = At(head, Used)
  BY UsedType DEF TypeOK
<1>1. /\ w[s].pkg \in Pkg /\ w[s].n \in Nat /\ w[s].n < Total(w[s].pkg)
      /\ Used + Total(w[s].pkg) < Size /\ w[s].pos = At(tail, w[s].n)
  BY DEF SendCopy, Sending, TypeOK
<1>2. Total(w[s].pkg) \in Nat BY <1>1, TotalType
<1>3. Size \in Nat BY RingConstantsOK
<1>4. w[s].pos = At(head, Used + w[s].n) BY <1>0, <1>1, <1>2, <1>3, AtAt
<1>5. w[s].pos \in 0 .. Size - 1 BY DEF TypeOK
<1>6. buff' = [buff EXCEPT ![w[s].pos] = <<w[s].pkg, w[s].n>>]
  BY DEF SendCopy
<1>7. \A a \in 0 .. Size - 1 : a # w[s].pos => buff'[a] = buff[a]
  BY <1>6 DEF TypeOK
<1>8. Used' = Used BY DEF SendCopy, Used
<1>9. ASSUME NEW i \in 0 .. Used - 1 PROVE Cell(i)' = Cell(i)
  <2>a. /\ i \in 0 .. Size - 1 /\ i \in 0 .. Size /\ i # Used + w[s].n
        /\ Used + w[s].n \in 0 .. Size - 1
    BY <1>0, <1>1, <1>2, <1>3
  <2>1. At(head, i) # w[s].pos /\ At(head, i) \in 0 .. Size - 1
    BY <1>0, <1>4, <2>a, AtApart, AtType
  <2>2. Cell(i)' = buff'[At(head, i)] BY DEF Cell, SendCopy, At
  <2> QED BY <1>7, <2>1, <2>2 DEF Cell
<1>10. ASSUME NEW j \in 0 .. w[s].n - 1
       PROVE  buff'[At(tail, j)] = buff[At(tail, j)]
  <2>a. /\ j \in 0 .. Size - 1 /\ j \in 0 .. Size /\ j # w[s].n
        /\ w[s].n \in 0 .. Size - 1
    BY <1>0, <1>1, <1>2, <1>3
  <2>1. At(tail, j) # w[s].pos /\ At(tail, j) \in 0 .. Size - 1
    BY <1>0, <1>1, <2>a, AtApart, AtType
  <2> QED BY <1>7, <2>1
<1>11. buff'[w[s].pos] = <<w[s].pkg, w[s].n>> BY <1>5, <1>6 DEF TypeOK
<1> QED BY <1>1, <1>8, <1>9, <1>10, <1>11

(* Moving the tail appends the package. *)
LEMMA PublishAppends ==
  ASSUME TypeOK, Sending, NEW s \in Sender, SendPublish(s)
  PROVE  /\ w[s].pkg \in Pkg
         /\ Used' = Used + Total(w[s].pkg) /\ Used' < Size
         /\ \A i \in 0 .. Used - 1 : Cell(i)' = Cell(i)
         /\ \A i \in Used .. Used + Total(w[s].pkg) - 1 :
              Cell(i)' = <<w[s].pkg, i - Used>>
<1> DEFINE T == Total(w[s].pkg)
<1>0. /\ head \in 0 .. Size - 1 /\ tail \in 0 .. Size - 1
      /\ Used \in 0 .. Size - 1 /\ tail = At(head, Used)
  BY UsedType DEF TypeOK
<1>1. /\ w[s].pkg \in Pkg /\ w[s].n = T /\ Used + T < Size
      /\ \A j \in 0 .. T - 1 : buff[At(tail, j)] = <<w[s].pkg, j>>
      /\ tail' = At(tail, T)
  BY DEF SendPublish, Sending
<1>2. T \in Nat \ {0} BY <1>1, TotalType
<1>3. tail' = At(head, Used + T)
  BY <1>0, <1>1, <1>2, AtAt, RingConstantsOK
<1>4. Used' = Used + T
  BY <1>0, <1>1, <1>2, <1>3, RingConstantsOK DEF Used, At, SendPublish
<1>5. \A i \in Int : Cell(i)' = Cell(i) BY DEF Cell, At, SendPublish
<1>6. ASSUME NEW i \in Used .. Used + T - 1
      PROVE  Cell(i)' = <<w[s].pkg, i - Used>>
  <2>1. /\ i - Used \in 0 .. T - 1 /\ i \in Int /\ Used + (i - Used) = i
        /\ Used + (i - Used) <= Size
    BY <1>0, <1>1, <1>2, RingConstantsOK
  <2>2. At(tail, i - Used) = At(head, i)
    BY <1>0, <1>2, <2>1, AtAt
  <2> QED BY <1>1, <1>5, <2>1, <2>2 DEF Cell
<1>7. \A i \in 0 .. Used - 1 : Cell(i)' = Cell(i) BY <1>0, <1>5
<1> QED BY <1>0, <1>1, <1>2, <1>4, <1>6, <1>7

(* The reader about to move the head holds the first package. *)
LEMMA GotWhole ==
  ASSUME TypeOK, Framed, Receiving, r.pc \in {"store", "advance"}
  PROVE  \E p \in Pkg : /\ Len(r.got) = Total(p) /\ WholeAt(p, 0)
                        /\ \A j \in 1 .. Total(p) : r.got[j] = <<p, j - 1>>
<1>0. /\ Used \in 0 .. Size - 1 /\ Used > 0 /\ r.got \in Seq(Byte)
      /\ Len(r.got) = Wanted(r.got)
      /\ \A j \in 1 .. Len(r.got) : r.got[j] = Cell(j - 1)
  BY UsedType DEF TypeOK, Receiving
<1>1. PICK p \in Pkg : WholeAt(p, 0) /\ Cell(0) = <<p, 0>>
  BY <1>0, FirstIsWhole
<1>2. Len(r.got) >= HeadLen BY <1>0, RingConstantsOK DEF Wanted
<1>3. r.got[1] = <<p, 0>> BY <1>0, <1>1, <1>2, RingConstantsOK
<1>4. Len(r.got) = Total(p)
  BY <1>0, <1>2, <1>3, RingConstantsOK DEF Wanted, Total
<1>5. ASSUME NEW j \in 1 .. Total(p) PROVE r.got[j] = <<p, j - 1>>
  <2>1. Total(p) \in Nat BY TotalType
  <2>2. j - 1 \in 0 .. Total(p) - 1 /\ 0 + (j - 1) = j - 1 BY <2>1
  <2>3. Cell(j - 1) = <<p, j - 1>> BY <1>1, <2>2 DEF WholeAt
  <2> QED BY <1>0, <1>4, <2>3
<1> QED BY <1>1, <1>4, <1>5

(* Moving the head takes the first Len(r.got) bytes away. *)
LEMMA AdvanceTakes ==
  ASSUME TypeOK, Receiving, RecvAdvance
  PROVE  /\ Used' = Used - Len(r.got)
         /\ \A i \in 0 .. Used' - 1 : Cell(i)' = Cell(Len(r.got) + i)
<1>0. /\ head \in 0 .. Size - 1 /\ tail \in 0 .. Size - 1
      /\ Used \in 0 .. Size - 1 /\ tail = At(head, Used)
      /\ Len(r.got) \in Nat /\ Len(r.got) <= Used
      /\ head' = At(head, Len(r.got))
  BY UsedType DEF TypeOK, Receiving, RecvAdvance
<1>1. Used' = Used - Len(r.got)
  <2>0. /\ head \in Int /\ tail \in Int /\ Size \in Int
        /\ Len(r.got) \in Int
    BY <1>0, RingConstantsOK
  <2>1. /\ tail' = tail /\ Size \in Nat
        /\ head' = IF head + Len(r.got) < Size
                   THEN head + Len(r.got) ELSE head + Len(r.got) - Size
    BY <1>0, RingConstantsOK DEF At, RecvAdvance
  <2>2. Used' = IF tail >= head' THEN tail - head' ELSE tail - head' + Size
    BY <2>1 DEF Used
  <2>3. Used = IF tail >= head THEN tail - head ELSE tail - head + Size
    BY DEF Used
  <2>4. CASE tail >= head
    <3>1. Used = tail - head BY <2>3, <2>4
    <3>2. head' = head + Len(r.got) /\ tail >= head'
      BY <1>0, <2>1, <3>1
    <3> QED BY <1>0, <2>2, <3>1, <3>2
  <2>5. CASE ~(tail >= head)
    <3>1. Used = tail - head + Size BY <2>3, <2>5
    <3>2. CASE head + Len(r.got) < Size
      <4>1. head' = head + Len(r.got) /\ ~(tail >= head')
        BY <1>0, <2>1, <2>5, <3>2
      <4>2. Used' = tail - head' + Size BY <2>2, <4>1
      <4> QED BY <2>0, <3>1, <4>1, <4>2
    <3>3. CASE ~(head + Len(r.got) < Size)
      <4>1. head' = head + Len(r.got) - Size /\ tail >= head'
        BY <1>0, <2>1, <3>1, <3>3
      <4>2. Used' = tail - head' BY <2>2, <4>1
      <4> QED BY <2>0, <3>1, <4>1, <4>2
    <3> QED BY <3>2, <3>3
  <2> QED BY <2>4, <2>5
<1>2. ASSUME NEW i \in 0 .. Used' - 1
      PROVE  Cell(i)' = Cell(Len(r.got) + i)
  <2>1. At(At(head, Len(r.got)), i) = At(head, Len(r.got) + i)
    <3>1. PICK k : k = Len(r.got) OBVIOUS
    <3>2. k \in Nat /\ i \in Nat /\ k + i <= Size
      BY <1>0, <1>1, <3>1, RingConstantsOK
    <3>3. At(At(head, k), i) = At(head, k + i) BY <1>0, <3>2, AtAt
    <3> QED BY <3>1, <3>3
  <2>2. Cell(i)' = buff[At(At(head, Len(r.got)), i)]
    BY <1>0 DEF Cell, At, RecvAdvance
  <2> QED BY <2>1, <2>2 DEF Cell
<1> QED BY <1>1, <1>2

-----------------------------------------------------------------------------
(* Packages stay whole when one is appended ... *)
LEMMA FramedPublish ==
  ASSUME TypeOK, Framed, Sending, NEW s \in Sender, SendPublish(s)
  PROVE  Framed'
<1> DEFINE T == Total(w[s].pkg)
<1>0. Used \in 0 .. Size - 1 BY UsedType DEF TypeOK
<1>1. /\ w[s].pkg \in Pkg
      /\ Used' = Used + T
      /\ \A i \in 0 .. Used - 1 : Cell(i)' = Cell(i)
      /\ \A i \in Used .. Used + T - 1 : Cell(i)' = <<w[s].pkg, i - Used>>
  BY PublishAppends
<1>2. T \in Nat \ {0} BY <1>1, TotalType
<1>3. ASSUME NEW i \in 0 .. Used' - 1
      PROVE  \E p \in Pkg, k \in Nat :
               k < Total(p) /\ WholeAt(p, i - k)' /\ Cell(i)' = <<p, k>>
  <2>1. CASE i < Used
    <3>1. PICK p \in Pkg, k \in Nat :
             k < Total(p) /\ WholeAt(p, i - k) /\ Cell(i) = <<p, k>>
      BY <1>0, <1>1, <1>2, <1>3, <2>1 DEF Framed
    <3>2. Total(p) \in Nat BY TotalType
    <3>3. i - k >= 0 /\ i - k + Total(p) <= Used BY <3>1 DEF WholeAt
    <3>4. \A j \in 0 .. Total(p) - 1 : Cell(i - k + j)' = <<p, j>>
      <4> SUFFICES ASSUME NEW j \in 0 .. Total(p) - 1
                   PROVE  Cell(i - k + j)' = <<p, j>>
        OBVIOUS
      <4>1. i - k + j \in 0 .. Used - 1 BY <1>0, <3>2, <3>3
      <4> QED BY <1>1, <3>1, <4>1 DEF WholeAt
    <3>5. WholeAt(p, i - k)'
      BY <1>0, <1>1, <1>2, <3>2, <3>3, <3>4 DEF WholeAt, Total
    <3>6. Cell(i)' = <<p, k>>
      <4>1. i \in 0 .. Used - 1 BY <1>0, <1>1, <1>2, <1>3, <2>1
      <4> QED BY <1>1, <3>1, <4>1
    <3> QED BY <3>1, <3>5, <3>6
  <2>2. CASE i >= Used
    <3>1. PICK p \in Pkg, k \in Nat, u \in Nat :
             p = w[s].pkg /\ k = i - Used /\ u = Used
      BY <1>0, <1>1, <2>2, <1>3
    <3>2. k < T /\ T = Total(p) /\ i \in Used .. Used + T - 1 /\ i - k = u
      BY <1>0, <1>1, <1>2, <1>3, <2>2, <3>1
    <3>3. \A j \in 0 .. Total(p) - 1 : Cell(u + j)' = <<p, j>>
      <4> SUFFICES ASSUME NEW j \in 0 .. Total(p) - 1
                   PROVE  Cell(u + j)' = <<p, j>>
        OBVIOUS
      <4>1. u + j \in Used .. Used + T - 1 /\ (u + j) - Used = j
        BY <1>2, <3>1, <3>2
      <4>2. \A m \in Used .. Used + T - 1 : Cell(m)' = <<p, m - Used>>
        BY <1>1, <3>1
      <4> QED BY <4>1, <4>2
    <3>4. u >= 0 /\ u + Total(p) <= Used' BY <1>0, <1>1, <1>2, <3>1, <3>2
    <3>5. WholeAt(p, u)' BY <3>3, <3>4 DEF WholeAt, Total
    <3>6. WholeAt(p, i - k)' BY <3>2, <3>5
    <3>7. Cell(i)' = <<p, k>> BY <1>1, <3>1, <3>2
    <3> QED BY <3>2, <3>6, <3>7
  <2> QED BY <1>0, <1>3, <2>1, <2>2
<1> QED BY <1>3 DEF Framed, Total

LEMMA ShiftBack ==
  ASSUME NEW i \in Int, NEW j \in Nat, NEW k \in Int, NEW l \in Int,
         NEW m \in Int, NEW t \in Int, NEW u \in Int,
         i - k >= 0, m = l + i, m - k + t <= u, j <= t - 1
  PROVE  /\ i - k + j \in 0 .. u - l - 1
         /\ l + (i - k + j) = (m - k) + j
OBVIOUS

(* ... and when the first is taken away. *)
LEMMA FramedAdvance ==
  ASSUME TypeOK, Framed, Receiving, RecvAdvance
  PROVE  Framed'
<1> DEFINE L == Len(r.got)
<1>0. Used \in 0 .. Size - 1 BY UsedType DEF TypeOK
<1>1. PICK q \in Pkg : L = Total(q) /\ WholeAt(q, 0)
  BY GotWhole DEF RecvAdvance
<1>2. Used' = Used - L /\ \A i \in 0 .. Used' - 1 : Cell(i)' = Cell(L + i)
  BY AdvanceTakes
<1>3. L \in Nat \ {0} BY <1>1, TotalType
<1> HIDE DEF L
<1>4. ASSUME NEW i \in 0 .. Used' - 1
      PROVE  \E p \in Pkg, k \in Nat :
               k < Total(p) /\ WholeAt(p, i - k)' /\ Cell(i)' = <<p, k>>
  <2>1. L + i \in 0 .. Used - 1 BY <1>0, <1>2, <1>3, <1>4
  <2>m. PICK m \in 0 .. Used - 1 : m = L + i BY <2>1
  <2>2. PICK p \in Pkg, k \in Nat :
           k < Total(p) /\ WholeAt(p, m - k) /\ Cell(m) = <<p, k>>
    BY DEF Framed
  <2>3. Total(p) \in Nat \ {0} BY TotalType
  <2>4. m - k >= 0 /\ m - k + Total(p) <= Used
    BY <2>2 DEF WholeAt
  <2>5. i - k >= 0
    <3> SUFFICES ASSUME i - k < 0 PROVE FALSE BY <1>4, <2>2
    <3> DEFINE b == m - k
    <3>1. b \in 0 .. L - 1 BY <1>3, <1>4, <2>m, <2>2, <2>4
    <3>2. Cell(b) = <<q, b>>
      <4>1. \A j \in 0 .. L - 1 : Cell(0 + j) = <<q, j>>
        BY <1>1 DEF WholeAt
      <4>2. 0 + b = b BY <3>1
      <4> QED BY <3>1, <4>1, <4>2
    <3>3. Cell(b) = <<p, 0>>
      <4>1. \A j \in 0 .. Total(p) - 1 : Cell(b + j) = <<p, j>>
        BY <2>2 DEF WholeAt
      <4>2. b + 0 = b /\ 0 \in 0 .. Total(p) - 1 BY <2>3, <3>1
      <4> QED BY <4>1, <4>2
    <3>4. p = q /\ b = 0 BY <3>2, <3>3
    <3> QED BY <1>1, <1>3, <1>4, <2>m, <2>2, <3>4
  <2>6. \A j \in 0 .. Total(p) - 1 : Cell(i - k + j)' = <<p, j>>
    <3> SUFFICES ASSUME NEW j \in 0 .. Total(p) - 1
                 PROVE  Cell(i - k + j)' = <<p, j>>
      OBVIOUS
    <3>0. /\ i \in Int /\ j \in Nat /\ k \in Int /\ L \in Int
          /\ Total(p) \in Int /\ Used \in Int /\ j <= Total(p) - 1
      BY <1>0, <1>2, <1>3, <1>4, <2>2, <2>3
    <3>1. /\ i - k + j \in 0 .. Used - L - 1
          /\ L + (i - k + j) = (m - k) + j
      BY <2>4, <2>5, <2>m, <3>0, ShiftBack
    <3>2. Cell((m - k) + j) = <<p, j>> BY <2>2 DEF WholeAt
    <3> QED BY <1>2, <3>1, <3>2
  <2>7. WholeAt(p, i - k)'
    <3>1. i \in Int /\ Used' \in Int BY <1>0, <1>2, <1>3, <1>4
    <3>2. i - k + Total(p) <= Used'
      BY <1>0, <1>2, <1>3, <2>m, <2>2, <2>3, <2>4, <3>1
    <3> QED BY <2>5, <2>6, <3>2 DEF WholeAt, Total
  <2>8. Cell(i)' = <<p, k>> BY <1>2, <1>4, <2>m, <2>2
  <2> QED BY <2>2, <2>7, <2>8
<1> QED BY <1>4 DEF Framed, Total

-----------------------------------------------------------------------------
(* What a send holds is not disturbed by the others. *)
LEMMA SendingNext ==
  ASSUME IInv, Framed', TypeOK', [Next]_vars
  PROVE  Sending'
<1>0. Used \in 0 .. Size - 1 BY UsedType DEF IInv, TypeOK
<1>1. ASSUME NEW s \in Sender, NEW p \in Pkg, SendBegin(s, p) PROVE Sending'
  <2>1. Used + Total(p) < Size
    <3>1. Empty = Size - Used BY UsedType DEF IInv, TypeOK
    <3>2. Total(p) \in Nat BY TotalType
    <3> QED BY <1>0, <1>1, <3>1, <3>2, RingConstantsOK DEF SendBegin
  <2>2. w'[s] = [WIdle EXCEPT !.pc = "copy", !.pkg = p, !.pos = tail]
    BY <1>1 DEF SendBegin, IInv, TypeOK
  <2>3. w'[s].pkg = p /\ w'[s].n = 0 /\ w'[s].pos = tail BY <2>2 DEF WIdle
  <2>4. /\ \A t \in Sender \ {s} : w'[t] = w[t] /\ w[t].pc = "idle"
        /\ Used' = Used /\ tail' = tail /\ tail = At(tail, 0)
    <3>1. \A t \in Sender \ {s} : w'[t] = w[t] BY <1>1 DEF SendBegin, IInv, TypeOK
    <3>2. \A t \in Sender \ {s} : w[t].pc = "idle"
      BY <1>1 DEF SendBegin, IInv, TypeOK, Nobody
    <3>3. head' = head /\ tail' = tail BY <1>1 DEF SendBegin
    <3>4. Used' = Used BY <3>3 DEF Used
    <3>5. tail \in 0 .. Size - 1 BY DEF IInv, TypeOK
    <3>6. tail = At(tail, 0) BY <3>5, RingConstantsOK DEF At
    <3> QED BY <3>1, <3>2, <3>3, <3>4, <3>6
  <2>5. ASSUME NEW t \in Sender, w'[t].pc = "copy"
        PROVE  t = s
    BY <2>4, <2>5
  <2>6. Total(p) \in Nat BY TotalType
  <2>7. At(tail, 0)' = At(tail, 0) BY <2>4 DEF At
  <2> QED BY <2>1, <2>3, <2>4, <2>5, <2>6, <2>7 DEF Sending, Total
<1>2. ASSUME NEW s \in Sender, SendCopy(s) PROVE Sending'
  <2>1. /\ Used' = Used
        /\ \A j \in 0 .. w[s].n - 1 : buff'[At(tail, j)] = buff[At(tail, j)]
        /\ buff'[At(tail, w[s].n)] = <<w[s].pkg, w[s].n>>
    BY <1>2, CopyBehind DEF IInv
  <2>2. /\ w[s].pkg \in Pkg /\ w[s].n < Total(w[s].pkg) /\ w[s].n \in Nat
        /\ Used + Total(w[s].pkg) < Size /\ w[s].pos = At(tail, w[s].n)
        /\ \A j \in 0 .. w[s].n - 1 : buff[At(tail, j)] = <<w[s].pkg, j>>
    BY <1>2 DEF IInv, TypeOK, Sending, SendCopy
  <2>3. /\ w'[s].pkg = w[s].pkg /\ w'[s].n = w[s].n + 1
        /\ w'[s].pos = Forward(w[s].pos) /\ tail' = tail
    BY <1>2 DEF IInv, TypeOK, SendCopy
  <2>4. \A t \in Sender \ {s} : w'[t] = w[t] /\ w[t].pc = "idle"
    <3>1. \A t \in Sender \ {s} : w'[t] = w[t] BY <1>2 DEF SendCopy, IInv, TypeOK
    <3>2. w[s].pc # "idle" BY <1>2 DEF SendCopy
    <3> QED BY <3>1, <3>2, OneSends DEF IInv
  <2>5. Total(w[s].pkg) \in Nat BY <2>2, TotalType
  <2>6. w'[s].pos = At(tail, w[s].n + 1)
    <3>1. tail \in 0 .. Size - 1 BY DEF IInv, TypeOK
    <3>2. w[s].n \in 0 .. Size - 1 BY <1>0, <2>2, <2>5, RingConstantsOK
    <3> QED BY <2>2, <2>3, <3>1, <3>2, ForwardIsAt
  <2>7. \A j \in 0 .. w[s].n : buff'[At(tail, j)] = <<w[s].pkg, j>>
    <3> SUFFICES ASSUME NEW j \in 0 .. w[s].n
                 PROVE  buff'[At(tail, j)] = <<w[s].pkg, j>>
      OBVIOUS
    <3>1. CASE j = w[s].n BY <2>1, <3>1
    <3>2. CASE j # w[s].n
      <4>1. j \in 0 .. w[s].n - 1 BY <2>2, <3>2
      <4> QED BY <2>1, <2>2, <4>1
    <3> QED BY <3>1, <3>2
  <2>8. \A a, n : At(a, n)' = At(a', n') BY DEF At
  <2>9. ASSUME NEW t \in Sender, w'[t].pc = "copy" PROVE t = s
    BY <2>4, <2>9
  <2>10. Used + Total(w[s].pkg) < Size /\ w'[s].n <= Total(w[s].pkg)
    BY <2>2, <2>3, <2>5
  <2>11. \A j \in 0 .. w'[s].n - 1 : buff'[At(tail', j)] = <<w'[s].pkg, j>>
    BY <2>2, <2>3, <2>7
  <2>12. Sending' = (\A t \in Sender : w'[t].pc = "copy" =>
           /\ w'[t].pkg \in Pkg /\ w'[t].n <= Total(w'[t].pkg)
           /\ Used' + Total(w'[t].pkg) < Size
           /\ w'[t].pos = At(tail', w'[t].n)
           /\ \A j \in 0 .. w'[t].n - 1 : buff'[At(tail', j)] = <<w'[t].pkg, j>>)
    BY DEF Sending, Total, At
  <2> QED BY <2>1, <2>2, <2>3, <2>6, <2>9, <2>10, <2>11, <2>12
<1>3. ASSUME NEW s \in Sender, SendPublish(s) \/ SendLoad(s) \/ SendStore(s)
      PROVE  Sending'
  <2>1. \A t \in Sender \ {s} : w'[t] = w[t] /\ w[t].pc = "idle"
    <3>1. DOMAIN w = Sender BY DEF IInv, TypeOK
    <3>2. w[s].pc # "idle" BY <1>3 DEF SendPublish, SendLoad, SendStore
    <3>3. \A t \in Sender \ {s} : w[t].pc = "idle" BY <3>2, OneSends DEF IInv
    <3>4. CASE SendPublish(s) BY <3>1, <3>3, <3>4 DEF SendPublish
    <3>5. CASE SendLoad(s) BY <3>1, <3>3, <3>5 DEF SendLoad
    <3>6. CASE SendStore(s) BY <3>1, <3>3, <3>6 DEF SendStore
    <3> QED BY <1>3, <3>4, <3>5, <3>6
  <2>2. DOMAIN w = Sender BY DEF IInv, TypeOK
  <2>3. CASE SendPublish(s)
    <3>1. w'[s] = [WIdle EXCEPT !.pc = "load"] BY <2>2, <2>3 DEF SendPublish
    <3> QED BY <2>1, <3>1 DEF Sending, WIdle
  <2>4. CASE SendLoad(s)
    <3>1. w'[s] = [w[s] EXCEPT !.pc = "store", !.cnt = count]
      BY <2>2, <2>4 DEF SendLoad
    <3>2. w[s].pc = "load" BY <2>4 DEF SendLoad
    <3>3. w'[s].pc = "store"
      <4>1. "pc" \in DOMAIN w[s] BY DEF IInv, TypeOK
      <4> QED BY <3>1, <4>1
    <3> QED BY <2>1, <3>3 DEF Sending
  <2>5. CASE SendStore(s)
    <3>1. w'[s] = WIdle BY <2>2, <2>5 DEF SendStore
    <3> QED BY <2>1, <3>1 DEF Sending, WIdle
  <2> QED BY <1>3, <2>3, <2>4, <2>5
<1>4. CASE WriterRestart BY <1>4 DEF WriterRestart, Sending, WIdle
<1>5. CASE RecvAdvance
  <2>1. Used' = Used - Len(r.got) /\ Len(r.got) \in Nat
    <3>1. r.got \in Seq(Byte) BY DEF IInv, TypeOK
    <3> QED BY <1>5, <3>1, AdvanceTakes DEF IInv
  <2>2. w' = w /\ tail' = tail /\ buff' = buff BY <1>5 DEF RecvAdvance
  <2>3. \A t \in Sender : w[t].pc = "copy" =>
           Used' + Total(w[t].pkg) < Size
    <3> SUFFICES ASSUME NEW t \in Sender, w[t].pc = "copy"
                 PROVE  Used' + Total(w[t].pkg) < Size
      OBVIOUS
    <3>1. w[t].pkg \in Pkg /\ Used + Total(w[t].pkg) < Size
      BY DEF IInv, Sending
    <3>2. Total(w[t].pkg) \in Nat BY <3>1, TotalType
    <3> QED BY <1>0, <2>1, <3>1, <3>2, RingConstantsOK
  <2> QED BY <2>2, <2>3 DEF IInv, Sending, Total, At
<1>6. ASSUME UNCHANGED <<buff, head, tail, w>> PROVE Sending'
  <2>1. Used' = Used /\ w' = w /\ tail' = tail /\ buff' = buff
    BY <1>6 DEF Used
  <2> QED BY <2>1 DEF IInv, Sending, At, Total
<1> QED
  BY <1>1, <1>2, <1>3, <1>4, <1>5, <1>6 DEF Next, Writer, Reader, vars,
     RecvBegin, RecvCopy, RecvTooLong, RecvLoad, RecvStore, ReaderRestart

(* What a receive has read stays at the front of the channel. *)
LEMMA ReceivingNext ==
  ASSUME IInv, TypeOK', [Next]_vars
  PROVE  Receiving'
<1>0. Used \in 0 .. Size - 1 /\ (Used = 0 <=> head = tail)
  BY UsedType DEF IInv, TypeOK
<1>t. /\ r.got \in Seq(Byte) /\ Len(r.got) \in Nat
      /\ head \in 0 .. Size - 1
  BY DEF IInv, TypeOK
(* The writer changes nothing in front. *)
<1>1. ASSUME r' = r, head' = head, Used' \in Nat, Used' >= Used,
             \A i \in 0 .. Used - 1 : Cell(i)' = Cell(i)
      PROVE  Receiving'
  <2> SUFFICES ASSUME r.pc # "idle" PROVE Receiving'
    BY <1>1 DEF Receiving
  <2>1. /\ Used > 0 /\ Len(r.got) <= Used /\ r.pos = At(head, Len(r.got))
        /\ \A j \in 1 .. Len(r.got) : r.got[j] = Cell(j - 1)
        /\ r.pc \in {"store", "advance"} => Len(r.got) = Wanted(r.got)
    BY DEF IInv, Receiving
  <2>2. ASSUME NEW j \in 1 .. Len(r.got) PROVE r.got[j] = Cell(j - 1)'
    <3>1. j - 1 \in 0 .. Used - 1 BY <1>0, <1>t, <2>1
    <3> QED BY <1>1, <2>1, <3>1
  <2>3. Used' > 0 /\ Len(r.got) <= Used' BY <1>0, <1>1, <1>t, <2>1
  <2>4. \A n : At(head, n)' = At(head, n') BY <1>1 DEF At
  <2> QED BY <1>1, <2>1, <2>2, <2>3 DEF Receiving, At, Wanted
<1>2. ASSUME NEW s \in Sender, SendCopy(s) PROVE Receiving'
  <2>1. Used' = Used /\ \A i \in 0 .. Used - 1 : Cell(i)' = Cell(i)
    BY <1>2, CopyBehind DEF IInv
  <2> QED BY <1>0, <1>1, <1>2, <2>1 DEF SendCopy
<1>3. ASSUME NEW s \in Sender, SendPublish(s) PROVE Receiving'
  <2>1. /\ w[s].pkg \in Pkg /\ Used' = Used + Total(w[s].pkg)
        /\ \A i \in 0 .. Used - 1 : Cell(i)' = Cell(i)
    BY <1>3, PublishAppends DEF IInv
  <2>2. Total(w[s].pkg) \in Nat BY <2>1, TotalType
  <2>3. Used' \in Nat /\ Used' >= Used BY <1>0, <2>1, <2>2
  <2> QED BY <1>1, <1>3, <2>1, <2>3 DEF SendPublish
<1>4. ASSUME UNCHANGED <<buff, head, tail, r>> PROVE Receiving'
  <2>1. Used' = Used /\ \A i : Cell(i)' = Cell(i) BY <1>4 DEF Used, Cell, At
  <2> QED BY <1>0, <1>1, <1>4, <2>1
<1>5. CASE RecvBegin
  <2>1. r'.got = <<>> /\ r'.pos = head /\ r'.pc = "copy"
    BY <1>5 DEF RecvBegin, RIdle
  <2>2. Used' = Used /\ head' = head /\ Used > 0 /\ head = At(head, 0)
    BY <1>0, <1>5, <1>t, RingConstantsOK DEF RecvBegin, Used, At
  <2> QED BY <1>0, <2>1, <2>2 DEF Receiving, At
<1>6. CASE RecvCopy
  <2>1. PICK p \in Pkg : WholeAt(p, 0) /\ Cell(0) = <<p, 0>>
    BY <1>0, <1>6, FirstIsWhole DEF RecvCopy, IInv, Receiving
  <2>2. /\ r.pc = "copy" /\ Used > 0 /\ Len(r.got) <= Used
        /\ r.pos = At(head, Len(r.got)) /\ Len(r.got) < Wanted(r.got)
        /\ \A j \in 1 .. Len(r.got) : r.got[j] = Cell(j - 1)
    BY <1>6 DEF RecvCopy, IInv, Receiving
  <2>3. Total(p) \in Nat /\ Total(p) <= Used BY <2>1, TotalType DEF WholeAt
  <2>4. Len(r.got) < Total(p)
    <3>1. CASE Len(r.got) < HeadLen
      BY <1>t, <3>1, RingConstantsOK DEF Total
    <3>2. CASE Len(r.got) >= HeadLen
      <4>1. r.got[1] = <<p, 0>>
        BY <1>t, <2>1, <2>2, <3>2, RingConstantsOK
      <4>2. Wanted(r.got) = Total(p)
        BY <1>t, <3>2, <4>1, RingConstantsOK DEF Wanted, Total
      <4> QED BY <2>2, <4>2
    <3> QED BY <1>t, <3>1, <3>2, RingConstantsOK
  <2>5. /\ r'.pc = "copy" /\ r'.got = Append(r.got, buff[r.pos])
        /\ r'.pos = Forward(r.pos)
    BY <1>6 DEF RecvCopy, IInv, TypeOK
  <2>6. buff[r.pos] \in Byte BY DEF IInv, TypeOK
  <2>7. /\ Len(r'.got) = Len(r.got) + 1
        /\ r'.got[Len(r.got) + 1] = buff[r.pos]
        /\ \A j \in 1 .. Len(r.got) : r'.got[j] = r.got[j]
    BY <1>t, <2>5, <2>6
  <2>8. r'.pos = At(head, Len(r.got) + 1)
    <3>1. Len(r.got) \in 0 .. Size - 1
      BY <1>0, <1>t, <2>2, RingConstantsOK
    <3> QED BY <1>t, <2>2, <2>5, <3>1, ForwardIsAt
  <2>9. ASSUME NEW j \in 1 .. Len(r.got) + 1 PROVE r'.got[j] = Cell(j - 1)
    <3>1. CASE j = Len(r.got) + 1
      <4>1. j - 1 = Len(r.got) BY <1>t, <3>1
      <4> QED BY <2>2, <2>7, <3>1, <4>1 DEF Cell
    <3>2. CASE j # Len(r.got) + 1
      <4>1. j \in 1 .. Len(r.got) BY <1>t, <3>2
      <4> QED BY <2>2, <2>7, <4>1
    <3> QED BY <3>1, <3>2
  <2>10. Used' = Used /\ head' = head /\ \A i : Cell(i)' = Cell(i)
    BY <1>6 DEF RecvCopy, Used, Cell, At
  <2>11. Len(r.got) + 1 <= Used BY <1>0, <1>t, <2>3, <2>4
  <2> QED BY <2>2, <2>5, <2>7, <2>8, <2>9, <2>10, <2>11 DEF Receiving, At
<1>7. CASE RecvLoad \/ RecvStore
  <2>1. /\ r'.got = r.got /\ r'.pos = r.pos /\ r.pc # "idle"
        /\ r'.pc \in {"store", "advance"} /\ Len(r.got) = Wanted(r.got)
    BY <1>7 DEF RecvLoad, RecvStore, IInv, TypeOK, Receiving
  <2>2. Used' = Used /\ head' = head /\ \A i : Cell(i)' = Cell(i)
    BY <1>7 DEF RecvLoad, RecvStore, Used, Cell, At
  <2> QED BY <2>1, <2>2 DEF IInv, Receiving, At, Wanted
<1>8. CASE RecvTooLong \/ RecvAdvance \/ ReaderRestart
  BY <1>8 DEF RecvTooLong, RecvAdvance, ReaderRestart, Receiving, RIdle
<1> QED
  BY <1>2, <1>3, <1>4, <1>5, <1>6, <1>7, <1>8 DEF Next, Writer, Reader, vars,
     SendBegin, SendLoad, SendStore, WriterRestart

-----------------------------------------------------------------------------
(* The inductive invariant. *)
LEMMA InvInit == Init => IInv
<1> SUFFICES ASSUME Init PROVE IInv OBVIOUS
<1>1. TypeOK BY TypingInit
<1>2. Used = 0 BY RingConstantsOK DEF Init, Used
<1>3. Framed BY <1>2 DEF Framed
<1>4. Sending /\ Receiving BY DEF Init, Sending, Receiving, WIdle, RIdle
<1> QED BY <1>1, <1>3, <1>4 DEF IInv

LEMMA InvNext == IInv /\ [Next]_vars => IInv'
<1> SUFFICES ASSUME IInv, [Next]_vars PROVE IInv' OBVIOUS
<1>1. TypeOK' BY TypingNext DEF IInv
<1>2. Framed'
  <2>0. Used \in 0 .. Size - 1 BY UsedType DEF IInv, TypeOK
  <2>1. ASSUME NEW s \in Sender, SendCopy(s) PROVE Framed'
    <3>1. Used' = Used /\ \A i \in 0 .. Used - 1 : Cell(i)' = Cell(i)
      BY <2>1, CopyBehind DEF IInv
    <3>2. ASSUME NEW i \in 0 .. Used - 1
          PROVE  \E p \in Pkg, k \in Nat :
                   k < Total(p) /\ WholeAt(p, i - k)' /\ Cell(i)' = <<p, k>>
      <4>1. PICK p \in Pkg, k \in Nat :
               k < Total(p) /\ WholeAt(p, i - k) /\ Cell(i) = <<p, k>>
        BY DEF IInv, Framed
      <4>2. Total(p) \in Nat BY TotalType
      <4>3. i - k >= 0 /\ i - k + Total(p) <= Used BY <4>1 DEF WholeAt
      <4>4. ASSUME NEW j \in 0 .. Total(p) - 1
            PROVE  Cell(i - k + j)' = <<p, j>>
        <5>1. i - k + j \in 0 .. Used - 1 BY <2>0, <4>2, <4>3
        <5> QED BY <3>1, <4>1, <5>1 DEF WholeAt
      <4>5. WholeAt(p, i - k)' BY <3>1, <4>3, <4>4 DEF WholeAt, Total
      <4> QED BY <3>1, <4>1, <4>5
    <3> QED BY <3>1, <3>2 DEF Framed, Total
  <2>2. ASSUME NEW s \in Sender, SendPublish(s) PROVE Framed'
    BY <2>2, FramedPublish DEF IInv
  <2>3. CASE RecvAdvance BY <2>3, FramedAdvance DEF IInv
  <2>4. CASE UNCHANGED <<buff, head, tail>> BY <2>4, Untouched DEF IInv
  <2> QED
    BY <2>1, <2>2, <2>3, <2>4 DEF Next, Writer, Reader, vars, SendBegin,
       SendLoad, SendStore, WriterRestart, RecvBegin, RecvCopy, RecvTooLong,
       RecvLoad, RecvStore, ReaderRestart
<1>3. Sending' BY <1>1, <1>2, SendingNext
<1>4. Receiving' BY <1>1, ReceivingNext
<1> QED BY <1>1, <1>2, <1>3, <1>4 DEF IInv

THEOREM Invariance == Spec => []IInv
BY InvInit, InvNext, PTL DEF Spec

-----------------------------------------------------------------------------
(* The bytes as the sequence of ByteFifo. *)
StreamIsCells ==
  /\ Stream \in Seq(Byte) /\ Len(Stream) = Used
  /\ \A i \in 1 .. Used : Stream[i] = Cell(i - 1)

LEMMA StreamCells == TypeOK => StreamIsCells
<1> SUFFICES ASSUME TypeOK PROVE StreamIsCells OBVIOUS
<1>0. Used \in 0 .. Size - 1 /\ head \in 0 .. Size - 1
  BY UsedType DEF TypeOK
<1>1. ASSUME NEW i \in 1 .. Used PROVE Cell(i - 1) \in Byte
  <2>1. i - 1 \in 0 .. Size BY <1>0, RingConstantsOK
  <2>2. At(head, i - 1) \in 0 .. Size - 1 BY <1>0, <2>1, AtType
  <2> QED BY <2>2 DEF TypeOK, Cell
<1>2. Stream = [i \in 1 .. Used |-> Cell(i - 1)] BY DEF Stream, Cell
<1> QED BY <1>0, <1>1, <1>2 DEF StreamIsCells

LEMMA BytesType ==
  ASSUME NEW p \in Pkg
  PROVE  /\ Fifo!Bytes(p) \in Seq(Byte) /\ Len(Fifo!Bytes(p)) = Total(p)
         /\ Fifo!Total(p) = Total(p)
         /\ \A i \in 1 .. Total(p) : Fifo!Bytes(p)[i] = <<p, i - 1>>
<1>1. Total(p) \in Nat /\ Fifo!Total(p) = Total(p)
  BY TotalType DEF Fifo!Total, Total
<1>2. \A i \in 1 .. Total(p) : <<p, i - 1>> \in Byte BY <1>1 DEF Byte
<1>3. Fifo!Bytes(p) = [i \in 1 .. Total(p) |-> <<p, i - 1>>]
  BY <1>1 DEF Fifo!Bytes
<1> QED BY <1>1, <1>2, <1>3

(* A package is put when the tail moves ... *)
LEMMA PublishPuts ==
  ASSUME IInv, StreamIsCells', NEW s \in Sender, SendPublish(s)
  PROVE  \E p \in Pkg : Fifo!Put(p)
<1>0. Used \in 0 .. Size - 1 BY UsedType DEF IInv, TypeOK
<1>p. PICK p \in Pkg : p = w[s].pkg BY PublishAppends DEF IInv
<1>1. /\ Used' = Used + Total(p) /\ Used' < Size
      /\ \A i \in 0 .. Used - 1 : Cell(i)' = Cell(i)
      /\ \A i \in Used .. Used + Total(p) - 1 : Cell(i)' = <<p, i - Used>>
  BY <1>p, PublishAppends DEF IInv
<1> DEFINE B == Fifo!Bytes(p)
<1>2. /\ B \in Seq(Byte) /\ Len(B) = Total(p) /\ Fifo!Total(p) = Total(p)
      /\ \A i \in 1 .. Total(p) : B[i] = <<p, i - 1>>
      /\ Total(p) \in Nat
  BY BytesType, TotalType
<1> HIDE DEF B
<1>3. StreamIsCells BY StreamCells DEF IInv
<1>4. /\ Stream \o B \in Seq(Byte)
      /\ Len(Stream \o B) = Used + Total(p)
      /\ \A i \in 1 .. Used + Total(p) : (Stream \o B)[i] =
           IF i <= Used THEN Stream[i] ELSE B[i - Used]
  <2>1. Stream \in Seq(Byte) /\ Len(Stream) = Used BY <1>3 DEF StreamIsCells
  <2>2. /\ Stream \o B \in Seq(Byte)
        /\ Len(Stream \o B) = Len(Stream) + Len(B)
        /\ \A i \in 1 .. Len(Stream) + Len(B) : (Stream \o B)[i] =
             IF i <= Len(Stream) THEN Stream[i] ELSE B[i - Len(Stream)]
    BY <1>2, <2>1, ConcatProperties
  <2> QED BY <1>2, <2>1, <2>2
<1>5. ASSUME NEW i \in 1 .. Used + Total(p)
      PROVE  Stream'[i] = (Stream \o B)[i]
  <2>1. Stream'[i] = Cell(i - 1)' BY <1>1 DEF StreamIsCells
  <2>2. CASE i <= Used
    <3>1. i - 1 \in 0 .. Used - 1 /\ i \in 1 .. Used BY <1>0, <1>2, <2>2
    <3> QED BY <1>1, <1>3, <1>4, <2>1, <2>2, <3>1 DEF StreamIsCells
  <2>3. CASE ~(i <= Used)
    <3>1. /\ i - 1 \in Used .. Used + Total(p) - 1
          /\ i - Used \in 1 .. Total(p) /\ (i - 1) - Used = (i - Used) - 1
      BY <1>0, <1>2, <2>3
    <3> QED BY <1>1, <1>2, <1>4, <2>1, <2>3, <3>1
  <2> QED BY <2>2, <2>3
<1>6. Stream' = Stream \o B
  <2>1. Stream' \in Seq(Byte) /\ Len(Stream') = Used + Total(p)
    BY <1>1 DEF StreamIsCells
  <2> QED BY <1>4, <1>5, <2>1, SeqEqual
<1>7. Len(Stream) + Fifo!Total(p) < Size /\ out' = out
  BY <1>1, <1>2, <1>3 DEF StreamIsCells, SendPublish
<1> QED BY <1>6, <1>7 DEF Fifo!Put, B

(* ... and taken when the head moves. *)
LEMMA AdvanceIsTake ==
  ASSUME IInv, StreamIsCells', RecvAdvance
  PROVE  \E p \in Pkg : Fifo!Take(p)
<1>0. Used \in 0 .. Size - 1 BY UsedType DEF IInv, TypeOK
<1>1. PICK p \in Pkg :
         /\ Len(r.got) = Total(p) /\ WholeAt(p, 0)
         /\ \A j \in 1 .. Total(p) : r.got[j] = <<p, j - 1>>
  BY GotWhole DEF RecvAdvance, IInv
<1> DEFINE B == Fifo!Bytes(p)
<1>2. /\ B \in Seq(Byte) /\ Len(B) = Total(p) /\ Fifo!Total(p) = Total(p)
      /\ \A i \in 1 .. Total(p) : B[i] = <<p, i - 1>>
      /\ Total(p) \in Nat
  BY BytesType, TotalType
<1> HIDE DEF B
<1>3. StreamIsCells BY StreamCells DEF IInv
<1>4. Used' = Used - Total(p) /\ Total(p) <= Used
      /\ \A i \in 0 .. Used' - 1 : Cell(i)' = Cell(Total(p) + i)
  <2>1. 0 + Total(p) = Total(p) BY <1>2
  <2> QED BY <1>1, <2>1, AdvanceTakes DEF IInv, WholeAt
<1>5. out' = B
  <2>1. r.got \in Seq(Byte) /\ out' = r.got
    BY DEF IInv, TypeOK, RecvAdvance
  <2> QED BY <1>1, <1>2, <2>1, SeqEqual
<1>6. \A i \in 1 .. Total(p) : Stream[i] = <<p, i - 1>>
  <2> SUFFICES ASSUME NEW i \in 1 .. Total(p)
               PROVE  Stream[i] = <<p, i - 1>>
    OBVIOUS
  <2>1. /\ i \in 1 .. Used /\ i - 1 \in 0 .. Total(p) - 1
        /\ 0 + (i - 1) = i - 1
    BY <1>0, <1>2, <1>4
  <2> QED BY <1>1, <1>3, <2>1 DEF StreamIsCells, WholeAt
<1> DEFINE S == SubSeq(Stream, Total(p) + 1, Used)
<1>7. /\ S \in Seq(Byte) /\ Len(S) = Used - Total(p)
      /\ \A i \in 1 .. Used - Total(p) : S[i] = Stream[Total(p) + i]
  <2>1. \A i \in Total(p) + 1 .. Used : Stream[i] \in Byte
    <3> SUFFICES ASSUME NEW i \in Total(p) + 1 .. Used
                 PROVE  Stream[i] \in Byte
      OBVIOUS
    <3>1. i \in 1 .. Len(Stream) BY <1>0, <1>2, <1>3 DEF StreamIsCells
    <3> QED BY <1>3, <3>1, ElementOfSeq DEF StreamIsCells
  <2>2. Total(p) + 1 \in Int /\ Used \in Int BY <1>0, <1>2
  <2>3. /\ S \in Seq(Byte)
        /\ Len(S) = IF Total(p) + 1 <= Used
                      THEN Used - (Total(p) + 1) + 1 ELSE 0
        /\ \A i \in 1 .. Used - (Total(p) + 1) + 1 :
             S[i] = Stream[Total(p) + 1 + i - 1]
    BY <2>1, <2>2, SubSeqProperties
  <2>4. /\ Used - (Total(p) + 1) + 1 = Used - Total(p)
        /\ Total(p) + 1 > Used => Used - Total(p) = 0
        /\ \A i \in Int : Total(p) + 1 + i - 1 = Total(p) + i
    BY <1>0, <1>2, <1>4
  <2> QED BY <2>2, <2>3, <2>4
<1> HIDE DEF S
<1>8. Stream' = S
  <2>1. Stream' \in Seq(Byte) /\ Len(Stream') = Used - Total(p)
    BY <1>4 DEF StreamIsCells
  <2>2. ASSUME NEW i \in 1 .. Used - Total(p) PROVE Stream'[i] = S[i]
    <3>1. /\ i - 1 \in 0 .. Used' - 1 /\ Total(p) + i \in 1 .. Used
          /\ Total(p) + (i - 1) = (Total(p) + i) - 1
      BY <1>0, <1>2, <1>4
    <3>2. Stream'[i] = Cell(i - 1)' BY <1>4 DEF StreamIsCells
    <3>3. Cell(i - 1)' = Cell(Total(p) + (i - 1)) BY <1>4, <3>1
    <3>4. Stream[Total(p) + i] = Cell((Total(p) + i) - 1)
      BY <1>3, <3>1 DEF StreamIsCells
    <3> QED BY <1>7, <3>1, <3>2, <3>3, <3>4
  <2> QED BY <1>7, <2>1, <2>2, SeqEqual
<1> QED
  BY <1>2, <1>3, <1>4, <1>5, <1>6, <1>8 DEF Fifo!Take, B, S, StreamIsCells

(* Everything else is a stutter of ByteFifo. *)
LEMMA StepRefines ==
  ASSUME IInv, TypeOK', StreamIsCells', [Next]_vars
  PROVE  [Fifo!Next]_<<Stream, out>>
<1>1. ASSUME NEW s \in Sender, SendPublish(s) PROVE Fifo!Next
  BY <1>1, PublishPuts DEF Fifo!Next
<1>2. CASE RecvAdvance BY <1>2, AdvanceIsTake DEF Fifo!Next
<1>3. ASSUME NEW s \in Sender, SendCopy(s) PROVE UNCHANGED <<Stream, out>>
  <2>0. StreamIsCells /\ Used \in 0 .. Size - 1
    BY StreamCells, UsedType DEF IInv, TypeOK
  <2>1. Used' = Used /\ \A i \in 0 .. Used - 1 : Cell(i)' = Cell(i)
    BY <1>3, CopyBehind DEF IInv
  <2>2. ASSUME NEW i \in 1 .. Used PROVE Stream'[i] = Stream[i]
    <3>1. i - 1 \in 0 .. Used - 1 BY <2>0
    <3>2. Stream'[i] = Cell(i - 1)' BY <2>1 DEF StreamIsCells
    <3> QED BY <2>0, <2>1, <3>1, <3>2 DEF StreamIsCells
  <2>3. Stream' = Stream
    <3>1. Stream' \in Seq(Byte) /\ Len(Stream') = Used
      BY <2>1 DEF StreamIsCells
    <3> QED BY <2>0, <2>2, <3>1, SeqEqual DEF StreamIsCells
  <2> QED BY <1>3, <2>3 DEF SendCopy
<1>4. ASSUME UNCHANGED <<buff, head, tail, out>>
      PROVE  UNCHANGED <<Stream, out>>
  BY <1>4, Untouched DEF IInv
<1> QED
  BY <1>1, <1>2, <1>3, <1>4 DEF Next, Writer, Reader, vars, SendBegin,
     SendLoad, SendStore, WriterRestart, RecvBegin, RecvCopy, RecvTooLong,
     RecvLoad, RecvStore, ReaderRestart

(* The ring is a queue of whole packages. *)
THEOREM Refinement == Spec => ImplementsFifo
<1>1. Init => Fifo!Init
  <2> SUFFICES ASSUME Init PROVE Fifo!Init OBVIOUS
  <2>1. StreamIsCells /\ Used = 0
    BY TypingInit, StreamCells, RingConstantsOK DEF Init, Used
  <2>2. Stream = <<>> BY <2>1 DEF StreamIsCells
  <2> QED BY <2>2 DEF Init, Fifo!Init
<1>2. IInv /\ IInv' /\ [Next]_vars => [Fifo!Next]_<<Stream, out>>
  <2>1. (TypeOK => StreamIsCells)' BY StreamCells, PTL
  <2> QED BY <2>1, StepRefines DEF IInv
<1> QED BY <1>1, <1>2, Invariance, PTL DEF Spec, ImplementsFifo, Fifo!Spec
=============================================================================
