-------------------------- MODULE ConnNetOrderProofs --------------------------
(***************************************************************************)
(* The order of what passes the front of conn_serv, for any connections,   *)
(* capacities and plans of the clients:                                    *)
(*                                                                         *)
(*   Requests   main handles the requests of a client in the order they    *)
(*              were sent, and each once, unless some were lost            *)
(*   Keys       what main handles of a game client of this repository, and *)
(*              what the client reads, was made with the key both have     *)
(*   Answered   a client reads the answers in the order main gave them     *)
(*                                                                         *)
(* on the types and the slots of ConnNetProofs.                            *)
(***************************************************************************)
EXTENDS ConnNetProofs

-----------------------------------------------------------------------------
(* The order of the requests: what main handled, what waits for it and     *)
(* what is on its way are numbered without a gap.                          *)

Ids(I, q) == [i \in I |-> q[i].data.id]
\* The numbers f of the places I rise from lo on without a gap, ...
Runs(I, f, lo) ==
  /\ \A i \in I : f[i] > lo /\ (f[i] = lo + 1 \/ \E j \in I : f[j] = f[i] - 1)
  /\ \A i, j \in I : i < j => f[i] < f[j]
\* ... up to hi.
Reaches(I, f, lo, hi) ==
  /\ lo <= hi /\ \A i \in I : f[i] <= hi
  /\ hi = lo \/ \E i \in I : f[i] = hi

\* The same numbers at places moved by k.
LEMMA RunsMove ==
  ASSUME NEW I \in SUBSET Int, NEW J \in SUBSET Int, NEW k \in Int,
         NEW f \in [I -> Int], NEW g \in [J -> Int], NEW lo \in Int, NEW hi \in Int,
         \A j \in J : j + k \in I /\ g[j] = f[j + k],
         \A i \in I : i - k \in J
  PROVE  /\ Runs(I, f, lo) => Runs(J, g, lo)
         /\ Reaches(I, f, lo, hi) => Reaches(J, g, lo, hi)
<1>1. \A i \in I : i - k \in J /\ g[i - k] = f[i]
  OBVIOUS
<1>2. ASSUME Runs(I, f, lo) PROVE Runs(J, g, lo)
  <2>1. ASSUME NEW j \in J
        PROVE  g[j] > lo /\ (g[j] = lo + 1 \/ \E m \in J : g[m] = g[j] - 1)
    <3>1. j + k \in I /\ g[j] = f[j + k] /\ f[j + k] > lo
      BY <1>2, <2>1 DEF Runs
    <3>2. CASE f[j + k] = lo + 1
      BY <3>1, <3>2
    <3>3. CASE \E i \in I : f[i] = f[j + k] - 1
      <4>1. PICK i \in I : f[i] = f[j + k] - 1
        BY <3>3
      <4>2. i - k \in J /\ g[i - k] = g[j] - 1
        BY <1>1, <3>1, <4>1
      <4> QED
        BY <3>1, <4>2
    <3> QED
      BY <1>2, <3>1, <3>2, <3>3 DEF Runs
  <2>2. ASSUME NEW i \in J, NEW j \in J, i < j PROVE g[i] < g[j]
    <3>1. i + k \in I /\ j + k \in I /\ i + k < j + k /\ g[i] = f[i + k] /\ g[j] = f[j + k]
      BY <2>2
    <3> QED
      BY <1>2, <3>1 DEF Runs
  <2> QED
    BY <2>1, <2>2 DEF Runs
<1>3. ASSUME Reaches(I, f, lo, hi) PROVE Reaches(J, g, lo, hi)
  <2>1. \A j \in J : g[j] <= hi
    BY <1>3 DEF Reaches
  <2>2. lo <= hi /\ (hi = lo \/ \E j \in J : g[j] = hi)
    BY <1>1, <1>3 DEF Reaches
  <2> QED
    BY <2>1, <2>2 DEF Reaches
<1> QED
  BY <1>2, <1>3

\* The first number leaves.
LEMMA RunsTake ==
  ASSUME NEW I \in SUBSET Int, NEW J \in SUBSET Int, NEW k \in Int,
         NEW f \in [I -> Int], NEW g \in [J -> Int], NEW lo \in Int, NEW hi \in Int,
         NEW a \in I, \A i \in I : a <= i, a - k \notin J,
         \A j \in J : j + k \in I /\ g[j] = f[j + k],
         \A i \in I : i # a => i - k \in J,
         Runs(I, f, lo)
  PROVE  /\ f[a] = lo + 1 /\ Runs(J, g, lo + 1)
         /\ Reaches(I, f, lo, hi) => Reaches(J, g, lo + 1, hi)
<1>1. \A i \in I : i # a => i - k \in J /\ g[i - k] = f[i] /\ f[a] < f[i]
  BY DEF Runs
<1>2. f[a] = lo + 1
  <2>1. SUFFICES ASSUME NEW i \in I, f[i] = f[a] - 1 PROVE FALSE
    BY DEF Runs
  <2>2. CASE i = a
    BY <2>1, <2>2
  <2>3. CASE i # a
    BY <1>1, <2>1, <2>3
  <2> QED
    BY <2>2, <2>3
<1>3. \A j \in J : j + k \in I /\ j + k # a /\ g[j] = f[j + k]
  OBVIOUS
<1>4. Runs(J, g, lo + 1)
  <2>1. ASSUME NEW j \in J
        PROVE  g[j] > lo + 1 /\ (g[j] = lo + 1 + 1 \/ \E m \in J : g[m] = g[j] - 1)
    <3>1. j + k \in I /\ g[j] = f[j + k] /\ f[j + k] > lo + 1
      BY <1>1, <1>2, <1>3, <2>1
    <3>2. PICK i \in I : f[i] = f[j + k] - 1
      BY <3>1 DEF Runs
    <3>3. CASE i = a
      BY <1>2, <3>1, <3>2, <3>3
    <3>4. CASE i # a
      <4>1. i - k \in J /\ g[i - k] = g[j] - 1
        BY <1>1, <3>1, <3>2, <3>4
      <4> QED
        BY <3>1, <4>1
    <3> QED
      BY <3>3, <3>4
  <2>2. ASSUME NEW i \in J, NEW j \in J, i < j PROVE g[i] < g[j]
    <3>1. i + k \in I /\ j + k \in I /\ i + k < j + k /\ g[i] = f[i + k] /\ g[j] = f[j + k]
      BY <2>2
    <3> QED
      BY <3>1 DEF Runs
  <2> QED
    BY <2>1, <2>2 DEF Runs
<1>5. ASSUME Reaches(I, f, lo, hi) PROVE Reaches(J, g, lo + 1, hi)
  <2>1. \A j \in J : g[j] <= hi
    BY <1>3, <1>5 DEF Reaches
  <2>2. lo + 1 <= hi
    BY <1>2, <1>5 DEF Reaches
  <2>3. hi = lo + 1 \/ \E j \in J : g[j] = hi
    BY <1>1, <1>2, <1>5, <2>2 DEF Reaches
  <2> QED
    BY <2>1, <2>2, <2>3 DEF Reaches
<1> QED
  BY <1>2, <1>4, <1>5

\* A next number joins.
LEMMA RunsAdd ==
  ASSUME NEW I \in SUBSET Int, NEW J \in SUBSET Int,
         NEW f \in [I -> Int], NEW g \in [J -> Int], NEW lo \in Int, NEW hi \in Int,
         NEW b \in J, b \notin I, J = I \cup {b}, \A i \in I : i < b /\ g[i] = f[i],
         g[b] = hi + 1, Runs(I, f, lo), Reaches(I, f, lo, hi)
  PROVE  Runs(J, g, lo) /\ Reaches(J, g, lo, hi + 1)
<1>1. \A i \in I : g[i] > lo /\ g[i] <= hi /\ g[i] < g[b]
  BY DEF Runs, Reaches
<1>2. ASSUME NEW j \in J
      PROVE  g[j] > lo /\ (g[j] = lo + 1 \/ \E m \in J : g[m] = g[j] - 1)
  <2>1. CASE j \in I
    BY <2>1 DEF Runs
  <2>2. CASE j = b
    BY <2>2 DEF Reaches
  <2> QED
    BY <2>1, <2>2
<1>3. ASSUME NEW i \in J, NEW j \in J, i < j PROVE g[i] < g[j]
  <2>1. i \in I
    BY <1>3
  <2>2. CASE j \in I
    BY <1>3, <2>1, <2>2 DEF Runs
  <2>3. CASE j = b
    BY <1>1, <2>1, <2>3
  <2> QED
    BY <2>2, <2>3
<1>4. Runs(J, g, lo)
  BY <1>2, <1>3 DEF Runs
<1>5. lo <= hi + 1 /\ \A j \in J : g[j] <= hi + 1
  BY <1>1 DEF Reaches
<1> QED
  BY <1>4, <1>5 DEF Reaches

\* The last numbers go.
LEMMA RunsCut ==
  ASSUME NEW I \in SUBSET Int, NEW J \in SUBSET I,
         NEW f \in [I -> Int], NEW g \in [J -> Int], NEW lo \in Int,
         \A j \in J : g[j] = f[j], \A i \in I, j \in J : i < j => i \in J, Runs(I, f, lo)
  PROVE  Runs(J, g, lo)
<1>1. ASSUME NEW j \in J
      PROVE  g[j] > lo /\ (g[j] = lo + 1 \/ \E m \in J : g[m] = g[j] - 1)
  <2>1. j \in I /\ g[j] = f[j] /\ f[j] > lo
    BY <1>1 DEF Runs
  <2>2. CASE \E i \in I : f[i] = f[j] - 1
    <3>1. PICK i \in I : f[i] = f[j] - 1
      BY <2>2
    <3>2. ~(j < i) /\ i # j
      BY <2>1, <3>1 DEF Runs
    <3>3. i \in J
      BY <2>1, <3>1, <3>2
    <3> QED
      BY <2>1, <3>1, <3>3
  <2> QED
    BY <2>1, <2>2 DEF Runs
<1>2. \A i, j \in J : i < j => g[i] < g[j]
  BY DEF Runs
<1> QED
  BY <1>1, <1>2 DEF Runs

LEMMA RunsNone ==
  ASSUME NEW f, NEW lo \in Int
  PROVE  Runs({}, f, lo) /\ Reaches({}, f, lo, lo)
BY DEF Runs, Reaches

\* A stream: heads and data in turn, the requests of c numbered from mid on ...
Heads(q) == {i \in 1 .. Len(q) : q[i].part = "head" /\ q[i].op = "normal"}
Alternate(q) ==
  \A i \in 1 .. Len(q) :
    /\ q[i].part \in {"head", "data"} /\ (i = 1 => q[i].part = "head")
    /\ i < Len(q) /\ q[i].part = "head" => q[i + 1] = [q[i] EXCEPT !.part = "data"]
    /\ i < Len(q) /\ q[i].part = "data" => q[i + 1].part = "head"
OfClient(q, c) == \A i \in Heads(q) : q[i].data.from = c /\ q[i].data.len = 1
GoodStream(q, c, mid) ==
  Alternate(q) /\ OfClient(q, c) /\ Runs(Heads(q), Ids(Heads(q), q), mid)
\* ... and all there, up to the last one sent.
Whole(q) == \A i \in 1 .. Len(q) : i = Len(q) => q[i].part = "data"
FullStream(q, mid, sent) == Whole(q) /\ Reaches(Heads(q), Ids(Heads(q), q), mid, sent)

LEMMA IdsAre ==
  ASSUME NEW q \in Seq(Cells)
  PROVE  Heads(q) \in SUBSET Int /\ Ids(Heads(q), q) \in [Heads(q) -> Int]
<1>1. Heads(q) \in SUBSET Int
  BY DEF Heads
<1>2. \A i \in Heads(q) : q[i] \in Cells
  BY DEF Heads
<1>3. \A i \in Heads(q) : q[i].data.id \in Int
  BY <1>2 DEF Cells, Datas
<1> QED
  BY <1>1, <1>3 DEF Ids

\* The first package of a stream is taken.
LEMMA StreamTake ==
  ASSUME NEW q \in Seq(Cells), NEW r \in Seq(Cells), NEW c, NEW mid \in Int, NEW sent \in Int,
         Len(q) >= 2, Len(r) = Len(q) - 2, \A i \in 1 .. Len(r) : r[i] = q[i + 2],
         GoodStream(q, c, mid)
  PROVE  /\ q[1].part = "head" /\ q[2] = [q[1] EXCEPT !.part = "data"]
         /\ q[1].op # "normal" => /\ GoodStream(r, c, mid)
                                  /\ FullStream(q, mid, sent) => FullStream(r, mid, sent)
         /\ q[1].op = "normal" => /\ q[1].data.from = c /\ q[1].data.id = mid + 1 /\ q[1].data.len = 1
                                  /\ GoodStream(r, c, mid + 1)
                                  /\ FullStream(q, mid, sent) => FullStream(r, mid + 1, sent)
<1> DEFINE k == 1
<1>1. Len(q) \in Nat /\ Len(r) \in Nat
  OBVIOUS
<1>2. k \in 1 .. Len(q) /\ k < Len(q) /\ k + 1 \in 1 .. Len(q) /\ k + 1 = 2
  BY <1>1
<1>3. q[k] \in Cells
  BY <1>2
<1>4. /\ \A i \in 1 .. Len(r) : i + 2 \in 1 .. Len(q) /\ i + 2 # k /\ i + 2 # k + 1
      /\ \A i \in 1 .. Len(q) : i # k /\ i # k + 1 => i - 2 \in 1 .. Len(r) /\ (i - 2) + 2 = i
      /\ \A i \in 1 .. Len(r) : (i < Len(r) <=> i + 2 < Len(q)) /\ (i + 1) + 2 = (i + 2) + 1
                                /\ (i < Len(r) => i + 1 \in 1 .. Len(r)) /\ i + 2 > 2
                                /\ (i = 1 => i + 2 = (k + 1) + 1) /\ k + 1 < i + 2
                                /\ (i = Len(r) => i + 2 = Len(q))
      /\ \A i \in 1 .. Len(q) : k <= i
      /\ 1 \in 1 .. Len(r) => k + 1 < Len(q)
      /\ k - 2 \notin 1 .. Len(r)
  BY <1>1
<1> HIDE DEF k
<1>5. q[k].part = "head" /\ q[k + 1] = [q[k] EXCEPT !.part = "data"]
  <2>1. k = 1
    BY DEF k
  <2> QED
    BY <1>2, <2>1 DEF GoodStream, Alternate
<1>6. q[k + 1].part = "data"
  BY <1>3, <1>5 DEF Cells
<1>7. Alternate(r)
  <2> SUFFICES ASSUME NEW i \in 1 .. Len(r)
               PROVE  /\ r[i].part \in {"head", "data"} /\ (i = 1 => r[i].part = "head")
                      /\ i < Len(r) /\ r[i].part = "head" => r[i + 1] = [r[i] EXCEPT !.part = "data"]
                      /\ i < Len(r) /\ r[i].part = "data" => r[i + 1].part = "head"
    BY DEF Alternate
  <2>1. i + 2 \in 1 .. Len(q) /\ r[i] = q[i + 2]
    BY <1>4
  <2>2. /\ q[i + 2].part \in {"head", "data"}
        /\ i + 2 < Len(q) /\ q[i + 2].part = "head" => q[(i + 2) + 1] = [q[i + 2] EXCEPT !.part = "data"]
        /\ i + 2 < Len(q) /\ q[i + 2].part = "data" => q[(i + 2) + 1].part = "head"
    BY <2>1 DEF GoodStream, Alternate
  <2>3. i < Len(r) => r[i + 1] = q[(i + 2) + 1] /\ i + 2 < Len(q)
    BY <1>4
  <2>4. i = 1 => r[i].part = "head"
    <3>1. i = 1 => k + 1 < Len(q) /\ i + 2 = (k + 1) + 1
      BY <1>4
    <3>2. k + 1 < Len(q) => q[(k + 1) + 1].part = "head"
      BY <1>2, <1>6 DEF GoodStream, Alternate
    <3> QED
      BY <2>1, <3>1, <3>2
  <2> QED
    BY <2>1, <2>2, <2>3, <2>4
<1> DEFINE I == Heads(q)
           J == Heads(r)
           f == Ids(I, q)
           g == Ids(J, r)
           d == 2
<1>8. /\ I \in SUBSET Int /\ J \in SUBSET Int /\ f \in [I -> Int] /\ g \in [J -> Int]
      /\ Runs(I, f, mid) /\ d \in Int
  BY IdsAre DEF GoodStream
<1>9. \A j \in J : j + d \in I /\ r[j] = q[j + d] /\ j \in 1 .. Len(r)
  BY <1>4 DEF Heads
<1>10. \A j \in J : g[j] = f[j + d]
  BY <1>9 DEF Ids
<1>11. \A i \in I : i # k => i - d \in J
  <2> SUFFICES ASSUME NEW i \in I, i # k PROVE i - d \in J
    OBVIOUS
  <2>1. i # k + 1
    BY <1>6 DEF Heads
  <2>2. i \in 1 .. Len(q) /\ q[i].part = "head" /\ q[i].op = "normal"
    BY DEF Heads
  <2>3. i - d \in 1 .. Len(r) /\ (i - d) + 2 = i
    BY <1>4, <2>1, <2>2
  <2>4. r[i - d] = q[i]
    BY <2>3
  <2> QED
    BY <2>2, <2>3, <2>4 DEF Heads
<1>12. k - d \notin J /\ \A i \in I : k <= i
  BY <1>4 DEF Heads
<1>13. OfClient(r, c)
  BY <1>9 DEF OfClient, GoodStream
<1>14. Whole(q) => Whole(r)
  BY <1>4 DEF Whole
<1>15. k \in I <=> q[k].op = "normal"
  BY <1>2, <1>5 DEF Heads
<1> HIDE DEF I, J, d, f, g
<1>16. CASE q[k].op # "normal"
  <2>1. \A i \in I : i - d \in J
    BY <1>11, <1>15, <1>16
  <2>2. Runs(J, g, mid) /\ (Reaches(I, f, mid, sent) => Reaches(J, g, mid, sent))
    BY <1>8, <1>9, <1>10, <2>1, RunsMove
  <2>3. GoodStream(r, c, mid) /\ (FullStream(q, mid, sent) => FullStream(r, mid, sent))
    BY <1>7, <1>13, <1>14, <2>2 DEF GoodStream, FullStream, I, J, f, g
  <2> QED
    BY <1>2, <1>5, <1>16, <2>3 DEF k
<1>17. CASE q[k].op = "normal"
  <2>1. k \in I
    BY <1>15, <1>17
  <2>2. /\ f[k] = mid + 1 /\ Runs(J, g, mid + 1)
        /\ Reaches(I, f, mid, sent) => Reaches(J, g, mid + 1, sent)
    <3>1. /\ \A i \in I : k <= i
          /\ \A j \in J : j + d \in I /\ g[j] = f[j + d]
          /\ \A i \in I : i # k => i - d \in J
          /\ k - d \notin J
      BY <1>9, <1>10, <1>11, <1>12
    <3> QED
      BY <1>8, <2>1, <3>1, RunsTake, ZenonT(120)
  <2>3. q[k].data.from = c /\ q[k].data.len = 1 /\ q[k].data.id = mid + 1
    BY <2>1, <2>2 DEF GoodStream, OfClient, Ids, I, f
  <2>4. GoodStream(r, c, mid + 1) /\ (FullStream(q, mid, sent) => FullStream(r, mid + 1, sent))
    BY <1>7, <1>13, <1>14, <2>2 DEF GoodStream, FullStream, I, J, f, g
  <2> QED
    BY <1>2, <1>5, <1>17, <2>3, <2>4 DEF k
<1> QED
  BY <1>16, <1>17

\* A client sends a package.
LEMMA StreamAdd ==
  ASSUME NEW q \in Seq(Cells), NEW r \in Seq(Cells), NEW c, NEW mid \in Int, NEW sent \in Int,
         NEW op \in Ops, NEW data \in Datas, r = q \o Pkg(op, data),
         GoodStream(q, c, mid), FullStream(q, mid, sent), data.from = c, data.len = 1,
         op = "normal" => data.id = sent + 1
  PROVE  /\ GoodStream(r, c, mid)
         /\ FullStream(r, mid, IF op = "normal" THEN sent + 1 ELSE sent)
<1> DEFINE n == Len(q)
           a == [op |-> op, data |-> data, part |-> "head"]
           b == [op |-> op, data |-> data, part |-> "data"]
<1>1. /\ n \in Nat /\ Len(r) = n + 2 /\ r[n + 1] = a /\ r[n + 2] = b
      /\ \A i \in 1 .. n : r[i] = q[i]
  <2> DEFINE p == Pkg(op, data)
  <2>1. p \in Seq(Cells) /\ Len(p) = 2 /\ p[1] = a /\ p[2] = b
    BY PkgIs
  <2> HIDE DEF p, a, b
  <2>2. /\ Len(q \o p) = Len(q) + Len(p)
        /\ \A i \in 1 .. Len(q) + Len(p) : (q \o p)[i] = IF i <= Len(q) THEN q[i] ELSE p[i - Len(q)]
    BY <2>1, ConcatProperties
  <2>3. r = q \o p
    BY DEF p
  <2>4. Len(q) \in Nat
    OBVIOUS
  <2>5. /\ n + 1 \in 1 .. n + 2 /\ ~(n + 1 <= n) /\ (n + 1) - n = 1
        /\ n + 2 \in 1 .. n + 2 /\ ~(n + 2 <= n) /\ (n + 2) - n = 2
        /\ \A i \in 1 .. n : i \in 1 .. n + 2 /\ i <= n
    BY <2>4
  <2> QED
    BY <2>1, <2>2, <2>3, <2>4, <2>5
<1>2. /\ a.part = "head" /\ a.op = op /\ a.data = data /\ b = [a EXCEPT !.part = "data"]
      /\ b.part = "data" /\ b.data = data
  OBVIOUS
<1> HIDE DEF a, b, n
<1>3. /\ \A i \in 1 .. n + 2 : i \in 1 .. n \/ i = n + 1 \/ i = n + 2
      /\ \A i \in 1 .. n : i # n + 1 /\ i # n + 2 /\ i \in 1 .. n + 2 /\ i < n + 1 /\ i < n + 2
                           /\ (i + 1 \in 1 .. n \/ i + 1 = n + 1) /\ (i < n \/ i = n)
                           /\ (i < n => i + 1 \in 1 .. n)
      /\ n + 1 \in 1 .. n + 2 /\ n + 2 \in 1 .. n + 2 /\ n + 2 # n + 1 /\ (n + 1) + 1 = n + 2
      /\ n + 1 \notin 1 .. n /\ ~(n + 2 < n + 2) /\ n + 1 # Len(r) /\ n + 2 # 1
      /\ (n + 1 = 1 <=> n = 0) /\ (\A i \in 1 .. n : n # 0)
  BY <1>1
<1>4. Alternate(r)
  <2> SUFFICES ASSUME NEW i \in 1 .. Len(r)
               PROVE  /\ r[i].part \in {"head", "data"} /\ (i = 1 => r[i].part = "head")
                      /\ i < Len(r) /\ r[i].part = "head" => r[i + 1] = [r[i] EXCEPT !.part = "data"]
                      /\ i < Len(r) /\ r[i].part = "data" => r[i + 1].part = "head"
    BY DEF Alternate
  <2>0. Len(r) = n + 2
    BY <1>1
  <2>1. CASE i = n + 1
    <3>1. r[i] = a /\ r[i + 1] = b /\ (i = 1 => TRUE) /\ "head" # "data"
      BY <1>1, <1>3, <2>1
    <3> QED
      BY <1>2, <3>1
  <2>2. CASE i = n + 2
    <3>1. r[i] = b /\ i # 1 /\ ~(i < Len(r))
      BY <1>1, <1>3, <2>0, <2>2
    <3> QED
      BY <1>2, <3>1
  <2>3. CASE i \in 1 .. n
    <3>1. /\ q[i].part \in {"head", "data"} /\ (i = 1 => q[i].part = "head")
          /\ i < n /\ q[i].part = "head" => q[i + 1] = [q[i] EXCEPT !.part = "data"]
          /\ i < n /\ q[i].part = "data" => q[i + 1].part = "head"
          /\ i = n => q[i].part = "data"
      BY <2>3 DEF GoodStream, FullStream, Alternate, Whole, n
    <3>2. r[i] = q[i] /\ (i < n => r[i + 1] = q[i + 1]) /\ (i = n => r[i + 1] = a)
      BY <1>1, <1>3, <2>3
    <3>3. i < n \/ i = n
      BY <1>3, <2>3
    <3> QED
      BY <1>2, <3>1, <3>2, <3>3
  <2> QED
    BY <1>3, <2>0, <2>1, <2>2, <2>3
<1>5. Whole(r)
  <2>1. r[Len(r)].part = "data"
    BY <1>1, <1>2
  <2> QED
    BY <2>1 DEF Whole
<1> DEFINE I == Heads(q)
           J == Heads(r)
           f == Ids(I, q)
           g == Ids(J, r)
<1>6. /\ I \in SUBSET Int /\ J \in SUBSET Int /\ f \in [I -> Int] /\ g \in [J -> Int]
      /\ Runs(I, f, mid) /\ Reaches(I, f, mid, sent)
  BY IdsAre DEF GoodStream, FullStream
<1>7. \A i \in I : i \in 1 .. n /\ i \in J /\ r[i] = q[i]
  BY <1>1, <1>3 DEF Heads, n
<1>8. \A j \in J : j \in I \/ j = n + 1
  <2> SUFFICES ASSUME NEW j \in J, j # n + 1 PROVE j \in I
    OBVIOUS
  <2>1. j \in 1 .. n + 2 /\ r[j].part = "head" /\ r[j].op = "normal"
    BY <1>1 DEF Heads
  <2>2. j # n + 2
    BY <1>1, <1>2, <2>1
  <2>3. j \in 1 .. n
    BY <1>3, <2>1, <2>2
  <2> QED
    BY <1>1, <2>1, <2>3 DEF Heads, n
<1>9. n + 1 \in J <=> op = "normal"
  BY <1>1, <1>2, <1>3 DEF Heads
<1>10. n + 1 \notin I
  BY <1>3 DEF Heads, n
<1>11. \A i \in I : i < n + 1 /\ g[i] = f[i]
  BY <1>3, <1>7 DEF Ids
<1>12. OfClient(r, c)
  <2> SUFFICES ASSUME NEW j \in J PROVE r[j].data.from = c /\ r[j].data.len = 1
    BY DEF OfClient
  <2>1. CASE j \in I
    BY <1>7, <2>1 DEF OfClient, GoodStream
  <2>2. CASE j = n + 1
    BY <1>1, <1>2, <2>2
  <2> QED
    BY <1>8, <2>1, <2>2
<1>13. n + 1 \in J => g[n + 1] = data.id
  BY <1>1, <1>2 DEF Ids
<1> HIDE DEF I, J, f, g
<1>14. CASE op = "normal"
  <2> DEFINE m == n + 1
  <2>1. m \in J /\ m \notin I /\ g[m] = sent + 1
    BY <1>9, <1>10, <1>13, <1>14
  <2>2. J = I \cup {m}
    BY <1>7, <1>8, <2>1
  <2>3. \A i \in I : i < m /\ g[i] = f[i]
    BY <1>11
  <2> HIDE DEF m
  <2>4. Runs(J, g, mid) /\ Reaches(J, g, mid, sent + 1)
    BY <1>6, <2>1, <2>2, <2>3, RunsAdd, ZenonT(60)
  <2> QED
    BY <1>4, <1>5, <1>12, <1>14, <2>4 DEF GoodStream, FullStream, J, g
<1>15. CASE op # "normal"
  <2> DEFINE k == 0
  <2>1. J = I
    BY <1>7, <1>8, <1>9, <1>15
  <2>2. k \in Int /\ \A i \in I : i + k = i /\ i - k = i
    BY <1>6
  <2> HIDE DEF k
  <2>3. (\A j \in J : j + k \in I /\ g[j] = f[j + k]) /\ (\A i \in I : i - k \in J)
    BY <1>11, <2>1, <2>2
  <2>4. Runs(J, g, mid) /\ Reaches(J, g, mid, sent)
    BY <1>6, <2>2, <2>3, RunsMove
  <2> QED
    BY <1>4, <1>5, <1>12, <1>15, <2>4 DEF GoodStream, FullStream, J, g
<1> QED
  BY <1>14, <1>15

\* A client goes: what the server did not read of its stream may be lost.
LEMMA StreamCut ==
  ASSUME NEW q \in Seq(Cells), NEW r \in Seq(Cells), NEW c, NEW mid \in Int,
         Len(r) <= Len(q), \A i \in 1 .. Len(r) : r[i] = q[i], GoodStream(q, c, mid)
  PROVE  GoodStream(r, c, mid)
<1>1. Len(q) \in Nat /\ Len(r) \in Nat
  OBVIOUS
<1>2. /\ \A i \in 1 .. Len(r) : i \in 1 .. Len(q) /\ (i < Len(r) => i + 1 \in 1 .. Len(r) /\ i < Len(q))
      /\ \A i \in 1 .. Len(q), j \in 1 .. Len(r) : i < j => i \in 1 .. Len(r)
  BY <1>1
<1>3. Alternate(r)
  BY <1>2 DEF Alternate, GoodStream
<1> DEFINE I == Heads(q)
           J == Heads(r)
           f == Ids(I, q)
           g == Ids(J, r)
<1>4. /\ I \in SUBSET Int /\ f \in [I -> Int] /\ g \in [J -> Int] /\ Runs(I, f, mid)
  BY IdsAre DEF GoodStream
<1>5. \A j \in J : j \in I /\ r[j] = q[j] /\ j \in 1 .. Len(r)
  BY <1>2 DEF Heads
<1>6. \A j \in J : g[j] = f[j]
  BY <1>5 DEF Ids
<1>7. \A i \in I, j \in J : i < j => i \in J
  <2> SUFFICES ASSUME NEW i \in I, NEW j \in J, i < j PROVE i \in J
    OBVIOUS
  <2>1. i \in 1 .. Len(r) /\ i \in 1 .. Len(q) /\ q[i].part = "head" /\ q[i].op = "normal"
    BY <1>2, <1>5 DEF Heads
  <2> QED
    BY <2>1 DEF Heads
<1>8. OfClient(r, c)
  BY <1>5 DEF OfClient, GoodStream
<1> HIDE DEF I, J, f, g
<1>9. J \in SUBSET I
  BY <1>5
<1>10. Runs(J, g, mid)
  BY <1>4, <1>6, <1>7, <1>9, RunsCut
<1> QED
  BY <1>3, <1>8, <1>10 DEF GoodStream, J, g

LEMMA StreamNone ==
  ASSUME NEW c, NEW mid \in Int
  PROVE  GoodStream(<<>>, c, mid) /\ FullStream(<<>>, mid, mid)
<1>1. Len(<<>>) = 0 /\ 1 .. 0 = {}
  OBVIOUS
<1>2. Heads(<<>>) = {}
  BY <1>1 DEF Heads
<1>3. Alternate(<<>>) /\ OfClient(<<>>, c) /\ Whole(<<>>)
  BY <1>1, <1>2 DEF Alternate, OfClient, Whole
<1> QED
  BY <1>2, <1>3, RunsNone DEF GoodStream, FullStream

-----------------------------------------------------------------------------
\* What main has before it: the requests of c from lo on, up to mid.
Waits == Packages \cup Items
AskedIn(q, c) == {i \in 1 .. Len(q) : q[i].key = c /\ q[i].info = "normal"}
GoodQueue(q, c, lo, mid) ==
  LET I == AskedIn(q, c)
  IN  /\ \A i \in I : q[i].data.from = c
      /\ Runs(I, Ids(I, q), lo) /\ Reaches(I, Ids(I, q), lo, mid)

LEMMA AskedIds ==
  ASSUME NEW q \in Seq(Waits), NEW c
  PROVE  AskedIn(q, c) \in SUBSET Int /\ Ids(AskedIn(q, c), q) \in [AskedIn(q, c) -> Int]
<1>1. AskedIn(q, c) \in SUBSET Int
  BY DEF AskedIn
<1>2. \A i \in AskedIn(q, c) : q[i] \in Packages \/ q[i] \in Items
  BY DEF AskedIn, Waits
<1>3. \A i \in AskedIn(q, c) : q[i].data.id \in Int
  BY <1>2 DEF Packages, Items, Datas
<1> QED
  BY <1>1, <1>3 DEF Ids

\* Nothing new of c, and its data is what it was.
LEMMA QueueKeep ==
  ASSUME NEW q \in Seq(Waits), NEW r \in Seq(Waits), NEW c, NEW lo \in Int, NEW mid \in Int,
         Len(q) <= Len(r),
         \A i \in 1 .. Len(q) : /\ r[i].key = q[i].key /\ r[i].info = q[i].info
                                /\ q[i].key = c => r[i].data = q[i].data,
         \A i \in 1 .. Len(r) : i > Len(q) => r[i].key # c \/ r[i].info # "normal",
         GoodQueue(q, c, lo, mid)
  PROVE  GoodQueue(r, c, lo, mid)
<1> DEFINE I == AskedIn(q, c)
           J == AskedIn(r, c)
           f == Ids(I, q)
           g == Ids(J, r)
           k == 0
<1>1. /\ I \in SUBSET Int /\ J \in SUBSET Int /\ f \in [I -> Int] /\ g \in [J -> Int]
      /\ Runs(I, f, lo) /\ Reaches(I, f, lo, mid)
  BY AskedIds DEF GoodQueue
<1>2. /\ Len(q) \in Nat /\ Len(r) \in Nat
  OBVIOUS
<1>3. /\ \A i \in 1 .. Len(q) : i \in 1 .. Len(r)
      /\ \A i \in 1 .. Len(r) : i > Len(q) \/ i \in 1 .. Len(q)
  BY <1>2
<1>4. \A j \in J : j \in I /\ r[j].data = q[j].data
  BY <1>3 DEF AskedIn
<1>5. \A i \in I : i \in J
  BY <1>3 DEF AskedIn
<1>6. \A j \in J : g[j] = f[j]
  BY <1>4 DEF Ids
<1>7. \A i \in J : r[i].data.from = c
  BY <1>4 DEF GoodQueue
<1>8. k \in Int /\ \A i \in I : i + k = i /\ i - k = i
  BY <1>1
<1> HIDE DEF I, J, f, g, k
<1>9. (\A j \in J : j + k \in I /\ g[j] = f[j + k]) /\ (\A i \in I : i - k \in J)
  BY <1>4, <1>5, <1>6, <1>8
<1>10. Runs(J, g, lo) /\ Reaches(J, g, lo, mid)
  BY <1>1, <1>8, <1>9, RunsMove
<1> QED
  BY <1>7, <1>10 DEF GoodQueue, J, g

\* The next request of c.
LEMMA QueueAdd ==
  ASSUME NEW q \in Seq(Waits), NEW x \in Waits, NEW c, NEW lo \in Int, NEW mid \in Int,
         x.key = c, x.info = "normal", x.data.from = c, x.data.id = mid + 1,
         GoodQueue(q, c, lo, mid)
  PROVE  GoodQueue(Append(q, x), c, lo, mid + 1)
<1> DEFINE r == Append(q, x)
           n == Len(q)
           I == AskedIn(q, c)
           J == AskedIn(r, c)
           f == Ids(I, q)
           g == Ids(J, r)
           b == n + 1
<1>1. /\ n \in Nat /\ Len(r) = n + 1 /\ r[n + 1] = x /\ r \in Seq(Waits)
      /\ \A i \in 1 .. n : r[i] = q[i]
  BY AppendProperties
<1> HIDE DEF r
<1>2. /\ I \in SUBSET Int /\ J \in SUBSET Int /\ f \in [I -> Int] /\ g \in [J -> Int]
      /\ Runs(I, f, lo) /\ Reaches(I, f, lo, mid)
  BY <1>1, AskedIds DEF GoodQueue
<1>3. /\ \A i \in 1 .. n : i \in 1 .. n + 1 /\ i < b
      /\ \A i \in 1 .. n + 1 : i \in 1 .. n \/ i = b
      /\ b \in 1 .. n + 1 /\ b \notin 1 .. n
  BY <1>1
<1>4. b \in J /\ b \notin I
  BY <1>1, <1>3 DEF AskedIn
<1>5. \A i \in I : i < b /\ i \in J /\ r[i] = q[i]
  BY <1>1, <1>3 DEF AskedIn
<1>6. \A j \in J : j \in I \/ j = b
  BY <1>1, <1>3 DEF AskedIn
<1>7. \A i \in I : g[i] = f[i]
  BY <1>5 DEF Ids
<1>8. g[b] = mid + 1
  BY <1>1, <1>4 DEF Ids
<1>9. \A j \in J : r[j].data.from = c
  BY <1>1, <1>5, <1>6 DEF GoodQueue
<1> HIDE DEF n, I, J, f, g, b
<1>10. J = I \cup {b} /\ \A i \in I : i < b /\ g[i] = f[i]
  BY <1>4, <1>5, <1>6, <1>7
<1>11. Runs(J, g, lo) /\ Reaches(J, g, lo, mid + 1)
  BY <1>2, <1>4, <1>8, <1>10, RunsAdd, ZenonT(60)
<1> QED
  BY <1>9, <1>11 DEF GoodQueue, J, g, r

\* Main takes the package at the head.
LEMMA QueueTake ==
  ASSUME NEW q \in Seq(Waits), q # <<>>, NEW c, NEW lo \in Int, NEW mid \in Int,
         GoodQueue(q, c, lo, mid)
  PROVE  IF q[1].key = c /\ q[1].info = "normal"
           THEN q[1].data.from = c /\ q[1].data.id = lo + 1 /\ GoodQueue(Tail(q), c, lo + 1, mid)
           ELSE GoodQueue(Tail(q), c, lo, mid)
<1> DEFINE r == Tail(q)
           a == 1
           k == 1
           I == AskedIn(q, c)
           J == AskedIn(r, c)
           f == Ids(I, q)
           g == Ids(J, r)
<1>1. Len(q) \in Nat /\ Len(q) > 0
  BY LenIs
<1>2. /\ r \in Seq(Waits) /\ Len(r) = Len(q) - 1
      /\ \A i \in 1 .. Len(r) : r[i] = q[i + 1]
  BY <1>1
<1> HIDE DEF r
<1>3. /\ I \in SUBSET Int /\ J \in SUBSET Int /\ f \in [I -> Int] /\ g \in [J -> Int]
      /\ Runs(I, f, lo) /\ Reaches(I, f, lo, mid)
  BY <1>2, AskedIds DEF GoodQueue
<1>4. /\ a \in 1 .. Len(q) /\ k \in Int /\ a - k \notin 1 .. Len(r)
      /\ \A i \in 1 .. Len(q) : a <= i
      /\ \A i \in 1 .. Len(q) : i # a => i - k \in 1 .. Len(r) /\ (i - k) + 1 = i
      /\ \A i \in 1 .. Len(r) : i + k \in 1 .. Len(q) /\ i + k # a /\ i + k = i + 1
      /\ a = 1
  BY <1>1, <1>2
<1> HIDE DEF a, k
<1>5. \A j \in J : j + k \in I /\ r[j] = q[j + k]
  BY <1>2, <1>4 DEF AskedIn
<1>6. \A j \in J : g[j] = f[j + k]
  BY <1>5 DEF Ids
<1>7. \A i \in I : i # a => i - k \in J
  <2> SUFFICES ASSUME NEW i \in I, i # a PROVE i - k \in J
    OBVIOUS
  <2>1. i \in 1 .. Len(q) /\ q[i].key = c /\ q[i].info = "normal"
    BY DEF AskedIn
  <2>2. i - k \in 1 .. Len(r) /\ r[i - k] = q[i]
    BY <1>2, <1>4, <2>1
  <2> QED
    BY <2>1, <2>2 DEF AskedIn
<1>8. (\A i \in I : a <= i) /\ a - k \notin J
  BY <1>4 DEF AskedIn
<1>9. \A j \in J : r[j].data.from = c
  BY <1>5 DEF GoodQueue
<1>10. a \in I <=> q[a].key = c /\ q[a].info = "normal"
  BY <1>4 DEF AskedIn
<1>11. a \in I => q[a].data.from = c /\ f[a] = q[a].data.id
  BY DEF GoodQueue, Ids
<1> HIDE DEF I, J, f, g
<1>12. CASE a \in I
  <2>1. /\ \A i \in I : a <= i
        /\ \A j \in J : j + k \in I /\ g[j] = f[j + k]
        /\ \A i \in I : i # a => i - k \in J
        /\ a - k \notin J
    BY <1>5, <1>6, <1>7, <1>8
  <2>2. k \in Int
    BY <1>4
  <2>3. /\ f[a] = lo + 1 /\ Runs(J, g, lo + 1)
        /\ Reaches(I, f, lo, mid) => Reaches(J, g, lo + 1, mid)
    BY <1>3, <1>12, <2>1, <2>2, RunsTake, ZenonT(120)
  <2>4. GoodQueue(r, c, lo + 1, mid)
    BY <1>3, <1>9, <2>3 DEF GoodQueue, J, g
  <2> QED
    BY <1>4, <1>10, <1>11, <1>12, <2>3, <2>4 DEF r
<1>13. CASE a \notin I
  <2>1. \A i \in I : i - k \in J
    BY <1>7, <1>13
  <2>2. Runs(J, g, lo) /\ Reaches(J, g, lo, mid)
    BY <1>3, <1>4, <1>5, <1>6, <2>1, RunsMove
  <2>3. GoodQueue(r, c, lo, mid)
    BY <1>9, <2>2 DEF GoodQueue, J, g
  <2> QED
    BY <1>4, <1>10, <1>13, <2>3 DEF r
<1> QED
  BY <1>12, <1>13

LEMMA QueueNone ==
  ASSUME NEW c, NEW lo \in Int
  PROVE  GoodQueue(<<>>, c, lo, lo)
<1>1. AskedIn(<<>>, c) = {}
  BY DEF AskedIn
<1> QED
  BY <1>1, RunsNone DEF GoodQueue

-----------------------------------------------------------------------------
\* What is on its way from a client: the rest of its cache, then its socket.
RestOf(me) == SubSeq(me.recv_cache, me.off + 1, Len(me.recv_cache))
Stream(c) == RestOf(cl[c]) \o net[c].up
Parsing(me) == me.pc \in {"parse", "append"}
Offset(c) ==
  /\ cl[c].stat # "closing" => /\ cl[c].off = 0 \/ cl[c].off < Len(cl[c].recv_cache)
                               /\ ~Parsing(cl[c]) => cl[c].off = 0
  /\ cl[c].stat = "none" => cl[c].recv_cache = <<>>
  /\ cli[c].main = "start" => net[c].up = <<>> /\ cli[c].sent = 0

\* A step that leaves the stream alone, or closes the connection.
Rested(c) ==
  /\ Offset(c)'
  /\ cl'[c].stat # "closing" => cl[c].stat # "closing" /\ Stream(c)' = Stream(c)
Quiet(me, it) ==
  \/ it.stat = "closing"
  \/ /\ it.recv_cache = me.recv_cache /\ it.off = me.off /\ it.stat = me.stat
     /\ Parsing(me) => Parsing(it)

LEMMA QuietRests ==
  ASSUME NEW c \in Conn, Offset(c), Quiet(cl[c], cl'[c]), net'[c].up = net[c].up,
         cli'[c].main = cli[c].main, cli'[c].sent = cli[c].sent
  PROVE  Rested(c)
<1>1. CASE cl'[c].stat = "closing"
  BY <1>1 DEF Rested, Offset
<1>2. CASE cl'[c].stat # "closing"
  <2>1. /\ cl'[c].recv_cache = cl[c].recv_cache /\ cl'[c].off = cl[c].off
        /\ cl'[c].stat = cl[c].stat /\ (Parsing(cl[c]) => Parsing(cl'[c]))
    BY <1>2 DEF Quiet
  <2>2. Stream(c)' = Stream(c)
    BY <2>1 DEF Stream, RestOf
  <2>3. Offset(c)'
    BY <2>1 DEF Offset, Parsing
  <2> QED
    BY <1>2, <2>1, <2>2, <2>3 DEF Rested
<1> QED
  BY <1>1, <1>2

LEMMA ClosingQuiet ==
  ASSUME Typed, NEW c \in Conn, NEW b, Closing(c, b)
  PROVE  Quiet(cl[c], cl'[c])
BY CellsTyped DEF Closing, Quiet, ClientType

LEMMA FlushQuiet ==
  ASSUME Typed, NEW c \in Conn, NEW cache \in Seq(Cells), NEW done \in ClientType, NEW part \in ClientType,
         Flush(c, cache, done, part),
         \A it \in {done, part} : /\ it.recv_cache = cl[c].recv_cache /\ it.off = cl[c].off
                                  /\ it.stat = cl[c].stat,
         ~Parsing(cl[c])
  PROVE  Quiet(cl[c], cl'[c]) /\ net'[c].up = net[c].up
<1>1. CASE Closing(c, FALSE) /\ UNCHANGED <<net, marred>>
  BY <1>1, ClosingQuiet
<1>2. ASSUME NEW it \in {done, part}, NEW q, cl' = [cl EXCEPT ![c] = [it EXCEPT !.snd_cache = q]]
      PROVE  Quiet(cl[c], cl'[c])
  <2>1. cl'[c] = [it EXCEPT !.snd_cache = q] /\ it \in ClientType
    BY <1>2, CellsTyped
  <2>2. cl'[c].recv_cache = it.recv_cache /\ cl'[c].off = it.off /\ cl'[c].stat = it.stat
    BY <2>1 DEF ClientType
  <2> QED
    BY <1>2, <2>2 DEF Quiet
<1>3. ASSUME NEW q, net' = [net EXCEPT ![c].down = @ \o q] PROVE net'[c].up = net[c].up
  BY <1>3, CellsTyped DEF PeerType
<1>4. CASE /\ net' = [net EXCEPT ![c].down = @ \o cache]
           /\ cl' = [cl EXCEPT ![c] = [done EXCEPT !.snd_cache = <<>>]]
           /\ UNCHANGED marred
           /\ UNCHANGED close_ch /\ net[c].peer = "open"
  BY <1>2, <1>3, <1>4
<1>5. ASSUME NEW n \in Nat, n <= Len(cache),
             net' = [net EXCEPT ![c].down = @ \o SubSeq(cache, 1, n)],
             cl' = [cl EXCEPT ![c] = [part EXCEPT !.snd_cache = cache]],
             Mar(c, IF n > 0 THEN {"torn"} ELSE {})
      PROVE  Quiet(cl[c], cl'[c]) /\ net'[c].up = net[c].up
  BY <1>2, <1>3, <1>5
<1> QED
  BY <1>1, <1>4, <1>5, FlushIs

LEMMA SendFirstQuiet ==
  ASSUME Typed, NEW c \in Conn, SendFirst(c)
  PROVE  Quiet(cl[c], cl'[c]) /\ net'[c].up = net[c].up
<1> DEFINE me == cl[c]
           go == [me EXCEPT !.pc = IF me.snd_queue = <<>> THEN "read" ELSE "out",
                            !.left = Len(me.snd_queue)]
           back == [me EXCEPT !.pc = "read"]
<1>1. me \in ClientType /\ me.snd_cache \in Seq(Cells) /\ me.pc = "send" /\ Len(me.snd_queue) \in Nat
  BY CellsTyped DEF SendFirst
<1>2. /\ go \in ClientType /\ back \in ClientType
      /\ \A it \in {go, back} : /\ it.recv_cache = me.recv_cache /\ it.off = me.off
                                /\ it.stat = me.stat
  BY <1>1 DEF ClientType
<1>3. ~Parsing(cl[c])
  BY <1>1 DEF Parsing
<1>4. \/ cl' = [cl EXCEPT ![c] = go] /\ UNCHANGED net
      \/ Flush(c, me.snd_cache, go, back)
  BY DEF SendFirst
<1> HIDE DEF go, back
<1>5. CASE cl' = [cl EXCEPT ![c] = go] /\ UNCHANGED net
  <2>1. cl'[c] = go
    BY <1>5, CellsTyped
  <2> QED
    BY <1>2, <1>3, <1>5, <2>1 DEF Quiet
<1>6. CASE Flush(c, me.snd_cache, go, back)
  BY <1>1, <1>2, <1>3, <1>6, FlushQuiet
<1> QED
  BY <1>4, <1>5, <1>6

LEMMA SendPkgQuiet ==
  ASSUME Typed, NEW c \in Conn, SendPkg(c)
  PROVE  Quiet(cl[c], cl'[c]) /\ net'[c].up = net[c].up
<1> DEFINE me == cl[c]
           p == Head(me.snd_queue)
           pkg == Pkg(p.op, Encrypted(me, p))
<1>1. /\ me.snd_queue # <<>> /\ me.pc = "out" /\ me.left > 0
      /\ me.snd_queue \in Seq(Items) /\ p \in Items
      /\ \/ Closing(c, TRUE) /\ UNCHANGED <<net, marred>>
         \/ \E left \in {0, me.left - 1} :
              /\ cl' = [cl EXCEPT ![c] = Kept(me, c, me.cap, left)] /\ UNCHANGED net
         \/ \E cap \in Nat : Flush(c, pkg, Kept(me, c, cap, me.left - 1), Kept(me, c, cap, 0))
  BY SendPkgIs
<1>2. me \in ClientType /\ Own(me, c) /\ me.cap \in Nat
  BY CellsTyped DEF ClientType
<1>3. pkg \in Seq(Cells)
  BY <1>1, <1>2, EncryptedIs, PkgIs
<1>4. ~Parsing(cl[c])
  BY <1>1 DEF Parsing
<1> HIDE DEF p, pkg
<1>5. ASSUME NEW cap \in Nat, NEW left \in {0, me.left - 1}
      PROVE  /\ Kept(me, c, cap, left) \in ClientType
             /\ Kept(me, c, cap, left).recv_cache = me.recv_cache
             /\ Kept(me, c, cap, left).off = me.off /\ Kept(me, c, cap, left).stat = me.stat
  <2>1. Kept(me, c, cap, left) \in ClientType
    BY <1>1, <1>2, KeptIs
  <2> QED
    BY <1>2, <2>1 DEF Kept, ClientType
<1>6. CASE Closing(c, TRUE) /\ UNCHANGED <<net, marred>>
  BY <1>6, ClosingQuiet
<1>7. ASSUME NEW left \in {0, me.left - 1},
             cl' = [cl EXCEPT ![c] = Kept(me, c, me.cap, left)] /\ UNCHANGED net
      PROVE  Quiet(cl[c], cl'[c]) /\ net'[c].up = net[c].up
  <2>1. cl'[c] = Kept(me, c, me.cap, left)
    BY <1>7, CellsTyped
  <2> QED
    BY <1>2, <1>4, <1>5, <1>7, <2>1 DEF Quiet
<1>8. ASSUME NEW cap \in Nat, Flush(c, pkg, Kept(me, c, cap, me.left - 1), Kept(me, c, cap, 0))
      PROVE  Quiet(cl[c], cl'[c]) /\ net'[c].up = net[c].up
  <2> DEFINE done == Kept(me, c, cap, me.left - 1)
             part == Kept(me, c, cap, 0)
  <2>1. /\ done \in ClientType /\ part \in ClientType
        /\ \A it \in {done, part} : /\ it.recv_cache = cl[c].recv_cache /\ it.off = cl[c].off
                                    /\ it.stat = cl[c].stat
    BY <1>5
  <2> HIDE DEF done, part
  <2>2. Flush(c, pkg, done, part)
    BY <1>8 DEF done, part
  <2> QED
    BY <1>3, <1>4, <2>1, <2>2, FlushQuiet
<1> QED
  BY <1>1, <1>6, <1>7, <1>8

\* A turn of a client that neither reads nor parses.
LEMMA TurnQuiet ==
  ASSUME Typed, NEW c \in Conn,
         ReadTimeout(c) \/ ReadClosed(c) \/ AppendOwn(c) \/ SendFirst(c) \/ SendPkg(c) \/ SendEnd(c)
  PROVE  Quiet(cl[c], cl'[c]) /\ net'[c].up = net[c].up
<1>1. CASE ReadTimeout(c)
  <2>1. cl' = [cl EXCEPT ![c].pc = "send"] /\ UNCHANGED net /\ cl[c].pc = "read"
    BY <1>1 DEF ReadTimeout
  <2> QED
    BY <2>1, CellsTyped DEF Quiet, Parsing, ClientType
<1>2. CASE ReadClosed(c)
  BY <1>2, ClosingQuiet DEF ReadClosed
<1>3. CASE AppendOwn(c)
  <2>1. /\ cl' = [cl EXCEPT ![c].snd_queue = Append(@, cl[c].item), ![c].item = NoItem, ![c].pc = "parse"]
        /\ UNCHANGED net
    BY <1>3 DEF AppendOwn
  <2> QED
    BY <2>1, CellsTyped DEF Quiet, Parsing, ClientType
<1>4. CASE SendEnd(c)
  <2>1. /\ \E cap, q : cl' = [cl EXCEPT ![c] = [cl[c] EXCEPT !.pc = "read", !.cap = cap, !.snd_cache = q]]
        /\ UNCHANGED net /\ cl[c].pc = "out"
    BY <1>4 DEF SendEnd
  <2>2. PICK cap, q : cl' = [cl EXCEPT ![c] = [cl[c] EXCEPT !.pc = "read", !.cap = cap, !.snd_cache = q]]
    BY <2>1
  <2>3. /\ cl'[c].recv_cache = cl[c].recv_cache /\ cl'[c].off = cl[c].off /\ cl'[c].stat = cl[c].stat
    BY <2>2, CellsTyped DEF ClientType
  <2> QED
    BY <2>1, <2>3 DEF Quiet, Parsing
<1> QED
  BY <1>1, <1>2, <1>3, <1>4, SendFirstQuiet, SendPkgQuiet

Start(q, n) == SubSeq(q, 1, n)
Beyond(q, n) == SubSeq(q, n + 1, Len(q))
LEMMA Whole3 ==
  ASSUME NEW S, NEW p \in Seq(S), NEW q \in Seq(S), NEW n \in 1 .. Len(q)
  PROVE  /\ Start(q, n) \in Seq(S) /\ Beyond(q, n) \in Seq(S) /\ (p \o Start(q, n)) \in Seq(S)
         /\ (p \o Start(q, n)) \o Beyond(q, n) = p \o q
<1> DEFINE h == SubSeq(q, 1, n)
           t == SubSeq(q, n + 1, Len(q))
<1>1. Len(q) \in Nat /\ n \in Nat /\ n <= Len(q) /\ Len(p) \in Nat
  OBVIOUS
<1>2. /\ h \in Seq(S) /\ Len(h) = n /\ \A i \in 1 .. n : h[i] = q[i]
  BY <1>1
<1>3. /\ t \in Seq(S) /\ Len(t) = Len(q) - n /\ \A i \in 1 .. Len(q) - n : t[i] = q[n + i]
  BY <1>1
<1> HIDE DEF h, t
<1>4. /\ (p \o h) \in Seq(S) /\ Len(p \o h) = Len(p) + n
      /\ \A i \in 1 .. Len(p) + n : (p \o h)[i] = IF i <= Len(p) THEN p[i] ELSE h[i - Len(p)]
  BY <1>2, ConcatProperties
<1>5. /\ (p \o q) \in Seq(S) /\ Len(p \o q) = Len(p) + Len(q)
      /\ \A i \in 1 .. Len(p) + Len(q) : (p \o q)[i] = IF i <= Len(p) THEN p[i] ELSE q[i - Len(p)]
  BY ConcatProperties
<1> DEFINE a == p \o h
           m == Len(p) + n
           b == p \o q
<1>6. a \in Seq(S) /\ Len(a) = m /\ m \in Nat
  BY <1>1, <1>4
<1>7. b \in Seq(S) /\ Len(b) = Len(p) + Len(q)
  BY <1>5
<1>8. /\ (a \o t) \in Seq(S) /\ Len(a \o t) = m + Len(t)
      /\ \A i \in 1 .. m + Len(t) : (a \o t)[i] = IF i <= m THEN a[i] ELSE t[i - m]
  <2> HIDE DEF a, m
  <2> QED
    BY <1>3, <1>6, ConcatProperties
<1>9. m + Len(t) = Len(p) + Len(q)
  BY <1>1, <1>3
<1>10. ASSUME NEW i \in 1 .. Len(p) + Len(q) PROVE (a \o t)[i] = b[i]
  <2>1. CASE i <= Len(p)
    <3>1. i \in 1 .. m /\ i <= m /\ i \in 1 .. m + Len(t)
      BY <1>1, <1>9, <2>1
    <3>2. (a \o t)[i] = a[i] /\ a[i] = p[i] /\ b[i] = p[i]
      BY <1>4, <1>5, <1>8, <2>1, <3>1
    <3> QED
      BY <3>2
  <2>2. CASE ~(i <= Len(p)) /\ i <= m
    <3>1. i \in 1 .. m /\ i \in 1 .. m + Len(t) /\ i - Len(p) \in 1 .. n
      BY <1>1, <1>9, <2>2
    <3>2. (a \o t)[i] = a[i] /\ a[i] = h[i - Len(p)] /\ b[i] = q[i - Len(p)]
      BY <1>4, <1>5, <1>8, <2>2, <3>1
    <3> QED
      BY <1>2, <3>1, <3>2
  <2>3. CASE ~(i <= m)
    <3>1. i \in 1 .. m + Len(t) /\ i - m \in 1 .. Len(q) - n /\ ~(i <= Len(p)) /\ n + (i - m) = i - Len(p)
      BY <1>1, <1>9, <2>3
    <3>2. (a \o t)[i] = t[i - m] /\ b[i] = q[i - Len(p)]
      BY <1>5, <1>8, <2>3, <3>1
    <3>3. t[i - m] = q[n + (i - m)]
      BY <1>3, <3>1
    <3> QED
      BY <3>1, <3>2, <3>3
  <2> QED
    BY <2>1, <2>2, <2>3
<1> HIDE DEF a, b, m
<1>11. a \o t = b
  <2>1. Len(a \o t) = Len(b) /\ \A i \in 1 .. Len(b) : (a \o t)[i] = b[i]
    BY <1>7, <1>8, <1>9, <1>10
  <2> QED
    BY <1>7, <1>8, <2>1, SeqEqual
<1> QED
  BY <1>2, <1>3, <1>6, <1>11 DEF a, b, h, t, Start, Beyond

LEMMA RestAll ==
  ASSUME NEW q \in Seq(Cells)
  PROVE  SubSeq(q, 0 + 1, Len(q)) = q
<1>1. Len(q) \in Nat
  OBVIOUS
<1>2. SubSeq(q, 0 + 1, Len(q)) \in Seq(Cells) /\ Len(SubSeq(q, 0 + 1, Len(q))) = Len(q)
  BY <1>1
<1>3. \A i \in 1 .. Len(q) : SubSeq(q, 0 + 1, Len(q))[i] = q[i]
  BY <1>1
<1> QED
  BY <1>2, <1>3, SeqEqual

\* A read moves cells from the socket to the cache, in order.
LEMMA ReadRests ==
  ASSUME Typed, SlotsInv, NEW c \in Conn, NEW n \in 1 .. Len(net[c].up), Read(c, n), UNCHANGED cli,
         Offset(c)
  PROVE  Rested(c)
<1> DEFINE h == SubSeq(net[c].up, 1, n)
           t == SubSeq(net[c].up, n + 1, Len(net[c].up))
           q == cl[c].recv_cache
<1>1. /\ net[c].up \in Seq(Cells) /\ q \in Seq(Cells) /\ cl \in [Conn -> ClientType]
      /\ net \in [Conn -> PeerType] /\ cl[c].off \in Nat
  BY CellsTyped DEF ClientType
<1>2. cl[c].stat = "normal" /\ cl[c].pc = "read" /\ ~Parsing(cl[c])
  BY NotDone DEF Read, SlotsInv, Parsing
<1>3. cl[c].off = 0
  BY <1>2 DEF Offset
<1>4. /\ h \in Seq(Cells) /\ t \in Seq(Cells) /\ (q \o h) \in Seq(Cells)
      /\ (q \o h) \o t = q \o net[c].up
  <2> DEFINE u == net[c].up
  <2>1. u \in Seq(Cells) /\ n \in 1 .. Len(u)
    BY <1>1
  <2> HIDE DEF u, q
  <2>2. q \in Seq(Cells)
    BY <1>1 DEF q
  <2>4. /\ h \in Seq(Cells) /\ t \in Seq(Cells) /\ (q \o h) \in Seq(Cells)
        /\ (q \o h) \o t = q \o u
    <3>1. /\ Start(u, n) \in Seq(Cells) /\ Beyond(u, n) \in Seq(Cells) /\ (q \o Start(u, n)) \in Seq(Cells)
          /\ (q \o Start(u, n)) \o Beyond(u, n) = q \o u
      BY <2>1, <2>2, Whole3, ZenonT(120)
    <3>2. Start(u, n) = h /\ Beyond(u, n) = t
      BY DEF u, Start, Beyond
    <3> QED
      BY <3>1, <3>2
  <2> QED
    BY <2>4 DEF u
<1>5. /\ cl' = [cl EXCEPT ![c].recv_cache = q \o h, ![c].off = 0, ![c].pc = "parse"]
      /\ net' = [net EXCEPT ![c].up = t]
  BY DEF Read
<1>6. net[c].up # <<>>
  <2>1. net[c].up = <<>> => Len(net[c].up) = 0
    OBVIOUS
  <2> QED
    BY <2>1
<1> HIDE DEF h, t
<1> DEFINE r == q \o h
<1>7. r \in Seq(Cells) /\ r \o t = q \o net[c].up
  BY <1>4
<1>8. cl' = [cl EXCEPT ![c].recv_cache = r, ![c].off = 0, ![c].pc = "parse"]
  BY <1>5
<1> HIDE DEF r
<1>9. /\ cl'[c].recv_cache = r /\ cl'[c].off = 0 /\ cl'[c].pc = "parse" /\ cl'[c].stat = cl[c].stat
      /\ net'[c].up = t
  BY <1>1, <1>5, <1>8 DEF ClientType, PeerType
<1>10. RestOf(cl[c]) = q /\ RestOf(cl'[c]) = r
  BY <1>1, <1>3, <1>7, <1>9, RestAll DEF RestOf
<1>11. Stream(c)' = Stream(c)
  BY <1>7, <1>9, <1>10 DEF Stream
<1>12. cl'[c].stat # "none" /\ cl'[c].stat # "closing"
  BY <1>2, <1>9
<1>13. cli'[c].main # "start"
  BY <1>6 DEF Offset
<1>14. Offset(c)'
  BY <1>9, <1>12, <1>13 DEF Offset, Parsing
<1> QED
  BY <1>2, <1>11, <1>14 DEF Rested

LEMMA AcceptRests ==
  ASSUME Typed, SlotsInv, NEW c \in Conn, Accept(c), UNCHANGED cli, NEW d \in Conn, Offset(d)
  PROVE  Rested(d)
<1>1. cl[c].stat = "none"
  BY DEF Accept, SlotsInv, Stations, Typed, ClientsTyped, ClientType
<1>2. net'[d].up = net[d].up
  <2>1. \E p : net' = [net EXCEPT ![c].peer = p]
    BY DEF Accept
  <2> QED
    BY <2>1, CellsTyped DEF PeerType
<1>3. UNCHANGED cl \/ cl' = [cl EXCEPT ![c] = NewClient]
  BY DEF Accept
<1>4. cl'[d] = cl[d] \/ (d = c /\ cl'[d] = NewClient)
  BY <1>3, CellsTyped
<1>5. CASE cl'[d] = cl[d]
  BY <1>2, <1>5, QuietRests DEF Quiet
<1>6. CASE d = c /\ cl'[d] = NewClient
  <2>1. cl[d].recv_cache = <<>> /\ cl[d].stat # "closing"
    BY <1>1, <1>6 DEF Offset
  <2>2. cl[d].off = 0
    <3>1. Len(<<>>) = 0 /\ cl[d].off \in Nat
      BY CellsTyped DEF ClientType
    <3>2. cl[d].off = 0 \/ cl[d].off < Len(<<>>)
      BY <2>1 DEF Offset
    <3> QED
      BY <3>1, <3>2
  <2>3. cl'[d].recv_cache = <<>> /\ cl'[d].off = 0 /\ cl'[d].stat = "normal"
    BY <1>6 DEF NewClient
  <2>4. Stream(d)' = Stream(d)
    BY <1>2, <2>1, <2>2, <2>3 DEF Stream, RestOf
  <2>5. Offset(d)'
    BY <1>2, <2>3 DEF Offset
  <2> QED
    BY <2>1, <2>4, <2>5 DEF Rested
<1> QED
  BY <1>4, <1>5, <1>6

LEMMA CloseClientRests ==
  ASSUME Typed, SlotsInv, CloseClient, UNCHANGED cli, NEW d \in Conn, Offset(d)
  PROVE  Rested(d)
<1> DEFINE c == client_list[Head(close_ch)]
<1>1. /\ cl' = [cl EXCEPT ![c].snd_cache = <<>>, ![c].recv_cache = <<>>]
      /\ net' = [net EXCEPT ![c].peer = "closed"] /\ close_ch # <<>>
  BY DEF CloseClient
<1>2. c \in Conn /\ cl[c].stat = "closing"
  BY <1>1, HeadWaits DEF SlotsInv
<1> HIDE DEF c
<1>3. net'[d].up = net[d].up
  BY <1>1, CellsTyped DEF PeerType
<1>4. CASE d = c
  <2>1. cl'[d].stat = "closing"
    BY <1>1, <1>2, <1>4, CellsTyped DEF ClientType
  <2> QED
    BY <1>3, <2>1, QuietRests DEF Quiet
<1>5. CASE d # c
  <2>1. cl'[d] = cl[d]
    BY <1>1, <1>5, CellsTyped
  <2> QED
    BY <1>3, <2>1, QuietRests DEF Quiet
<1> QED
  BY <1>4, <1>5

LEMMA ServRests ==
  ASSUME Typed, SlotsInv, TcpServer, UNCHANGED cli, NEW d \in Conn, Offset(d)
  PROVE  Rested(d)
<1>1. CASE AcceptTimeout \/ ServerStops \/ CloseDone \/ Dispatch \/ DispatchDone
  <2>1. UNCHANGED <<cl, net>>
    BY <1>1 DEF AcceptTimeout, ServerStops, CloseDone, Dispatch, DispatchDone
  <2> QED
    BY <2>1, QuietRests DEF Quiet
<1>2. CASE DispatchAppend
  <2> DEFINE c == serv.item.key
             q == Append(cl[c].snd_queue, serv.item)
  <2>1. UNCHANGED net /\ cl' = [cl EXCEPT ![c].snd_queue = q]
    BY <1>2 DEF DispatchAppend
  <2> HIDE DEF c, q
  <2>2. cl'[d] = cl[d] \/ cl'[d] = [cl[d] EXCEPT !.snd_queue = q]
    BY <2>1, CellsTyped
  <2>3. /\ cl'[d].recv_cache = cl[d].recv_cache /\ cl'[d].off = cl[d].off
        /\ cl'[d].stat = cl[d].stat /\ cl'[d].pc = cl[d].pc
    BY <2>2, CellsTyped DEF ClientType
  <2> QED
    BY <2>1, <2>3, QuietRests DEF Quiet, Parsing
<1> QED
  BY <1>1, <1>2, AcceptRests, CloseClientRests DEF TcpServer

LEMMA RunNet ==
  ASSUME Typed, SlotsInv, NEW c \in Conn, Run(c)
  PROVE  \A e \in Conn \ {c} : net'[e] = net[e]
<1>1. CASE ReadTimeout(c) \/ ReadClosed(c) \/ Parse(c) \/ AppendOwn(c) \/ SendEnd(c)
  <2>1. UNCHANGED net
    BY <1>1, Zenon DEF ReadTimeout, ReadClosed, Parse, AppendOwn, SendEnd
  <2> QED
    BY <2>1
<1> QED
  BY <1>1, ReadMoves, SendFirstMoves, SendPkgMoves DEF Run

\* A turn of a client that does not parse.
LEMMA TurnRests ==
  ASSUME Typed, SlotsInv, NEW c \in Conn, Run(c), ~Parse(c), UNCHANGED cli, NEW d \in Conn, Offset(d)
  PROVE  Rested(d)
<1>1. CASE d # c
  <2>1. cl'[d] = cl[d]
    BY <1>1, RunIs
  <2>2. net'[d].up = net[d].up
    BY <1>1, RunNet
  <2> QED
    BY <2>1, <2>2, QuietRests DEF Quiet
<1>2. CASE d = c
  BY <1>2, TurnQuiet, QuietRests, ReadRests DEF Run
<1> QED
  BY <1>1, <1>2

Queue == batch \o recv_queue

LEMMA SeqIn ==
  ASSUME NEW S, NEW T, S \subseteq T, NEW q \in Seq(S)
  PROVE  q \in Seq(T)
OBVIOUS

LEMMA QueueOf ==
  ASSUME NEW b \in Seq(Packages), NEW w \in Seq(Items)
  PROVE  /\ (b \o w) \in Seq(Waits) /\ Len(b \o w) = Len(b) + Len(w)
         /\ \A i \in 1 .. Len(b) + Len(w) : (b \o w)[i] = IF i <= Len(b) THEN b[i] ELSE w[i - Len(b)]
<1>1. Packages \subseteq Waits /\ Items \subseteq Waits
  BY DEF Waits
<1>2. b \in Seq(Waits) /\ w \in Seq(Waits)
  BY <1>1, SeqIn
<1> QED
  BY <1>2, ConcatProperties

LEMMA QueueIs ==
  ASSUME Typed
  PROVE  /\ Queue \in Seq(Waits) /\ Len(Queue) = Len(batch) + Len(recv_queue)
         /\ \A i \in 1 .. Len(batch) + Len(recv_queue) :
              Queue[i] = IF i <= Len(batch) THEN batch[i] ELSE recv_queue[i - Len(batch)]
<1>1. batch \in Seq(Packages) /\ recv_queue \in Seq(Items)
  BY DEF Typed, QueuesTyped
<1> QED
  BY <1>1, QueueOf DEF Queue

\* Nothing of c happens to the queue.
QueueStays(c) ==
  \A lo, mid \in Int : GoodQueue(Queue, c, lo, mid) => GoodQueue(Queue', c, lo, mid)

\* A buffer taken, and perhaps an item that is no request of c queued.
LEMMA BufferStays ==
  ASSUME Typed, Typed', NEW c \in Conn, "reused" \notin marred'[c],
         UNCHANGED batch \/ \E data \in Datas : GetBuffer(data),
         \/ UNCHANGED recv_queue
         \/ \E x \in Items : /\ x.key # c \/ x.info # "normal"
                             /\ recv_queue' = Append(recv_queue, x)
  PROVE  QueueStays(c)
<1> DEFINE m == Len(batch)
           n == Len(recv_queue)
           q == Queue
           r == Queue'
<1>1. /\ batch \in Seq(Packages) /\ recv_queue \in Seq(Items) /\ MarredTyped
      /\ m \in Nat /\ n \in Nat
  BY DEF Typed, QueuesTyped
<1>2. /\ Len(batch') = m
      /\ \A i \in 1 .. m : /\ batch'[i].key = batch[i].key /\ batch'[i].info = batch[i].info
                           /\ batch[i].key = c => batch'[i].data = batch[i].data
  <2>1. CASE UNCHANGED batch
    BY <2>1
  <2>2. CASE \E data \in Datas : GetBuffer(data)
    <3>1. PICK data \in Datas : GetBuffer(data)
      BY <2>2
    <3>2. /\ Len(batch') = m
          /\ \A i \in 1 .. Len(batch) :
               /\ batch'[i].key = batch[i].key /\ batch'[i].info = batch[i].info
               /\ batch'[i].data = batch[i].data \/ "reused" \in marred'[batch[i].key]
      BY <1>1, <3>1, GetBufferIs
    <3>3. ASSUME NEW i \in 1 .. m, batch[i].key = c PROVE batch'[i].data = batch[i].data
      <4>1. batch'[i].data = batch[i].data \/ "reused" \in marred'[batch[i].key]
        BY <3>2
      <4> QED
        BY <3>3, <4>1
    <3>4. ASSUME NEW i \in 1 .. m
          PROVE  /\ batch'[i].key = batch[i].key /\ batch'[i].info = batch[i].info
                 /\ batch[i].key = c => batch'[i].data = batch[i].data
      BY <3>2, <3>3
    <3> QED
      BY <3>2, <3>4
  <2> QED
    BY <2>1, <2>2
<1>3. /\ Len(recv_queue') \in Nat /\ n <= Len(recv_queue') /\ Len(recv_queue') <= n + 1
      /\ \A i \in 1 .. n : recv_queue'[i] = recv_queue[i]
      /\ \A i \in 1 .. Len(recv_queue') : i > n => recv_queue'[i].key # c \/ recv_queue'[i].info # "normal"
  <2>1. CASE UNCHANGED recv_queue
    BY <1>1, <2>1
  <2>2. ASSUME NEW x \in Items, x.key # c \/ x.info # "normal", recv_queue' = Append(recv_queue, x)
        PROVE  <1>3!:
    <3>1. /\ Len(recv_queue') = n + 1 /\ recv_queue'[n + 1] = x
          /\ \A i \in 1 .. n : recv_queue'[i] = recv_queue[i]
      BY <1>1, <2>2, AppendProperties
    <3>2. \A i \in 1 .. n + 1 : i > n => i = n + 1
      BY <1>1
    <3> QED
      BY <1>1, <2>2, <3>1, <3>2
  <2> QED
    BY <2>1, <2>2
<1>4. /\ q \in Seq(Waits) /\ Len(q) = m + n
      /\ \A i \in 1 .. m + n : q[i] = IF i <= m THEN batch[i] ELSE recv_queue[i - m]
  BY QueueIs
<1> DEFINE p == Len(recv_queue')
<1>5. /\ r \in Seq(Waits) /\ Len(r) = m + p
      /\ \A i \in 1 .. m + p : r[i] = IF i <= m THEN batch'[i] ELSE recv_queue'[i - m]
  <2>1. /\ r \in Seq(Waits) /\ Len(r) = Len(batch') + Len(recv_queue')
        /\ \A i \in 1 .. Len(batch') + Len(recv_queue') :
             r[i] = IF i <= Len(batch') THEN batch'[i] ELSE recv_queue'[i - Len(batch')]
    <3>1. batch' \in Seq(Packages) /\ recv_queue' \in Seq(Items)
      BY DEF Typed, QueuesTyped
    <3> QED
      BY <3>1, QueueOf DEF Queue
  <2> QED
    BY <1>2, <2>1
<1>6. p \in Nat /\ n <= p
  BY <1>3
<1> HIDE DEF m, n, p, q, r
<1>7. Len(q) <= Len(r)
  BY <1>1, <1>4, <1>5, <1>6 DEF m, n
<1>8. ASSUME NEW i \in 1 .. Len(q)
      PROVE  /\ r[i].key = q[i].key /\ r[i].info = q[i].info
             /\ q[i].key = c => r[i].data = q[i].data
  <2>1. m \in Nat /\ n \in Nat
    BY <1>1
  <2>2. CASE i <= m
    <3>1. i \in 1 .. m /\ i \in 1 .. m + n /\ i \in 1 .. m + p
      BY <1>4, <1>6, <1>8, <2>1, <2>2
    <3>2. q[i] = batch[i] /\ r[i] = batch'[i]
      BY <1>4, <1>5, <2>2, <3>1
    <3> QED
      BY <1>2, <3>1, <3>2 DEF m
  <2>3. CASE ~(i <= m)
    <3>1. i - m \in 1 .. n /\ i \in 1 .. m + n /\ i \in 1 .. m + p
      BY <1>4, <1>6, <1>8, <2>1, <2>3
    <3>2. q[i] = recv_queue[i - m] /\ r[i] = recv_queue'[i - m]
      BY <1>4, <1>5, <2>3, <3>1
    <3>3. r[i] = q[i]
      BY <1>3, <3>1, <3>2 DEF n
    <3> QED
      BY <3>3
  <2> QED
    BY <2>2, <2>3
<1>9. ASSUME NEW i \in 1 .. Len(r), i > Len(q) PROVE r[i].key # c \/ r[i].info # "normal"
  <2>1. m \in Nat /\ n \in Nat
    BY <1>1
  <2>2. i - m \in 1 .. p /\ i - m > n /\ i \in 1 .. m + p /\ ~(i <= m)
    BY <1>4, <1>5, <1>6, <1>9, <2>1
  <2>3. r[i] = recv_queue'[i - m]
    BY <1>5, <2>2
  <2> QED
    BY <1>3, <2>2, <2>3 DEF n, p
<1>10. ASSUME NEW lo \in Int, NEW mid \in Int, GoodQueue(q, c, lo, mid) PROVE GoodQueue(r, c, lo, mid)
  <2>1. \A i \in 1 .. Len(q) : /\ r[i].key = q[i].key /\ r[i].info = q[i].info
                               /\ q[i].key = c => r[i].data = q[i].data
    BY <1>8
  <2>2. \A i \in 1 .. Len(r) : i > Len(q) => r[i].key # c \/ r[i].info # "normal"
    BY <1>9
  <2> QED
    BY <1>4, <1>5, <1>7, <1>10, <2>1, <2>2, QueueKeep
<1> QED
  BY <1>10 DEF QueueStays, q, r

\* As long as no read cut a package, no buffer was taken and no decryption
\* panicked, main handled the requests 1, 2, ... of c, and the next ones wait
\* for it and are on their way.
Clean(c) == marred[c] \cap {"cut", "reused", "panicked"} = {}
Writes(c) == cli[c].main \notin {"exited", "lost"}
StreamAt(c, mid) ==
  cl[c].stat # "closing" =>
    /\ GoodStream(Stream(c), c, mid)
    /\ Writes(c) => FullStream(Stream(c), mid, cli[c].sent)
Numbered(q, c) == \A i \in 1 .. Len(q) : q[i].from = c /\ q[i].id = i
InAt(c) ==
  /\ Numbered(main[c].handled, c)
  /\ \E mid \in Nat : GoodQueue(Queue, c, Len(main[c].handled), mid) /\ StreamAt(c, mid)
InInv == \A c \in Conn : Offset(c) /\ (Clean(c) => InAt(c))

\* What a step does for c.
StreamStays(c) == \A mid \in Int : StreamAt(c, mid) => StreamAt(c, mid)'
InKept(c) == Offset(c)' /\ (Clean(c)' /\ InAt(c) => InAt(c)')

LEMMA RestedStays ==
  ASSUME NEW c \in Conn, Rested(c), cli'[c].main = cli[c].main, cli'[c].sent = cli[c].sent
  PROVE  StreamStays(c)
BY DEF Rested, StreamStays, StreamAt, Writes

LEMMA HandledIs ==
  ASSUME Typed, NEW c \in Conn
  PROVE  main[c].handled \in Seq(Datas) /\ Len(main[c].handled) \in Int
<1>1. main[c].handled \in Seq(Datas)
  BY DEF Typed, MainTyped, MainType
<1> QED
  BY <1>1

LEMMA AtStays ==
  ASSUME Typed, NEW c \in Conn, Offset(c)', Clean(c)' => StreamStays(c) /\ QueueStays(c),
         main'[c].handled = main[c].handled
  PROVE  InKept(c)
<1>1. ASSUME Clean(c)', InAt(c) PROVE InAt(c)'
  <2> DEFINE n == Len(main[c].handled)
  <2>1. n \in Int
    BY HandledIs
  <2>2. PICK mid \in Nat : GoodQueue(Queue, c, n, mid) /\ StreamAt(c, mid)
    BY <1>1 DEF InAt
  <2>3. mid \in Int
    BY <2>2
  <2> HIDE DEF n
  <2>4. GoodQueue(Queue', c, n, mid)
    BY <1>1, <2>1, <2>2, <2>3 DEF QueueStays
  <2>5. StreamAt(c, mid)'
    BY <1>1, <2>2, <2>3 DEF StreamStays
  <2>6. n = Len(main'[c].handled) /\ Numbered(main'[c].handled, c)
    BY <1>1 DEF n, InAt
  <2> QED
    BY <2>2, <2>4, <2>5, <2>6 DEF InAt
<1> QED
  BY <1>1 DEF InKept

LEMMA CleanIs ==
  ASSUME NEW c \in Conn, Clean(c)'
  PROVE  "reused" \notin marred'[c] /\ "cut" \notin marred'[c] /\ "panicked" \notin marred'[c]
BY DEF Clean

\* A step that leaves the streams of c, and its place in the queue.
LEMMA RestedIn ==
  ASSUME Typed, Typed', NEW c \in Conn, Rested(c), UNCHANGED <<cli, main>>,
         UNCHANGED batch \/ \E data \in Datas : GetBuffer(data),
         \/ UNCHANGED recv_queue
         \/ \E x \in Items : /\ x.key # c \/ x.info # "normal"
                             /\ recv_queue' = Append(recv_queue, x)
  PROVE  InKept(c)
<1>1. StreamStays(c) /\ Offset(c)'
  BY RestedStays DEF Rested
<1>2. Clean(c)' => QueueStays(c)
  BY CleanIs, BufferStays
<1> QED
  BY <1>1, <1>2, AtStays

LEMMA ServIn ==
  ASSUME Typed, Typed', SlotsInv, TcpServer, UNCHANGED <<cli, main>>, NEW d \in Conn, Offset(d)
  PROVE  InKept(d)
<1>1. Rested(d)
  BY ServRests
<1>2. UNCHANGED batch
  BY DEF TcpServer, Accept, AcceptTimeout, ServerStops, CloseClient, CloseDone, Dispatch,
         DispatchAppend, DispatchDone
<1>3. \/ UNCHANGED recv_queue
      \/ \E x \in Items : x.info # "normal" /\ recv_queue' = Append(recv_queue, x)
  <2>1. CASE ~CloseClient
    BY <2>1 DEF TcpServer, Accept, AcceptTimeout, ServerStops, CloseDone, Dispatch,
         DispatchAppend, DispatchDone
  <2>2. CASE CloseClient
    <3> DEFINE c == client_list[Head(close_ch)]
               x == Item(c, "normal", Junk, "close")
    <3>1. c \in Conn
      BY <2>2, HeadWaits DEF SlotsInv, CloseClient
    <3>2. UNCHANGED recv_queue \/ recv_queue' = Append(recv_queue, x)
      BY <2>2 DEF CloseClient
    <3>3. "normal" \in Ops /\ "close" \in {"normal", "close"}
      BY DEF Ops
    <3> HIDE DEF c
    <3>4. x \in Items /\ x.info = "close"
      BY <3>1, <3>3, Null, ItemIs
    <3> QED
      BY <3>2, <3>4
  <2> QED
    BY <2>1, <2>2
<1> QED
  BY <1>1, <1>2, <1>3, RestedIn

LEMMA TurnIn ==
  ASSUME Typed, Typed', SlotsInv, NEW c \in Conn, Run(c), ~Parse(c), UNCHANGED <<cli, main>>,
         NEW d \in Conn, Offset(d)
  PROVE  InKept(d)
<1>1. Rested(d)
  BY TurnRests
<1>2. UNCHANGED <<batch, recv_queue>>
  BY Zenon DEF Run, Read, ReadTimeout, ReadClosed, AppendOwn, SendFirst, SendPkg, SendEnd
<1> QED
  BY <1>1, <1>2, RestedIn

LEMMA SendIn ==
  ASSUME Typed, Typed', NEW c \in Conn, SendToClient(c) \/ MainCloses(c), NEW d \in Conn, Offset(d)
  PROVE  InKept(d)
<1>1. /\ UNCHANGED <<batch, marred>> \/ \E data \in Datas : GetBuffer(data)
      /\ UNCHANGED <<recv_queue, cl, net, cli, pserv>>
      /\ \A e \in Conn : main'[e].handled = main[e].handled
  BY SendIs
<1>2. Rested(d)
  BY <1>1, QuietRests DEF Quiet
<1>3. StreamStays(d) /\ Offset(d)'
  BY <1>1, <1>2, RestedStays DEF Rested
<1>4. Clean(d)' => QueueStays(d)
  BY <1>1, CleanIs, BufferStays
<1> QED
  BY <1>1, <1>3, <1>4, AtStays

\* Recv moves what waits to the batch, in order.
LEMMA RecvIn ==
  ASSUME Typed, Typed', ReadClients, NEW c \in Conn, Offset(c)
  PROVE  InKept(c)
<1>1. Rested(c)
  BY QuietRests DEF Quiet, ReadClients, Recv
<1>2. StreamStays(c) /\ Offset(c)'
  BY <1>1, RestedStays DEF Rested, ReadClients
<1>3. /\ batch \in Seq(Packages) /\ recv_queue \in Seq(Items) /\ batch = <<>>
      /\ batch' \in Seq(Packages) /\ recv_queue' \in Seq(Items)
  BY DEF Typed, QueuesTyped, ReadClients, Recv
<1> DEFINE q == Queue
           r == Queue'
           k == Len(recv_queue)
<1>4. PICK n \in Nat :
        /\ n <= k /\ Len(batch') = n /\ Len(recv_queue') = k - n
        /\ \A i \in 1 .. n : /\ batch'[i].key = recv_queue[i].key
                             /\ batch'[i].info = recv_queue[i].info
                             /\ batch'[i].data = recv_queue[i].data
        /\ \A i \in 1 .. k - n : recv_queue'[i] = recv_queue[i + n]
  BY RecvTyped
<1>5. q = recv_queue /\ q \in Seq(Waits) /\ k \in Nat
  <2>1. q = recv_queue
    BY <1>3, ConcatEmptySeq DEF Queue
  <2> QED
    BY <1>3, <2>1, QueueIs
<1>6. /\ r \in Seq(Waits) /\ Len(r) = n + (k - n)
      /\ \A i \in 1 .. n + (k - n) : r[i] = IF i <= n THEN batch'[i] ELSE recv_queue'[i - n]
  <2>1. /\ r \in Seq(Waits) /\ Len(r) = Len(batch') + Len(recv_queue')
        /\ \A i \in 1 .. Len(batch') + Len(recv_queue') :
             r[i] = IF i <= Len(batch') THEN batch'[i] ELSE recv_queue'[i - Len(batch')]
    BY <1>3, QueueOf DEF Queue
  <2> QED
    BY <1>4, <2>1
<1> HIDE DEF q, r
<1>7. Len(q) = k
  BY <1>5
<1> HIDE DEF k
<1>8. Len(r) = k
  BY <1>4, <1>5, <1>6
<1>9. ASSUME NEW i \in 1 .. k
      PROVE  r[i].key = q[i].key /\ r[i].info = q[i].info /\ r[i].data = q[i].data
  <2>1. CASE i <= n
    <3>1. i \in 1 .. n /\ i \in 1 .. n + (k - n)
      BY <1>4, <1>5, <1>9, <2>1
    <3> QED
      BY <1>4, <1>5, <1>6, <2>1, <3>1
  <2>2. CASE ~(i <= n)
    <3>1. i - n \in 1 .. k - n /\ i \in 1 .. n + (k - n) /\ (i - n) + n = i
      BY <1>4, <1>5, <1>9, <2>2
    <3>2. r[i] = recv_queue'[i - n]
      BY <1>6, <2>2, <3>1
    <3>3. recv_queue'[i - n] = recv_queue[i]
      BY <1>4, <3>1
    <3> QED
      BY <1>5, <3>2, <3>3
  <2> QED
    BY <2>1, <2>2
<1>10. /\ Len(q) <= Len(r)
       /\ \A i \in 1 .. Len(r) : ~(i > Len(q))
  BY <1>5, <1>7, <1>8
<1>11. \A i \in 1 .. Len(q) : /\ r[i].key = q[i].key /\ r[i].info = q[i].info
                              /\ q[i].key = c => r[i].data = q[i].data
  BY <1>7, <1>9
<1>12. QueueStays(c)
  <2>1. ASSUME NEW lo \in Int, NEW mid \in Int, GoodQueue(q, c, lo, mid) PROVE GoodQueue(r, c, lo, mid)
    BY <1>5, <1>6, <1>10, <1>11, <2>1, QueueKeep
  <2> QED
    BY <2>1 DEF QueueStays, q, r
<1> QED
  BY <1>2, <1>12, AtStays DEF ReadClients

LEMMA QueueTail ==
  ASSUME NEW b \in Seq(Packages), NEW w \in Seq(Items), b # <<>>
  PROVE  /\ Tail(b \o w) = Tail(b) \o w /\ (b \o w)[1] = Head(b) /\ (b \o w) # <<>>
         /\ (b \o w) \in Seq(Waits)
<1> DEFINE q == b \o w
           r == Tail(b) \o w
           m == Len(b)
           n == Len(w)
<1>1. /\ q \in Seq(Waits) /\ Len(q) = m + n
      /\ \A i \in 1 .. m + n : q[i] = IF i <= m THEN b[i] ELSE w[i - m]
  BY QueueOf
<1>2. m \in Nat /\ n \in Nat /\ m > 0
  BY LenIs
<1>3. /\ Tail(b) \in Seq(Packages) /\ Len(Tail(b)) = m - 1 /\ \A i \in 1 .. m - 1 : Tail(b)[i] = b[i + 1]
  BY <1>2
<1>4. /\ r \in Seq(Waits) /\ Len(r) = (m - 1) + n
      /\ \A i \in 1 .. (m - 1) + n : r[i] = IF i <= m - 1 THEN Tail(b)[i] ELSE w[i - (m - 1)]
  <2>1. /\ r \in Seq(Waits) /\ Len(r) = Len(Tail(b)) + Len(w)
        /\ \A i \in 1 .. Len(Tail(b)) + Len(w) :
             r[i] = IF i <= Len(Tail(b)) THEN Tail(b)[i] ELSE w[i - Len(Tail(b))]
    BY <1>3, QueueOf
  <2> QED
    BY <1>3, <2>1
<1>5. Head(b) = b[1]
  OBVIOUS
<1> HIDE DEF q, r, m, n
<1>6. Len(q) > 0
  BY <1>1, <1>2
<1>7. q # <<>>
  <2>1. Len(<<>>) = 0
    OBVIOUS
  <2> QED
    BY <1>6, <2>1
<1>8. /\ Tail(q) \in Seq(Waits) /\ Len(Tail(q)) = m + n - 1
      /\ \A i \in 1 .. m + n - 1 : Tail(q)[i] = q[i + 1]
  BY <1>1, <1>2, <1>6, <1>7
<1>9. ASSUME NEW i \in 1 .. m + n - 1 PROVE Tail(q)[i] = r[i]
  <2>1. i \in 1 .. (m - 1) + n /\ i + 1 \in 1 .. m + n
    BY <1>2, <1>9
  <2>2. CASE i <= m - 1
    <3>1. i \in 1 .. m - 1 /\ i + 1 <= m
      BY <1>2, <1>9, <2>2
    <3>2. r[i] = Tail(b)[i] /\ Tail(b)[i] = b[i + 1] /\ q[i + 1] = b[i + 1] /\ Tail(q)[i] = q[i + 1]
      BY <1>1, <1>3, <1>4, <1>8, <1>9, <2>1, <2>2, <3>1
    <3> QED
      BY <3>2
  <2>3. CASE ~(i <= m - 1)
    <3>1. ~(i + 1 <= m) /\ (i + 1) - m = i - (m - 1)
      BY <1>2, <1>9, <2>3
    <3>2. r[i] = w[i - (m - 1)] /\ q[i + 1] = w[(i + 1) - m] /\ Tail(q)[i] = q[i + 1]
      BY <1>1, <1>4, <1>8, <1>9, <2>1, <2>3, <3>1
    <3> QED
      BY <3>1, <3>2
  <2> QED
    BY <2>2, <2>3
<1>10. Tail(q) = r
  <2>1. Len(r) = m + n - 1
    BY <1>2, <1>4
  <2> QED
    BY <1>4, <1>8, <1>9, <2>1, SeqEqual
<1>11. q[1] = b[1]
  BY <1>1, <1>2
<1> QED
  BY <1>1, <1>5, <1>7, <1>10, <1>11 DEF q, r

\* Main handles the next package of the batch.
LEMMA HandleIn ==
  ASSUME Typed, HandleClientPkg, NEW c \in Conn, Offset(c)
  PROVE  InKept(c)
<1>1. Rested(c)
  BY QuietRests DEF Quiet, HandleClientPkg
<1>2. StreamStays(c) /\ Offset(c)'
  BY <1>1, RestedStays DEF Rested, HandleClientPkg
<1> DEFINE p == Head(batch)
           old == main[c].handled
           new == main'[c].handled
           n == Len(old)
<1>3. /\ batch # <<>> /\ batch' = Tail(batch) /\ batch \in Seq(Packages) /\ p \in Packages
      /\ recv_queue' = recv_queue /\ recv_queue \in Seq(Items)
  BY HandleTyped, Zenon DEF HandleClientPkg, Typed, QueuesTyped
<1>4. old \in Seq(Datas) /\ n \in Nat
  <2>1. old \in Seq(Datas)
    BY HandledIs
  <2> QED
    BY <2>1
<1>5. IF p.key = c /\ p.info = "normal" THEN new = Append(old, p.data) ELSE new = old
  <2>1. PICK h \in Seq(Datas), r \in Nat :
          /\ main' = [main EXCEPT ![p.key] = [@ EXCEPT !.reported = r, !.handled = h]]
          /\ IF p.info = "close"
               THEN /\ r = main[p.key].reported + 1 /\ h = main[p.key].handled
               ELSE /\ r = main[p.key].reported /\ h = Append(main[p.key].handled, p.data)
    BY HandleTyped, Zenon
  <2>2. p.info \in {"normal", "close"} /\ main \in [Conn -> MainType]
    BY <1>3 DEF Packages, Typed, MainTyped
  <2>3. p.info = "normal" <=> p.info # "close"
    BY <2>2
  <2>4. IF p.key = c THEN new = h ELSE new = old
    BY <2>1, <2>2 DEF MainType
  <2> QED
    BY <2>1, <2>3, <2>4
<1> DEFINE q == Queue
<1>6. Queue' = Tail(q) /\ q[1] = p /\ q # <<>> /\ q \in Seq(Waits)
  BY <1>3, QueueTail DEF Queue
<1> HIDE DEF q, p, old, new
<1>7. ASSUME InAt(c) PROVE InAt(c)'
  <2>1. Numbered(old, c)
    BY <1>7 DEF InAt, old
  <2>2. PICK mid \in Nat : GoodQueue(q, c, n, mid) /\ StreamAt(c, mid)
    BY <1>7 DEF InAt, old, q
  <2>3. mid \in Int
    BY <2>2
  <2>4. StreamAt(c, mid)'
    BY <1>2, <2>2, <2>3 DEF StreamStays
  <2> HIDE DEF n
  <2>5. n \in Int
    BY <1>4
  <2>6. IF q[1].key = c /\ q[1].info = "normal"
          THEN q[1].data.from = c /\ q[1].data.id = n + 1 /\ GoodQueue(Tail(q), c, n + 1, mid)
          ELSE GoodQueue(Tail(q), c, n, mid)
    BY <1>6, <2>2, <2>3, <2>5, QueueTake
  <2>7. CASE p.key = c /\ p.info = "normal"
    <3>1. p.data.from = c /\ p.data.id = n + 1 /\ GoodQueue(Queue', c, n + 1, mid)
      BY <1>6, <2>6, <2>7
    <3>2. new = Append(old, p.data)
      BY <1>5, <2>7
    <3>3. p.data \in Datas
      BY <1>3 DEF Packages
    <3>4. /\ Len(new) = n + 1 /\ new[n + 1] = p.data /\ \A i \in 1 .. n : new[i] = old[i]
      BY <1>4, <3>2, <3>3, AppendProperties DEF n
    <3>5. Numbered(new, c)
      <4>1. ASSUME NEW i \in 1 .. n + 1 PROVE new[i].from = c /\ new[i].id = i
        <5>1. i \in 1 .. n \/ i = n + 1
          BY <1>4, <4>1 DEF n
        <5>2. CASE i \in 1 .. n
          BY <2>1, <3>4, <5>2 DEF Numbered, n
        <5>3. CASE i = n + 1
          BY <3>1, <3>4, <5>3
        <5> QED
          BY <5>1, <5>2, <5>3
      <4> QED
        BY <3>4, <4>1 DEF Numbered
    <3> QED
      BY <2>2, <2>4, <3>1, <3>4, <3>5 DEF InAt, new
  <2>8. CASE ~(p.key = c /\ p.info = "normal")
    <3>1. GoodQueue(Queue', c, n, mid) /\ new = old
      BY <1>5, <1>6, <2>6, <2>8
    <3> QED
      BY <2>1, <2>2, <2>4, <3>1 DEF InAt, new, n
  <2> QED
    BY <2>7, <2>8
<1> QED
  BY <1>2, <1>7 DEF InKept

LEMMA InitIn == ConnNetInit /\ Typed => InInv
<1> SUFFICES ASSUME ConnNetInit, Typed, NEW c \in Conn PROVE Offset(c) /\ InAt(c)
  BY DEF InInv
<1>1. PICK s \in Scenarios :
        /\ TcpInit(s.valid_conn, s.enc_type) /\ GameInit(s.method, s.asks)
        /\ main = [d \in Conn |-> [handled |-> <<>>, answers |-> s.answers[d], reported |-> 0,
                                   closes |-> s.closes[d]]]
  BY DEF ConnNetInit
<1>2. /\ cl[c] = Gone /\ net[c].up = <<>> /\ cli[c].main = "start" /\ cli[c].sent = 0
      /\ main[c].handled = <<>> /\ batch = <<>> /\ recv_queue = <<>>
  BY <1>1 DEF TcpInit, GameInit
<1>3. Gone.recv_cache = <<>> /\ Gone.off = 0 /\ Gone.stat = "none" /\ Gone.pc = "done"
  BY DEF Gone, NewClient
<1>4. Offset(c)
  BY <1>2, <1>3 DEF Offset, Parsing
<1>5. Stream(c) = <<>>
  <2>1. RestOf(cl[c]) = <<>>
    BY <1>2, <1>3 DEF RestOf
  <2> QED
    BY <1>2, <2>1 DEF Stream
<1>6. Queue = <<>>
  BY <1>2 DEF Queue
<1>7. Len(<<>>) = 0 /\ 0 \in Int /\ 0 \in Nat
  OBVIOUS
<1>8. GoodQueue(Queue, c, 0, 0)
  BY <1>6, <1>7, QueueNone
<1>9. GoodStream(<<>>, c, 0) /\ FullStream(<<>>, 0, 0)
  BY <1>7, StreamNone
<1>10. StreamAt(c, 0)
  BY <1>2, <1>5, <1>9 DEF StreamAt
<1>11. Numbered(main[c].handled, c)
  BY <1>2, <1>7 DEF Numbered
<1>12. InAt(c)
  BY <1>2, <1>7, <1>8, <1>10, <1>11 DEF InAt
<1> QED
  BY <1>4, <1>12

LEMMA StreamIs ==
  ASSUME Typed, NEW c \in Conn
  PROVE  /\ RestOf(cl[c]) \in Seq(Cells) /\ Stream(c) \in Seq(Cells)
         /\ cli[c].sent \in Int
<1>1. cl[c].recv_cache \in Seq(Cells) /\ cl[c].off \in Nat /\ net[c].up \in Seq(Cells)
  BY CellsTyped DEF ClientType
<1>2. RestOf(cl[c]) \in Seq(Cells)
  BY <1>1, Cut DEF RestOf
<1>3. cli[c].sent \in Nat
  BY ClientTyped DEF CliType
<1> QED
  BY <1>1, <1>2, <1>3, ConcatProperties DEF Stream

LEMMA CellsAssoc ==
  ASSUME NEW e \in Seq(Cells), NEW u \in Seq(Cells), NEW p \in Seq(Cells)
  PROVE  (e \o u) \o p = e \o (u \o p)
<1> DEFINE a == e \o u
           b == u \o p
           l == Len(e)
           m == Len(u)
           n == Len(p)
<1>1. l \in Nat /\ m \in Nat /\ n \in Nat
  OBVIOUS
<1>2. /\ a \in Seq(Cells) /\ Len(a) = l + m
      /\ \A i \in 1 .. l + m : a[i] = IF i <= l THEN e[i] ELSE u[i - l]
  BY ConcatProperties
<1>3. /\ b \in Seq(Cells) /\ Len(b) = m + n
      /\ \A i \in 1 .. m + n : b[i] = IF i <= m THEN u[i] ELSE p[i - m]
  BY ConcatProperties
<1> HIDE DEF a, b, l, m, n
<1>4. /\ (a \o p) \in Seq(Cells) /\ Len(a \o p) = (l + m) + n
      /\ \A i \in 1 .. (l + m) + n : (a \o p)[i] = IF i <= l + m THEN a[i] ELSE p[i - (l + m)]
  BY <1>2, ConcatProperties DEF n
<1>5. /\ (e \o b) \in Seq(Cells) /\ Len(e \o b) = l + (m + n)
      /\ \A i \in 1 .. l + (m + n) : (e \o b)[i] = IF i <= l THEN e[i] ELSE b[i - l]
  BY <1>3, ConcatProperties DEF l
<1>6. ASSUME NEW i \in 1 .. (l + m) + n PROVE (a \o p)[i] = (e \o b)[i]
  <2>0. i \in 1 .. l + (m + n)
    BY <1>1, <1>6
  <2>1. CASE i <= l
    <3>1. i \in 1 .. l + m /\ i <= l + m
      BY <1>1, <1>6, <2>1
    <3> QED
      BY <1>2, <1>4, <1>5, <1>6, <2>0, <2>1, <3>1
  <2>2. CASE ~(i <= l) /\ i <= l + m
    <3>1. i \in 1 .. l + m /\ i - l \in 1 .. m + n /\ i - l <= m
      BY <1>1, <1>6, <2>2
    <3>2. (a \o p)[i] = u[i - l]
      BY <1>2, <1>4, <1>6, <2>2, <3>1
    <3>3. (e \o b)[i] = u[i - l]
      BY <1>3, <1>5, <2>0, <2>2, <3>1
    <3> QED
      BY <3>2, <3>3
  <2>3. CASE ~(i <= l + m)
    <3>1. ~(i <= l) /\ i - l \in 1 .. m + n /\ ~(i - l <= m) /\ (i - l) - m = i - (l + m)
      BY <1>1, <1>6, <2>3
    <3>2. (a \o p)[i] = p[i - (l + m)]
      BY <1>4, <1>6, <2>3
    <3>3. (e \o b)[i] = p[(i - l) - m]
      BY <1>3, <1>5, <2>0, <3>1
    <3> QED
      BY <3>1, <3>2, <3>3
  <2> QED
    BY <2>1, <2>2, <2>3
<1>7. Len(e \o b) = (l + m) + n
  BY <1>1, <1>5
<1>8. a \o p = e \o b
  BY <1>4, <1>5, <1>6, <1>7, SeqEqual
<1> QED
  BY <1>8 DEF a, b

\* A client that sends nothing.
LEMMA ClientSame ==
  ASSUME NEW c \in Conn, UNCHANGED cl, net'[c].up = net[c].up, cli'[c].sent = cli[c].sent,
         Writes(c)' => Writes(c)
  PROVE  StreamStays(c)
<1>1. Stream(c)' = Stream(c)
  BY DEF Stream, RestOf
<1> QED
  BY <1>1 DEF StreamStays, StreamAt

\* ... and one that sends a package.
LEMMA ClientAdds ==
  ASSUME Typed, NEW c \in Conn, UNCHANGED cl, Writes(c), NEW op \in Ops, NEW data \in Datas,
         net'[c].up = net[c].up \o Pkg(op, data), data.from = c, data.len = 1,
         op = "normal" => data.id = cli[c].sent + 1,
         cli'[c].sent = IF op = "normal" THEN cli[c].sent + 1 ELSE cli[c].sent
  PROVE  StreamStays(c)
<1> DEFINE p == Pkg(op, data)
           q == Stream(c)
           s == cli[c].sent
<1>1. /\ RestOf(cl[c]) \in Seq(Cells) /\ q \in Seq(Cells) /\ net[c].up \in Seq(Cells)
      /\ s \in Int /\ p \in Seq(Cells)
  BY CellsTyped, StreamIs, PkgIs
<1>2. Stream(c)' = q \o p
  <2>1. Stream(c)' = RestOf(cl[c]) \o (net[c].up \o p)
    BY DEF Stream, RestOf
  <2> HIDE DEF p
  <2> QED
    <3> DEFINE e == RestOf(cl[c])
               u == net[c].up
    <3>1. Stream(c)' = e \o (u \o p) /\ q = e \o u
      BY <2>1 DEF Stream
    <3>2. e \in Seq(Cells) /\ u \in Seq(Cells)
      BY <1>1
    <3> HIDE DEF e, u, q
    <3>3. (e \o u) \o p = e \o (u \o p)
      <4>1. e \in Seq(Cells) /\ u \in Seq(Cells) /\ p \in Seq(Cells)
        BY <1>1, <3>2
      <4> QED
        BY <4>1, CellsAssoc
    <3> QED
      BY <3>1, <3>3
<1>3. (q \o p) \in Seq(Cells)
  BY <1>1, ConcatProperties
<1>4. cli'[c].sent = IF op = "normal" THEN s + 1 ELSE s
  OBVIOUS
<1> DEFINE r == q \o p
<1>5. r \in Seq(Cells) /\ r = q \o Pkg(op, data)
  BY <1>3
<1> HIDE DEF p, q, r, s
<1>6. ASSUME NEW mid \in Int, GoodStream(q, c, mid), FullStream(q, mid, s)
      PROVE  GoodStream(r, c, mid) /\ FullStream(r, mid, IF op = "normal" THEN s + 1 ELSE s)
  <2>1. op = "normal" => data.id = s + 1
    BY DEF s
  <2> QED
    BY <1>1, <1>5, <1>6, <2>1, StreamAdd
<1>7. Stream(c)' = r
  BY <1>2 DEF r
<1>8. ASSUME NEW mid \in Int, StreamAt(c, mid) PROVE StreamAt(c, mid)'
  <2>1. CASE cl[c].stat = "closing"
    BY <2>1 DEF StreamAt
  <2>2. CASE cl[c].stat # "closing"
    <3>1. GoodStream(q, c, mid) /\ FullStream(q, mid, s)
      BY <1>8, <2>2 DEF StreamAt, q, s
    <3>2. GoodStream(r, c, mid) /\ FullStream(r, mid, cli'[c].sent)
      BY <1>4, <1>6, <3>1
    <3> QED
      BY <1>7, <3>2 DEF StreamAt
  <2> QED
    BY <2>1, <2>2
<1> QED
  BY <1>8 DEF StreamStays

\* A client that goes.
LEMMA ClientGoes ==
  ASSUME Typed, NEW c \in Conn, UNCHANGED cl, net'[c].up \in {net[c].up, <<>>}, ~Writes(c)'
  PROVE  StreamStays(c)
<1> DEFINE q == Stream(c)
           r == Stream(c)'
           e == RestOf(cl[c])
           u == net[c].up
<1>1. e \in Seq(Cells) /\ q \in Seq(Cells) /\ u \in Seq(Cells)
  BY CellsTyped, StreamIs
<1>2. CASE net'[c].up = u
  <2>1. r = q
    BY <1>2 DEF Stream, RestOf
  <2> QED
    BY <2>1 DEF StreamStays, StreamAt
<1>3. CASE net'[c].up = <<>>
  <2>1. r = e \o <<>>
    BY <1>3 DEF Stream, RestOf
  <2>2. q = e \o u
    BY DEF Stream
  <2> HIDE DEF q, r, e, u
  <2>3. r = e
    BY <1>1, <2>1, ConcatEmptySeq
  <2>4. /\ Len(q) = Len(e) + Len(u)
        /\ \A i \in 1 .. Len(e) + Len(u) : q[i] = IF i <= Len(e) THEN e[i] ELSE u[i - Len(e)]
    BY <1>1, <2>2, ConcatProperties
  <2>5. Len(e) \in Nat /\ Len(u) \in Nat
    BY <1>1
  <2>6. Len(r) <= Len(q)
    BY <2>3, <2>4, <2>5
  <2>7. ASSUME NEW i \in 1 .. Len(r) PROVE r[i] = q[i]
    <3>1. i \in 1 .. Len(e) + Len(u) /\ i <= Len(e)
      BY <2>3, <2>5, <2>7
    <3> QED
      BY <2>3, <2>4, <3>1
  <2>8. r \in Seq(Cells)
    BY <1>1, <2>3
  <2>9. \A mid \in Int : GoodStream(q, c, mid) => GoodStream(r, c, mid)
    BY <1>1, <2>6, <2>7, <2>8, StreamCut
  <2> QED
    BY <2>9 DEF StreamStays, StreamAt, q, r
<1> QED
  BY <1>2, <1>3

LEMMA ConnectIn ==
  ASSUME Typed, NEW c \in Conn, Connect(c), Offset(c)
  PROVE  StreamStays(c) /\ cli'[c].main # "start"
<1> DEFINE up == CASE Method(c) = "other" -> <<>>
                   [] Method(c) = "press" -> Plain(c)
                   [] OTHER -> Valid(c)
           s == IF Method(c) = "press" THEN 1 ELSE 0
           m == CASE Method(c) = "press" -> "wait"
                  [] Method(c) = "simple" -> "valid"
                  [] OTHER -> "loop"
<1>1. /\ net' = [net EXCEPT ![c].peer = "pending", ![c].up = up]
      /\ cli' = [cli EXCEPT ![c].main = m, ![c].sent = s]
      /\ UNCHANGED cl /\ cli[c].main = "start"
  BY DEF Connect, cliRest
<1>2. m \in {"wait", "valid", "loop"}
  OBVIOUS
<1>3. /\ Method(c) = "other" => up = <<>> /\ s = 0
      /\ Method(c) = "press" => up = Plain(c) /\ s = 1
      /\ Method(c) # "other" /\ Method(c) # "press" => up = Valid(c) /\ s = 0
  OBVIOUS
<1> HIDE DEF up, s, m
<1>4. net'[c].up = up
  BY <1>1, CellsTyped DEF PeerType
<1>5. cli'[c].main = m /\ cli'[c].sent = s
  BY <1>1, ClientTyped DEF CliType
<1>6. net[c].up = <<>> /\ cli[c].sent = 0 /\ Writes(c)
  BY <1>1 DEF Offset, Writes
<1>7. cli'[c].main # "start"
  BY <1>2, <1>5
<1>8. CASE Method(c) = "other"
  <2>1. net'[c].up = net[c].up /\ cli'[c].sent = cli[c].sent
    BY <1>3, <1>4, <1>5, <1>6, <1>8
  <2> QED
    BY <1>1, <1>6, <1>7, <2>1, ClientSame
<1>9. CASE Method(c) = "press"
  <2> DEFINE r == Request(c, cli[c].sent + 1, None)
  <2>1. cli[c].sent + 1 = 1 /\ 1 \in Int /\ None \in Encs
    BY <1>6 DEF Encs
  <2>2. r \in Datas /\ r.from = c /\ r.id = cli[c].sent + 1 /\ r.len = 1
    BY <2>1, RequestIs
  <2>3. "normal" \in Ops
    BY DEF Ops
  <2>4. net'[c].up = Pkg("normal", r) /\ cli'[c].sent = cli[c].sent + 1
    BY <1>3, <1>4, <1>5, <1>9, <2>1 DEF Plain
  <2> HIDE DEF r
  <2>5. Pkg("normal", r) \in Seq(Cells)
    BY <2>2, <2>3, PkgIs
  <2>6. net'[c].up = net[c].up \o Pkg("normal", r)
    BY <1>6, <2>4, <2>5, ConcatEmptySeq
  <2>7. StreamStays(c)
    BY <1>1, <1>6, <2>2, <2>3, <2>4, <2>6, ClientAdds
  <2> QED
    BY <1>7, <2>7
<1>10. CASE Method(c) # "other" /\ Method(c) # "press"
  <2> DEFINE r == Request(c, 0, "pass")
  <2>1. 0 \in Int /\ "pass" \in Encs
    BY DEF Encs
  <2>2. r \in Datas /\ r.from = c /\ r.len = 1
    BY <2>1, RequestIs
  <2>3. "valid" \in Ops /\ "valid" # "normal"
    BY DEF Ops
  <2>4. net'[c].up = Pkg("valid", r) /\ cli'[c].sent = cli[c].sent
    BY <1>3, <1>4, <1>5, <1>6, <1>10 DEF Valid
  <2> HIDE DEF r
  <2>5. Pkg("valid", r) \in Seq(Cells)
    BY <2>2, <2>3, PkgIs
  <2>6. net'[c].up = net[c].up \o Pkg("valid", r)
    BY <1>6, <2>4, <2>5, ConcatEmptySeq
  <2>7. StreamStays(c)
    BY <1>1, <1>6, <2>2, <2>3, <2>4, <2>6, ClientAdds
  <2> QED
    BY <1>7, <2>7
<1> QED
  BY <1>8, <1>9, <1>10

LEMMA GameSendIn ==
  ASSUME Typed, NEW c \in Conn, GameSend(c)
  PROVE  StreamStays(c) /\ cli'[c].main # "start"
<1> DEFINE i == IF CanAsk(c) THEN cli[c].sent + 1 ELSE cli[c].sent
           m == IF Method(c) = "command" THEN "wait" ELSE cli[c].main
           up == net[c].up \o Pkg("normal", Request(c, i, AskKey(c)))
<1>1. /\ cli' = [cli EXCEPT ![c].asks = @ - 1, ![c].sent = i, ![c].main = m]
      /\ net' = IF CanAsk(c) THEN [net EXCEPT ![c].up = up] ELSE net
      /\ UNCHANGED cl /\ cli[c].main = "loop"
  BY DEF GameSend, cliRest
<1>2. m \in {"wait", "loop"} /\ Writes(c)
  BY <1>1 DEF Writes
<1>3. /\ CanAsk(c) => i = cli[c].sent + 1
      /\ ~CanAsk(c) => i = cli[c].sent
  OBVIOUS
<1>4. AskKey(c) \in Encs /\ "normal" \in Ops /\ cli[c].sent \in Nat
  <2>1. cli[c].enc_block \in Encs /\ None \in Encs
    BY ClientTyped DEF CliType, Encs
  <2>2. cli[c].sent \in Nat
    BY ClientTyped DEF CliType
  <2> QED
    BY <2>1, <2>2 DEF AskKey, Ops
<1>5. i \in Int
  BY <1>3, <1>4
<1> DEFINE r == Request(c, i, AskKey(c))
<1>6. r \in Datas /\ r.from = c /\ r.id = i /\ r.len = 1
  BY <1>4, <1>5, RequestIs
<1>7. up = net[c].up \o Pkg("normal", r)
  OBVIOUS
<1> HIDE DEF i, m, up, r
<1>8. cli'[c].sent = i /\ cli'[c].main = m
  BY <1>1, ClientTyped DEF CliType
<1>9. CASE CanAsk(c)
  <2>1. net'[c].up = up
    BY <1>1, <1>9, CellsTyped DEF PeerType
  <2>2. r.id = cli[c].sent + 1 /\ cli'[c].sent = cli[c].sent + 1
    BY <1>3, <1>6, <1>8, <1>9
  <2>3. StreamStays(c)
    BY <1>1, <1>2, <1>4, <1>6, <1>7, <2>1, <2>2, ClientAdds
  <2> QED
    BY <1>2, <1>8, <2>3
<1>10. CASE ~CanAsk(c)
  <2>1. net'[c].up = net[c].up /\ cli'[c].sent = cli[c].sent
    BY <1>1, <1>3, <1>8, <1>10
  <2>2. StreamStays(c)
    BY <1>1, <1>2, <2>1, ClientSame
  <2> QED
    BY <1>2, <1>8, <2>2
<1> QED
  BY <1>9, <1>10

LEMMA OtherSendIn ==
  ASSUME Typed, NEW c \in Conn, OtherSend(c)
  PROVE  StreamStays(c) /\ cli'[c].main # "start"
<1>1. PICK o \in OtherOps :
        LET sent == cli[c].sent + (IF o[1] = "normal" THEN 1 ELSE 0)
        IN  /\ net' = [net EXCEPT ![c].up = @ \o Pkg(o[1], Request(c, sent, o[2]))]
            /\ cli' = [cli EXCEPT ![c].asks = @ - 1, ![c].sent = sent]
  BY DEF OtherSend
<1> DEFINE op == o[1]
           s == cli[c].sent + (IF op = "normal" THEN 1 ELSE 0)
           r == Request(c, s, o[2])
<1>2. UNCHANGED cl /\ cli[c].main = "loop" /\ cli[c].sent \in Nat
  BY ClientTyped DEF OtherSend, cliRest, CliType
<1>3. op \in Ops /\ o[2] \in Encs
  BY DEF Ops, Encs
<1>4. s \in Int /\ (op = "normal" => s = cli[c].sent + 1)
      /\ s = IF op = "normal" THEN cli[c].sent + 1 ELSE cli[c].sent
  BY <1>2
<1> HIDE DEF s
<1>5. r \in Datas /\ r.from = c /\ r.id = s /\ r.len = 1
  BY <1>3, <1>4, RequestIs
<1>6. /\ net' = [net EXCEPT ![c].up = @ \o Pkg(op, r)]
      /\ cli' = [cli EXCEPT ![c].asks = @ - 1, ![c].sent = s]
  BY <1>1 DEF s
<1> HIDE DEF op, r
<1>7. net'[c].up = net[c].up \o Pkg(op, r)
  BY <1>6, CellsTyped DEF PeerType
<1>8. cli'[c].sent = s /\ cli'[c].main = cli[c].main
  BY <1>6, ClientTyped DEF CliType
<1>9. Writes(c)
  BY <1>2 DEF Writes
<1>10. op = "normal" => r.id = cli[c].sent + 1
  BY <1>4, <1>5
<1>11. cli'[c].sent = IF op = "normal" THEN cli[c].sent + 1 ELSE cli[c].sent
  BY <1>4, <1>8
<1>12. StreamStays(c)
  BY <1>2, <1>3, <1>5, <1>7, <1>9, <1>10, <1>11, ClientAdds
<1> QED
  BY <1>2, <1>8, <1>12

LEMMA RecvPkgIn ==
  ASSUME Typed, NEW c \in Conn, NEW n \in 1 .. Len(net[c].down), RecvPkg(c, n)
  PROVE  StreamStays(c) /\ cli'[c].main # "start"
<1> DEFINE raw == SubSeq(net[c].down, 1, n)
<1>1. n \in Nat /\ n <= Len(net[c].down) /\ net[c].down \in Seq(Cells) /\ net[c].up \in Seq(Cells)
  BY CellsTyped
<1>2. raw \in Seq(Cells)
  BY <1>1, Cut
<1>3. PICK u :
       /\ ReadAs(c, n, u)
       /\ LET r == IF IsGame(c) THEN GameRecv(c, u) ELSE OneShotRecv(c, u)
          IN  /\ cli' = [cli EXCEPT ![c] = r.me]
              /\ net' = [net EXCEPT ![c].down = SubSeq(@, n + 1, Len(@)), ![c].up = @ \o r.out]
  BY RecvIs
<1> DEFINE r == IF IsGame(c) THEN GameRecv(c, u) ELSE OneShotRecv(c, u)
<1> HIDE DEF raw
<1>4. u.op \in Ops /\ u.data \in Datas
  BY <1>3 DEF ReadAs
<1>5. cli[c].main \in {"loop", "valid", "wait"} /\ UNCHANGED cl
  BY DEF RecvPkg, cliRest
<1>6. Writes(c)
  BY <1>5 DEF Writes
<1>7. /\ r.me.main \in {"loop", "valid", "wait", "done"}
      /\ \/ r.out = <<>> /\ r.me.sent = cli[c].sent
         \/ r.out = Pkg("nego", Request(c, 0, "nego")) /\ r.me.sent = cli[c].sent
         \/ r.out = Plain(c) /\ r.me.sent = cli[c].sent + 1
  <2>1. CASE IsGame(c)
    <3> DEFINE g == GameRecv(c, u)
    <3>1. /\ g.out \in {<<>>, Pkg("nego", Request(c, 0, "nego"))}
          /\ g.me.sent = cli[c].sent /\ g.me.main \in {cli[c].main, "done"}
      BY <1>4, GameRecvIs
    <3>2. r = g
      BY <2>1
    <3> HIDE DEF g, r
    <3> QED
      BY <1>5, <3>1, <3>2
  <2>2. CASE ~IsGame(c)
    <3> DEFINE g == OneShotRecv(c, u)
    <3>1. /\ g.out \in {<<>>, Plain(c)}
          /\ g.out = <<>> => g.me.sent = cli[c].sent
          /\ g.out # <<>> => g.me.sent = cli[c].sent + 1
          /\ g.me.main \in {"wait", "done"}
      BY <1>4, OneShotIs
    <3>2. r = g
      BY <2>2
    <3> HIDE DEF g, r
    <3> QED
      BY <3>1, <3>2
  <2> QED
    BY <2>1, <2>2
<1>8. /\ cli' = [cli EXCEPT ![c] = r.me]
      /\ net' = [net EXCEPT ![c].down = SubSeq(@, n + 1, Len(@)), ![c].up = @ \o r.out]
  BY <1>3
<1> HIDE DEF r
<1>9. cli'[c] = r.me /\ net'[c].up = net[c].up \o r.out
  BY <1>8, ClientTyped, CellsTyped DEF PeerType
<1>10. cli'[c].main # "start" /\ (Writes(c)' => Writes(c))
  BY <1>6, <1>7, <1>9
<1>11. CASE r.out = <<>> /\ r.me.sent = cli[c].sent
  <2>1. net'[c].up = net[c].up
    BY <1>1, <1>9, <1>11, ConcatEmptySeq
  <2>2. StreamStays(c)
    BY <1>5, <1>9, <1>10, <1>11, <2>1, ClientSame
  <2> QED
    BY <1>10, <2>2
<1>12. CASE r.out = Pkg("nego", Request(c, 0, "nego")) /\ r.me.sent = cli[c].sent
  <2> DEFINE a == Request(c, 0, "nego")
  <2>1. 0 \in Int /\ "nego" \in Encs /\ "nego" \in Ops /\ "nego" # "normal"
    BY DEF Encs, Ops
  <2>2. a \in Datas /\ a.from = c /\ a.len = 1
    BY <2>1, RequestIs
  <2>3. net'[c].up = net[c].up \o Pkg("nego", a) /\ cli'[c].sent = cli[c].sent
    BY <1>9, <1>12
  <2> HIDE DEF a
  <2>4. StreamStays(c)
    BY <1>5, <1>6, <2>1, <2>2, <2>3, ClientAdds
  <2> QED
    BY <1>10, <2>4
<1>13. CASE r.out = Plain(c) /\ r.me.sent = cli[c].sent + 1
  <2> DEFINE a == Request(c, cli[c].sent + 1, None)
  <2>1. cli[c].sent + 1 \in Int /\ None \in Encs /\ "normal" \in Ops
    <3>1. cli[c].sent \in Nat
      BY ClientTyped DEF CliType
    <3>2. None \in Encs /\ "normal" \in Ops
      BY DEF Encs, Ops
    <3> QED
      BY <3>1, <3>2
  <2>2. a \in Datas /\ a.from = c /\ a.len = 1 /\ a.id = cli[c].sent + 1
    BY <2>1, RequestIs
  <2>3. net'[c].up = net[c].up \o Pkg("normal", a) /\ cli'[c].sent = cli[c].sent + 1
    BY <1>9, <1>13 DEF Plain
  <2> HIDE DEF a
  <2>4. StreamStays(c)
    BY <1>5, <1>6, <2>1, <2>2, <2>3, ClientAdds
  <2> QED
    BY <1>10, <2>4
<1> QED
  BY <1>7, <1>11, <1>12, <1>13

LEMMA GoneIn ==
  ASSUME Typed, NEW c \in Conn, ConnectFails(c) \/ GameExit(c) \/ GameClosed(c)
  PROVE  StreamStays(c) /\ cli'[c].main # "start"
<1>1. /\ \E m \in {"lost", "exited"} : cli' = [cli EXCEPT ![c].main = m]
      /\ UNCHANGED cl
  BY DEF ConnectFails, GameClosed, GameExit, cliRest
<1>2. UNCHANGED net \/ \E up \in {net[c].up, <<>>} : \E p : net' = [net EXCEPT ![c].up = up, ![c].peer = p]
  BY DEF ConnectFails, GameClosed, GameExit
<1>3. net'[c].up \in {net[c].up, <<>>}
  BY <1>2, CellsTyped, ZenonT(30) DEF PeerType
<1>4. cli'[c].main \in {"lost", "exited"}
  BY <1>1, ClientTyped DEF CliType
<1>5. ~Writes(c)' /\ cli'[c].main # "start"
  BY <1>4 DEF Writes
<1> QED
  BY <1>1, <1>3, <1>5, ClientGoes

LEMMA ClientIn ==
  ASSUME Typed, Typed', NEW c \in Conn, Client(c), UNCHANGED main, NEW d \in Conn, Offset(d)
  PROVE  InKept(d)
<1>1. /\ UNCHANGED <<cl, batch, recv_queue>>
      /\ \A e \in Conn \ {c} : cli'[e] = cli[e] /\ net'[e] = net[e]
  BY ClientMoves DEF ClientMoved
<1>2. Clean(d)' => QueueStays(d)
  BY <1>1, CleanIs, BufferStays
<1>3. CASE d # c
  <2>1. Rested(d)
    BY <1>1, <1>3, QuietRests DEF Quiet
  <2>2. StreamStays(d) /\ Offset(d)'
    BY <1>1, <1>3, <2>1, RestedStays DEF Rested
  <2> QED
    BY <1>2, <2>2, AtStays
<1>4. CASE d = c
  <2>1. StreamStays(c) /\ cli'[c].main # "start"
    BY <1>4, ConnectIn, GameSendIn, OtherSendIn, RecvPkgIn, GoneIn DEF Client
  <2>2. Offset(c)'
    BY <1>1, <1>4, <2>1 DEF Offset, Parsing
  <2> QED
    BY <1>2, <1>4, <2>1, <2>2, AtStays
<1> QED
  BY <1>3, <1>4

LEMMA RestIs ==
  ASSUME NEW me \in ClientType, me.off = 0 \/ me.off < Len(me.recv_cache)
  PROVE  /\ RestOf(me) \in Seq(Cells) /\ Len(RestOf(me)) = Len(me.recv_cache) - me.off
         /\ \A i \in 1 .. Len(me.recv_cache) - me.off : RestOf(me)[i] = me.recv_cache[i + me.off]
         /\ me.off \in Nat /\ Len(me.recv_cache) \in Nat
<1> DEFINE q == me.recv_cache
           off == me.off
           n == Len(q)
<1>1. q \in Seq(Cells) /\ off \in Nat
  BY DEF ClientType
<1>2. n \in Nat
  BY <1>1
<1>3. off <= n
  BY <1>1, <1>2
<1> HIDE DEF q, off
<1>4. SubSeq(q, off + 1, n) \in Seq(Cells)
  BY <1>1, Cut
<1>5. Len(SubSeq(q, off + 1, n)) = n - off
  BY <1>1, <1>2, <1>3
<1>6. \A i \in 1 .. n - off : SubSeq(q, off + 1, n)[i] = q[i + off]
  <2> SUFFICES ASSUME NEW i \in 1 .. n - off PROVE SubSeq(q, off + 1, n)[i] = q[i + off]
    OBVIOUS
  <2>1. SubSeq(q, off + 1, n)[i] = q[(off + 1) + i - 1] /\ (off + 1) + i - 1 = i + off
    BY <1>1, <1>2, <1>3
  <2> QED
    BY <2>1
<1> QED
  BY <1>1, <1>2, <1>4, <1>5, <1>6 DEF RestOf, q, off

\* What Taken leaves in the cache.
LEMMA TakenRest ==
  ASSUME NEW me \in ClientType, me.off = 0 \/ me.off < Len(me.recv_cache), Len(RestOf(me)) >= 2,
         NEW it \in ClientType, it.recv_cache = Taken(me, RestOf(me)).recv_cache,
         it.off = Taken(me, RestOf(me)).off
  PROVE  /\ it.off = 0 \/ it.off < Len(it.recv_cache)
         /\ RestOf(it) \in Seq(Cells) /\ Len(RestOf(it)) = Len(RestOf(me)) - 2
         /\ \A i \in 1 .. Len(RestOf(me)) - 2 : RestOf(it)[i] = RestOf(me)[i + 2]
<1> DEFINE raw == RestOf(me)
           q == me.recv_cache
           off == me.off
           n == Len(q)
           m == Len(raw)
<1>1. /\ raw \in Seq(Cells) /\ m = n - off /\ off \in Nat /\ n \in Nat
      /\ \A i \in 1 .. n - off : raw[i] = q[i + off]
  BY RestIs
<1>2. m \in Nat /\ m >= 2
  BY <1>1
<1>3. CASE m = 2
  <2>1. it.recv_cache = <<>> /\ it.off = 0
    BY <1>3 DEF Taken, ClientType
  <2>2. Len(<<>>) = 0
    OBVIOUS
  <2>3. RestOf(it) = <<>>
    BY <2>1 DEF RestOf
  <2>4. \A i \in 1 .. m - 2 : FALSE
    BY <1>3
  <2> QED
    BY <1>3, <2>1, <2>2, <2>3, <2>4
<1>4. CASE m # 2
  <2>1. it.recv_cache = q /\ it.off = off + 2
    BY <1>4 DEF Taken, ClientType
  <2> HIDE DEF m, n, off, q, raw
  <2>2. it.off < n
    BY <1>1, <1>2, <1>4, <2>1
  <2>3. it.off < Len(it.recv_cache)
    BY <2>1, <2>2 DEF n
  <2>4. /\ RestOf(it) \in Seq(Cells) /\ Len(RestOf(it)) = n - it.off
        /\ \A i \in 1 .. n - it.off : RestOf(it)[i] = q[i + it.off]
    BY <2>1, <2>3, RestIs DEF n
  <2>5. Len(RestOf(it)) = m - 2
    BY <1>1, <2>1, <2>4
  <2>6. ASSUME NEW i \in 1 .. m - 2 PROVE RestOf(it)[i] = raw[i + 2]
    <3>1. /\ i \in 1 .. n - it.off /\ i + 2 \in 1 .. n - off /\ (i + 2) + off = i + it.off
      <4> DEFINE f == it.off
      <4>1. m = n - off /\ off \in Nat /\ n \in Nat /\ f = off + 2
        BY <1>1, <2>1
      <4> HIDE DEF f
      <4>2. i \in Nat /\ 1 <= i /\ i <= m - 2
        BY <1>1, <2>6
      <4>3. i \in 1 .. n - f
        BY <4>1, <4>2
      <4>4. i + 2 \in 1 .. n - off
        BY <4>1, <4>2
      <4>5. (i + 2) + off = i + f
        BY <4>1, <4>2
      <4> QED
        BY <4>3, <4>4, <4>5 DEF f
    <3>2. RestOf(it)[i] = q[i + it.off]
      BY <2>4, <3>1
    <3>3. raw[i + 2] = q[(i + 2) + off]
      BY <1>1, <3>1
    <3> QED
      BY <3>1, <3>2, <3>3
  <2> QED
    BY <2>3, <2>4, <2>5, <2>6 DEF m, raw
<1> QED
  BY <1>3, <1>4

LEMMA DropTwo ==
  ASSUME NEW raw \in Seq(Cells), NEW rest \in Seq(Cells), NEW up \in Seq(Cells), Len(raw) >= 2,
         Len(rest) = Len(raw) - 2, \A i \in 1 .. Len(raw) - 2 : rest[i] = raw[i + 2]
  PROVE  /\ (raw \o up) \in Seq(Cells) /\ (rest \o up) \in Seq(Cells)
         /\ Len(raw \o up) >= 2 /\ Len(rest \o up) = Len(raw \o up) - 2
         /\ \A i \in 1 .. Len(rest \o up) : (rest \o up)[i] = (raw \o up)[i + 2]
         /\ (raw \o up)[1] = raw[1] /\ (raw \o up)[2] = raw[2]
<1> DEFINE q == raw \o up
           r == rest \o up
           m == Len(raw)
           n == Len(up)
<1>1. m \in Nat /\ n \in Nat /\ m >= 2
  OBVIOUS
<1>2. /\ q \in Seq(Cells) /\ Len(q) = m + n
      /\ \A i \in 1 .. m + n : q[i] = IF i <= m THEN raw[i] ELSE up[i - m]
  BY ConcatProperties
<1>3. /\ r \in Seq(Cells) /\ Len(r) = (m - 2) + n
      /\ \A i \in 1 .. (m - 2) + n : r[i] = IF i <= m - 2 THEN rest[i] ELSE up[i - (m - 2)]
  <2>1. /\ r \in Seq(Cells) /\ Len(r) = Len(rest) + n
        /\ \A i \in 1 .. Len(rest) + n : r[i] = IF i <= Len(rest) THEN rest[i] ELSE up[i - Len(rest)]
    BY ConcatProperties
  <2> QED
    BY <2>1
<1>4. \A i \in 1 .. m - 2 : rest[i] = raw[i + 2]
  OBVIOUS
<1> HIDE DEF q, r, m, n
<1>5. Len(q) >= 2 /\ Len(r) = Len(q) - 2
  BY <1>1, <1>2, <1>3
<1>6. ASSUME NEW i \in 1 .. Len(r) PROVE r[i] = q[i + 2]
  <2>1. i \in 1 .. (m - 2) + n /\ i + 2 \in 1 .. m + n
    BY <1>1, <1>3, <1>6
  <2>2. CASE i <= m - 2
    <3>1. i \in 1 .. m - 2 /\ i + 2 <= m
      BY <1>1, <1>6, <2>1, <2>2
    <3>2. r[i] = rest[i] /\ q[i + 2] = raw[i + 2]
      BY <1>2, <1>3, <2>1, <2>2, <3>1
    <3> QED
      BY <1>4, <3>1, <3>2
  <2>3. CASE ~(i <= m - 2)
    <3>1. ~(i + 2 <= m) /\ i - (m - 2) = (i + 2) - m
      BY <1>1, <2>1, <2>3
    <3>2. r[i] = up[i - (m - 2)] /\ q[i + 2] = up[(i + 2) - m]
      BY <1>2, <1>3, <2>1, <2>3, <3>1
    <3> QED
      BY <3>1, <3>2
  <2> QED
    BY <2>2, <2>3
<1>7. q[1] = raw[1] /\ q[2] = raw[2]
  <2>1. 1 \in 1 .. m + n /\ 2 \in 1 .. m + n /\ 1 <= m /\ 2 <= m
    BY <1>1
  <2> QED
    BY <1>2, <2>1
<1> QED
  BY <1>2, <1>3, <1>5, <1>6, <1>7 DEF q, r

\* The first package of c's stream is taken.
LEMMA TakeIn ==
  ASSUME Typed, Typed', NEW c \in Conn, Offset(c), cl[c].stat # "closing", Len(RestOf(cl[c])) >= 2,
         cl'[c].recv_cache = Taken(cl[c], RestOf(cl[c])).recv_cache,
         cl'[c].off = Taken(cl[c], RestOf(cl[c])).off,
         cl'[c].stat = "normal", Parsing(cl'[c]), UNCHANGED <<net, cli>>
  PROVE  /\ Offset(c)'
         /\ \A mid \in Int : StreamAt(c, mid) =>
              LET x == RestOf(cl[c])[1]
              IN  /\ x.op # "normal" => StreamAt(c, mid)'
                  /\ x.op = "normal" => /\ x.data.from = c /\ x.data.id = mid + 1 /\ x.data.len = 1
                                        /\ StreamAt(c, mid + 1)'
<1> DEFINE raw == RestOf(cl[c])
           rest == RestOf(cl'[c])
           up == net[c].up
           s == cli[c].sent
<1>1. /\ cl[c] \in ClientType /\ cl'[c] \in ClientType /\ up \in Seq(Cells) /\ s \in Int
      /\ raw \in Seq(Cells)
  <2>1. cl'[c] \in ClientType
    BY DEF Typed, ClientsTyped
  <2> QED
    BY <2>1, CellsTyped, StreamIs
<1>2. cl[c].off = 0 \/ cl[c].off < Len(cl[c].recv_cache)
  BY DEF Offset
<1>3. /\ cl'[c].off = 0 \/ cl'[c].off < Len(cl'[c].recv_cache)
      /\ rest \in Seq(Cells) /\ Len(rest) = Len(raw) - 2
      /\ \A i \in 1 .. Len(raw) - 2 : rest[i] = raw[i + 2]
  BY <1>1, <1>2, TakenRest
<1>4. Offset(c)'
  BY <1>3 DEF Offset
<1> DEFINE q == raw \o up
           r == rest \o up
<1>5. Stream(c) = q /\ Stream(c)' = r
  BY DEF Stream
<1> HIDE DEF raw, rest, up
<1>6. /\ q \in Seq(Cells) /\ r \in Seq(Cells) /\ Len(q) >= 2 /\ Len(r) = Len(q) - 2
      /\ \A i \in 1 .. Len(r) : r[i] = q[i + 2]
      /\ q[1] = raw[1]
  BY <1>1, <1>3, DropTwo DEF raw
<1> HIDE DEF q, r, s
<1>7. ASSUME NEW mid \in Int, StreamAt(c, mid)
      PROVE  /\ raw[1].op # "normal" => StreamAt(c, mid)'
             /\ raw[1].op = "normal" => /\ raw[1].data.from = c /\ raw[1].data.id = mid + 1
                                        /\ raw[1].data.len = 1 /\ StreamAt(c, mid + 1)'
  <2>1. GoodStream(q, c, mid) /\ (Writes(c) => FullStream(q, mid, s))
    BY <1>5, <1>7 DEF StreamAt, s
  <2>2. /\ q[1].op # "normal" => /\ GoodStream(r, c, mid)
                                 /\ FullStream(q, mid, s) => FullStream(r, mid, s)
        /\ q[1].op = "normal" => /\ q[1].data.from = c /\ q[1].data.id = mid + 1 /\ q[1].data.len = 1
                                 /\ GoodStream(r, c, mid + 1)
                                 /\ FullStream(q, mid, s) => FullStream(r, mid + 1, s)
    BY <1>1, <1>6, <2>1, StreamTake
  <2>3. Writes(c)' <=> Writes(c)
    BY DEF Writes
  <2>4. cli'[c].sent = s
    BY DEF s
  <2> QED
    BY <1>5, <1>6, <2>1, <2>2, <2>3, <2>4 DEF StreamAt
<1> QED
  BY <1>4, <1>7 DEF raw

\* What UnPack makes of a stream that has not been cut.
LEMMA ParseUnpacks ==
  ASSUME NEW raw \in Seq(Cells), NEW up \in Seq(Cells), Alternate(raw \o up), NEW u \in UnPack(raw)
  PROVE  \/ u.ret = "not ready"
         \/ u.ret = "pkg" /\ u.op = raw[1].op /\ u.data = raw[1].data
<1>1. CASE raw = <<>>
  <2>1. u = NotReady
    BY <1>1 DEF UnPack
  <2> QED
    BY <2>1 DEF NotReady
<1>2. CASE raw # <<>>
  <2> DEFINE q == raw \o up
             m == Len(raw)
             n == Len(up)
             k == 1
  <2>1. m \in Nat /\ n \in Nat /\ m > 0 /\ (m # 1 => m >= 2)
    BY <1>2, LenIs
  <2>2. /\ q \in Seq(Cells) /\ Len(q) = m + n
        /\ \A i \in 1 .. m + n : q[i] = IF i <= m THEN raw[i] ELSE up[i - m]
    BY ConcatProperties
  <2> HIDE DEF q, m, n, k
  <2>3. k \in 1 .. m + n /\ k <= m /\ k = 1
    BY <2>1 DEF k
  <2>4. q[k] = raw[k]
    BY <2>2, <2>3
  <2>5. raw[k].part = "head" /\ (k < Len(q) => q[k + 1] = [q[k] EXCEPT !.part = "data"])
    <3>1. /\ k = 1 => q[k].part = "head"
          /\ k < Len(q) /\ q[k].part = "head" => q[k + 1] = [q[k] EXCEPT !.part = "data"]
      BY <2>2, <2>3 DEF Alternate, q
    <3> QED
      BY <2>3, <2>4, <3>1
  <2>6. CASE m = 1
    <3>1. u = NotReady
      BY <1>2, <2>3, <2>5, <2>6 DEF UnPack, m
    <3> QED
      BY <3>1 DEF NotReady
  <2>7. CASE m # 1
    <3>1. /\ k < Len(q) /\ k + 1 \in 1 .. m + n /\ k + 1 <= m /\ k + 1 = 2
      BY <2>1, <2>2, <2>3, <2>7
    <3>2. q[k + 1] = raw[k + 1]
      BY <2>2, <3>1
    <3>3. raw[2] = [raw[1] EXCEPT !.part = "data"] /\ raw[1].part = "head"
      BY <2>3, <2>4, <2>5, <3>1, <3>2
    <3>4. u = Ready(raw[1].op, raw[1].data)
      BY <1>2, <2>7, <3>3 DEF UnPack, m
    <3> QED
      BY <3>4 DEF Ready
  <2> QED
    BY <2>6, <2>7
<1> QED
  BY <1>1, <1>2

LEMMA QueueAppend ==
  ASSUME NEW b \in Seq(Packages), NEW w \in Seq(Items), NEW x \in Items
  PROVE  b \o Append(w, x) = Append(b \o w, x) /\ (b \o w) \in Seq(Waits)
<1> DEFINE m == Len(b)
           n == Len(w)
           a == Append(w, x)
           q == b \o w
<1>1. m \in Nat /\ n \in Nat
  OBVIOUS
<1>2. /\ a \in Seq(Items) /\ Len(a) = n + 1 /\ a[n + 1] = x /\ \A i \in 1 .. n : a[i] = w[i]
  BY AppendProperties
<1>3. /\ q \in Seq(Waits) /\ Len(q) = m + n
      /\ \A i \in 1 .. m + n : q[i] = IF i <= m THEN b[i] ELSE w[i - m]
  BY QueueOf
<1> HIDE DEF a, q
<1>4. /\ (b \o a) \in Seq(Waits) /\ Len(b \o a) = m + (n + 1)
      /\ \A i \in 1 .. m + (n + 1) : (b \o a)[i] = IF i <= m THEN b[i] ELSE a[i - m]
  <2>1. /\ (b \o a) \in Seq(Waits) /\ Len(b \o a) = m + Len(a)
        /\ \A i \in 1 .. m + Len(a) : (b \o a)[i] = IF i <= m THEN b[i] ELSE a[i - m]
    BY <1>2, QueueOf
  <2> QED
    BY <1>2, <2>1
<1>5. x \in Waits
  BY DEF Waits
<1>6. /\ Append(q, x) \in Seq(Waits) /\ Len(Append(q, x)) = (m + n) + 1
      /\ Append(q, x)[(m + n) + 1] = x /\ \A i \in 1 .. m + n : Append(q, x)[i] = q[i]
  <2>1. q \in Seq(Waits) /\ Len(q) = m + n
    BY <1>3
  <2> DEFINE k == m + n
  <2> HIDE DEF k
  <2>2. Len(q) = k
    BY <2>1 DEF k
  <2>3. /\ Append(q, x) \in Seq(Waits) /\ Len(Append(q, x)) = k + 1
        /\ Append(q, x)[k + 1] = x /\ \A i \in 1 .. k : Append(q, x)[i] = q[i]
    BY <1>5, <2>1, <2>2, AppendProperties
  <2> QED
    BY <2>3 DEF k
<1> HIDE DEF m, n
<1>7. ASSUME NEW i \in 1 .. m + (n + 1) PROVE (b \o a)[i] = Append(q, x)[i]
  <2>1. CASE i <= m
    <3>1. i \in 1 .. m + n
      BY <1>1, <1>7, <2>1
    <3> QED
      BY <1>3, <1>4, <1>6, <1>7, <2>1, <3>1
  <2>2. CASE ~(i <= m) /\ i <= m + n
    <3>1. i \in 1 .. m + n /\ i - m \in 1 .. n
      BY <1>1, <1>7, <2>2
    <3>2. (b \o a)[i] = a[i - m] /\ a[i - m] = w[i - m]
      BY <1>2, <1>4, <1>7, <2>2, <3>1
    <3>3. Append(q, x)[i] = q[i] /\ q[i] = w[i - m]
      BY <1>3, <1>6, <2>2, <3>1
    <3> QED
      BY <3>2, <3>3
  <2>3. CASE ~(i <= m + n)
    <3>1. ~(i <= m) /\ i = (m + n) + 1 /\ i - m = n + 1
      BY <1>1, <1>7, <2>3
    <3>2. (b \o a)[i] = a[n + 1]
      BY <1>4, <1>7, <3>1
    <3> QED
      BY <1>2, <1>6, <3>1, <3>2
  <2> QED
    BY <1>1, <2>1, <2>2, <2>3
<1>8. Len(Append(q, x)) = m + (n + 1)
  BY <1>1, <1>6
<1>9. b \o a = Append(q, x)
  BY <1>4, <1>6, <1>7, <1>8, SeqEqual
<1> QED
  BY <1>3, <1>9 DEF a, q

\* A turn of parse, for the other connections.
LEMMA ParseOthers ==
  ASSUME Typed, Typed', SlotsInv, NEW c \in Conn, Parse(c), UNCHANGED <<cli, main>>,
         NEW d \in Conn, d # c, Offset(d)
  PROVE  InKept(d)
<1>1. cl'[d] = cl[d] /\ net' = net
  <2>1. Run(c)
    BY DEF Run
  <2> QED
    BY <2>1, RunIs, Zenon DEF Parse
<1>2. Rested(d)
  BY <1>1, QuietRests DEF Quiet
<1>3. /\ UNCHANGED batch \/ \E data \in Datas : GetBuffer(data)
      /\ \/ UNCHANGED recv_queue
         \/ \E x \in Items : x.key # d /\ recv_queue' = Append(recv_queue, x)
  <2>1. CASE UNCHANGED <<batch, recv_queue>>
    BY <2>1
  <2>2. ASSUME NEW data \in Datas, GetBuffer(data),
               recv_queue' = Append(recv_queue, Item(c, "normal", data, "normal"))
        PROVE  <1>3!:
    <3> DEFINE x == Item(c, "normal", data, "normal")
    <3>1. "normal" \in Ops /\ "normal" \in {"normal", "close"}
      BY DEF Ops
    <3>2. x \in Items /\ x.key = c
      BY <3>1, ItemIs
    <3> HIDE DEF x
    <3>3. recv_queue' = Append(recv_queue, x)
      BY <2>2 DEF x
    <3> QED
      BY <2>2, <3>2, <3>3
  <2> QED
    BY <2>1, <2>2, ParseGives
<1> QED
  BY <1>2, <1>3, RestedIn

\* ... and for its own: its next request is queued, or nothing changes.
LEMMA ParseOwn ==
  ASSUME Typed, Typed', SlotsInv, NEW c \in Conn, Parse(c), UNCHANGED <<cli, main>>, Offset(c)
  PROVE  InKept(c)
<1> DEFINE me == cl[c]
           raw == RestOf(me)
           next == Taken(me, raw)
           up == net[c].up
<1>1. /\ me \in ClientType /\ cl \in [Conn -> ClientType] /\ raw \in Seq(Cells) /\ up \in Seq(Cells)
      /\ me.recv_cache \in Seq(Cells) /\ me.off \in Nat
  BY CellsTyped, StreamIs DEF ClientType
<1>2. UNCHANGED net /\ me.stat = "normal" /\ me.pc = "parse"
  BY NotDone DEF Parse, SlotsInv
<1>3. PICK u \in UnPack(raw) :
       \/ /\ u.ret = "not ready"
          /\ cl' = [cl EXCEPT ![c].recv_cache = KeepRest(me.recv_cache, me.off),
                              ![c].off = 0, ![c].pc = "read"]
          /\ Mar(c, IF me.off > 0 /\ raw # <<>> THEN {"cut"} ELSE {})
          /\ UNCHANGED <<recv_queue, batch>>
       \/ /\ Closing(c, FALSE)
          /\ UNCHANGED <<recv_queue, batch, marred>>
       \/ /\ u.ret = "pkg" /\ ~Fits(u)
          /\ cl' = [cl EXCEPT ![c] = next]
          /\ UNCHANGED <<recv_queue, batch, marred>>
       \/ /\ Fits(u) /\ u.op # "normal"
          /\ LET h == handle_spec_pkg(next, u.op, u.data)
                 drop == h.ans = NoAnswer \/ Len(me.snd_queue) >= ClientCap
             IN  cl' = [cl EXCEPT ![c] = [h.me EXCEPT
                          !.pc = IF drop THEN "parse" ELSE "append",
                          !.item = IF drop THEN NoItem
                                   ELSE Item(c, h.ans.op, h.ans.data, "normal")]]
          /\ UNCHANGED <<recv_queue, batch, marred>>
       \/ /\ cl' = [cl EXCEPT ![c].off = 0, ![c].pc = "send"]
          /\ Mar(c, {"panicked"})
          /\ UNCHANGED <<recv_queue, batch>>
       \/ /\ Fits(u) /\ u.op = "normal"
          /\ GetBuffer(u.data)
          /\ recv_queue' = Append(recv_queue, Item(c, "normal", u.data, "normal"))
          /\ cl' = [cl EXCEPT ![c] = next]
  BY Zenon DEF Parse, RestOf, Admitted
<1>4. u.op \in Ops /\ u.data \in Datas /\ (u.ret = "pkg" => Len(raw) >= 2)
  BY <1>1, UnPackIs
<1>5. next \in ClientType /\ next.pc = me.pc /\ next.stat = me.stat
  <2>1. next \in ClientType /\ next.pc = me.pc
        /\ (next = [me EXCEPT !.recv_cache = <<>>, !.off = 0] \/ next = [me EXCEPT !.off = me.off + 2])
    BY <1>1, TakenIs
  <2> HIDE DEF next
  <2> QED
    BY <1>1, <2>1 DEF ClientType
<1> HIDE DEF next
<1>6. ASSUME NEW mid \in Int, StreamAt(c, mid)
      PROVE  u.ret = "not ready" \/ (u.ret = "pkg" /\ u.op = raw[1].op /\ u.data = raw[1].data)
  <2>1. Alternate(raw \o up)
    BY <1>2, <1>6 DEF StreamAt, Stream, GoodStream
  <2> QED
    BY <1>1, <2>1, ParseUnpacks
<1> HIDE DEF raw
<1>7. CASE /\ u.ret = "not ready"
           /\ cl' = [cl EXCEPT ![c].recv_cache = KeepRest(me.recv_cache, me.off),
                               ![c].off = 0, ![c].pc = "read"]
           /\ Mar(c, IF me.off > 0 /\ raw # <<>> THEN {"cut"} ELSE {})
           /\ UNCHANGED <<recv_queue, batch>>
  <2> DEFINE cache == KeepRest(me.recv_cache, me.off)
  <2>1. /\ cl'[c].recv_cache = cache /\ cl'[c].off = 0 /\ cl'[c].stat = "normal"
    BY <1>1, <1>2, <1>7 DEF ClientType
  <2>2. Offset(c)'
    <3>1. cli'[c].main = "start" => net'[c].up = <<>> /\ cli'[c].sent = 0
      BY <1>2 DEF Offset
    <3> QED
      BY <2>1, <3>1 DEF Offset
  <2>3. ASSUME Clean(c)' PROVE StreamStays(c) /\ QueueStays(c)
    <3>1. me.off = 0
      <4>1. ASSUME me.off # 0 PROVE FALSE
        <5>1. me.off > 0 /\ Len(raw) = Len(me.recv_cache) - me.off /\ me.off < Len(me.recv_cache)
          <6>1. me.off < Len(me.recv_cache)
            BY <1>2, <4>1 DEF Offset
          <6> QED
            BY <1>1, <4>1, <6>1, RestIs DEF raw
        <5>2. Len(raw) > 0
          BY <1>1, <5>1
        <5>3. raw # <<>>
          <6>1. Len(<<>>) = 0
            OBVIOUS
          <6> QED
            BY <5>2, <6>1
        <5>4. Mar(c, {"cut"})
          BY <1>7, <5>1, <5>3
        <5>5. "cut" \in marred'[c]
          BY <5>4, MarIs DEF Typed
        <5> QED
          BY <2>3, <5>5, CleanIs
      <4> QED
        BY <4>1
    <3>2. cache = me.recv_cache
      BY <3>1 DEF KeepRest
    <3>3. Stream(c)' = Stream(c)
      BY <1>2, <2>1, <3>1, <3>2 DEF Stream, RestOf
    <3>4. Rested(c)
      BY <1>2, <2>1, <2>2, <3>3 DEF Rested
    <3>5. StreamStays(c)
      BY <3>4, RestedStays
    <3>6. QueueStays(c)
      BY <1>7, <2>3, CleanIs, BufferStays
    <3> QED
      BY <3>5, <3>6
  <2> QED
    BY <2>2, <2>3, AtStays
<1>8. CASE Closing(c, FALSE) /\ UNCHANGED <<recv_queue, batch, marred>>
  <2>1. Rested(c)
    BY <1>2, <1>8, ClosingQuiet, QuietRests
  <2> QED
    BY <1>8, <2>1, RestedIn
<1>14. CASE /\ cl' = [cl EXCEPT ![c].off = 0, ![c].pc = "send"]
            /\ Mar(c, {"panicked"})
            /\ UNCHANGED <<recv_queue, batch>>
  <2>1. cl'[c].recv_cache = me.recv_cache /\ cl'[c].off = 0 /\ cl'[c].stat = "normal"
    BY <1>1, <1>2, <1>14 DEF ClientType
  <2>2. Offset(c)'
    <3>1. cli'[c].main = "start" => net'[c].up = <<>> /\ cli'[c].sent = 0
      BY <1>2 DEF Offset
    <3> QED
      BY <2>1, <3>1 DEF Offset
  <2>3. "panicked" \in marred'[c]
    BY <1>14, MarIs DEF Typed
  <2> QED
    BY <2>2, <2>3, CleanIs DEF InKept
\* From here on the first package is taken.
<1> DEFINE Takes == /\ cl'[c].recv_cache = next.recv_cache /\ cl'[c].off = next.off
                    /\ cl'[c].stat = "normal" /\ Parsing(cl'[c]) /\ u.ret = "pkg"
<1>9. ASSUME Takes
      PROVE  /\ Offset(c)'
             /\ \A mid \in Int : StreamAt(c, mid) =>
                  LET x == raw[1]
                  IN  /\ x.op # "normal" => StreamAt(c, mid)'
                      /\ x.op = "normal" => /\ x.data.from = c /\ x.data.id = mid + 1 /\ x.data.len = 1
                                            /\ StreamAt(c, mid + 1)'
  <2>1. Len(RestOf(cl[c])) >= 2 /\ cl[c].stat # "closing"
    BY <1>2, <1>4, <1>9 DEF raw
  <2>2. /\ cl'[c].recv_cache = Taken(cl[c], RestOf(cl[c])).recv_cache
        /\ cl'[c].off = Taken(cl[c], RestOf(cl[c])).off
    BY <1>9 DEF next, raw
  <2> QED
    BY <1>2, <1>9, <2>1, <2>2, TakeIn DEF raw
<1>10. ASSUME Takes, u.op # "normal" \/ ~Fits(u), UNCHANGED <<recv_queue, batch>>
       PROVE  InKept(c)
  <2>1. Offset(c)'
    BY <1>9, <1>10
  <2>2. Clean(c)' => QueueStays(c)
    BY <1>10, CleanIs, BufferStays
  <2>3. StreamStays(c)
    <3> SUFFICES ASSUME NEW mid \in Int, StreamAt(c, mid) PROVE StreamAt(c, mid)'
      BY DEF StreamStays
    <3>1. u.op = raw[1].op /\ u.data = raw[1].data
      BY <1>6, <1>10
    <3>2. /\ raw[1].op # "normal" => StreamAt(c, mid)'
          /\ raw[1].op = "normal" => raw[1].data.len = 1
      BY <1>9, <1>10
    <3>3. u.op # "normal"
      <4>1. ASSUME u.op = "normal" PROVE FALSE
        <5>1. u.data.len = 1
          BY <3>1, <3>2, <4>1
        <5>2. 1 <= MaxPkgLen
          BY Consts
        <5>3. Fits(u)
          BY <1>10, <5>1, <5>2 DEF Fits
        <5> QED
          BY <1>10, <4>1, <5>3
      <4> QED
        BY <4>1
    <3> QED
      BY <3>1, <3>2, <3>3
  <2> QED
    BY <2>1, <2>2, <2>3, AtStays
<1>11. CASE /\ u.ret = "pkg" /\ ~Fits(u)
            /\ cl' = [cl EXCEPT ![c] = next]
            /\ UNCHANGED <<recv_queue, batch, marred>>
  <2>1. cl'[c] = next
    BY <1>1, <1>11
  <2>2. Takes
    BY <1>2, <1>5, <1>11, <2>1 DEF Parsing
  <2> QED
    BY <1>10, <1>11, <2>2
<1>12. CASE /\ Fits(u) /\ u.op # "normal"
            /\ LET h == handle_spec_pkg(next, u.op, u.data)
                   drop == h.ans = NoAnswer \/ Len(me.snd_queue) >= ClientCap
               IN  cl' = [cl EXCEPT ![c] = [h.me EXCEPT
                            !.pc = IF drop THEN "parse" ELSE "append",
                            !.item = IF drop THEN NoItem
                                     ELSE Item(c, h.ans.op, h.ans.data, "normal")]]
            /\ UNCHANGED <<recv_queue, batch, marred>>
  <2> DEFINE h == handle_spec_pkg(next, u.op, u.data)
  <2>1. \E p \in {"parse", "append"} : \E x : cl' = [cl EXCEPT ![c] = [h.me EXCEPT !.pc = p, !.item = x]]
    BY <1>12
  <2>2. \E v \in BOOLEAN, e \in {next.enc, "nego"} : h.me = [next EXCEPT !.valid = v, !.enc = e]
    <3>1. u.op # "normal"
      BY <1>12
    <3>2. next \in ClientType /\ u.op \in Ops /\ u.data \in Datas
      BY <1>4, <1>5
    <3>3. /\ \E v \in BOOLEAN, e \in {next.enc, "nego"} : h.me = [next EXCEPT !.valid = v, !.enc = e]
          /\ h.ans.op \in Ops /\ h.ans.op # "normal" /\ h.ans.data \in Datas
      BY <3>1, <3>2, SpecIs, Zenon
    <3> QED
      BY <3>3
  <2> HIDE DEF h
  <2>3. PICK v \in BOOLEAN, e \in {next.enc, "nego"} : h.me = [next EXCEPT !.valid = v, !.enc = e]
    BY <2>2
  <2>4. PICK p \in {"parse", "append"} : \E x : cl' = [cl EXCEPT ![c] = [h.me EXCEPT !.pc = p, !.item = x]]
    BY <2>1
  <2>5. PICK x : cl' = [cl EXCEPT ![c] = [h.me EXCEPT !.pc = p, !.item = x]]
    BY <2>4
  <2>6. cl'[c] = [h.me EXCEPT !.pc = p, !.item = x]
    BY <1>1, <2>5
  <2>7. /\ cl'[c].recv_cache = next.recv_cache /\ cl'[c].off = next.off
        /\ cl'[c].stat = next.stat /\ cl'[c].pc = p
    BY <1>5, <2>3, <2>6 DEF ClientType
  <2>8. Takes
    BY <1>2, <1>5, <1>12, <2>7 DEF Parsing, Fits
  <2> QED
    BY <1>10, <1>12, <2>8
<1>13. CASE /\ Fits(u) /\ u.op = "normal"
            /\ GetBuffer(u.data)
            /\ recv_queue' = Append(recv_queue, Item(c, "normal", u.data, "normal"))
            /\ cl' = [cl EXCEPT ![c] = next]
  <2>1. cl'[c] = next
    BY <1>1, <1>13
  <2>2. Takes
    BY <1>2, <1>5, <1>13, <2>1 DEF Parsing, Fits
  <2>3. Offset(c)'
    BY <1>9, <2>2
  <2> DEFINE x == Item(c, "normal", u.data, "normal")
  <2>4. "normal" \in Ops /\ "normal" \in {"normal", "close"}
    BY DEF Ops
  <2>5. x \in Items /\ x.key = c /\ x.info = "normal" /\ x.data = u.data
    BY <1>4, <2>4, ItemIs
  <2> HIDE DEF x
  <2>6. ASSUME Clean(c)', InAt(c) PROVE InAt(c)'
    <3> DEFINE n == Len(main[c].handled)
    <3>1. PICK mid \in Nat : GoodQueue(Queue, c, n, mid) /\ StreamAt(c, mid)
      BY <2>6 DEF InAt
    <3>2. n \in Int /\ mid \in Int /\ mid + 1 \in Nat
      BY <3>1, HandledIs
    <3> HIDE DEF n
    <3>3. u.op = raw[1].op /\ u.data = raw[1].data
      BY <1>6, <2>2, <3>1, <3>2
    <3>4. raw[1].data.from = c /\ raw[1].data.id = mid + 1 /\ StreamAt(c, mid + 1)'
      BY <1>9, <1>13, <2>2, <3>1, <3>2, <3>3
    <3>5. x.data.from = c /\ x.data.id = mid + 1
      BY <2>5, <3>3, <3>4
    <3>6. GoodQueue(batch' \o recv_queue, c, n, mid)
      <4>1. batch' \in Seq(Packages) /\ Len(batch') = Len(batch)
            /\ \A i \in 1 .. Len(batch) :
                 /\ batch'[i].key = batch[i].key /\ batch'[i].info = batch[i].info
                 /\ batch'[i].data = batch[i].data \/ "reused" \in marred'[batch[i].key]
        BY <1>4, <1>13, GetBufferIs DEF Typed, QueuesTyped
      <4> DEFINE q == Queue
                 r == batch' \o recv_queue
                 m == Len(batch)
                 k == Len(recv_queue)
      <4>2. /\ q \in Seq(Waits) /\ Len(q) = m + k
            /\ \A i \in 1 .. m + k : q[i] = IF i <= m THEN batch[i] ELSE recv_queue[i - m]
        BY QueueIs
      <4>3. /\ r \in Seq(Waits) /\ Len(r) = m + k
            /\ \A i \in 1 .. m + k : r[i] = IF i <= m THEN batch'[i] ELSE recv_queue[i - m]
        <5>1. recv_queue \in Seq(Items)
          BY DEF Typed, QueuesTyped
        <5>2. /\ r \in Seq(Waits) /\ Len(r) = Len(batch') + Len(recv_queue)
              /\ \A i \in 1 .. Len(batch') + Len(recv_queue) :
                   r[i] = IF i <= Len(batch') THEN batch'[i] ELSE recv_queue[i - Len(batch')]
          BY <4>1, <5>1, QueueOf
        <5> QED
          BY <4>1, <5>2
      <4>4. m \in Nat /\ k \in Nat
        BY DEF Typed, QueuesTyped
      <4>5. \A i \in 1 .. m : batch[i].key = c => batch'[i].data = batch[i].data
        <5> SUFFICES ASSUME NEW i \in 1 .. m, batch[i].key = c PROVE batch'[i].data = batch[i].data
          OBVIOUS
        <5>1. batch'[i].data = batch[i].data \/ "reused" \in marred'[batch[i].key]
          BY <4>1
        <5> QED
          BY <2>6, <5>1, CleanIs
      <4>6. \A i \in 1 .. m : batch'[i].key = batch[i].key /\ batch'[i].info = batch[i].info
        BY <4>1
      <4> HIDE DEF q, r, m, k
      <4>7. ASSUME NEW i \in 1 .. Len(q)
            PROVE  /\ r[i].key = q[i].key /\ r[i].info = q[i].info
                   /\ q[i].key = c => r[i].data = q[i].data
        <5>1. i \in 1 .. m + k
          BY <4>2, <4>7
        <5>2. CASE i <= m
          <6>1. i \in 1 .. m /\ q[i] = batch[i] /\ r[i] = batch'[i]
            BY <4>2, <4>3, <4>4, <5>1, <5>2
          <6> QED
            BY <4>5, <4>6, <6>1
        <5>3. CASE ~(i <= m)
          <6>1. r[i] = q[i]
            BY <4>2, <4>3, <5>1, <5>3
          <6> QED
            BY <6>1
        <5> QED
          BY <5>2, <5>3
      <4>8. Len(q) <= Len(r) /\ \A i \in 1 .. Len(r) : ~(i > Len(q))
        BY <4>2, <4>3, <4>4
      <4>9. GoodQueue(q, c, n, mid)
        BY <3>1 DEF q
      <4>10. GoodQueue(r, c, n, mid)
        BY <3>2, <4>2, <4>3, <4>7, <4>8, <4>9, QueueKeep
      <4> QED
        BY <4>10 DEF r
    <3>7. GoodQueue(Queue', c, n, mid + 1)
      <4> DEFINE r == batch' \o recv_queue
      <4>1. batch' \in Seq(Packages) /\ recv_queue \in Seq(Items)
        BY DEF Typed, QueuesTyped
      <4>2. Queue' = Append(r, x) /\ r \in Seq(Waits)
        <5>1. recv_queue' = Append(recv_queue, x)
          BY <1>13 DEF x
        <5> QED
          BY <2>5, <4>1, <5>1, QueueAppend DEF Queue
      <4>3. x \in Waits
        BY <2>5 DEF Waits
      <4> HIDE DEF r
      <4>4. GoodQueue(r, c, n, mid)
        BY <3>6 DEF r
      <4>5. GoodQueue(Append(r, x), c, n, mid + 1)
        BY <2>5, <3>2, <3>5, <4>2, <4>3, <4>4, QueueAdd
      <4> QED
        BY <4>2, <4>5
    <3>8. n = Len(main'[c].handled) /\ Numbered(main'[c].handled, c)
      BY <2>6 DEF n, InAt
    <3> QED
      BY <3>2, <3>4, <3>7, <3>8 DEF InAt
  <2> QED
    BY <2>3, <2>6 DEF InKept
<1> QED
  BY <1>3, <1>7, <1>8, <1>11, <1>12, <1>13, <1>14

LEMMA StillIn ==
  ASSUME Typed, Typed', UNCHANGED <<cl, net, cli, batch, recv_queue, main>>, NEW c \in Conn, Offset(c)
  PROVE  InKept(c)
<1>1. Rested(c)
  BY QuietRests DEF Quiet
<1> QED
  BY <1>1, RestedIn

LEMMA NextIn ==
  ASSUME Typed, SlotsInv, InInv, Next
  PROVE  InInv'
<1>1. Typed'
  BY NextTyped
<1>2. ASSUME NEW d \in Conn PROVE InKept(d)
  <2>1. Offset(d)
    BY DEF InInv
  <2>2. CASE TcpServer /\ UNCHANGED <<cli, main>>
    BY <1>1, <2>1, <2>2, ServIn
  <2>3. ASSUME NEW c \in Conn, Run(c), UNCHANGED <<cli, main>> PROVE InKept(d)
    <3>1. CASE ~Parse(c)
      BY <1>1, <2>1, <2>3, <3>1, TurnIn
    <3>2. CASE Parse(c) /\ d # c
      BY <1>1, <2>1, <2>3, <3>2, ParseOthers
    <3>3. CASE Parse(c) /\ d = c
      BY <1>1, <2>1, <2>3, <3>3, ParseOwn
    <3> QED
      BY <3>1, <3>2, <3>3
  <2>4. ASSUME NEW c \in Conn, Client(c), UNCHANGED main PROVE InKept(d)
    BY <1>1, <2>1, <2>4, ClientIn
  <2>5. ASSUME NEW c \in Conn, SendToClient(c) \/ MainCloses(c) PROVE InKept(d)
    BY <1>1, <2>1, <2>5, SendIn
  <2>6. CASE ReadClients
    BY <1>1, <2>1, <2>6, RecvIn
  <2>7. CASE HandleClientPkg
    BY <2>1, <2>7, HandleIn
  <2>8. CASE ServerExit
    BY <1>1, <2>1, <2>8, StillIn DEF ServerExit, Close
  <2> QED
    BY <2>2, <2>3, <2>4, <2>5, <2>6, <2>7, <2>8 DEF Next
<1>3. ASSUME NEW d \in Conn PROVE Offset(d)' /\ (Clean(d)' => InAt(d)')
  <2>1. marred[d] \subseteq marred'[d]
    BY NextMars
  <2>2. Clean(d)' => Clean(d)
    BY <2>1 DEF Clean
  <2> QED
    BY <1>2, <1>3, <2>2 DEF InKept, InInv
<1> QED
  BY <1>3 DEF InInv

LEMMA AlwaysIn == Spec => [](Typed /\ SlotsInv /\ InInv)
<1>1. ConnNetInit => Typed /\ SlotsInv /\ InInv
  BY InitTyped, InitSlots, InitIn
<1>2. Typed /\ SlotsInv /\ InInv /\ [Next]_vars => (Typed /\ SlotsInv /\ InInv)'
  <2> SUFFICES ASSUME Typed, SlotsInv, InInv, [Next]_vars PROVE Typed' /\ SlotsInv' /\ InInv'
    OBVIOUS
  <2>1. CASE Next
    BY <2>1, NextTyped, NextSlots, NextIn
  <2>2. CASE UNCHANGED vars
    <3>1. Typed' /\ SlotsInv'
      <4>1. Typed'
        BY <2>2, KeptTyped DEF vars, tcpVars, servVars, Typed
      <4>2. SlotsInv'
        BY <2>2, SlotsStay DEF vars, tcpVars, servVars
      <4> QED
        BY <4>1, <4>2
    <3>2. InInv'
      BY <2>2 DEF vars, tcpVars, servVars, InInv, InAt, Offset, Clean, StreamAt, Stream, RestOf, Writes, Queue, Parsing
    <3> QED
      BY <3>1, <3>2
  <2> QED
    BY <2>1, <2>2
<1> QED
  BY <1>1, <1>2, PTL DEF Spec

\* InOrder: main handles the requests of a client in the order they were
\* sent, and each once: unless a read cut a package, a buffer was taken or a
\* decryption panicked.
THEOREM Requests == Spec => []InOrder
<1>1. InInv => InOrder
  BY DEF InInv, InAt, InOrder, Clean, Numbered
<1> QED
  BY <1>1, AlwaysIn, PTL

-----------------------------------------------------------------------------
(* The keys, for what main is handed: as long as nothing of a game client  *)
(* was lost, each of its packages bears the key of its connection, and no  *)
(* decryption of them panics.                                              *)

Unharmed(c) == marred[c] \cap {"cut", "reused", "torn"} = {}
HeldAt(c) ==
  IsGame(c) /\ Unharmed(c) =>
    /\ "panicked" \notin marred[c]
    /\ \A d \in ToSet(main[c].handled) : KeyHeld(c, d)
    /\ \A x \in Given(c) : KeyHeld(c, x.data)
HeldInv == \A c \in Conn : HeldAt(c)

\* The package run takes next is one the client sent with its key.
LEMMA TakenKeyed ==
  ASSUME Typed, SlotsInv, KeysInv, InInv, NEW c \in Conn, IsGame(c), Unharmed(c),
         "panicked" \notin marred[c], cl[c].pc = "parse",
         NEW u \in UnPack(RestOf(cl[c])), Admitted(c, u)
  PROVE  KeyHeld(c, u.data)
<1> DEFINE raw == RestOf(cl[c])
<1>1. raw \in Seq(Cells) /\ net[c].up \in Seq(Cells) /\ cl[c].recv_cache \in Seq(Cells) /\ cl[c].off \in Nat
  BY CellsTyped, StreamIs DEF ClientType
<1>2. cl[c].stat = "normal"
  BY NotDone DEF SlotsInv
<1>3. Clean(c) /\ "torn" \notin marred[c]
  BY DEF Unharmed, Clean
<1>4. Alternate(raw \o net[c].up)
  <2>1. PICK mid \in Nat : StreamAt(c, mid)
    BY <1>3 DEF InInv, InAt
  <2> QED
    BY <1>2, <2>1 DEF StreamAt, Stream, GoodStream
<1>5. ToSet(raw) \subseteq ToSet(cl[c].recv_cache)
  BY <1>1, MembersCut DEF RestOf
<1>6. u \in UnPack(raw)
  OBVIOUS
<1> HIDE DEF raw
<1>7. u.ret = "pkg" /\ u.op = "normal"
  BY DEF Admitted, Fits
<1>8. raw[1].op = "normal" /\ raw[1].data = u.data
  BY <1>1, <1>4, <1>6, <1>7, ParseUnpacks
<1>9. raw # <<>>
  <2>1. ASSUME raw = <<>> PROVE FALSE
    <3>1. u = NotReady
      BY <1>6, <2>1 DEF UnPack
    <3> QED
      BY <1>7, <3>1 DEF NotReady
  <2> QED
    BY <2>1
<1>10. raw[1] \in ToSet(raw)
  <2>1. 1 \in 1 .. Len(raw)
    BY <1>1, <1>9, LenIs
  <2> QED
    BY <1>1, <2>1, Members
<1>11. raw[1] \in Coming(c)
  BY <1>5, <1>10 DEF Coming
<1> QED
  BY <1>3, <1>8, <1>11 DEF KeysInv, ComingKeys

\* A panic is one of a decryption.
Panics(d) ==
  /\ cl[d].pc = "parse"
  /\ \E u \in UnPack(RestOf(cl[d])) : Admitted(d, u) /\ "panic" \in decrypt(d, u.data)

LEMMA ParsePanics ==
  ASSUME Typed, NEW c \in Conn, Parse(c), NEW d \in Conn,
         "panicked" \in marred'[d], "panicked" \notin marred[d]
  PROVE  Panics(d)
<1> DEFINE raw == RestOf(cl[c])
<1>1. raw \in Seq(Cells)
  BY StreamIs
<1>2. \/ Mar(c, {"cut"}) \/ Mar(c, {}) \/ UNCHANGED marred
      \/ \E u \in UnPack(raw) : GetBuffer(u.data)
      \/ /\ Mar(c, {"panicked"}) /\ cl[c].pc = "parse"
         /\ \E u \in UnPack(raw) : Admitted(c, u) /\ "panic" \in decrypt(c, u.data)
  BY DEF Parse, RestOf
<1> HIDE DEF raw
<1>3. /\ {"cut"} \in SUBSET {"reused", "cut", "torn", "panicked"}
      /\ {"panicked"} \in SUBSET {"reused", "cut", "torn", "panicked"}
      /\ {} \in SUBSET {"reused", "cut", "torn", "panicked"}
  OBVIOUS
<1>4. ~Mar(c, {"cut"}) /\ ~Mar(c, {}) /\ marred' # marred
  <2>1. MarredTyped
    BY DEF Typed
  <2>2. ASSUME NEW what \in SUBSET {"reused", "cut", "torn", "panicked"}, Mar(c, what)
        PROVE  "panicked" \in what /\ d = c
    BY <2>1, <2>2, MarIs
  <2> QED
    BY <1>3, <2>2
<1>5. ASSUME NEW u \in UnPack(raw), GetBuffer(u.data) PROVE FALSE
  <2>1. u.data \in Datas
    BY <1>1, UnPackIs
  <2> QED
    BY <1>5, <2>1, GetBufferIs DEF Typed, QueuesTyped
<1>6. Mar(c, {"panicked"}) /\ Panics(c)
  BY <1>2, <1>4, <1>5 DEF Panics, raw
<1>7. d = c
  BY <1>3, <1>6, MarIs DEF Typed
<1> QED
  BY <1>6, <1>7

LEMMA FlushCalm ==
  ASSUME Typed, NEW c \in Conn, NEW cache \in Seq(Cells), NEW done, NEW part,
         Flush(c, cache, done, part), NEW d \in Conn, "panicked" \notin marred[d]
  PROVE  "panicked" \notin marred'[d]
<1>1. \A n \in Nat : /\ (IF n > 0 THEN {"torn"} ELSE {}) \in SUBSET {"reused", "cut", "torn", "panicked"}
                     /\ "panicked" \notin (IF n > 0 THEN {"torn"} ELSE {})
  OBVIOUS
<1>2. (\E n \in Nat : Mar(c, IF n > 0 THEN {"torn"} ELSE {})) \/ UNCHANGED marred
  BY FlushIs
<1>3. ASSUME NEW what \in SUBSET {"reused", "cut", "torn", "panicked"}, Mar(c, what), "panicked" \notin what
      PROVE  "panicked" \notin marred'[d]
  BY <1>3, MarIs DEF Typed
<1> QED
  BY <1>1, <1>2, <1>3

LEMMA NextPanics ==
  ASSUME Typed, SlotsInv, Next, NEW d \in Conn, "panicked" \in marred'[d], "panicked" \notin marred[d]
  PROVE  Panics(d)
<1>1. CASE TcpServer
  <2>1. UNCHANGED marred
    BY <1>1 DEF TcpServer, Accept, AcceptTimeout, ServerStops, CloseClient, CloseDone, Dispatch,
       DispatchAppend, DispatchDone
  <2> QED
    BY <2>1
<1>2. ASSUME NEW c \in Conn, Run(c) PROVE Panics(d)
  <2>1. CASE (\E n \in 1 .. Len(net[c].up) : Read(c, n)) \/ ReadTimeout(c) \/ ReadClosed(c)
             \/ AppendOwn(c) \/ SendEnd(c)
    <3>1. UNCHANGED marred
      BY <2>1, Zenon DEF Read, ReadTimeout, ReadClosed, AppendOwn, SendEnd
    <3> QED
      BY <3>1
  <2>2. CASE SendFirst(c)
    <3>1. UNCHANGED marred \/ \E done, part : Flush(c, cl[c].snd_cache, done, part)
      BY <2>2 DEF SendFirst
    <3>2. cl[c].snd_cache \in Seq(Cells)
      BY CellsTyped
    <3> QED
      BY <3>1, <3>2, FlushCalm
  <2>3. CASE SendPkg(c)
    <3> DEFINE cache == Pkg(Head(cl[c].snd_queue).op, Encrypted(cl[c], Head(cl[c].snd_queue)))
    <3>1. /\ Head(cl[c].snd_queue) \in Items
          /\ UNCHANGED marred \/ \E done, part : Flush(c, cache, done, part)
      BY <2>3, SendPkgIs
    <3>2. cache \in Seq(Cells)
      BY <3>1, CellsTyped, EncryptedIs, PkgIs
    <3> HIDE DEF cache
    <3> QED
      BY <3>1, <3>2, FlushCalm
  <2> QED
    BY <1>2, <2>1, <2>2, <2>3, ParsePanics DEF Run
<1>3. CASE \E c \in Conn : Client(c)
  <2>1. UNCHANGED marred
    BY <1>3, Zenon DEF Client, Connect, ConnectFails, GameSend, OtherSend, GameExit, GameClosed,
       RecvPkg, cliRest
  <2> QED
    BY <2>1
<1>4. CASE \E c \in Conn : SendToClient(c) \/ MainCloses(c)
  <2>1. UNCHANGED <<batch, marred>> \/ \E data \in Datas : GetBuffer(data)
    BY <1>4, SendIs
  <2> QED
    BY <2>1, GetBufferIs DEF Typed, QueuesTyped
<1>5. CASE ReadClients \/ HandleClientPkg \/ ServerExit
  <2>1. UNCHANGED marred
    BY <1>5 DEF ReadClients, Recv, HandleClientPkg, ServerExit, Close
  <2> QED
    BY <2>1
<1> QED
  BY <1>1, <1>2, <1>3, <1>4, <1>5 DEF Next

LEMMA NextHeld ==
  ASSUME Typed, SlotsInv, KeysInv, InInv, HeldInv, Next
  PROVE  HeldInv'
<1> SUFFICES ASSUME NEW c \in Conn, IsGame(c)', Unharmed(c)'
             PROVE  /\ "panicked" \notin marred'[c]
                    /\ \A d \in ToSet(main'[c].handled) : KeyHeld(c, d)'
                    /\ \A x \in Given(c)' : KeyHeld(c, x.data)'
  BY DEF HeldInv, HeldAt
<1>1. IsGame(c) /\ Unharmed(c) /\ "reused" \notin marred'[c]
  BY KeyMoves, NextMars DEF IsGame, Unharmed
<1>2. /\ "panicked" \notin marred[c]
      /\ \A d \in ToSet(main[c].handled) : KeyIs(c, d.enc)
      /\ \A x \in Given(c) : KeyIs(c, x.data.enc)
  BY <1>1 DEF HeldInv, HeldAt, KeyHeld
<1>3. \A e : KeyIs(c, e) => KeyIs(c, e)'
  BY HeldStays
<1>4. ASSUME cl[c].pc = "parse", NEW u \in UnPack(RestOf(cl[c])), Admitted(c, u)
      PROVE  KeyIs(c, u.data.enc) /\ "panic" \notin decrypt(c, u.data)
  <2>1. KeyIs(c, u.data.enc)
    BY <1>1, <1>2, <1>4, TakenKeyed DEF KeyHeld
  <2> QED
    BY <2>1 DEF KeyIs, decrypt
<1>5. "panicked" \notin marred'[c]
  BY <1>2, <1>4, NextPanics DEF Panics
<1>6. /\ \A x \in Given(c)' : (\E y \in Given(c) : y.data = x.data) \/ Heard(c, x.data)
      /\ \A d \in ToSet(main'[c].handled) : d \in ToSet(main[c].handled) \/ \E y \in Given(c) : y.data = d
  BY <1>1, NextHanded DEF Handed
<1>7. ASSUME NEW x \in Given(c)' PROVE KeyIs(c, x.data.enc)
  <2>1. CASE \E y \in Given(c) : y.data = x.data
    BY <1>2, <2>1
  <2>2. CASE Heard(c, x.data)
    BY <1>4, <2>2 DEF Heard, RestOf
  <2> QED
    BY <1>6, <1>7, <2>1, <2>2
<1>8. ASSUME NEW d \in ToSet(main'[c].handled) PROVE KeyIs(c, d.enc)
  BY <1>2, <1>6, <1>8
<1> QED
  BY <1>3, <1>5, <1>7, <1>8 DEF KeyHeld

LEMMA InitHeld == ConnNetInit /\ Typed => HeldInv
<1> SUFFICES ASSUME ConnNetInit, Typed, NEW c \in Conn PROVE HeldAt(c)
  BY DEF HeldInv
<1>1. marred[c] = {} /\ batch = <<>> /\ recv_queue = <<>> /\ main[c].handled = <<>>
  BY DEF ConnNetInit, TcpInit
<1>2. ToSet(main[c].handled) = {} /\ Given(c) = {}
  BY <1>1, MembersEmpty DEF Given
<1> QED
  BY <1>1, <1>2 DEF HeldAt

LEMMA AlwaysHeld == Spec => [](Typed /\ SlotsInv /\ KeysInv /\ InInv /\ HeldInv)
<1>1. ConnNetInit => HeldInv
  BY InitTyped, InitHeld
<1>2. Typed /\ SlotsInv /\ KeysInv /\ InInv /\ HeldInv /\ [Next]_vars => HeldInv'
  <2>1. ASSUME HeldInv, UNCHANGED vars PROVE HeldInv'
    BY <2>1 DEF HeldInv, HeldAt, Unharmed, KeyHeld, KeyIs, Given, IsGame, Method, EncType, vars, tcpVars,
       servVars
  <2> QED
    BY <2>1, NextHeld
<1> QED
  BY <1>1, <1>2, AlwaysKeys, AlwaysIn, PTL DEF Spec

\* KeysAgree: the server and a game client encrypt with the same key: main
\* gets no noise from it, no decryption panics, and what the client can tell
\* from noise was made with the key it has.
THEOREM Keys == Spec => []KeysAgree
<1>1. Typed /\ KeysInv /\ HeldInv => KeysAgree
  <2> SUFFICES ASSUME Typed, KeysInv, HeldInv, NEW c \in Conn, IsGame(c), "torn" \notin marred[c]
               PROVE  /\ marred[c] \cap {"cut", "reused"} = {} =>
                           /\ "panicked" \notin marred[c]
                           /\ \A i \in 1 .. Len(main[c].handled) : main[c].handled[i].enc = cl[c].enc
                      /\ \A i \in 1 .. Len(cli[c].got) :
                           cli[c].got[i] = Junk \/ cli[c].got[i].enc = AskKey(c)
    BY Zenon DEF KeysAgree
  <2>1. main[c].handled \in Seq(Datas) /\ cli[c].got \in Seq(Datas)
    BY HandledIs, ClientTyped
  <2>2. ASSUME marred[c] \cap {"cut", "reused"} = {}
        PROVE  /\ "panicked" \notin marred[c]
               /\ \A i \in 1 .. Len(main[c].handled) : main[c].handled[i].enc = cl[c].enc
    <3>1. Unharmed(c)
      BY <2>2 DEF Unharmed
    <3>2. "panicked" \notin marred[c] /\ \A d \in ToSet(main[c].handled) : d.enc = cl[c].enc
      BY <3>1 DEF HeldInv, HeldAt, KeyHeld, KeyIs
    <3> QED
      BY <2>1, <3>2, Members
  <2>3. ASSUME NEW i \in 1 .. Len(cli[c].got)
        PROVE  cli[c].got[i] = Junk \/ cli[c].got[i].enc = AskKey(c)
    <3>1. cli[c].got[i] \in ToSet(cli[c].got)
      BY <2>1, <2>3, Members
    <3>2. \A d \in ToSet(cli[c].got) : d = Junk \/ d.enc = AskKey(c)
      BY DEF KeysInv, GameKeys, GameAt
    <3> QED
      BY <3>1, <3>2
  <2> QED
    BY <2>2, <2>3
<1> QED
  BY <1>1, AlwaysHeld, PTL

-----------------------------------------------------------------------------
(* The order of the answers: what the client read, what is on the wire,    *)
(* in the caches and in the queues rises from one to the next.             *)

\* The numbers f of the places I rise, above lo and up to hi.
Climbs(I, f, lo, hi) ==
  /\ lo <= hi /\ \A i \in I : lo < f[i] /\ f[i] <= hi
  /\ \A i, j \in I : i < j => f[i] < f[j]

LEMMA ClimbsNone ==
  ASSUME NEW f, NEW lo \in Int, NEW hi \in Int, lo <= hi
  PROVE  Climbs({}, f, lo, hi)
BY DEF Climbs

\* Places moved by k, perhaps some left out.
LEMMA ClimbsPart ==
  ASSUME NEW I \in SUBSET Int, NEW J \in SUBSET Int, NEW k \in Int,
         NEW f \in [I -> Int], NEW g \in [J -> Int], NEW lo \in Int, NEW hi \in Int,
         \A j \in J : j + k \in I /\ g[j] = f[j + k], Climbs(I, f, lo, hi)
  PROVE  /\ Climbs(J, g, lo, hi)
         /\ \A a \in I : (\A j \in J : a < j + k) => /\ lo < f[a] /\ f[a] <= hi
                                                     /\ Climbs(J, g, f[a], hi)
<1>1. ASSUME NEW i \in J, NEW j \in J, i < j PROVE g[i] < g[j]
  <2>1. i + k \in I /\ j + k \in I /\ i + k < j + k /\ g[i] = f[i + k] /\ g[j] = f[j + k]
    BY <1>1
  <2> QED
    BY <2>1 DEF Climbs
<1>2. \A j \in J : lo < g[j] /\ g[j] <= hi
  BY DEF Climbs
<1>3. ASSUME NEW a \in I, \A j \in J : a < j + k
      PROVE  lo < f[a] /\ f[a] <= hi /\ Climbs(J, g, f[a], hi)
  <2>1. lo < f[a] /\ f[a] <= hi
    BY DEF Climbs
  <2>2. ASSUME NEW j \in J PROVE f[a] < g[j]
    <3>1. j + k \in I /\ a < j + k /\ g[j] = f[j + k]
      BY <1>3
    <3> QED
      BY <3>1 DEF Climbs
  <2> QED
    BY <1>1, <1>2, <2>1, <2>2 DEF Climbs
<1> QED
  BY <1>1, <1>2, <1>3 DEF Climbs

\* The places I, and after the n-th the places K.
Joins(J, g, I, e, n, K, f) ==
  \A j \in J : \/ j <= n /\ j \in I /\ g[j] = e[j]
               \/ n < j /\ j - n \in K /\ g[j] = f[j - n]

LEMMA ClimbsJoin ==
  ASSUME NEW I \in SUBSET Int, NEW K \in SUBSET Int, NEW J \in SUBSET Int, NEW n \in Int,
         NEW e \in [I -> Int], NEW f \in [K -> Int], NEW g \in [J -> Int],
         NEW lo \in Int, NEW mid \in Int, NEW hi \in Int,
         Joins(J, g, I, e, n, K, f), Climbs(I, e, lo, mid), Climbs(K, f, mid, hi)
  PROVE  Climbs(J, g, lo, hi)
<1>1. ASSUME NEW j \in J
      PROVE  /\ lo < g[j] /\ g[j] <= hi
             /\ j <= n => g[j] <= mid
             /\ n < j => mid < g[j]
  <2>0. lo <= mid /\ mid <= hi
    BY DEF Climbs
  <2> USE DEF Joins
  <2>1. CASE j <= n /\ j \in I /\ g[j] = e[j]
    <3>1. lo < e[j] /\ e[j] <= mid
      BY <2>1 DEF Climbs
    <3> QED
      BY <2>0, <2>1, <3>1
  <2>2. CASE n < j /\ j - n \in K /\ g[j] = f[j - n]
    <3>1. mid < f[j - n] /\ f[j - n] <= hi
      BY <2>2 DEF Climbs
    <3> QED
      BY <2>0, <2>2, <3>1
  <2> QED
    BY <2>1, <2>2
<1>2. ASSUME NEW i \in J, NEW j \in J, i < j PROVE g[i] < g[j]
  <2> USE DEF Joins
  <2>1. CASE i <= n /\ n < j
    BY <1>1, <2>1
  <2>2. CASE j <= n
    <3>1. i \in I /\ j \in I /\ g[i] = e[i] /\ g[j] = e[j]
      BY <1>2, <2>2
    <3> QED
      BY <1>2, <3>1 DEF Climbs
  <2>3. CASE n < i
    <3>1. i - n \in K /\ j - n \in K /\ i - n < j - n /\ g[i] = f[i - n] /\ g[j] = f[j - n]
      BY <1>2, <2>3
    <3> QED
      BY <3>1 DEF Climbs
  <2> QED
    BY <1>2, <2>1, <2>2, <2>3
<1>3. lo <= hi
  BY DEF Climbs
<1> QED
  BY <1>1, <1>2, <1>3 DEF Climbs

\* What the places I of q tell c.
Tells(I, q, c, lo, hi) == (\A i \in I : q[i].data.from = c) /\ Climbs(I, Ids(I, q), lo, hi)

LEMMA TellsNone ==
  ASSUME NEW q, NEW c, NEW lo \in Int, NEW hi \in Int, lo <= hi
  PROVE  Tells({}, q, c, lo, hi)
BY ClimbsNone DEF Tells

\* The answers in a row of cells.
LEMMA SaysJoin ==
  ASSUME NEW p \in Seq(Cells), NEW q \in Seq(Cells), NEW c,
         NEW lo \in Int, NEW mid \in Int, NEW hi \in Int,
         Tells(Heads(p), p, c, lo, mid), Tells(Heads(q), q, c, mid, hi)
  PROVE  Tells(Heads(p \o q), p \o q, c, lo, hi)
<1> DEFINE r == p \o q
           I == Heads(p)
           K == Heads(q)
           J == Heads(r)
           e == Ids(I, p)
           f == Ids(K, q)
           g == Ids(J, r)
           n == Len(p)
           m == Len(q)
<1>1. /\ r \in Seq(Cells) /\ Len(r) = n + m
      /\ \A i \in 1 .. n + m : r[i] = IF i <= n THEN p[i] ELSE q[i - n]
  BY ConcatProperties
<1>2. n \in Nat /\ m \in Nat
  OBVIOUS
<1> HIDE DEF r
<1>3. /\ I \in SUBSET Int /\ K \in SUBSET Int /\ J \in SUBSET Int
      /\ e \in [I -> Int] /\ f \in [K -> Int] /\ g \in [J -> Int]
      /\ Climbs(I, e, lo, mid) /\ Climbs(K, f, mid, hi)
  BY <1>1, IdsAre DEF Tells
<1>4. \A j \in J : /\ j \in 1 .. n + m /\ r[j].part = "head" /\ r[j].op = "normal"
  BY <1>1 DEF Heads
<1>5. ASSUME NEW j \in J
      PROVE  \/ j <= n /\ j \in I /\ r[j] = p[j]
             \/ n < j /\ j - n \in K /\ r[j] = q[j - n]
  <2>1. CASE j <= n
    <3>1. j \in 1 .. n /\ r[j] = p[j]
      BY <1>1, <1>2, <1>4, <2>1
    <3>2. j \in I
      BY <1>4, <3>1 DEF Heads
    <3> QED
      BY <2>1, <3>1, <3>2
  <2>2. CASE ~(j <= n)
    <3>1. j - n \in 1 .. m /\ n < j
      BY <1>2, <1>4, <2>2
    <3>2. r[j] = q[j - n]
      BY <1>1, <1>4, <2>2
    <3>3. j - n \in K
      BY <1>4, <3>1, <3>2 DEF Heads
    <3> QED
      BY <3>1, <3>2, <3>3
  <2> QED
    BY <2>1, <2>2
<1>6. \A j \in J : \/ j <= n /\ j \in I /\ g[j] = e[j]
                   \/ n < j /\ j - n \in K /\ g[j] = f[j - n]
  <2> SUFFICES ASSUME NEW j \in J PROVE \/ j <= n /\ j \in I /\ g[j] = e[j]
                                        \/ n < j /\ j - n \in K /\ g[j] = f[j - n]
    OBVIOUS
  <2>1. g[j] = r[j].data.id /\ (\A i \in I : e[i] = p[i].data.id) /\ (\A i \in K : f[i] = q[i].data.id)
    BY DEF Ids
  <2> HIDE DEF I, J, K, e, f, g, n
  <2> QED
    BY <1>5, <2>1, Zenon
<1>7. \A j \in J : r[j].data.from = c
  BY <1>5 DEF Tells
<1> HIDE DEF I, J, K, e, f, g, n, m
<1>8. Climbs(J, g, lo, hi)
  <2>1. n \in Int
    BY <1>2
  <2>2. Joins(J, g, I, e, n, K, f)
    BY <1>6 DEF Joins
  <2> QED
    BY <1>3, <2>1, <2>2, ClimbsJoin
<1> QED
  BY <1>7, <1>8 DEF Tells, J, g, r

\* The first n cells go.
LEMMA SaysCut ==
  ASSUME NEW q \in Seq(Cells), NEW n \in 1 .. Len(q), NEW c, NEW lo \in Int, NEW hi \in Int,
         Tells(Heads(q), q, c, lo, hi)
  PROVE  LET r == SubSeq(q, n + 1, Len(q))
         IN  /\ r \in Seq(Cells) /\ Tells(Heads(r), r, c, lo, hi)
             /\ q[1].part = "head" /\ q[1].op = "normal" =>
                  /\ q[1].data.from = c /\ lo < q[1].data.id /\ q[1].data.id <= hi
                  /\ Tells(Heads(r), r, c, q[1].data.id, hi)
<1> DEFINE r == SubSeq(q, n + 1, Len(q))
           I == Heads(q)
           J == Heads(r)
           f == Ids(I, q)
           g == Ids(J, r)
           m == Len(q)
           a == 1
<1>1. n \in Nat /\ m \in Nat /\ n <= m /\ 1 <= n
  OBVIOUS
<1>2. r \in Seq(Cells)
  BY <1>1, Cut
<1>3. Len(r) = m - n
  BY <1>1
<1>4. \A i \in 1 .. m - n : r[i] = q[i + n] /\ i + n \in 1 .. m /\ 1 < i + n
  <2> SUFFICES ASSUME NEW i \in 1 .. m - n PROVE r[i] = q[i + n] /\ i + n \in 1 .. m /\ 1 < i + n
    OBVIOUS
  <2>1. i + n \in 1 .. m /\ 1 < i + n /\ (n + 1) + i - 1 = i + n
    BY <1>1
  <2>2. r[i] = q[(n + 1) + i - 1]
    BY <1>1
  <2> QED
    BY <2>1, <2>2
<1> HIDE DEF r
<1>5. /\ I \in SUBSET Int /\ J \in SUBSET Int /\ f \in [I -> Int] /\ g \in [J -> Int]
      /\ Climbs(I, f, lo, hi) /\ n \in Int
  BY <1>1, <1>2, IdsAre DEF Tells
<1>6. \A j \in J : /\ j + n \in I /\ r[j] = q[j + n] /\ 1 < j + n
  BY <1>3, <1>4 DEF Heads
<1>7. \A j \in J : j + n \in I /\ g[j] = f[j + n]
  BY <1>6 DEF Ids
<1>8. \A j \in J : r[j].data.from = c
  BY <1>6 DEF Tells
<1>9. a \in 1 .. m /\ a = 1
  BY <1>1
<1> HIDE DEF a
<1>10. a \in I <=> q[a].part = "head" /\ q[a].op = "normal"
  BY <1>9 DEF Heads
<1>11. a \in I => f[a] = q[a].data.id /\ q[a].data.from = c
  BY DEF Tells, Ids
<1> HIDE DEF I, J, f, g, m
<1>12. /\ Climbs(J, g, lo, hi)
       /\ \A b \in I : (\A j \in J : b < j + n) => /\ lo < f[b] /\ f[b] <= hi /\ Climbs(J, g, f[b], hi)
  BY <1>5, <1>7, ClimbsPart
<1>13. Tells(J, r, c, lo, hi)
  BY <1>8, <1>12 DEF Tells, g
<1>14. ASSUME q[1].part = "head" /\ q[1].op = "normal"
       PROVE  /\ q[1].data.from = c /\ lo < q[1].data.id /\ q[1].data.id <= hi
              /\ Tells(J, r, c, q[1].data.id, hi)
  <2>1. a \in I
    BY <1>9, <1>10, <1>14
  <2>2. \A j \in J : a < j + n
    BY <1>6, <1>9
  <2>3. lo < f[a] /\ f[a] <= hi /\ Climbs(J, g, f[a], hi)
    BY <1>12, <2>1, <2>2
  <2> QED
    BY <1>8, <1>9, <1>11, <2>1, <2>3 DEF Tells, g
<1> QED
  BY <1>2, <1>13, <1>14 DEF J, r

LEMMA SaysPkg ==
  ASSUME NEW op \in Ops, NEW data \in Datas, NEW c, NEW lo \in Int, NEW hi \in Int, lo <= hi,
         op = "normal" => data.from = c /\ lo < data.id /\ data.id <= hi
  PROVE  Tells(Heads(Pkg(op, data)), Pkg(op, data), c, lo, hi)
<1> DEFINE q == Pkg(op, data)
           I == Heads(q)
           f == Ids(I, q)
<1>1. /\ q \in Seq(Cells) /\ Len(q) = 2
      /\ q[1] = [op |-> op, data |-> data, part |-> "head"]
      /\ q[2] = [op |-> op, data |-> data, part |-> "data"]
  BY PkgIs
<1> HIDE DEF q
<1>2. \A i \in I : i = 1 /\ op = "normal" /\ q[i].data = data
  <2> SUFFICES ASSUME NEW i \in I PROVE i = 1 /\ op = "normal" /\ q[i].data = data
    OBVIOUS
  <2>1. i \in 1 .. 2 /\ q[i].part = "head" /\ q[i].op = "normal"
    BY <1>1 DEF Heads
  <2>2. i = 1 \/ i = 2
    BY <2>1
  <2>3. i # 2
    BY <1>1, <2>1
  <2> QED
    BY <1>1, <2>1, <2>2, <2>3
<1>3. \A i \in I : f[i] = data.id /\ q[i].data.from = data.from
  BY <1>2 DEF Ids
<1> HIDE DEF I, f
<1>4. \A i, j \in I : ~(i < j)
  BY <1>2
<1>5. data.id \in Int
  BY DEF Datas
<1>6. \A i \in I : lo < f[i] /\ f[i] <= hi /\ q[i].data.from = c
  BY <1>2, <1>3
<1>7. Climbs(I, f, lo, hi)
  BY <1>4, <1>6 DEF Climbs
<1> QED
  BY <1>6, <1>7 DEF Tells, I, f, q

LEMMA SaysNone ==
  ASSUME NEW c, NEW lo \in Int, NEW hi \in Int, lo <= hi
  PROVE  Tells(Heads(<<>>), <<>>, c, lo, hi) /\ Tells(Heads(<<Zero>>), <<Zero>>, c, lo, hi)
<1>1. Heads(<<>>) = {}
  BY DEF Heads
<1>2. Heads(<<Zero>>) = {}
  <2>1. \A i \in 1 .. Len(<<Zero>>) : <<Zero>>[i].part = "zero"
    BY DEF Zero
  <2> QED
    BY <2>1 DEF Heads
<1> QED
  BY <1>1, <1>2, TellsNone

Says(q, c, lo, hi) == Tells(Heads(q), q, c, lo, hi)

LEMMA TellsWide ==
  ASSUME NEW I, NEW q, NEW c, NEW lo \in Int, NEW mid \in Int, NEW hi \in Int, lo <= mid,
         Ids(I, q) \in [I -> Int], Tells(I, q, c, mid, hi)
  PROVE  Tells(I, q, c, lo, hi)
<1> DEFINE f == Ids(I, q)
<1> HIDE DEF f
<1>1. f \in [I -> Int] /\ Climbs(I, f, mid, hi)
  BY DEF Tells, f
<1>2. Climbs(I, f, lo, hi)
  BY <1>1 DEF Climbs
<1> QED
  BY <1>2 DEF Tells, f

LEMMA SaysWide ==
  ASSUME NEW q \in Seq(Cells), NEW c, NEW lo \in Int, NEW mid \in Int, NEW hi \in Int, lo <= mid,
         Says(q, c, mid, hi)
  PROVE  Says(q, c, lo, hi) /\ lo <= hi
<1>1. Ids(Heads(q), q) \in [Heads(q) -> Int]
  BY IdsAre
<1>2. lo <= hi
  BY DEF Says, Tells, Climbs
<1> QED
  BY <1>1, <1>2, TellsWide DEF Says

LEMMA SaysHigh ==
  ASSUME NEW q \in Seq(Cells), NEW c, NEW lo \in Int, NEW mid \in Int, NEW hi \in Int, mid <= hi,
         Says(q, c, lo, mid)
  PROVE  Says(q, c, lo, hi)
<1> DEFINE I == Heads(q)
           f == Ids(I, q)
<1>1. f \in [I -> Int] /\ Climbs(I, f, lo, mid)
  BY IdsAre DEF Says, Tells
<1> HIDE DEF f, I
<1>2. Climbs(I, f, lo, hi)
  BY <1>1 DEF Climbs
<1> QED
  BY <1>2 DEF Says, Tells, f, I

\* The answers to c in a queue of items, and one item.
Bears(q, c) == {i \in 1 .. Len(q) : q[i].key = c /\ q[i].op = "normal" /\ q[i].info = "normal"}
Lines(q, c, lo, hi) == Tells(Bears(q, c), q, c, lo, hi)
Bearing(x, c) == x.key = c /\ x.op = "normal" /\ x.info = "normal"
Bring(x, c, lo, hi) ==
  lo <= hi /\ (Bearing(x, c) => x.data.from = c /\ lo < x.data.id /\ x.data.id <= hi)

LEMMA BearsAre ==
  ASSUME NEW q \in Seq(Items), NEW c
  PROVE  Bears(q, c) \in SUBSET Int /\ Ids(Bears(q, c), q) \in [Bears(q, c) -> Int]
<1>1. Bears(q, c) \in SUBSET Int
  BY DEF Bears
<1>2. \A i \in Bears(q, c) : q[i] \in Items
  BY DEF Bears
<1>3. \A i \in Bears(q, c) : q[i].data.id \in Int
  BY <1>2 DEF Items, Datas
<1> QED
  BY <1>1, <1>3 DEF Ids

LEMMA LinesNone ==
  ASSUME NEW c, NEW lo \in Int, NEW hi \in Int, lo <= hi
  PROVE  Lines(<<>>, c, lo, hi)
<1>1. Bears(<<>>, c) = {}
  BY DEF Bears
<1> QED
  BY <1>1, TellsNone DEF Lines

LEMMA LinesWide ==
  ASSUME NEW q \in Seq(Items), NEW c, NEW lo \in Int, NEW mid \in Int, NEW hi \in Int, lo <= mid,
         Lines(q, c, mid, hi)
  PROVE  Lines(q, c, lo, hi) /\ lo <= hi
<1>1. Ids(Bears(q, c), q) \in [Bears(q, c) -> Int]
  BY BearsAre
<1>2. lo <= hi
  BY DEF Lines, Tells, Climbs
<1> QED
  BY <1>1, <1>2, TellsWide DEF Lines

LEMMA LinesHigh ==
  ASSUME NEW q \in Seq(Items), NEW c, NEW lo \in Int, NEW mid \in Int, NEW hi \in Int, mid <= hi,
         Lines(q, c, lo, mid)
  PROVE  Lines(q, c, lo, hi)
<1> DEFINE I == Bears(q, c)
           f == Ids(I, q)
<1>1. f \in [I -> Int] /\ Climbs(I, f, lo, mid)
  BY BearsAre DEF Lines, Tells
<1> HIDE DEF f, I
<1>2. Climbs(I, f, lo, hi)
  BY <1>1 DEF Climbs
<1> QED
  BY <1>2 DEF Lines, Tells, f, I

\* An item joins.
LEMMA LinesAdd ==
  ASSUME NEW q \in Seq(Items), NEW x \in Items, NEW c,
         NEW lo \in Int, NEW mid \in Int, NEW hi \in Int,
         Lines(q, c, lo, mid), Bring(x, c, mid, hi)
  PROVE  Lines(Append(q, x), c, lo, hi)
<1> DEFINE r == Append(q, x)
           n == Len(q)
           I == Bears(q, c)
           J == Bears(r, c)
           K == {k \in {1} : Bearing(x, c)}
           e == Ids(I, q)
           g == Ids(J, r)
           f == [k \in K |-> x.data.id]
<1>1. /\ r \in Seq(Items) /\ Len(r) = n + 1 /\ r[n + 1] = x /\ \A i \in 1 .. n : r[i] = q[i]
      /\ n \in Nat
  BY AppendProperties
<1> HIDE DEF r
<1>2. /\ I \in SUBSET Int /\ J \in SUBSET Int /\ K \in SUBSET Int
      /\ e \in [I -> Int] /\ g \in [J -> Int]
  BY <1>1, BearsAre
<1>3. x.data.id \in Int
  BY DEF Items, Datas
<1>4. f \in [K -> Int]
  BY <1>3
<1>5. Climbs(I, e, lo, mid)
  BY DEF Lines, Tells
<1>6. Climbs(K, f, mid, hi)
  <2>1. \A i \in K : i = 1 /\ Bearing(x, c) /\ f[i] = x.data.id
    OBVIOUS
  <2> HIDE DEF K, f
  <2>2. \A i \in K : mid < f[i] /\ f[i] <= hi
    BY <2>1 DEF Bring
  <2>3. \A i, j \in K : ~(i < j)
    BY <2>1
  <2> QED
    BY <2>2, <2>3 DEF Climbs, Bring
<1>7. ASSUME NEW j \in J
      PROVE  \/ j <= n /\ j \in I /\ r[j] = q[j]
             \/ n < j /\ j - n = 1 /\ Bearing(x, c) /\ r[j] = x
  <2>1. j \in 1 .. n + 1 /\ r[j].key = c /\ r[j].op = "normal" /\ r[j].info = "normal"
    BY <1>1 DEF Bears
  <2>2. (j \in 1 .. n /\ j <= n) \/ (j = n + 1 /\ n < j /\ j - n = 1)
    BY <1>1, <2>1
  <2>3. CASE j \in 1 .. n /\ j <= n
    <3>1. r[j] = q[j]
      BY <1>1, <2>3
    <3>2. j \in I
      BY <2>1, <2>3, <3>1 DEF Bears
    <3> QED
      BY <2>3, <3>1, <3>2
  <2>4. CASE j = n + 1 /\ n < j /\ j - n = 1
    <3>1. r[j] = x
      BY <1>1, <2>4
    <3> QED
      BY <2>1, <2>4, <3>1 DEF Bearing
  <2> QED
    BY <2>2, <2>3, <2>4
<1>8. \A i \in J : r[i].data.from = c
  <2> SUFFICES ASSUME NEW i \in J PROVE r[i].data.from = c
    OBVIOUS
  <2>1. \A j \in I : q[j].data.from = c
    BY DEF Lines, Tells
  <2> QED
    BY <1>7, <2>1 DEF Bring
<1>9. Joins(J, g, I, e, n, K, f)
  <2> SUFFICES ASSUME NEW j \in J PROVE \/ j <= n /\ j \in I /\ g[j] = e[j]
                                        \/ n < j /\ j - n \in K /\ g[j] = f[j - n]
    BY DEF Joins
  <2>1. g[j] = r[j].data.id /\ (\A i \in I : e[i] = q[i].data.id)
    BY DEF Ids
  <2>2. Bearing(x, c) => 1 \in K /\ f[1] = x.data.id
    OBVIOUS
  <2> HIDE DEF I, J, K, e, f, g, n
  <2> QED
    BY <1>7, <2>1, <2>2
<1> HIDE DEF I, J, K, e, f, g, n
<1>10. Climbs(J, g, lo, hi)
  <2>1. n \in Int
    BY <1>1
  <2> QED
    BY <1>2, <1>4, <1>5, <1>6, <1>9, <2>1, ClimbsJoin
<1> QED
  BY <1>8, <1>10 DEF Lines, Tells, J, g, r

\* The first item is taken.
LEMMA LinesTake ==
  ASSUME NEW q \in Seq(Items), q # <<>>, NEW c, NEW lo \in Int, NEW hi \in Int, Lines(q, c, lo, hi)
  PROVE  \E mid \in Int : Bring(Head(q), c, lo, mid) /\ Lines(Tail(q), c, mid, hi)
<1> DEFINE r == Tail(q)
           m == Len(q)
           I == Bears(q, c)
           J == Bears(r, c)
           f == Ids(I, q)
           g == Ids(J, r)
           x == q[1]
           a == 1
           k == 1
<1>1. /\ r \in Seq(Items) /\ Len(r) = m - 1 /\ m \in Nat /\ m >= 1 /\ q[1] = Head(q)
      /\ \A i \in 1 .. m - 1 : r[i] = q[i + 1]
  <2>1. m \in Nat /\ m > 0
    BY LenIs
  <2>2. r \in Seq(Items) /\ Len(r) = m - 1 /\ \A i \in 1 .. m - 1 : r[i] = q[i + 1]
    BY HeadTailProperties
  <2>3. q[1] = Head(q)
    OBVIOUS
  <2> QED
    BY <2>1, <2>2, <2>3
<1> HIDE DEF r, x
<1>2. /\ I \in SUBSET Int /\ J \in SUBSET Int /\ f \in [I -> Int] /\ g \in [J -> Int]
      /\ Climbs(I, f, lo, hi)
  BY <1>1, BearsAre DEF Lines, Tells
<1>3. \A j \in J : j + 1 \in I /\ r[j] = q[j + 1] /\ a < j + 1
  <2> SUFFICES ASSUME NEW j \in J PROVE j + 1 \in I /\ r[j] = q[j + 1] /\ a < j + 1
    OBVIOUS
  <2>1. j \in 1 .. m - 1 /\ r[j].key = c /\ r[j].op = "normal" /\ r[j].info = "normal"
    BY <1>1 DEF Bears
  <2>2. r[j] = q[j + 1] /\ j + 1 \in 1 .. m /\ a < j + 1
    BY <1>1, <2>1
  <2> QED
    BY <2>1, <2>2 DEF Bears
<1>4. \A j \in J : j + k \in I /\ g[j] = f[j + k] /\ a < j + k
  BY <1>3 DEF Ids
<1>5. \A j \in J : r[j].data.from = c
  <2>1. \A i \in I : q[i].data.from = c
    BY DEF Lines, Tells
  <2> QED
    BY <1>3, <2>1
<1>6. a \in I <=> Bearing(x, c)
  <2>1. a \in 1 .. m
    BY <1>1
  <2> QED
    BY <2>1 DEF Bears, Bearing, x
<1>7. a \in I => f[a] = x.data.id /\ x.data.from = c
  BY DEF Lines, Tells, Ids, x
<1>8. k \in Int
  OBVIOUS
<1> HIDE DEF I, J, f, g, m, a, k
<1>9. /\ Climbs(J, g, lo, hi)
      /\ \A b \in I : (\A j \in J : b < j + k) => /\ lo < f[b] /\ f[b] <= hi /\ Climbs(J, g, f[b], hi)
  BY <1>2, <1>4, <1>8, ClimbsPart
<1>10. x = Head(q)
  BY <1>1 DEF x
<1>11. CASE a \in I
  <2> DEFINE mid == f[a]
  <2>1. mid \in Int
    BY <1>2, <1>11
  <2>2. lo < mid /\ Climbs(J, g, mid, hi)
    BY <1>4, <1>9, <1>11
  <2>3. x.data.from = c /\ x.data.id = mid
    BY <1>7, <1>11
  <2> HIDE DEF mid
  <2>4. Bring(x, c, lo, mid)
    BY <2>1, <2>2, <2>3 DEF Bring
  <2>5. Lines(r, c, mid, hi)
    BY <1>5, <2>2 DEF Lines, Tells, J, g
  <2> QED
    BY <1>10, <2>1, <2>4, <2>5 DEF r
<1>12. CASE a \notin I
  <2>1. Bring(x, c, lo, lo)
    BY <1>6, <1>12 DEF Bring
  <2>2. Lines(r, c, lo, hi)
    BY <1>5, <1>9 DEF Lines, Tells, J, g
  <2> QED
    BY <1>10, <2>1, <2>2 DEF r
<1> QED
  BY <1>11, <1>12

\* All items of a queue are for c.
Keyed(q, c) == \A i \in 1 .. Len(q) : q[i].key = c

LEMMA KeyedIs ==
  ASSUME NEW q \in Seq(Items), NEW c
  PROVE  /\ Keyed(<<>>, c)
         /\ \A x \in Items : Keyed(q, c) /\ x.key = c => Keyed(Append(q, x), c)
         /\ q # <<>> /\ Keyed(q, c) => Head(q).key = c /\ Keyed(Tail(q), c)
<1>1. Keyed(<<>>, c)
  BY DEF Keyed
<1>2. ASSUME NEW x \in Items, Keyed(q, c), x.key = c PROVE Keyed(Append(q, x), c)
  <2> DEFINE r == Append(q, x)
             n == Len(q)
  <2>1. /\ n \in Nat /\ Len(r) = n + 1 /\ r[n + 1] = x /\ \A i \in 1 .. n : r[i] = q[i]
    BY AppendProperties
  <2> HIDE DEF r, n
  <2>2. \A i \in 1 .. n + 1 : i \in 1 .. n \/ i = n + 1
    BY <2>1
  <2>3. \A i \in 1 .. n : q[i].key = c
    BY <1>2 DEF Keyed, n
  <2>4. \A i \in 1 .. n + 1 : r[i].key = c
    BY <1>2, <2>1, <2>2, <2>3
  <2> QED
    BY <2>1, <2>4 DEF Keyed, r
<1>3. ASSUME q # <<>>, Keyed(q, c) PROVE Head(q).key = c /\ Keyed(Tail(q), c)
  <2> DEFINE r == Tail(q)
             m == Len(q)
  <2>1. /\ m \in Nat /\ m > 0 /\ Len(r) = m - 1 /\ q[1] = Head(q)
        /\ \A i \in 1 .. m - 1 : r[i] = q[i + 1]
    BY <1>3, LenIs, HeadTailProperties
  <2>2. 1 \in 1 .. m /\ \A i \in 1 .. m - 1 : i + 1 \in 1 .. m
    BY <2>1
  <2>3. \A i \in 1 .. m : q[i].key = c
    BY <1>3 DEF Keyed
  <2>4. q[1].key = c
    BY <2>2, <2>3
  <2> HIDE DEF r, m
  <2>5. \A i \in 1 .. m - 1 : r[i].key = c
    BY <2>1, <2>2, <2>3
  <2> QED
    BY <2>1, <2>4, <2>5 DEF Keyed, r
<1> QED
  BY <1>1, <1>2, <1>3

\* What a client read.
GotUpTo(q, c, hi) ==
  \A i \in 1 .. Len(q) :
    \/ q[i] = Junk
    \/ /\ q[i].from = c /\ q[i].id <= hi
       /\ \A j \in 1 .. i - 1 : q[j] = Junk \/ q[j].id < q[i].id

LEMMA GotAdd ==
  ASSUME NEW q \in Seq(Datas), NEW d \in Datas, NEW c, NEW lo \in Int, NEW hi \in Int, lo <= hi,
         GotUpTo(q, c, lo), d = Junk \/ (d.from = c /\ lo < d.id /\ d.id <= hi)
  PROVE  GotUpTo(Append(q, d), c, hi)
<1> DEFINE r == Append(q, d)
           n == Len(q)
<1>1. /\ n \in Nat /\ Len(r) = n + 1 /\ r[n + 1] = d /\ \A i \in 1 .. n : r[i] = q[i]
  BY AppendProperties
<1>2. \A i \in 1 .. n : q[i].id \in Int
  <2>1. \A i \in 1 .. n : q[i] \in Datas
    OBVIOUS
  <2> QED
    BY <2>1 DEF Datas
<1>3. d.id \in Int
  BY DEF Datas
<1> HIDE DEF r, n
<1>4. \A i \in 1 .. n : \/ q[i] = Junk
                        \/ /\ q[i].from = c /\ q[i].id <= lo
                           /\ \A j \in 1 .. i - 1 : q[j] = Junk \/ q[j].id < q[i].id
  BY DEF GotUpTo, n
<1>5. ASSUME NEW i \in 1 .. n
      PROVE  \/ r[i] = Junk
             \/ /\ r[i].from = c /\ r[i].id <= hi
                /\ \A j \in 1 .. i - 1 : r[j] = Junk \/ r[j].id < r[i].id
  <2>1. r[i] = q[i]
    BY <1>1
  <2>2. q[i].id <= lo => q[i].id <= hi
    BY <1>2
  <2>3. \A j \in 1 .. i - 1 : j \in 1 .. n
    BY <1>1
  <2>4. \A j \in 1 .. i - 1 : r[j] = q[j]
    BY <1>1, <2>3
  <2> QED
    BY <1>4, <2>1, <2>2, <2>4
<1>6. ASSUME d # Junk
      PROVE  d.from = c /\ d.id <= hi /\ \A j \in 1 .. n : r[j] = Junk \/ r[j].id < d.id
  <2>1. d.from = c /\ lo < d.id /\ d.id <= hi
    BY <1>6
  <2>2. \A j \in 1 .. n : q[j] = Junk \/ q[j].id <= lo
    BY <1>4
  <2>3. \A j \in 1 .. n : q[j].id <= lo => q[j].id < d.id
    BY <1>2, <1>3, <2>1
  <2> QED
    BY <1>1, <2>1, <2>2, <2>3
<1>7. \A i \in 1 .. n + 1 : i \in 1 .. n \/ (i = n + 1 /\ i - 1 = n)
  BY <1>1
<1>8. ASSUME NEW i \in 1 .. n + 1
      PROVE  \/ r[i] = Junk
             \/ /\ r[i].from = c /\ r[i].id <= hi
                /\ \A j \in 1 .. i - 1 : r[j] = Junk \/ r[j].id < r[i].id
  <2>1. CASE i \in 1 .. n
    BY <1>5, <2>1
  <2>2. CASE i = n + 1 /\ i - 1 = n
    <3>1. r[i] = d
      BY <1>1, <2>2
    <3> QED
      BY <1>6, <2>2, <3>1
  <2> QED
    BY <1>7, <2>1, <2>2
<1> QED
  BY <1>1, <1>8 DEF GotUpTo, r

LEMMA GotWide ==
  ASSUME NEW q \in Seq(Datas), NEW c, NEW lo \in Int, NEW hi \in Int, lo <= hi, GotUpTo(q, c, lo)
  PROVE  GotUpTo(q, c, hi)
<1>1. \A i \in 1 .. Len(q) : q[i].id \in Int
  <2>1. \A i \in 1 .. Len(q) : q[i] \in Datas
    OBVIOUS
  <2> QED
    BY <2>1 DEF Datas
<1>2. \A i \in 1 .. Len(q) : q[i].id <= lo => q[i].id <= hi
  BY <1>1
<1> QED
  BY <1>2 DEF GotUpTo

\* The answers on the wire and behind it, up to b, and those in the queues,
\* from b on: the bounds between two of them meet.
Newest(c) == -Len(main[c].answers) - 1
WireAt(c, b) ==
  \E b0, b1 \in Int :
    /\ GotUpTo(cli[c].got, c, b0)
    /\ Says(net[c].down, c, b0, b1) /\ Says(cl[c].snd_cache, c, b1, b)
LineAt(c, b) ==
  \E b0, b1 \in Int :
    /\ Keyed(cl[c].snd_queue, c) /\ Lines(cl[c].snd_queue, c, b, b0)
    /\ Bring(serv.item, c, b0, b1) /\ Lines(snd_queue, c, b1, Newest(c))
OutAt(c) == \E b \in Int : WireAt(c, b) /\ LineAt(c, b)
OutInv == \A c \in Conn : "torn" \notin marred[c] => OutAt(c)
OutKept(c) == "torn" \notin marred'[c] /\ OutAt(c) => OutAt(c)'

LEMMA OutTyped ==
  ASSUME Typed, NEW c \in Conn
  PROVE  /\ snd_queue \in Seq(Items) /\ serv.item \in Items \cup {NoItem} /\ Newest(c) \in Int
         /\ cl[c].snd_queue \in Seq(Items) /\ cl[c].snd_cache \in Seq(Cells)
         /\ net[c].down \in Seq(Cells) /\ cli[c].got \in Seq(Datas)
<1>1. main[c].answers \in Seq(Nat)
  BY DEF Typed, MainTyped, MainType
<1>2. Len(main[c].answers) \in Nat
  BY <1>1
<1>3. Newest(c) \in Int
  BY <1>2 DEF Newest
<1>4. snd_queue \in Seq(Items) /\ serv.item \in Items \cup {NoItem}
  BY DEF Typed, QueuesTyped, ServTyped, ServType
<1> QED
  BY <1>3, <1>4, CellsTyped, ClientTyped

\* No answer moves, perhaps some are dropped.
WireStays(c) == \A b \in Int : WireAt(c, b) => WireAt(c, b)'
LineStays(c) == \A b \in Int : LineAt(c, b) => LineAt(c, b)'

LEMMA WireRests ==
  ASSUME NEW c, cli'[c].got = cli[c].got, net'[c].down = net[c].down,
         cl'[c].snd_cache \in {cl[c].snd_cache, <<>>, <<Zero>>}
  PROVE  WireStays(c)
<1> SUFFICES ASSUME NEW b \in Int, WireAt(c, b) PROVE WireAt(c, b)'
  BY DEF WireStays
<1>1. PICK b0, b1 \in Int : /\ GotUpTo(cli[c].got, c, b0) /\ Says(net[c].down, c, b0, b1)
                            /\ Says(cl[c].snd_cache, c, b1, b)
  BY DEF WireAt
<1>2. b1 <= b
  BY <1>1 DEF Says, Tells, Climbs
<1>3. Says(<<>>, c, b1, b) /\ Says(<<Zero>>, c, b1, b)
  BY <1>2, SaysNone DEF Says
<1>4. Says(cl'[c].snd_cache, c, b1, b)
  BY <1>1, <1>3
<1> QED
  BY <1>1, <1>4 DEF WireAt

LEMMA LineRests ==
  ASSUME NEW c, cl'[c].snd_queue \in {cl[c].snd_queue, <<>>}, serv'.item = serv.item,
         UNCHANGED snd_queue, main'[c].answers = main[c].answers
  PROVE  LineStays(c)
<1> SUFFICES ASSUME NEW b \in Int, LineAt(c, b) PROVE LineAt(c, b)'
  BY DEF LineStays
<1>1. PICK b0, b1 \in Int : /\ Lines(cl[c].snd_queue, c, b, b0) /\ Bring(serv.item, c, b0, b1)
                            /\ Lines(snd_queue, c, b1, Newest(c)) /\ Keyed(cl[c].snd_queue, c)
  BY DEF LineAt
<1>2. b <= b0
  BY <1>1 DEF Lines, Tells, Climbs
<1>3. Lines(cl'[c].snd_queue, c, b, b0) /\ Keyed(cl'[c].snd_queue, c)
  <2>1. Keyed(<<>>, c)
    BY DEF Keyed
  <2> QED
    BY <1>1, <1>2, <2>1, LinesNone
<1>4. Newest(c)' = Newest(c)
  BY DEF Newest
<1> QED
  BY <1>1, <1>3, <1>4 DEF LineAt

LEMMA BothStay == ASSUME NEW c, WireStays(c), LineStays(c) PROVE OutKept(c)
BY DEF WireStays, LineStays, OutKept, OutAt

LEMMA OutStays ==
  ASSUME NEW c, cli'[c].got = cli[c].got, net'[c].down = net[c].down,
         cl'[c].snd_cache \in {cl[c].snd_cache, <<>>, <<Zero>>},
         cl'[c].snd_queue \in {cl[c].snd_queue, <<>>}, serv'.item = serv.item,
         UNCHANGED snd_queue, main'[c].answers = main[c].answers
  PROVE  OutKept(c)
BY WireRests, LineRests, BothStay

LEMMA DispatchOut ==
  ASSUME Typed, Dispatch, UNCHANGED <<cli, main>>, NEW d \in Conn
  PROVE  OutKept(d)
<1>1. snd_queue \in Seq(Items) /\ snd_queue # <<>> /\ snd_queue' = Tail(snd_queue) /\ UNCHANGED <<cl, net>>
  BY OutTyped, DispatchTyped DEF Dispatch
<1>2. serv'.item \in {NoItem, Head(snd_queue)}
  BY DEF Dispatch
<1>3. WireStays(d)
  BY <1>1, WireRests
<1>4. LineStays(d)
  <2> SUFFICES ASSUME NEW b \in Int, LineAt(d, b) PROVE LineAt(d, b)'
    BY DEF LineStays
  <2>1. PICK b0, b1 \in Int : /\ Lines(cl[d].snd_queue, d, b, b0) /\ Bring(serv.item, d, b0, b1)
                              /\ Lines(snd_queue, d, b1, Newest(d)) /\ Keyed(cl[d].snd_queue, d)
    BY DEF LineAt
  <2>2. Newest(d) \in Int /\ Newest(d)' = Newest(d)
    BY OutTyped DEF Newest
  <2>3. PICK mid \in Int : Bring(Head(snd_queue), d, b1, mid) /\ Lines(Tail(snd_queue), d, mid, Newest(d))
    BY <1>1, <2>1, <2>2, LinesTake
  <2>4. b0 <= b1 /\ b1 <= mid
    BY <2>1, <2>3 DEF Bring
  <2>5. Bring(NoItem, d, b1, mid)
    <3>1. NoItem.key # d
      BY Null, NullKey
    <3> QED
      BY <2>4, <3>1 DEF Bring, Bearing
  <2>6. Bring(serv'.item, d, b1, mid)
    BY <1>2, <2>3, <2>5
  <2>7. Lines(cl[d].snd_queue, d, b, b1)
    <3>1. cl[d].snd_queue \in Seq(Items)
      BY OutTyped
    <3> QED
      BY <2>1, <2>4, <3>1, LinesHigh
  <2> QED
    BY <1>1, <2>1, <2>2, <2>3, <2>6, <2>7 DEF LineAt
<1> QED
  BY <1>3, <1>4, BothStay

LEMMA DispatchAppendOut ==
  ASSUME Typed, DispatchAppend, UNCHANGED <<cli, main>>, NEW d \in Conn
  PROVE  OutKept(d)
<1> DEFINE x == serv.item
           c == serv.item.key
<1>1. x \in Items /\ c \in Conn
  BY DispatchAppendTyped DEF Items
<1>2. /\ cl' = [cl EXCEPT ![c].snd_queue = Append(@, x)] /\ serv'.item = NoItem
      /\ UNCHANGED <<snd_queue, net>>
  BY DEF DispatchAppend, Typed, ServTyped, ServType
<1> HIDE DEF x, c
<1>3. /\ cl'[d].snd_cache = cl[d].snd_cache
      /\ cl'[d].snd_queue = IF d = c THEN Append(cl[d].snd_queue, x) ELSE cl[d].snd_queue
  BY <1>1, <1>2, CellsTyped DEF ClientType
<1>4. WireStays(d)
  BY <1>2, <1>3, WireRests
<1>5. LineStays(d)
  <2> SUFFICES ASSUME NEW b \in Int, LineAt(d, b) PROVE LineAt(d, b)'
    BY DEF LineStays
  <2>1. PICK b0, b1 \in Int : /\ Lines(cl[d].snd_queue, d, b, b0) /\ Bring(x, d, b0, b1)
                              /\ Lines(snd_queue, d, b1, Newest(d)) /\ Keyed(cl[d].snd_queue, d)
    BY DEF LineAt, x
  <2>2. Newest(d)' = Newest(d)
    BY DEF Newest
  <2>3. cl[d].snd_queue \in Seq(Items) /\ b0 <= b1
    BY <2>1, OutTyped DEF Bring
  <2>4. Lines(cl'[d].snd_queue, d, b, b1) /\ Keyed(cl'[d].snd_queue, d)
    <3>1. CASE d = c
      <4>1. Lines(Append(cl[d].snd_queue, x), d, b, b1)
        BY <1>1, <2>1, <2>3, LinesAdd
      <4>2. Keyed(Append(cl[d].snd_queue, x), d)
        BY <1>1, <2>1, <2>3, <3>1, KeyedIs DEF c, x
      <4> QED
        BY <1>3, <3>1, <4>1, <4>2
    <3>2. CASE d # c
      BY <1>3, <2>1, <2>3, <3>2, LinesHigh
    <3> QED
      BY <3>1, <3>2
  <2>5. Bring(NoItem, d, b1, b1)
    <3>1. NoItem.key # d
      BY Null, NullKey
    <3> QED
      BY <3>1 DEF Bring, Bearing
  <2> QED
    BY <1>2, <2>1, <2>2, <2>4, <2>5 DEF LineAt
<1> QED
  BY <1>4, <1>5, BothStay

LEMMA ServOut ==
  ASSUME Typed, SlotsInv, TcpServer, UNCHANGED <<cli, main>>, NEW d \in Conn
  PROVE  OutKept(d)
<1>0. serv \in ServType
  BY DEF Typed, ServTyped
<1>1. CASE \E c \in Conn : Accept(c)
  <2>1. PICK c \in Conn : Accept(c)
    BY <1>1
  <2>2. \E p : net' = [net EXCEPT ![c].peer = p]
    BY <2>1 DEF Accept
  <2>3. net'[d].down = net[d].down
    BY <2>2, CellsTyped DEF PeerType
  <2>4. UNCHANGED cl \/ cl' = [cl EXCEPT ![c] = NewClient]
    BY <2>1 DEF Accept
  <2>5. \/ cl'[d].snd_cache = cl[d].snd_cache /\ cl'[d].snd_queue = cl[d].snd_queue
        \/ cl'[d].snd_cache = <<>> /\ cl'[d].snd_queue = <<>>
    BY <2>4, CellsTyped DEF NewClient
  <2>6. serv'.item = serv.item /\ UNCHANGED snd_queue
    BY <1>0, <2>1 DEF Accept, ServType
  <2> QED
    BY <2>3, <2>5, <2>6, OutStays
<1>2. CASE CloseClient
  <2>1. \E c \in Conn : /\ net' = [net EXCEPT ![c].peer = "closed"]
                        /\ cl' = [cl EXCEPT ![c].snd_cache = <<>>, ![c].recv_cache = <<>>]
    BY <1>2, HeadWaits DEF CloseClient, SlotsInv
  <2>2. net'[d].down = net[d].down
    BY <2>1, CellsTyped DEF PeerType
  <2>3. (cl'[d].snd_cache = cl[d].snd_cache \/ cl'[d].snd_cache = <<>>) /\ cl'[d].snd_queue = cl[d].snd_queue
    BY <2>1, CellsTyped DEF ClientType
  <2>4. UNCHANGED <<serv, snd_queue>>
    BY <1>2 DEF CloseClient
  <2> QED
    BY <2>2, <2>3, <2>4, OutStays
<1>3. CASE AcceptTimeout \/ ServerStops \/ CloseDone \/ DispatchDone
  <2>1. UNCHANGED <<cl, net, snd_queue>> /\ serv'.item = serv.item
    BY <1>0, <1>3 DEF AcceptTimeout, ServerStops, CloseDone, DispatchDone, ServType
  <2> QED
    BY <2>1, OutStays
<1> QED
  BY <1>1, <1>2, <1>3, DispatchOut, DispatchAppendOut DEF TcpServer

WireOf(c, cache, b) ==
  \E b0, b1 \in Int : GotUpTo(cli[c].got, c, b0) /\ Says(net[c].down, c, b0, b1) /\ Says(cache, c, b1, b)

\* What Flush writes, as long as it is not cut short.
LEMMA FlushOut ==
  ASSUME Typed, NEW c \in Conn, NEW cache \in Seq(Cells), NEW done \in ClientType, NEW part \in ClientType,
         Flush(c, cache, done, part), UNCHANGED cli, "torn" \notin marred'[c],
         NEW q, done.snd_queue = q, part.snd_queue = q
  PROVE  \/ /\ cl'[c].snd_cache = cl[c].snd_cache /\ cl'[c].snd_queue = cl[c].snd_queue
            /\ net'[c].down = net[c].down
         \/ cl'[c].snd_queue = q /\ \A b \in Int : WireOf(c, cache, b) => WireAt(c, b)'
<1> DEFINE down == net[c].down
<1>0. down \in Seq(Cells)
  BY CellsTyped
<1>1. CASE /\ net' = [net EXCEPT ![c].down = @ \o cache]
           /\ cl' = [cl EXCEPT ![c] = [done EXCEPT !.snd_cache = <<>>]]
  <2>1. net'[c].down = down \o cache /\ cl'[c].snd_cache = <<>> /\ cl'[c].snd_queue = q
    BY <1>1, CellsTyped DEF PeerType, ClientType
  <2> HIDE DEF down
  <2>2. ASSUME NEW b \in Int, WireOf(c, cache, b) PROVE WireAt(c, b)'
    <3>1. PICK b0, b1 \in Int : /\ GotUpTo(cli[c].got, c, b0) /\ Says(down, c, b0, b1)
                                /\ Says(cache, c, b1, b)
      BY <2>2 DEF WireOf, down
    <3>2. Says(down \o cache, c, b0, b)
      BY <1>0, <3>1, SaysJoin DEF Says
    <3>3. Says(<<>>, c, b, b)
      BY SaysNone DEF Says
    <3> QED
      BY <2>1, <3>1, <3>2, <3>3 DEF WireAt
  <2> QED
    BY <2>1, <2>2
<1>2. ASSUME NEW n \in Nat, n <= Len(cache),
             net' = [net EXCEPT ![c].down = @ \o SubSeq(cache, 1, n)],
             cl' = [cl EXCEPT ![c] = [part EXCEPT !.snd_cache = cache]],
             Mar(c, IF n > 0 THEN {"torn"} ELSE {})
      PROVE  cl'[c].snd_queue = q /\ \A b \in Int : WireOf(c, cache, b) => WireAt(c, b)'
  <2>1. net'[c].down = down \o SubSeq(cache, 1, n) /\ cl'[c].snd_cache = cache /\ cl'[c].snd_queue = q
    BY <1>2, CellsTyped DEF PeerType, ClientType
  <2>2. CASE n > 0
    <3>1. Mar(c, {"torn"})
      BY <1>2, <2>2
    <3> QED
      BY <3>1, MarIs DEF Typed
  <2>3. CASE n = 0
    <3>1. SubSeq(cache, 1, n) = <<>>
      BY <2>3
    <3>2. net'[c].down = down
      BY <1>0, <2>1, <3>1, ConcatEmptySeq
    <3> QED
      BY <2>1, <3>2 DEF WireAt, WireOf
  <2> QED
    BY <2>2, <2>3
<1>3. CASE Closing(c, FALSE) /\ UNCHANGED <<net, marred>>
  BY <1>3, ClosingSame DEF Same
<1>4. \/ /\ net' = [net EXCEPT ![c].down = @ \o cache]
         /\ cl' = [cl EXCEPT ![c] = [done EXCEPT !.snd_cache = <<>>]]
      \/ \E n \in Nat :
            /\ n <= Len(cache)
            /\ net' = [net EXCEPT ![c].down = @ \o SubSeq(cache, 1, n)]
            /\ cl' = [cl EXCEPT ![c] = [part EXCEPT !.snd_cache = cache]]
            /\ Mar(c, IF n > 0 THEN {"torn"} ELSE {})
      \/ Closing(c, FALSE) /\ UNCHANGED <<net, marred>>
  <2>1. \/ /\ net' = [net EXCEPT ![c].down = @ \o cache]
           /\ cl' = [cl EXCEPT ![c] = [done EXCEPT !.snd_cache = <<>>]]
           /\ UNCHANGED marred
           /\ UNCHANGED close_ch /\ net[c].peer = "open"
        \/ \E n \in Nat :
           /\ n <= Len(cache)
           /\ net' = [net EXCEPT ![c].down = @ \o SubSeq(cache, 1, n)]
           /\ cl' = [cl EXCEPT ![c] = [part EXCEPT !.snd_cache = cache]]
           /\ Mar(c, IF n > 0 THEN {"torn"} ELSE {})
           /\ UNCHANGED close_ch /\ net[c].peer = "open"
        \/ Closing(c, FALSE) /\ UNCHANGED <<net, marred>>
    BY FlushIs
  <2> QED
    BY <2>1
<1> QED
  BY <1>1, <1>2, <1>3, <1>4

LEMMA SendFirstOut ==
  ASSUME Typed, NEW c \in Conn, SendFirst(c), UNCHANGED <<cli, main>>
  PROVE  OutKept(c)
<1> SUFFICES ASSUME "torn" \notin marred'[c] PROVE OutKept(c)
  BY DEF OutKept
<1> DEFINE me == cl[c]
           go == [me EXCEPT !.pc = IF me.snd_queue = <<>> THEN "read" ELSE "out",
                            !.left = Len(me.snd_queue)]
           back == [me EXCEPT !.pc = "read"]
<1>1. me \in ClientType /\ me.snd_cache \in Seq(Cells)
  BY CellsTyped
<1>2. \/ cl' = [cl EXCEPT ![c] = go] /\ UNCHANGED <<net, marred, close_ch>>
      \/ Flush(c, me.snd_cache, go, back)
  BY DEF SendFirst
<1>3. /\ go \in ClientType /\ back \in ClientType /\ go.snd_cache = me.snd_cache
      /\ go.snd_queue = me.snd_queue /\ back.snd_queue = me.snd_queue
  BY <1>1, LenIs DEF ClientType
<1>4. UNCHANGED <<serv, snd_queue>>
  BY DEF SendFirst
<1> HIDE DEF go, back
<1>5. CASE cl' = [cl EXCEPT ![c] = go] /\ UNCHANGED <<net, marred, close_ch>>
  <2>1. cl'[c].snd_cache = me.snd_cache /\ cl'[c].snd_queue = me.snd_queue
    BY <1>3, <1>5, CellsTyped
  <2> QED
    BY <1>4, <1>5, <2>1, OutStays
<1>6. CASE Flush(c, me.snd_cache, go, back)
  <2>1. \/ /\ cl'[c].snd_cache = me.snd_cache /\ cl'[c].snd_queue = me.snd_queue
           /\ net'[c].down = net[c].down
        \/ cl'[c].snd_queue = me.snd_queue /\ \A b \in Int : WireOf(c, me.snd_cache, b) => WireAt(c, b)'
    BY <1>1, <1>3, <1>6, FlushOut
  <2>2. CASE /\ cl'[c].snd_cache = me.snd_cache /\ cl'[c].snd_queue = me.snd_queue
             /\ net'[c].down = net[c].down
    BY <1>4, <2>2, OutStays
  <2>3. CASE cl'[c].snd_queue = me.snd_queue /\ \A b \in Int : WireOf(c, me.snd_cache, b) => WireAt(c, b)'
    <3>1. WireStays(c)
      BY <2>3 DEF WireStays, WireAt, WireOf
    <3>2. LineStays(c)
      BY <1>4, <2>3, LineRests
    <3> QED
      BY <3>1, <3>2, BothStay
  <2> QED
    BY <2>1, <2>2, <2>3
<1> QED
  BY <1>2, <1>5, <1>6

LEMMA SendPkgOut ==
  ASSUME Typed, NEW c \in Conn, SendPkg(c), UNCHANGED <<cli, main>>
  PROVE  OutKept(c)
<1> SUFFICES ASSUME "torn" \notin marred'[c], OutAt(c) PROVE OutAt(c)'
  BY DEF OutKept
<1> DEFINE me == cl[c]
           p == Head(me.snd_queue)
           q == Tail(me.snd_queue)
<1>1. /\ me.snd_queue # <<>> /\ me.pc = "out" /\ me.left > 0
      /\ me.snd_queue \in Seq(Items) /\ p \in Items
      /\ \/ p.info = "close" /\ Closing(c, TRUE) /\ UNCHANGED <<net, marred>>
         \/ \E left \in {0, me.left - 1} :
              /\ cl' = [cl EXCEPT ![c] = Kept(me, c, me.cap, left)]
              /\ p.info # "close" /\ UNCHANGED <<net, marred, close_ch>>
         \/ \E cap \in Nat :
              /\ p.info # "close" /\ (p.op = "normal" => CanEncrypt(c))
              /\ Flush(c, Pkg(p.op, Encrypted(me, p)), Kept(me, c, cap, me.left - 1), Kept(me, c, cap, 0))
  BY SendPkgIs
<1>2. me \in ClientType /\ Own(me, c) /\ me.snd_cache \in Seq(Cells)
  BY CellsTyped
<1>3. UNCHANGED <<serv, snd_queue>>
  BY DEF SendPkg
<1>4. PICK b \in Int : WireAt(c, b) /\ LineAt(c, b)
  BY DEF OutAt
<1>5. PICK b0, b1 \in Int : /\ Keyed(me.snd_queue, c) /\ Lines(me.snd_queue, c, b, b0)
                            /\ Bring(serv.item, c, b0, b1) /\ Lines(snd_queue, c, b1, Newest(c))
  BY <1>4 DEF LineAt
<1>6. PICK mid \in Int : Bring(p, c, b, mid) /\ Lines(q, c, mid, b0)
  BY <1>1, <1>5, LinesTake
<1>7. p.key = c /\ Keyed(q, c)
  BY <1>1, <1>5, KeyedIs
<1>8. Newest(c)' = Newest(c)
  BY DEF Newest
<1>9. ASSUME cl'[c].snd_queue = q, WireAt(c, mid)' PROVE OutAt(c)'
  <2>1. LineAt(c, mid)'
    BY <1>3, <1>5, <1>6, <1>7, <1>8, <1>9 DEF LineAt
  <2> QED
    BY <1>9, <2>1 DEF OutAt
<1>10. CASE /\ cl'[c].snd_cache = me.snd_cache /\ cl'[c].snd_queue = me.snd_queue
            /\ net'[c].down = net[c].down
  <2>1. OutKept(c)
    BY <1>3, <1>10, OutStays
  <2> QED
    BY <2>1 DEF OutKept
<1>11. PICK x0, x1 \in Int : /\ GotUpTo(cli[c].got, c, x0) /\ Says(net[c].down, c, x0, x1)
                             /\ Says(me.snd_cache, c, x1, b)
  BY <1>4 DEF WireAt
<1>12. x1 <= b /\ b <= mid
  BY <1>6, <1>11 DEF Says, Tells, Climbs, Bring
<1>13. ASSUME NEW left \in {0, me.left - 1}, cl' = [cl EXCEPT ![c] = Kept(me, c, me.cap, left)],
              UNCHANGED <<net, marred>>
       PROVE  OutAt(c)'
  <2>1. cl'[c] = Kept(me, c, me.cap, left)
    BY <1>13, CellsTyped
  <2>2. cl'[c].snd_cache = me.snd_cache /\ cl'[c].snd_queue = q
    BY <1>2, <2>1 DEF Kept, ClientType
  <2>3. Says(me.snd_cache, c, x1, mid)
    BY <1>2, <1>11, <1>12, SaysHigh
  <2>4. WireAt(c, mid)'
    BY <1>11, <1>13, <2>2, <2>3 DEF WireAt
  <2> QED
    BY <1>9, <2>2, <2>4
<1>14. ASSUME NEW cap \in Nat, p.info # "close",
              Flush(c, Pkg(p.op, Encrypted(me, p)), Kept(me, c, cap, me.left - 1), Kept(me, c, cap, 0))
       PROVE  OutAt(c)'
  <2> DEFINE e == Encrypted(me, p)
             cache == Pkg(p.op, e)
             done == Kept(me, c, cap, me.left - 1)
             part == Kept(me, c, cap, 0)
  <2>1. e \in Datas /\ p.op \in Ops /\ e.from = p.data.from /\ e.id = p.data.id
    BY <1>1, <1>2, EncryptedIs
  <2>2. done \in ClientType /\ part \in ClientType
    BY <1>1, <1>2, <1>14, KeptIs
  <2>3. done.snd_queue = q /\ part.snd_queue = q
    BY <1>2 DEF Kept, ClientType
  <2>4. p.info = "normal"
    BY <1>1, <1>14 DEF Items
  <2> HIDE DEF e
  <2>5. p.op = "normal" => e.from = c /\ b < e.id /\ e.id <= mid
    BY <1>6, <1>7, <2>1, <2>4 DEF Bring, Bearing
  <2>6. cache \in Seq(Cells)
    BY <2>1, PkgIs
  <2>7. Says(cache, c, b, mid)
    BY <1>12, <2>1, <2>5, SaysPkg DEF Says
  <2> HIDE DEF cache, done, part
  <2>8. Says(cache, c, x1, mid)
    BY <1>12, <2>6, <2>7, SaysWide
  <2>9. Flush(c, cache, done, part)
    BY <1>14 DEF cache, done, part, e
  <2>10. \/ /\ cl'[c].snd_cache = cl[c].snd_cache /\ cl'[c].snd_queue = cl[c].snd_queue
            /\ net'[c].down = net[c].down
         \/ cl'[c].snd_queue = q /\ \A a \in Int : WireOf(c, cache, a) => WireAt(c, a)'
    BY <2>2, <2>3, <2>6, <2>9, FlushOut
  <2>11. WireOf(c, cache, mid)
    BY <1>11, <2>8 DEF WireOf
  <2> QED
    BY <1>9, <1>10, <2>10, <2>11
<1>15. CASE Closing(c, TRUE) /\ UNCHANGED <<net, marred>>
  BY <1>10, <1>15, ClosingSame DEF Same
<1> QED
  BY <1>1, <1>13, <1>14, <1>15

LEMMA AppendOwnOut ==
  ASSUME Typed, NEW c \in Conn, AppendOwn(c), UNCHANGED <<cli, main>>
  PROVE  OutKept(c)
<1> DEFINE x == cl[c].item
<1>1. /\ cl' = [cl EXCEPT ![c].snd_queue = Append(@, x), ![c].item = NoItem, ![c].pc = "parse"]
      /\ UNCHANGED <<net, serv, snd_queue>> /\ cl[c].pc = "append"
  BY DEF AppendOwn, servVars
<1>2. x \in Items /\ x.key = c /\ x.op # "normal"
  BY <1>1, CellsTyped DEF Own
<1> HIDE DEF x
<1>3. cl'[c].snd_cache = cl[c].snd_cache /\ cl'[c].snd_queue = Append(cl[c].snd_queue, x)
  BY <1>1, CellsTyped DEF ClientType
<1>4. WireStays(c)
  BY <1>1, <1>3, WireRests
<1>5. LineStays(c)
  <2> SUFFICES ASSUME NEW b \in Int, LineAt(c, b) PROVE LineAt(c, b)'
    BY DEF LineStays
  <2>1. PICK b0, b1 \in Int : /\ Lines(cl[c].snd_queue, c, b, b0) /\ Bring(serv.item, c, b0, b1)
                              /\ Lines(snd_queue, c, b1, Newest(c)) /\ Keyed(cl[c].snd_queue, c)
    BY DEF LineAt
  <2>2. Newest(c)' = Newest(c)
    BY DEF Newest
  <2>3. cl[c].snd_queue \in Seq(Items)
    BY CellsTyped
  <2>4. Bring(x, c, b0, b0)
    BY <1>2 DEF Bring, Bearing
  <2>5. Lines(Append(cl[c].snd_queue, x), c, b, b0)
    BY <1>2, <2>1, <2>3, <2>4, LinesAdd
  <2>6. Keyed(Append(cl[c].snd_queue, x), c)
    BY <1>2, <2>1, <2>3, KeyedIs
  <2> QED
    BY <1>1, <1>3, <2>1, <2>2, <2>5, <2>6 DEF LineAt
<1> QED
  BY <1>4, <1>5, BothStay

LEMMA SendEndOut ==
  ASSUME Typed, NEW c \in Conn, SendEnd(c), UNCHANGED <<cli, main>>
  PROVE  OutKept(c)
<1>1. PICK cap, q : /\ q \in {cl[c].snd_cache, <<Zero>>}
                    /\ cl' = [cl EXCEPT ![c] = [cl[c] EXCEPT !.pc = "read", !.cap = cap, !.snd_cache = q]]
  BY DEF SendEnd
<1>2. cl'[c].snd_cache = q /\ cl'[c].snd_queue = cl[c].snd_queue
  BY <1>1, CellsTyped DEF ClientType
<1>3. UNCHANGED <<net, serv, snd_queue>>
  BY DEF SendEnd, servVars
<1> QED
  BY <1>1, <1>2, <1>3, OutStays

LEMMA RunOut ==
  ASSUME Typed, SlotsInv, NEW c \in Conn, Run(c), UNCHANGED <<cli, main>>, NEW d \in Conn
  PROVE  OutKept(d)
<1>1. UNCHANGED <<snd_queue, serv>> /\ (d # c => cl'[d] = cl[d] /\ net'[d] = net[d])
  BY RunIs, RunNet
<1>2. CASE d # c
  BY <1>1, <1>2, OutStays
<1>3. CASE d = c /\ \E n \in 1 .. Len(net[c].up) : Read(c, n)
  <2>1. PICK n \in 1 .. Len(net[c].up) : Read(c, n)
    BY <1>3
  <2>2. /\ net' = [net EXCEPT ![c].up = SubSeq(@, n + 1, Len(@))]
        /\ cl' = [cl EXCEPT ![c].recv_cache = @ \o SubSeq(net[c].up, 1, n), ![c].off = 0, ![c].pc = "parse"]
    BY <2>1 DEF Read
  <2>3. net'[c].down = net[c].down
    BY <2>2, CellsTyped DEF PeerType
  <2>4. cl'[c].snd_cache = cl[c].snd_cache /\ cl'[c].snd_queue = cl[c].snd_queue
    BY <2>2, CellsTyped DEF ClientType
  <2> QED
    BY <1>1, <1>3, <2>3, <2>4, OutStays
<1>4. CASE d = c /\ ReadTimeout(c)
  <2>1. UNCHANGED net /\ cl' = [cl EXCEPT ![c].pc = "send"]
    BY <1>4 DEF ReadTimeout
  <2>2. cl'[c].snd_cache = cl[c].snd_cache /\ cl'[c].snd_queue = cl[c].snd_queue
    BY <2>1, CellsTyped DEF ClientType
  <2> QED
    BY <1>1, <1>4, <2>1, <2>2, OutStays
<1>5. CASE d = c /\ ReadClosed(c)
  <2>1. UNCHANGED net /\ Closing(c, FALSE)
    BY <1>5 DEF ReadClosed
  <2>2. cl'[c].snd_cache = cl[c].snd_cache /\ cl'[c].snd_queue = cl[c].snd_queue
    BY <2>1, ClosingSame DEF Same
  <2> QED
    BY <1>1, <1>5, <2>1, <2>2, OutStays
<1>6. CASE d = c /\ Parse(c)
  <2>1. UNCHANGED net
    BY <1>6 DEF Parse
  <2> QED
    BY <1>1, <1>6, <2>1, ParseCaches, OutStays
<1> QED
  BY <1>2, <1>3, <1>4, <1>5, <1>6, AppendOwnOut, SendFirstOut, SendPkgOut, SendEndOut DEF Run

\* Main sends an answer, numbered behind all of the connection's, or closes.
LEMMA SendOut ==
  ASSUME Typed, NEW c \in Conn, SendToClient(c) \/ MainCloses(c), NEW d \in Conn
  PROVE  OutKept(d)
<1> DEFINE q == snd_queue
<1>1. UNCHANGED <<cl, net, serv, cli>>
  BY DEF SendToClient, MainCloses, Send
<1>2. WireStays(d)
  BY <1>1, WireRests
<1>3. q \in Seq(Items) /\ Newest(d) \in Int
  BY OutTyped
<1>4. ASSUME NEW x \in Items, q' = q \/ q' = Append(q, x), NEW hi \in Int,
             Newest(d)' = hi, Newest(d) <= hi, Bring(x, d, Newest(d), hi)
      PROVE  OutKept(d)
  <2>1. LineStays(d)
    <3> SUFFICES ASSUME NEW b \in Int, LineAt(d, b) PROVE LineAt(d, b)'
      BY DEF LineStays
    <3>1. PICK b0, b1 \in Int : /\ Lines(cl[d].snd_queue, d, b, b0) /\ Bring(serv.item, d, b0, b1)
                                /\ Lines(q, d, b1, Newest(d)) /\ Keyed(cl[d].snd_queue, d)
      BY DEF LineAt
    <3> HIDE DEF q
    <3>2. Lines(q, d, b1, hi)
      BY <1>3, <1>4, <3>1, LinesHigh
    <3>3. Lines(Append(q, x), d, b1, hi)
      BY <1>3, <1>4, <3>1, LinesAdd
    <3>4. Lines(q', d, b1, Newest(d)')
      BY <1>4, <3>2, <3>3
    <3> QED
      BY <1>1, <3>1, <3>4 DEF LineAt, q
  <2> QED
    BY <1>2, <2>1, BothStay
<1>5. main \in [Conn -> MainType] /\ main[c] \in MainType
  BY DEF Typed, MainTyped
<1>6. CASE SendToClient(c)
  <2> DEFINE a == main[c].answers
             data == [from |-> c, id |-> -Len(a), len |-> Head(a), enc |-> None]
             x == Item(c, "normal", data, "normal")
  <2>1. Send(c, data, "normal") /\ main' = [main EXCEPT ![c].answers = Tail(@)]
    BY <1>6 DEF SendToClient
  <2>2. a \in Seq(Nat) /\ a # <<>> /\ data \in Datas
    BY <1>6, SendToTyped
  <2>3. x \in Items /\ x.key = c
    <3>1. x.key = c
      BY DEF Item
    <3> HIDE DEF data
    <3>2. x \in Items
      BY <2>2, ItemIs DEF Ops
    <3> QED
      BY <3>1, <3>2
  <2>4. x.data.from = c /\ x.data.id = -Len(a)
    BY DEF Item
  <2>5. q' = q \/ q' = Append(q, x)
    BY <2>1, <2>2, SendTyped
  <2>6. main'[d].answers = IF d = c THEN Tail(a) ELSE main[d].answers
    BY <1>5, <2>1 DEF MainType
  <2>7. Len(Tail(a)) = Len(a) - 1 /\ Len(a) \in Nat
    BY <2>2, LenIs, HeadTailProperties
  <2> HIDE DEF x, data, q
  <2>8. CASE d = c
    <3> DEFINE hi == -Len(a)
    <3>1. Newest(d)' = -(Len(a) - 1) - 1 /\ Newest(d) = -Len(a) - 1
      BY <2>6, <2>7, <2>8 DEF Newest
    <3> HIDE DEF a
    <3>2. hi \in Int /\ Newest(d)' = hi /\ Newest(d) < hi /\ Newest(d) <= hi
      BY <2>7, <3>1
    <3>3. x.data.id = hi
      BY <2>4
    <3> HIDE DEF hi
    <3>4. Bring(x, d, Newest(d), hi)
      BY <2>4, <2>8, <3>2, <3>3 DEF Bring
    <3> QED
      BY <1>4, <2>3, <2>5, <3>2, <3>4
  <2>9. CASE d # c
    <3>1. Newest(d)' = Newest(d)
      BY <2>6, <2>9 DEF Newest
    <3>2. Bring(x, d, Newest(d), Newest(d))
      BY <1>3, <2>3, <2>9 DEF Bring, Bearing
    <3> QED
      BY <1>3, <1>4, <2>3, <2>5, <3>1, <3>2
  <2> QED
    BY <2>8, <2>9
<1>7. CASE MainCloses(c)
  <2> DEFINE data == [Junk EXCEPT !.len = 0]
             x == Item(c, "normal", data, "close")
  <2>1. Send(c, data, "close") /\ main' = [main EXCEPT ![c].closes = FALSE] /\ data \in Datas
    BY <1>7, ClosesTyped DEF MainCloses
  <2>2. x \in Items
    BY <2>1, ItemIs DEF Ops
  <2>3. x.info = "close"
    BY DEF Item
  <2>4. q' = q \/ q' = Append(q, x)
    BY <2>1, SendTyped
  <2>5. main'[d].answers = main[d].answers
    BY <1>5, <2>1 DEF MainType
  <2> HIDE DEF x, data, q
  <2>6. Newest(d)' = Newest(d)
    BY <2>5 DEF Newest
  <2>7. Bring(x, d, Newest(d), Newest(d))
    BY <1>3, <2>3 DEF Bring, Bearing
  <2> QED
    BY <1>3, <1>4, <2>2, <2>4, <2>6, <2>7
<1> QED
  BY <1>6, <1>7

\* What a client makes of the first package it read.
LEMMA ReadsOut ==
  ASSUME Typed, NEW c \in Conn, NEW n \in 1 .. Len(net[c].down), RecvPkg(c, n)
  PROVE  WireStays(c)
<1> DEFINE down == net[c].down
           raw == SubSeq(down, 1, n)
           rest == SubSeq(down, n + 1, Len(down))
           got == cli[c].got
           k == 1
<1>1. n \in Nat /\ n <= Len(down) /\ n >= 1 /\ down \in Seq(Cells)
  BY CellsTyped
<1>2. raw \in Seq(Cells)
  BY <1>1, Cut
<1>3. raw[k] = down[k]
  BY <1>1
<1>4. PICK u :
       /\ ReadAs(c, n, u)
       /\ LET r == IF IsGame(c) THEN GameRecv(c, u) ELSE OneShotRecv(c, u)
          IN  /\ cli' = [cli EXCEPT ![c] = r.me]
              /\ net' = [net EXCEPT ![c].down = SubSeq(@, n + 1, Len(@)), ![c].up = @ \o r.out]
  BY RecvIs
<1>5. UNCHANGED cl
  BY DEF RecvPkg, cliRest
<1> DEFINE r == IF IsGame(c) THEN GameRecv(c, u) ELSE OneShotRecv(c, u)
<1>6. /\ cli' = [cli EXCEPT ![c] = r.me]
      /\ net' = [net EXCEPT ![c].down = rest, ![c].up = @ \o r.out]
  BY <1>4
<1>7. /\ u.op \in Ops /\ u.data \in Datas
      /\ \E v \in UnPack(raw) : u.op = v.op /\ u.data = v.data /\ (u.ret = "pkg" => v.ret = "pkg")
  BY <1>4 DEF ReadAs
<1> HIDE DEF raw, rest, down, got
<1>8. r.me.got = got \/ (r.me.got = Append(got, u.data) /\ u.ret = "pkg" /\ u.op = "normal")
  <2>1. CASE IsGame(c)
    <3> DEFINE g == GameRecv(c, u)
    <3>1. g.me.got = got \/ (g.me.got = Append(got, u.data) /\ u.ret = "pkg" /\ u.op = "normal")
      BY <1>7, GameRecvIs DEF got
    <3>2. r = g
      BY <2>1
    <3> HIDE DEF g, r
    <3> QED
      BY <3>1, <3>2
  <2>2. CASE ~IsGame(c)
    <3> DEFINE g == OneShotRecv(c, u)
    <3>1. g.me.got = got \/ (g.me.got = Append(got, u.data) /\ u.ret = "pkg" /\ u.op = "normal")
      BY <1>7, OneShotIs DEF got
    <3>2. r = g
      BY <2>2
    <3> HIDE DEF g, r
    <3> QED
      BY <3>1, <3>2
  <2> QED
    BY <2>1, <2>2
<1> HIDE DEF r
<1>9. cli'[c].got = r.me.got /\ net'[c].down = rest
  BY <1>6, ClientTyped, CellsTyped DEF PeerType
<1>10. cli'[c].got = got \/ (cli'[c].got = Append(got, u.data) /\ u.ret = "pkg" /\ u.op = "normal")
  BY <1>8, <1>9
<1>11. u.ret = "pkg" /\ u.op = "normal" =>
         u.data = Junk \/ (u.data = raw[k].data /\ raw[k].part = "head" /\ raw[k].op = "normal")
  <2> SUFFICES ASSUME u.ret = "pkg", u.op = "normal", u.data # Junk
               PROVE  u.data = raw[k].data /\ raw[k].part = "head" /\ raw[k].op = "normal"
    OBVIOUS
  <2>0. PICK v \in UnPack(raw) : u.op = v.op /\ u.data = v.data /\ (u.ret = "pkg" => v.ret = "pkg")
    BY <1>7
  <2>1. raw # <<>> /\ v.op = raw[1].op /\ v.data = raw[1].data
    BY <1>2, <2>0, UnPackGives
  <2>2. CASE raw[1].part # "head"
    <3>1. v \in {NotReady, Illegal, Ready("normal", Junk)}
      BY <2>1, <2>2 DEF UnPack
    <3>2. NotReady.ret = "not ready" /\ Illegal.ret = "illegal" /\ Ready("normal", Junk).data = Junk
      BY DEF NotReady, Illegal, Ready
    <3> QED
      BY <2>0, <3>1, <3>2
  <2> QED
    BY <2>0, <2>1, <2>2
<1> SUFFICES ASSUME NEW b \in Int, WireAt(c, b) PROVE WireAt(c, b)'
  BY DEF WireStays
<1>12. PICK b0, b1 \in Int : /\ GotUpTo(got, c, b0) /\ Says(down, c, b0, b1)
                             /\ Says(cl[c].snd_cache, c, b1, b)
  BY DEF WireAt, got, down
<1>13. /\ Says(rest, c, b0, b1)
       /\ down[k].part = "head" /\ down[k].op = "normal" =>
            /\ down[k].data.from = c /\ b0 < down[k].data.id /\ down[k].data.id <= b1
            /\ Says(rest, c, down[k].data.id, b1)
  <2>1. n \in 1 .. Len(down)
    BY <1>1
  <2> QED
    BY <1>1, <1>12, <2>1, SaysCut DEF Says, rest
<1>14. CASE cli'[c].got = got
  BY <1>5, <1>9, <1>12, <1>13, <1>14 DEF WireAt
<1>15. CASE cli'[c].got = Append(got, u.data) /\ u.ret = "pkg" /\ u.op = "normal"
  <2>1. got \in Seq(Datas)
    BY ClientTyped DEF got
  <2>2. CASE u.data = Junk
    <3>0. b0 <= b0
      OBVIOUS
    <3>1. GotUpTo(Append(got, u.data), c, b0)
      BY <1>7, <1>12, <2>1, <2>2, <3>0, GotAdd
    <3> QED
      BY <1>5, <1>9, <1>12, <1>13, <1>15, <3>1 DEF WireAt
  <2>3. CASE u.data # Junk
    <3> DEFINE id == u.data.id
    <3>1. u.data = down[k].data /\ down[k].part = "head" /\ down[k].op = "normal"
      BY <1>3, <1>11, <1>15, <2>3
    <3>2. u.data.from = c /\ b0 < id /\ id <= b1 /\ Says(rest, c, id, b1)
      BY <1>13, <3>1
    <3>3. id \in Int
      BY <1>7 DEF Datas
    <3> HIDE DEF id
    <3>4. u.data.id = id /\ id <= id /\ b0 <= id
      BY <3>2, <3>3 DEF id
    <3>5. u.data.from = c /\ b0 < u.data.id /\ u.data.id <= id
      BY <3>2, <3>3 DEF id
    <3>6. GotUpTo(Append(got, u.data), c, id)
      BY <1>7, <1>12, <2>1, <3>3, <3>4, <3>5, GotAdd
    <3> QED
      BY <1>5, <1>9, <1>12, <1>15, <3>2, <3>3, <3>6 DEF WireAt
  <2> QED
    BY <2>2, <2>3
<1> QED
  BY <1>10, <1>14, <1>15

LEMMA ClientOut ==
  ASSUME Typed, NEW c \in Conn, Client(c), UNCHANGED main, NEW d \in Conn
  PROVE  OutKept(d)
<1>1. /\ UNCHANGED <<cl, serv, snd_queue>>
      /\ \A e \in Conn \ {c} : cli'[e] = cli[e] /\ net'[e] = net[e]
  BY ClientMoves DEF ClientMoved
<1>2. CASE d # c
  BY <1>1, <1>2, OutStays
<1>3. CASE d = c /\ \E n \in 1 .. Len(net[c].down) : RecvPkg(c, n)
  <2>1. WireStays(c)
    BY <1>3, ReadsOut
  <2>2. LineStays(c)
    BY <1>1, LineRests
  <2> QED
    BY <1>3, <2>1, <2>2, BothStay
<1>4. CASE d = c /\ Mine(c)' = Mine(c) /\ net'[c].down = net[c].down
  BY <1>1, <1>4, OutStays DEF Mine
<1> QED
  BY <1>2, <1>3, <1>4, ClientMoves DEF ClientMoved

LEMMA HandleOut ==
  ASSUME Typed, HandleClientPkg, NEW d \in Conn
  PROVE  OutKept(d)
<1>1. UNCHANGED <<cl, net, serv, cli, snd_queue>>
  BY DEF HandleClientPkg, servVars
<1>2. \E e, h, r : main' = [main EXCEPT ![e] = [@ EXCEPT !.reported = r, !.handled = h]]
  BY HandleTyped, Zenon
<1>3. main \in [Conn -> MainType]
  BY DEF Typed, MainTyped
<1>4. main'[d].answers = main[d].answers
  BY <1>2, <1>3 DEF MainType
<1> QED
  BY <1>1, <1>4, OutStays

LEMMA NextOut ==
  ASSUME Typed, SlotsInv, OutInv, Next
  PROVE  OutInv'
<1> SUFFICES ASSUME NEW d \in Conn, "torn" \notin marred'[d] PROVE OutAt(d)'
  BY DEF OutInv
<1>1. marred[d] \subseteq marred'[d]
  BY NextMars
<1>2. OutAt(d)
  BY <1>1 DEF OutInv
<1>3. CASE ReadClients \/ ServerExit
  <2>1. UNCHANGED <<cl, net, serv, cli, main, snd_queue>>
    BY <1>3 DEF ReadClients, Recv, ServerExit, Close, servVars
  <2> QED
    BY <2>1, <1>2 DEF OutAt, WireAt, LineAt, Newest
<1>4. OutKept(d) => OutAt(d)'
  BY <1>2 DEF OutKept
<1> QED
  BY <1>3, <1>4, ServOut, RunOut, ClientOut, SendOut, HandleOut DEF Next

LEMMA InitOut == ConnNetInit /\ Typed => OutInv
<1> SUFFICES ASSUME ConnNetInit, Typed, NEW c \in Conn PROVE OutAt(c)
  BY DEF OutInv
<1> DEFINE b == Newest(c)
<1>1. b \in Int
  BY OutTyped
<1>2. /\ cl[c] = Gone /\ net[c].down = <<>> /\ cli[c].got = <<>> /\ snd_queue = <<>>
      /\ serv.item = NoItem
  BY DEF ConnNetInit, TcpInit, GameInit
<1>3. cl[c].snd_cache = <<>> /\ cl[c].snd_queue = <<>>
  BY <1>2 DEF Gone, NewClient
<1>4. NoItem.key # c
  BY Null, NullKey
<1> HIDE DEF b
<1>5. b <= b
  BY <1>1
<1>6. GotUpTo(<<>>, c, b)
  BY DEF GotUpTo
<1>7. Says(<<>>, c, b, b)
  BY <1>1, <1>5, SaysNone DEF Says
<1>8. Lines(<<>>, c, b, b)
  BY <1>1, <1>5, LinesNone
<1>9. Bring(NoItem, c, b, b)
  BY <1>4, <1>5 DEF Bring, Bearing
<1>10. Keyed(<<>>, c)
  BY DEF Keyed
<1>11. WireAt(c, b)
  BY <1>1, <1>2, <1>3, <1>6, <1>7 DEF WireAt
<1>12. LineAt(c, b)
  BY <1>1, <1>2, <1>3, <1>8, <1>9, <1>10 DEF LineAt, b
<1> QED
  BY <1>1, <1>11, <1>12 DEF OutAt

LEMMA AlwaysOut == Spec => [](Typed /\ SlotsInv /\ OutInv)
<1>1. ConnNetInit => Typed /\ SlotsInv /\ OutInv
  BY InitTyped, InitSlots, InitOut
<1>2. Typed /\ SlotsInv /\ OutInv /\ [Next]_vars => (Typed /\ SlotsInv /\ OutInv)'
  <2> SUFFICES ASSUME Typed, SlotsInv, OutInv, [Next]_vars PROVE Typed' /\ SlotsInv' /\ OutInv'
    OBVIOUS
  <2>1. CASE Next
    BY <2>1, NextTyped, NextSlots, NextOut
  <2>2. CASE UNCHANGED vars
    <3>1. Typed'
      BY <2>2, KeptTyped DEF vars, tcpVars, servVars, Typed
    <3>2. SlotsInv'
      BY <2>2, SlotsStay DEF vars, tcpVars, servVars
    <3>3. OutInv'
      BY <2>2 DEF vars, tcpVars, servVars, OutInv, OutAt, WireAt, LineAt, Newest
    <3> QED
      BY <3>1, <3>2, <3>3
  <2> QED
    BY <2>1, <2>2
<1> QED
  BY <1>1, <1>2, PTL DEF Spec

\* OutOrder: what a client reads is addressed to it and in the order main
\* answered, as long as no write was cut short.
THEOREM Answered == Spec => []OutOrder
<1>1. OutInv => OutOrder
  BY DEF OutInv, OutAt, WireAt, GotUpTo, OutOrder
<1> QED
  BY <1>1, AlwaysOut, PTL
=============================================================================
