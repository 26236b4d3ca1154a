------------------------------ MODULE ByteFifo ------------------------------
(***************************************************************************)
(* What a channel of proc_bridge promises: packages come out whole, once,  *)
(* in the order they were put in.  Packages lie in the channel as bytes; a *)
(* byte is the package it belongs to and its place in it.                  *)
(***************************************************************************)
EXTENDS Integers, Sequences

CONSTANTS
  Pkg,      \* packages: a head and data, sent any number of times
  DataLen,  \* [Pkg -> Nat \ {0}], bytes of data (head.data_len)
  HeadLen,  \* bytes of a head, sizeof(bridge_package_head_t)
  Size      \* bytes of the channel

VARIABLES
  stream,   \* the bytes in the channel, oldest first
  out       \* the package last taken

Total(p) == HeadLen + DataLen[p]
Bytes(p) == [i \in 1 .. Total(p) |-> <<p, i - 1>>]

Init == stream = <<>> /\ out = <<>>

(* The channel is never filled to the last byte. *)
Put(p) ==
  /\ Len(stream) + Total(p) < Size
  /\ stream' = stream \o Bytes(p)
  /\ UNCHANGED out

Take(p) ==
  /\ Total(p) <= Len(stream)
  /\ \A i \in 1 .. Total(p) : stream[i] = <<p, i - 1>>
  /\ stream' = SubSeq(stream, Total(p) + 1, Len(stream))
  /\ out' = Bytes(p)

Next == \E p \in Pkg : Put(p) \/ Take(p)

Spec == Init /\ [][Next]_<<stream, out>>
=============================================================================
