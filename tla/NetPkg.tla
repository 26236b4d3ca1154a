------------------------------- MODULE NetPkg -------------------------------
(***************************************************************************)
(* lib/net/net_pkg.go: the package format between clients and conn_serv.   *)
(*                                                                         *)
(*   tag (1 byte: option << 3 | bytes of len) + len (1, 2 or 4 bytes,      *)
(*   big endian) + data                                                    *)
(*                                                                         *)
(* A buffer is the sequence of its bytes.  TcpServ and GameClient take     *)
(* from here that a package is read back whole or not at all.              *)
(***************************************************************************)
EXTENDS Integers, Sequences

Byte == 0 .. 255
Word == 4294967296              \* the values of a uint32
TAG_LEN == 1
PKG_OP_MAX == 32
INT_MAX == 2147483632           \* 0x7FFFFFF0

\* Bytes of the length field.
LenBytes(n) == IF n <= 255 THEN 1 ELSE IF n <= 65535 THEN 2 ELSE 4

\* The tag and the length, PutUint16 and PutUint32 of binary.BigEndian.
HeadBytes(n, option) ==
  IF n <= 255 THEN <<option * 8 + 1, n>>
  ELSE IF n <= 65535 THEN <<option * 8 + 2, n \div 256, n % 256>>
  ELSE <<option * 8 + 4, n \div 16777216, (n \div 65536) % 256, (n \div 256) % 256, n % 256>>

\* Uint16, Uint32: the number in the k bytes behind the tag.
Number(buff, k) ==
  IF k = 1 THEN buff[2]
  ELSE IF k = 2 THEN buff[2] * 256 + buff[3]
  ELSE buff[2] * 16777216 + buff[3] * 65536 + buff[4] * 256 + buff[5]

\* The head, or <<>> for the -1: no data, an option that does not fit, a
\* buffer shorter than the head.
pack_head(room, n, option) ==
  IF n = 0 \/ option >= PKG_OP_MAX \/ room < TAG_LEN + LenBytes(n)
    THEN <<>>
    ELSE HeadBytes(n, option)

\* PackPkg into a buffer of room bytes: the package, or why there is none.
PackPkg(room, data, option) ==
  LET head == pack_head(room, Len(data) % Word, option)
  IN  IF head = <<>> THEN [ret |-> -1, pkg |-> <<>>]
      ELSE IF room < Len(head) + Len(data) THEN [ret |-> -2, pkg |-> <<>>]
      ELSE [ret |-> Len(head) + Len(data), pkg |-> head \o data]

\* The length of the head at the front of buff: 0 not ready, -1 illegal.
unpack_head(buff) ==
  IF Len(buff) < TAG_LEN THEN 0
  ELSE LET k == buff[1] % 8
       IN  IF k \notin {1, 2, 4} THEN -1
           ELSE IF Len(buff) < TAG_LEN + k THEN 0 ELSE TAG_LEN + k

\* UnPackPkg: tag 0 when the package is not complete, 255 when it is illegal.
UnPackPkg(raw) ==
  LET h == unpack_head(raw)
      n == Number(raw, h - TAG_LEN)
  IN  IF h < 0 THEN [tag |-> 255, data |-> <<>>, len |-> 0]
      ELSE IF h = 0 THEN [tag |-> 0, data |-> <<>>, len |-> 0]
      ELSE IF Len(raw) < h + n THEN [tag |-> 0, data |-> <<>>, len |-> h + n]
      ELSE [tag |-> raw[1], data |-> SubSeq(raw, h + 1, h + n), len |-> h + n]

PkgOption(tag) == tag \div 8

GetPkgLen(n) == IF n < 0 \/ n >= INT_MAX THEN -1 ELSE TAG_LEN + LenBytes(n) + n
=============================================================================
