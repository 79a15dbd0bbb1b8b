------------------------------- MODULE Coding -------------------------------
(***************************************************************************)
(* The encodings of src/coding.cpp.  A byte is a number below 256, a       *)
(* string of bytes a sequence.                                             *)
(***************************************************************************)
EXTENDS Integers, Sequences

\* The numbers of 32 and of 64 bits.
IsUint32(n) == n \in Nat /\ n \div 65536 < 65536
IsUint64(n) == n \in Nat /\ IsUint32((n \div 65536) \div 65536)

\* v with its lowest digits in the given base taken away, one at each step.
Shifted(v, base, n) ==
  LET rest[i \in 0 .. n] == IF i = 0 THEN v ELSE rest[i - 1] \div base
  IN  rest

\* The number that has these digits, the lowest first.
FromDigits(digits, base) ==
  LET n == Len(digits)
      high[i \in 0 .. n] ==
        IF i = 0 THEN 0 ELSE high[i - 1] * base + digits[n + 1 - i]
  IN  high[n]

\* EncodeFixed64, little-endian.
EncodeFixed64(value) ==
  LET rest == Shifted(value, 256, 8)
  IN  [i \in 1 .. 8 |-> rest[i - 1] % 256]

DecodeFixed64(ptr) == FromDigits(SubSeq(ptr, 1, 8), 256)

\* EncodeVarint32: seven bits a byte, the lowest first; all but the last byte
\* have the continuation bit.
EncodeVarint32(v) ==
  LET rest == Shifted(v, 128, 5)
      n == CHOOSE i \in 1 .. 5 : rest[i] = 0 /\ \A j \in 1 .. i - 1 : rest[j] # 0
  IN  [i \in 1 .. n |-> (rest[i - 1] % 128) + (IF i < n THEN 128 ELSE 0)]

\* DecodeVarint32: the value and the number of bytes it took; 0 bytes when there
\* is no last byte among the first five.
DecodeVarint32(p) ==
  LET last == {i \in 1 .. Len(p) : i <= 5 /\ p[i] < 128}
      n == CHOOSE i \in last : \A j \in last : i <= j
  IN  IF last = {} THEN [value |-> 0, len |-> 0]
      ELSE [value |-> FromDigits([i \in 1 .. n |-> p[i] % 128], 128), len |-> n]
=============================================================================
