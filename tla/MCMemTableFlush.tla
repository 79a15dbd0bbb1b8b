-------------------------- MODULE MCMemTableFlush --------------------------
(* Small instances of MemTableFlush for TLC. *)
EXTENDS MemTableFlush

\* A key whose entry comes with one read, and lengths on both sides of the limit
\* of a one-byte varint.
MCKeyLen == [k \in Key |-> CASE k % 3 = 0 -> 20 [] k % 3 = 1 -> 127
                              [] k % 3 = 2 -> 128]

\* One key is written with two values.
MCVersion == [k \in Key |-> IF k = 3 THEN {1, 2} ELSE {1}]

\* Hashes with collisions, so that the filter lets absent keys pass.
MCHash1 == [k \in Key |-> 70 * (k % 3)]
MCHash2 == [k \in Key |-> 5 + (k % 2)]
=============================================================================
