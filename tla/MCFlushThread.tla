--------------------------- MODULE MCFlushThread ---------------------------
(* Small instances of FlushThread for TLC. *)
EXTENDS FlushThread
=============================================================================
