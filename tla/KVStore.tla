------------------------------ MODULE KVStore ------------------------------
(***************************************************************************)
(* What DB promises its callers (include/splitkv/db.h): a map from keys to *)
(* values that only writes change, and Gets that return a value the key    *)
(* had at some moment of the call.                                         *)
(*                                                                         *)
(* A value is identified by the version number its write was given; 0 is   *)
(* "not found" (never written, or deleted).  A write batch is applied      *)
(* entry by entry while the batch is open and becomes visible to Gets as a *)
(* whole: no Get begins while a batch is open, and a Get in progress only  *)
(* learns of the values a batch leaves behind when it is closed.           *)
(***************************************************************************)
EXTENDS Naturals

CONSTANTS Key,    \* the keys
          Reader  \* the threads that call Get

VARIABLES store,    \* the current version of each key
          version,  \* the next version number
          open,     \* a write batch is being applied
          pending,  \* which readers are inside a Get
          key,      \* the key each reader asked for
          current,  \* the versions that key has had since the call began
          got       \* the version the last Get of each reader returned

vars == <<store, version, open, pending, key, current, got>>

reads == <<pending, key, current, got>>

Init ==
  /\ store = [k \in Key |-> 0]
  /\ version \in Nat
  /\ open = FALSE
  /\ pending = [r \in Reader |-> FALSE]
  /\ key \in [Reader -> Key]
  /\ current = [r \in Reader |-> {0}]
  /\ got = [r \in Reader |-> 0]

OpenBatch ==
  /\ ~open
  /\ open' = TRUE
  /\ UNCHANGED <<store, version, reads>>

Put(k) ==
  /\ open
  /\ store' = [store EXCEPT ![k] = version]
  /\ version' = version + 1
  /\ UNCHANGED <<open, reads>>

Delete(k) ==
  /\ open
  /\ store' = [store EXCEPT ![k] = 0]
  /\ version' = version + 1
  /\ UNCHANGED <<open, reads>>

(***************************************************************************)
(* The batch ends, complete or cut short by an error (the failed entry has *)
(* used up a version number).  What it applied is now current.             *)
(***************************************************************************)
CloseBatch ==
  /\ open
  /\ open' = FALSE
  /\ version' \in {version, version + 1}
  /\ current' = [r \in Reader |-> IF pending[r]
                                    THEN current[r] \cup {store[key[r]]}
                                    ELSE current[r]]
  /\ UNCHANGED <<store, pending, key, got>>

\* A Get that takes effect in one step.
GetNow(r, k) ==
  /\ ~open /\ ~pending[r]
  /\ key' = [key EXCEPT ![r] = k]
  /\ current' = [current EXCEPT ![r] = {store[k]}]
  /\ got' = [got EXCEPT ![r] = store[k]]
  /\ UNCHANGED <<store, version, open, pending>>

GetBegin(r, k) ==
  /\ ~open /\ ~pending[r]
  /\ pending' = [pending EXCEPT ![r] = TRUE]
  /\ key' = [key EXCEPT ![r] = k]
  /\ current' = [current EXCEPT ![r] = {store[k]}]
  /\ UNCHANGED <<store, version, open, got>>

GetEnd(r) ==
  /\ pending[r]
  /\ pending' = [pending EXCEPT ![r] = FALSE]
  /\ \E v \in current[r] : got' = [got EXCEPT ![r] = v]
  /\ UNCHANGED <<store, version, open, key, current>>

Next ==
  \/ OpenBatch
  \/ \E k \in Key : Put(k) \/ Delete(k)
  \/ CloseBatch
  \/ \E r \in Reader :
       \/ \E k \in Key : GetNow(r, k) \/ GetBegin(r, k)
       \/ GetEnd(r)

Spec == Init /\ [][Next]_vars
=============================================================================
