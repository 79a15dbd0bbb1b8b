---------------------------- MODULE FlushThread ----------------------------
(***************************************************************************)
(* How the flush thread is woken, stopped and joined (src/db_impl.cpp):    *)
(* MaybeScheduleFlush in a writer, the wait loop of BackgroundFlush, and   *)
(* the destructor ~DBImpl.                                                 *)
(*                                                                         *)
(* flush_cv_.wait holds flush_mutex_ while it tests its predicate and      *)
(* gives it up as it goes to sleep, but neither the writers nor the        *)
(* destructor take flush_mutex_ before they notify: a notification between *)
(* the test and the sleep reaches nobody.  A sleeping thread may also wake *)
(* up for no reason.                                                       *)
(*                                                                         *)
(* The predicate reads immutable_memtables_ without memtable_mutex_; it    *)
(* sees the deque before or after a concurrent push_back.  Memtables are   *)
(* numbered in the order in which they were active.  What a flush writes   *)
(* and the compactions after it are the subject of LSMTree.  A flush may   *)
(* fail: the callers of FlushMemTable do not look at its status, so here   *)
(* "flushed" says that a memtable was handed to it.                        *)
(***************************************************************************)
EXTENDS Naturals, Sequences, FiniteSets

CONSTANTS MemLimit,      \* entries at which a memtable should be flushed
          WALMayFail,    \* whether creating a WAL file can fail
          MaxEntries,    \* bound: entries of a memtable that nobody rotates
          MaxRotations   \* bound: memtables that are rotated out

ASSUME MemLimitAssumption == MemLimit \in Nat \ {0}
ASSUME WALMayFailAssumption == WALMayFail \in BOOLEAN
ASSUME BoundsAssumption == MaxEntries \in Nat /\ MaxRotations \in Nat

VARIABLES
  memtable,             \* number of the active memtable
  count,                \* its entries
  immutable_memtables,  \* immutable_memtables_, front first
  wal_open,             \* wal_ has a file to write to
  shutting_down,        \* shutting_down_
  wpc,                  \* where a Write in progress is; it holds memtable_mutex_
  bpc,                  \* where BackgroundFlush is
  to_flush,             \* its local variable (0: null)
  dpc,                  \* where the destructor is
  flushed,              \* history: the memtables FlushMemTable was given
  unchecked             \* history: a call has filled the active memtable and
                        \* ended without MaybeScheduleFlush

vars == <<memtable, count, immutable_memtables, wal_open, shutting_down, wpc,
          bpc, to_flush, dpc, flushed, unchecked>>

Init ==
  /\ memtable = 1
  /\ count = 0
  /\ immutable_memtables = << >>
  /\ wal_open = TRUE
  /\ shutting_down = FALSE
  /\ wpc = "idle"
  /\ bpc = "loop"
  /\ to_flush = 0
  /\ dpc = "open"
  /\ flushed = << >>
  /\ unchecked = FALSE

-----------------------------------------------------------------------------
(* Write and MaybeScheduleFlush.  No call is made once the destructor runs. *)

\* Mutant: one entry more than the limit.
OverLimit(n) == n > MemLimit

ShouldFlush(n) == n >= MemLimit

\* One entry of a batch: the WAL has it, and the memtable gets it.  The mutex is
\* held until the call ends.
WriteEntry ==
  /\ dpc = "open" /\ wpc \in {"idle", "write"} /\ wal_open
  /\ count < MaxEntries
  /\ count' = count + 1
  /\ wpc' = "write"
  /\ UNCHANGED <<memtable, immutable_memtables, wal_open, shutting_down, bpc,
                 to_flush, dpc, flushed, unchecked>>

\* Write returns an error: the value log or the WAL refuses an entry, and those
\* before it stay.  The Put of RunGC ends in the same way, without an error.
\* The memtable may be at its limit, and above it after more of them.
WriteError ==
  /\ wpc = "write"
  /\ wpc' = "idle"
  /\ unchecked' = TRUE
  /\ UNCHANGED <<memtable, count, immutable_memtables, wal_open, shutting_down,
                 bpc, to_flush, dpc, flushed>>

\* MaybeScheduleFlush finds the memtable below its limit.
WriteEnd ==
  /\ wpc = "write"
  /\ ~ShouldFlush(count)
  /\ wpc' = "idle"
  /\ UNCHANGED <<memtable, count, immutable_memtables, wal_open, shutting_down,
                 bpc, to_flush, dpc, flushed, unchecked>>

\* It is full and is pushed, and a WAL is to be created.  An empty batch gets here
\* at once.
Rotate ==
  /\ dpc = "open" /\ wpc \in {"idle", "write"}
  /\ ShouldFlush(count) /\ memtable <= MaxRotations
  /\ immutable_memtables' = Append(immutable_memtables, memtable)
  /\ memtable' = memtable + 1
  /\ count' = 0
  /\ unchecked' = FALSE
  /\ wpc' = "wal"
  /\ UNCHANGED <<wal_open, shutting_down, bpc, to_flush, dpc, flushed>>

CreateWAL ==
  /\ wpc = "wal"
  /\ wpc' = "notify"
  /\ UNCHANGED <<memtable, count, immutable_memtables, wal_open,
                 shutting_down, bpc, to_flush, dpc, flushed, unchecked>>

\* wal_->Create fails: MaybeScheduleFlush returns without a notification, and
\* every later Write fails in AddRecord, before it reaches the memtable.
CreateWALFails ==
  /\ WALMayFail
  /\ wpc = "wal"
  /\ wal_open' = FALSE
  /\ wpc' = "idle"
  /\ UNCHANGED <<memtable, count, immutable_memtables, shutting_down, bpc,
                 to_flush, dpc, flushed, unchecked>>

\* Mutant: the notification is forgotten.
WakeNobody == UNCHANGED bpc

\* notify_one and notify_all: only a thread that sleeps is woken.
Wake == bpc' = IF bpc = "asleep" THEN "test" ELSE bpc

Notify ==
  /\ wpc = "notify"
  /\ Wake
  /\ wpc' = "idle"
  /\ UNCHANGED <<memtable, count, immutable_memtables, wal_open,
                 shutting_down, to_flush, dpc, flushed, unchecked>>

-----------------------------------------------------------------------------
(* BackgroundFlush. *)

\* while (!shutting_down_)
Loop ==
  /\ bpc = "loop"
  /\ bpc' = IF shutting_down THEN "done" ELSE "test"
  /\ to_flush' = 0
  /\ UNCHANGED <<memtable, count, immutable_memtables, wal_open,
                 shutting_down, wpc, dpc, flushed, unchecked>>

\* Mutant: one memtable is not enough.
TwoReady == Len(immutable_memtables) > 1

Ready == immutable_memtables # << >>

\* The predicate of the wait, and the break after it.
Test ==
  /\ bpc = "test"
  /\ bpc' = IF Ready THEN "pick"
            ELSE IF shutting_down THEN "done"
            ELSE "dozing"
  /\ UNCHANGED <<memtable, count, immutable_memtables, wal_open,
                 shutting_down, wpc, to_flush, dpc, flushed, unchecked>>

Sleep ==
  /\ bpc = "dozing"
  /\ bpc' = "asleep"
  /\ UNCHANGED <<memtable, count, immutable_memtables, wal_open,
                 shutting_down, wpc, to_flush, dpc, flushed, unchecked>>

SpuriousWakeup ==
  /\ bpc = "asleep"
  /\ bpc' = "test"
  /\ UNCHANGED <<memtable, count, immutable_memtables, wal_open,
                 shutting_down, wpc, to_flush, dpc, flushed, unchecked>>

\* Mutant: the memtable at the back is taken, the one at the front popped.
Back(s) == s[Len(s)]

\* immutable_memtables_.front()
Front(s) == s[1]

\* Under memtable_mutex_.
Pick ==
  /\ bpc = "pick" /\ wpc = "idle"
  /\ to_flush' = Front(immutable_memtables)
  /\ bpc' = "flush"
  /\ UNCHANGED <<memtable, count, immutable_memtables, wal_open,
                 shutting_down, wpc, dpc, flushed, unchecked>>

\* FlushMemTable; its status is ignored.
Flush ==
  /\ bpc = "flush"
  /\ flushed' = Append(flushed, to_flush)
  /\ bpc' = "pop"
  /\ UNCHANGED <<memtable, count, immutable_memtables, wal_open,
                 shutting_down, wpc, to_flush, dpc, unchecked>>

\* pop_front under memtable_mutex_, then the loop over the levels.
Pop ==
  /\ bpc = "pop" /\ wpc = "idle"
  /\ immutable_memtables' = Tail(immutable_memtables)
  /\ bpc' = "loop"
  /\ UNCHANGED <<memtable, count, wal_open, shutting_down, wpc, to_flush, dpc,
                 flushed, unchecked>>

-----------------------------------------------------------------------------
(* ~DBImpl. *)

Close ==
  /\ dpc = "open" /\ wpc = "idle"
  /\ shutting_down' = TRUE
  /\ dpc' = "notify"
  /\ UNCHANGED <<memtable, count, immutable_memtables, wal_open, wpc, bpc,
                 to_flush, flushed, unchecked>>

NotifyAll ==
  /\ dpc = "notify"
  /\ Wake
  /\ dpc' = "join"
  /\ UNCHANGED <<memtable, count, immutable_memtables, wal_open,
                 shutting_down, wpc, to_flush, flushed, unchecked>>

\* Mutant: the destructor does not wait for the thread to end.
NoJoin == TRUE

Joinable == bpc = "done"

Join ==
  /\ dpc = "join" /\ Joinable
  /\ dpc' = "flush"
  /\ UNCHANGED <<memtable, count, immutable_memtables, wal_open,
                 shutting_down, wpc, bpc, to_flush, flushed, unchecked>>

\* Mutant: only the immutable memtables are flushed at the end.
ImmutableOnly == immutable_memtables

\* The active memtable, if it has entries, and then what is left in the deque.
Remaining ==
  (IF count > 0 THEN <<memtable>> ELSE << >>) \o immutable_memtables

FlushRemaining ==
  /\ dpc = "flush"
  /\ flushed' = flushed \o Remaining
  /\ dpc' = "closed"
  /\ UNCHANGED <<memtable, count, immutable_memtables, wal_open,
                 shutting_down, wpc, bpc, to_flush, unchecked>>

-----------------------------------------------------------------------------
Writer     == \/ WriteEntry \/ WriteError \/ WriteEnd
              \/ Rotate \/ CreateWAL \/ CreateWALFails \/ Notify
Background == Loop \/ Test \/ Sleep \/ Pick \/ Flush \/ Pop
Destructor == Close \/ NotifyAll \/ Join \/ FlushRemaining

Next == Writer \/ Background \/ SpuriousWakeup \/ Destructor

(***************************************************************************)
(* A thread that can run eventually does: the flush thread while it is not *)
(* asleep, a Write once it holds memtable_mutex_, the destructor once it   *)
(* has been called.  Nothing is assumed of spurious wakeups or of who gets *)
(* memtable_mutex_, and nobody has to write or to close.                   *)
(***************************************************************************)
Fairness ==
  /\ WF_vars(Background)
  /\ WF_vars(wpc # "idle" /\ Writer)
  /\ WF_vars(NotifyAll \/ Join \/ FlushRemaining)

Spec == Init /\ [][Next]_vars /\ Fairness

-----------------------------------------------------------------------------
(* Properties. *)

Number == 1 .. MaxRotations + 1

\* Types; and a memtable is at its limit only while a Write is on its way to
\* MaybeScheduleFlush (db_impl.cpp:257, 321), or if a call has filled it that never
\* got there: one of the error returns of Write (db_impl.cpp:236, 240, 246) or the
\* Put of RunGC (db_impl.cpp:855).
TypeOK ==
  /\ memtable \in Number
  /\ count \in Nat
  /\ count >= MemLimit => wpc = "write" \/ unchecked
  /\ immutable_memtables \in Seq(Number)
  /\ wal_open \in BOOLEAN
  /\ shutting_down \in BOOLEAN
  /\ wpc \in {"idle", "write", "wal", "notify"}
  /\ bpc \in {"loop", "test", "dozing", "asleep", "pick", "flush", "pop", "done"}
  /\ to_flush \in Number \cup {0}
  /\ dpc \in {"open", "notify", "join", "flush", "closed"}
  /\ flushed \in Seq(Number)
  /\ unchecked \in BOOLEAN

Elements(s) == {s[i] : i \in DOMAIN s}

\* No memtable disappears unflushed: pop_front (db_impl.cpp:360) removes the one
\* that was flushed although the deque has grown since it was picked.
NothingLost ==
  \A m \in 1 .. memtable - 1 :
    m \in Elements(immutable_memtables) \cup Elements(flushed)

\* The flush thread and the destructor (db_impl.cpp:44-51) never flush the same
\* memtable, whenever the shutdown comes.
FlushedOnce == \A i, j \in DOMAIN flushed : flushed[i] = flushed[j] => i = j

\* "Flush remaining memtable", "Also flush any immutable memtables left"
\* (db_impl.cpp:43,48): once the destructor has returned, all of them are.
ClosedIsFlushed ==
  dpc = "closed" =>
    \A m \in 1 .. memtable : m < memtable \/ count > 0 => m \in Elements(flushed)

-----------------------------------------------------------------------------
(***************************************************************************)
(* Why nothing is lost and nothing flushed twice.  As long as the          *)
(* destructor has not flushed what remains, the memtables that went        *)
(* through FlushMemTable are 1, 2, ... in this order, the deque goes on    *)
(* where they end, and the active memtable is the next one; only between   *)
(* the flush and pop_front is the front of the deque among the former.     *)
(***************************************************************************)
ControlInv ==
  /\ shutting_down <=> dpc # "open"
  /\ wpc # "idle" => dpc = "open"
  /\ bpc = "done" => shutting_down
  /\ dpc \in {"flush", "closed"} => bpc = "done"
  /\ bpc \in {"pick", "flush", "pop"} => immutable_memtables # << >>
  /\ bpc = "flush" => to_flush = immutable_memtables[1]

\* The memtables that were flushed and popped.
Popped == IF bpc = "pop" THEN Len(flushed) - 1 ELSE Len(flushed)

InOrder ==
  /\ \A i \in DOMAIN flushed : flushed[i] = i
  /\ \A i \in DOMAIN immutable_memtables : immutable_memtables[i] = Popped + i
  /\ memtable = Popped + Len(immutable_memtables) + 1

\* The memtables pass through the deque (db_impl.cpp:322, 349, 360) and through
\* the destructor (db_impl.cpp:44-51) one after the other, whatever the order in
\* which writers, flush thread and destructor take their steps.  TypeOK and the
\* three properties above follow.
IndInv ==
  /\ TypeOK
  /\ ControlInv
  /\ dpc # "closed" => InOrder
  /\ dpc = "closed" => NothingLost /\ FlushedOnce /\ ClosedIsFlushed

Flushes(m) == m \in Elements(flushed)
Drowsy == bpc \in {"dozing", "asleep"}

\* A memtable that waits while the flush thread is awake is flushed, by that
\* thread or by the destructor.
AwakeFlushes ==
  \A m \in 1 .. MaxRotations :
    m \in Elements(immutable_memtables) /\ ~Drowsy ~> Flushes(m)

\* A destructor that notifies a thread which is not between its test and its
\* sleep returns.
CloseReturns == dpc = "notify" /\ bpc # "dozing" ~> dpc = "closed"

\* The destructor always gets to flush what remains (db_impl.cpp:43-51).
CloseAlwaysReturns == shutting_down ~> dpc = "closed"
=============================================================================
