------------------------------ MODULE Recovery ------------------------------
(***************************************************************************)
(* What SplitKV has on disk and how it comes back: the write-ahead logs    *)
(* (src/wal.cpp), the table files and the manifest that names them,        *)
(* RecoverFromWAL, SaveManifest, LoadManifest and the destructor           *)
(* (src/db_impl.cpp), with crashes between and inside all of them.         *)
(*                                                                         *)
(* WAL files are never deleted and all of them are replayed at every       *)
(* start, on top of the tables of the manifest.  AddRecord flushes each    *)
(* record to the operating system, so a crash of the process loses none;   *)
(* only Write with options.sync and WAL::Close sync the file, so a loss of *)
(* power may take the records after the last sync.  Tables and the         *)
(* manifest are synced before they count.                                  *)
(*                                                                         *)
(* Data: a write is identified by its number among all writes, which is    *)
(* also the value it puts.  A level below 0 is one table here, the union   *)
(* of its disjoint ones.  A flush or a compaction is one step up to its    *)
(* SaveManifest, of which they may do both at a time; LSMTree has their    *)
(* details.  SaveManifest reads next_sstable_id_ before it takes           *)
(* sstable_mutex_ and levels_ after that, and what is in MANIFEST.tmp      *)
(* counts from the rename on.                                              *)
(***************************************************************************)
EXTENDS Integers, Sequences, FiniteSets, Functions

CONSTANTS
  Key,          \* the keys
  MemLimit,     \* entries at which a memtable should be flushed
  NumLevels,    \* options_.max_sstable_levels
  PowerLoss,    \* whether crashes may take unsynced records
  Sync,         \* the values of WriteOptions.sync that clients use
  MaxWrites,    \* bound: writes
  MaxCrashes    \* bound: times the database goes down

\* 0 stands for no key.
ASSUME KeyAssumption == IsFiniteSet(Key) /\ 0 \notin Key
ASSUME MemLimitAssumption == MemLimit \in Nat \ {0}
ASSUME NumLevelsAssumption == NumLevels \in Nat \ {0, 1}
ASSUME PowerLossAssumption == PowerLoss \in BOOLEAN
ASSUME SyncAssumption == Sync \subseteq BOOLEAN
ASSUME BoundsAssumption == MaxWrites \in Nat /\ MaxCrashes \in Nat

VARIABLES
  wal,                  \* the records of every WAL file; the last one is open
  synced,               \* how many records of each file are on stable storage
  sst,                  \* the table files, by id
  manifest,             \* next_sstable_id_ and the ids of each level
  memtable,             \* memtable_
  immutable_memtables,  \* immutable_memtables_
  levels,               \* levels_, the ids of each level, the oldest first
  next_sstable_id,      \* next_sstable_id_
  sequence_number,      \* sequence_number_; while replaying, max_seq
  pc,                   \* "down", "replay", "open" or "closing"
  replayed,             \* WAL files that RecoverFromWAL has replayed
  logged,               \* a Write has its record in the WAL, not yet in memory
  saving,               \* how far each thread's SaveManifest is
  read_id,              \* and the next_sstable_id_ that it has read
  obsolete,             \* inputs of a compaction, to be deleted after that
  unflushed,            \* history: a flush has failed since the last Open
  writes,               \* history: number of writes
  crashes,              \* history: times the database went down
  allowed               \* history: what each key may read as

logs    == <<wal, synced>>
disk    == <<logs, sst, manifest>>
memory  == <<memtable, immutable_memtables, levels, next_sstable_id>>
install == <<saving, read_id, obsolete>>
history == <<unflushed, writes, crashes, allowed>>
vars == <<disk, memory, sequence_number, pc, replayed, logged, install, history>>

\* BackgroundFlush or the destructor, and a compaction.
Thread == {"flush", "compact"}
Idle == [t \in Thread |-> "idle"]
NothingRead == [t \in Thread |-> 0]

Absent == [seq |-> 0, type |-> "kDeletion", val |-> 0]
Torn == [key |-> 0, seq |-> 0, type |-> "kDeletion", val |-> 0]
EmptyTable == [k \in Key |-> Absent]
Level == 0 .. NumLevels - 1
NoTables == [l \in Level |-> << >>]
NoFiles == [id \in {} |-> EmptyTable]
Manifest(next, ids) == [next_sstable_id |-> next, levels |-> ids]
Present(e) == e.seq > 0
Count(m) == Cardinality({k \in Key : Present(m[k])})

\* Mutant: the limit itself does not count as full.
OverLimit(m) == Count(m) > MemLimit

ShouldFlush(m) == Count(m) >= MemLimit
Last(s) == s[Len(s)]

\* Open on an empty directory.
Init ==
  /\ wal = << << >> >>
  /\ synced = <<0>>
  /\ sst = NoFiles
  /\ manifest = Manifest(1, NoTables)
  /\ memtable = EmptyTable
  /\ immutable_memtables = << >>
  /\ levels = NoTables
  /\ next_sstable_id = 1
  /\ sequence_number = 2
  /\ pc = "open"
  /\ replayed = 0
  /\ logged = FALSE
  /\ saving = Idle
  /\ read_id = NothingRead
  /\ obsolete = {}
  /\ unflushed = FALSE
  /\ writes = 0
  /\ crashes = 0
  /\ allowed = [k \in Key |-> {0}]

\* The tables of a level.
Tables(l) == [i \in DOMAIN levels[l] |-> sst[levels[l][i]]]

\* The last table or memtable that has the key.
Find(tables, k) ==
  LET hits == {i \in DOMAIN tables : Present(tables[i][k])}
  IN  IF hits = {} THEN Absent
      ELSE tables[CHOOSE i \in hits : \A j \in hits : j <= i][k]

\* Get: the memtables, then level by level, the newest table first.
Place == Level \cup {-1}
Places == [p \in Place |-> IF p = -1 THEN Append(immutable_memtables, memtable)
                                    ELSE Tables(p)]
Search(places, k) ==
  LET hits == {p \in Place : Present(Find(places[p], k))}
  IN  IF hits = {} THEN Absent
      ELSE Find(places[CHOOSE p \in hits : \A q \in hits : p <= q], k)
Lookup(k) == Search(Places, k)
Visible(e) == IF e.type = "kValue" THEN e.val ELSE 0

-----------------------------------------------------------------------------
(* Write and flush. *)

ValueType == {"kValue", "kDeletion"}
EntryOf(rec) == [seq |-> rec.seq, type |-> rec.type, val |-> rec.val]

\* AddRecord.
WriteLog(k, type) ==
  /\ pc = "open" /\ ~logged /\ writes < MaxWrites
  /\ writes' = writes + 1
  /\ wal' = [wal EXCEPT ![Len(wal)] = Append(@,
       [key |-> k, seq |-> sequence_number, type |-> type, val |-> writes + 1])]
  /\ sequence_number' = sequence_number + 1
  /\ logged' = TRUE
  /\ UNCHANGED <<synced, sst, manifest, memory, pc, replayed, install,
                 unflushed, crashes, allowed>>

\* Part of a record at the end of the open file.
TornTail ==
  IF Last(wal) # << >> /\ Last(Last(wal)) = Torn THEN wal
  ELSE [wal EXCEPT ![Len(wal)] = Append(@, Torn)]

\* VLog::Append or AddRecord fails, and so does Write; its number is used up.  A
\* failing fwrite or fflush may leave part of the record, and what the file could
\* not take is dropped.  A Crash right after this is one in the middle of AddRecord.
WriteLogFails ==
  /\ pc = "open" /\ ~logged /\ writes < MaxWrites
  /\ writes' = writes + 1
  /\ wal' \in {wal, TornTail}
  /\ sequence_number' = sequence_number + 1
  /\ UNCHANGED <<synced, sst, manifest, memory, pc, replayed, logged, install,
                 unflushed, crashes, allowed>>

\* An acknowledged write survives a crash of the process, and a loss of power
\* if it was to be synced.
Promised(sync) == ~PowerLoss \/ sync

\* The memtable, the syncs, MaybeScheduleFlush, and the write is acknowledged.
\* WAL::Create closes the old file without a sync.
WriteEnd(sync) ==
  LET rec == Last(Last(wal))
      mem == [memtable EXCEPT ![rec.key] = EntryOf(rec)]
      full == ShouldFlush(mem)
  IN  /\ logged
      /\ immutable_memtables' = IF full THEN Append(immutable_memtables, mem)
                                        ELSE immutable_memtables
      /\ memtable' = IF full THEN EmptyTable ELSE mem
      /\ wal' = IF full THEN Append(wal, << >>) ELSE wal
      /\ LET s == IF sync THEN [synced EXCEPT ![Len(wal)] = Len(Last(wal))]
                          ELSE synced
         IN  synced' = IF full THEN Append(s, 0) ELSE s
      /\ allowed' = [allowed EXCEPT ![rec.key] =
           {Visible(EntryOf(rec))} \cup (IF Promised(sync) THEN {} ELSE @)]
      /\ logged' = FALSE
      /\ UNCHANGED <<sst, manifest, levels, next_sstable_id, sequence_number, pc,
                     replayed, install, unflushed, writes, crashes>>

\* A table is written under the id n, over whatever has that name.
WithFile(n, table) == [id \in DOMAIN sst \cup {n} |->
                         IF id = n THEN table ELSE sst[id]]

\* FlushMemTable, of the flush thread or the destructor: the table is finished,
\* synced and pushed ...
Flush ==
  /\ pc \in {"open", "closing"} /\ saving["flush"] = "idle"
  /\ immutable_memtables # << >>
  /\ sst' = WithFile(next_sstable_id, Head(immutable_memtables))
  /\ levels' = [levels EXCEPT ![0] = Append(@, next_sstable_id)]
  /\ next_sstable_id' = next_sstable_id + 1
  /\ immutable_memtables' = Tail(immutable_memtables)
  /\ saving' = [saving EXCEPT !["flush"] = "begin"]
  /\ UNCHANGED <<logs, manifest, memtable, sequence_number, pc, replayed, logged,
                 read_id, obsolete, history>>

\* FlushMemTable fails, which its callers ignore: the memtable is gone.
FlushFails ==
  /\ pc \in {"open", "closing"} /\ saving["flush"] = "idle"
  /\ immutable_memtables # << >>
  /\ next_sstable_id' = next_sstable_id + 1
  /\ immutable_memtables' = Tail(immutable_memtables)
  /\ unflushed' = TRUE
  /\ UNCHANGED <<disk, memtable, levels, sequence_number, pc, replayed, logged,
                 install, writes, crashes, allowed>>

\* Mutant: the comparison is turned around, and the oldest version wins.
IsOldest(inputs, i, k) ==
  \A j \in DOMAIN inputs : Present(inputs[j][k]) =>
    Present(inputs[i][k]) /\ inputs[i][k].seq <= inputs[j][k].seq

\* Of the inputs, those of the upper level first, the first one with the
\* highest sequence number.
IsWinner(inputs, i, k) ==
  \A j \in DOMAIN inputs : \/ inputs[j][k].seq < inputs[i][k].seq
                           \/ inputs[j][k].seq = inputs[i][k].seq /\ i <= j

\* A deletion that no deeper level needs is dropped.
Drop(l, k, e) ==
  /\ e.type = "kDeletion"
  /\ \A d \in l + 2 .. NumLevels - 1 : ~Present(Find(Tables(d), k))

Merged(l, k) ==
  LET inputs == Tables(l) \o Tables(l + 1)
      e == inputs[CHOOSE i \in DOMAIN inputs : IsWinner(inputs, i, k)][k]
  IN  IF Drop(l, k, e) THEN Absent ELSE e

\* CompactLevel: the output, if there is any, is written and takes the place of
\* the inputs.
CompactLevel(l) ==
  LET merged == [k \in Key |-> Merged(l, k)]
      empty == Count(merged) = 0
  IN  /\ pc = "open" /\ saving["compact"] = "idle" /\ obsolete = {}
      /\ levels[l] # << >>
      /\ sst' = IF empty THEN sst ELSE WithFile(next_sstable_id, merged)
      /\ levels' = [levels EXCEPT
           ![l] = << >>,
           ![l + 1] = IF empty THEN << >> ELSE <<next_sstable_id>>]
      /\ next_sstable_id' = IF empty THEN next_sstable_id ELSE next_sstable_id + 1
      /\ obsolete' = Range(levels[l]) \cup Range(levels[l + 1])
      /\ saving' = [saving EXCEPT !["compact"] = "begin"]
      /\ UNCHANGED <<logs, manifest, memtable, immutable_memtables,
                     sequence_number, pc, replayed, logged, read_id, history>>

\* ... and SaveManifest follows: it opens MANIFEST.tmp and reads next_sstable_id_,
OpenManifest(t) ==
  /\ saving[t] = "begin"
  /\ saving' = [saving EXCEPT ![t] = "tmp"]
  /\ read_id' = [read_id EXCEPT ![t] = next_sstable_id]
  /\ UNCHANGED <<disk, memory, sequence_number, pc, replayed, logged, obsolete,
                 history>>

\* and under sstable_mutex_ it writes the tables, syncs and renames.
SaveManifest(t) ==
  /\ saving[t] = "tmp"
  /\ manifest' = Manifest(read_id[t], levels)
  /\ saving' = [saving EXCEPT ![t] = "idle"]
  /\ read_id' = [read_id EXCEPT ![t] = 0]
  /\ UNCHANGED <<logs, sst, memory, sequence_number, pc, replayed, logged,
                 obsolete, history>>

\* SaveManifest fails.  A flush ends with it, a compaction keeps its inputs.
SaveManifestFails(t) ==
  /\ saving[t] # "idle"
  /\ saving' = [saving EXCEPT ![t] = "idle"]
  /\ read_id' = [read_id EXCEPT ![t] = 0]
  /\ obsolete' = IF t = "compact" THEN {} ELSE obsolete
  /\ UNCHANGED <<disk, memory, sequence_number, pc, replayed, logged, history>>

\* Mutant: the inputs are deleted before the new manifest is in place.
DeleteAtOnce == obsolete # {}

MayDelete == obsolete # {} /\ saving["compact"] = "idle"

\* "Delete physical files"
DeleteInputs ==
  /\ MayDelete
  /\ sst' = Restrict(sst, DOMAIN sst \ obsolete)
  /\ obsolete' = {}
  /\ UNCHANGED <<logs, manifest, memory, sequence_number, pc, replayed, logged,
                 saving, read_id, history>>

-----------------------------------------------------------------------------
(* Going down. *)

\* The ids that the manifest names.
Named == UNION {Range(manifest.levels[l]) : l \in Level}

\* A table file that the manifest does not name stays until its id is used again.
\* Nobody reads it, and the model forgets it.
NamedFiles == Restrict(sst, Named \cap DOMAIN sst)

Forget ==
  /\ pc' = "down"
  /\ memtable' = EmptyTable
  /\ immutable_memtables' = << >>
  /\ levels' = NoTables
  /\ next_sstable_id' = 1
  /\ sequence_number' = 1
  /\ logged' = FALSE
  /\ saving' = Idle
  /\ read_id' = NothingRead
  /\ obsolete' = {}
  /\ unflushed' = FALSE
  /\ replayed' = 0
  /\ crashes' = crashes + 1

\* What a crash may leave of each WAL file.
Survives(kept) ==
  \A i \in DOMAIN wal : IF PowerLoss THEN kept[i] \in synced[i] .. Len(wal[i])
                                     ELSE kept[i] = Len(wal[i])

\* A Write that was not acknowledged may or may not have happened.
Crash ==
  /\ pc # "down" /\ crashes < MaxCrashes
  /\ \E kept \in [DOMAIN wal -> 0 .. MaxWrites + 1] :
       /\ Survives(kept)
       /\ wal' = [i \in DOMAIN wal |-> SubSeq(wal[i], 1, kept[i])]
       /\ synced' = kept
  /\ allowed' = IF logged THEN [allowed EXCEPT ![Last(Last(wal)).key] =
                                  @ \cup {Visible(EntryOf(Last(Last(wal))))}]
                          ELSE allowed
  /\ sst' = NamedFiles
  /\ Forget
  /\ UNCHANGED <<manifest, writes>>

\* ~DBImpl, the flush thread joined: the active memtable is flushed before the
\* immutable ones ...
Close ==
  /\ pc = "open" /\ ~logged /\ saving = Idle /\ obsolete = {}
  /\ crashes < MaxCrashes
  /\ pc' = "closing"
  /\ immutable_memtables' = (IF Count(memtable) > 0 THEN <<memtable>> ELSE << >>)
                               \o immutable_memtables
  /\ memtable' = EmptyTable
  /\ UNCHANGED <<disk, levels, next_sstable_id, sequence_number, replayed, logged,
                 install, history>>

\* ... and the WAL is closed, with a sync.
Closed ==
  /\ pc = "closing" /\ immutable_memtables = << >> /\ saving = Idle
  /\ crashes < MaxCrashes
  /\ synced' = [synced EXCEPT ![Len(wal)] = Len(Last(wal))]
  /\ sst' = NamedFiles
  /\ Forget
  /\ UNCHANGED <<wal, manifest, writes, allowed>>

-----------------------------------------------------------------------------
(* Open. *)

\* A table whose file is missing is skipped.
Loaded(ids) == IF Range(ids) \subseteq DOMAIN sst THEN ids
               ELSE SelectSeq(ids, LAMBDA id : id \in DOMAIN sst)

LoadManifest ==
  /\ pc = "down"
  /\ levels' = [l \in Level |-> Loaded(manifest.levels[l])]
  /\ next_sstable_id' = manifest.next_sstable_id
  /\ pc' = "replay"
  /\ UNCHANGED <<disk, memtable, immutable_memtables, sequence_number,
                 replayed, logged, install, history>>

\* WAL::Recover stops at the first record it cannot read.
Recover(file) ==
  LET torn == {i \in DOMAIN file : file[i] = Torn}
  IN  IF torn = {} THEN file
      ELSE SubSeq(file, 1, (CHOOSE i \in torn : \A j \in torn : i <= j) - 1)

\* The memtable after Put or Delete of each record in turn: the last one stays.
Replay(mem, records) ==
  [k \in Key |->
     LET at == {i \in DOMAIN records : records[i].key = k}
     IN  IF at = {} THEN mem[k]
         ELSE EntryOf(records[CHOOSE i \in at : \A j \in at : j <= i])]

\* Mutant: the sequence number goes on from the last record of the last file.
LastSeq(seq, records) == IF records = << >> THEN 1 ELSE Last(records).seq

MaxSeq(seq, records) ==
  CHOOSE m \in {seq} \cup {records[i].seq : i \in DOMAIN records} :
    m >= seq /\ \A i \in DOMAIN records : m >= records[i].seq

\* One file of RecoverFromWAL; a memtable that is full is flushed at once.
ReplayWAL ==
  LET records == Recover(wal[replayed + 1])
      mem == Replay(memtable, records)
  IN  /\ pc = "replay" /\ replayed < Len(wal)
      /\ \/ /\ ShouldFlush(mem)
            /\ sst' = WithFile(next_sstable_id, mem)
            /\ levels' = [levels EXCEPT ![0] = Append(@, next_sstable_id)]
            /\ next_sstable_id' = next_sstable_id + 1
            /\ manifest' = Manifest(next_sstable_id', levels')
            /\ memtable' = EmptyTable
         \/ /\ ~ShouldFlush(mem)
            /\ memtable' = mem
            /\ UNCHANGED <<sst, levels, next_sstable_id, manifest>>
      /\ sequence_number' = MaxSeq(sequence_number, records)
      /\ replayed' = replayed + 1
      /\ UNCHANGED <<logs, immutable_memtables, pc, logged, install, history>>

\* Mutant: the loop over the files runs one too far.
BeyondLast == replayed > Len(wal)

AllReplayed == replayed = Len(wal)

\* sequence_number_.store(max_seq + 1); a new WAL; the flush thread starts.
OpenDone ==
  /\ pc = "replay" /\ AllReplayed
  /\ sequence_number' = sequence_number + 1
  /\ wal' = Append(wal, << >>)
  /\ synced' = Append(synced, 0)
  /\ pc' = "open"
  /\ UNCHANGED <<sst, manifest, memory, replayed, logged, install, history>>

-----------------------------------------------------------------------------
Write == \/ \E k \in Key, type \in ValueType : WriteLog(k, type)
         \/ WriteLogFails
         \/ \E sync \in Sync : WriteEnd(sync)
GoDown == Crash \/ Close \/ Closed
Open == LoadManifest \/ ReplayWAL \/ OpenDone

Background == \/ Flush \/ FlushFails
              \/ \E l \in 0 .. NumLevels - 2 : CompactLevel(l)
              \/ \E t \in Thread : \/ OpenManifest(t) \/ SaveManifest(t)
                                    \/ SaveManifestFails(t)
              \/ DeleteInputs

Next == Write \/ Background \/ GoDown \/ Open

\* DB::Open, once called, goes on.
Fairness == WF_vars(Open)

Spec == Init /\ [][Next]_vars /\ Fairness

\* No two threads are in SaveManifest with the same MANIFEST.tmp open
\* (db_impl.cpp:141), and none installs a table while another is between reading
\* next_sstable_id_ (145) and levels_ (147).
OneSaver ==
  \A t \in Thread : saving[t] = "tmp" =>
    /\ \A u \in Thread \ {t} : saving[u] # "tmp"
    /\ \A l \in Level : \A id \in Range(levels[l]) : id < read_id[t]

SerialNext == Next /\ OneSaver'

SerialSpec == Init /\ [][SerialNext]_vars /\ Fairness

-----------------------------------------------------------------------------
(* Properties. *)

Entry == [seq : Nat, type : ValueType, val : 0 .. MaxWrites]
WALRecord == [key : Key \cup {0}, seq : Nat, type : ValueType,
              val : 0 .. MaxWrites]

TypeOK ==
  /\ wal \in Seq(Seq(WALRecord))
  /\ synced \in [DOMAIN wal -> Nat]
  /\ \A i \in DOMAIN wal : synced[i] <= Len(wal[i])
  /\ DOMAIN sst \subseteq Nat \ {0}
  /\ sst \in [DOMAIN sst -> [Key -> Entry]]
  /\ manifest \in [next_sstable_id : Nat \ {0}, levels : [Level -> Seq(Nat)]]
  /\ memtable \in [Key -> Entry]
  /\ Count(memtable) < MemLimit
  /\ immutable_memtables \in Seq([Key -> Entry])
  /\ levels \in [Level -> Seq(Nat)]
  /\ next_sstable_id \in Nat \ {0}
  /\ sequence_number \in Nat \ {0}
  /\ pc \in {"down", "replay", "open", "closing"}
  /\ replayed \in 0 .. Len(wal)
  /\ logged \in BOOLEAN
  /\ saving \in [Thread -> {"idle", "begin", "tmp"}]
  /\ read_id \in [Thread -> Nat]
  /\ obsolete \subseteq Nat
  /\ unflushed \in BOOLEAN
  /\ writes \in 0 .. MaxWrites
  /\ crashes \in 0 .. MaxCrashes
  /\ allowed \in [Key -> SUBSET (0 .. MaxWrites)]

\* No record is behind part of one: WAL::Recover would stop before it
\* (wal.cpp:195-198).  A Write after an AddRecord that failed half-way puts its
\* record there (wal.cpp:99).
Intact(log) == \A f \in DOMAIN log : \A i \in DOMAIN log[f] :
                 log[f][i] = Torn => i = Len(log[f])

\* Whenever the database is open, every key reads as the last write of it that
\* was acknowledged, or as a later one that was cut short: after any number of
\* crashes, replays of all WALs over newer tables (db_impl.cpp:107-130), flushes
\* out of order in the destructor (db_impl.cpp:44-51), compactions, and manifests
\* that could not be saved (db_impl.cpp:430, 652).  A flush that fails
\* (db_impl.cpp:356) hides what it should have written, but only until the next
\* Open.  Records behind part of another are lost with the next crash.
RecoveredReads ==
  pc = "open" /\ ~logged /\ ~unflushed /\ Intact(wal) =>
    \A k \in Key : Visible(Lookup(k)) \in allowed[k]

\* "Monotonically increasing sequence number" (memtable.h:38): whatever is
\* stored has a lower number than the next write will get, so that compaction,
\* which goes by the numbers, prefers the later write.  The numbers of records
\* behind part of another are not found again.
SequenceFresh ==
  pc = "open" /\ Intact(wal) => \A l \in Level, k \in Key :
    \A i \in DOMAIN levels[l] : Tables(l)[i][k].seq < sequence_number

\* The ids that levels_ or the manifest refers to.
InUse == Named \cup UNION {Range(levels[l]) : l \in Level}

\* The file of a table that the manifest or levels_ names is there and is never
\* written again: compactions delete their inputs only when the manifest does not
\* name them (db_impl.cpp:651-661), and ids are not given out twice, although the
\* counter is only as recent as the manifest (db_impl.cpp:145, 186) and a crash
\* leaves files behind that it does not count.
TablesStay ==
  [][\A id \in InUse' :
       id \in DOMAIN sst' /\ (id \in InUse => sst'[id] = sst[id])]_vars

(***************************************************************************)
(* Why a replay of every WAL over the tables gives back what was written.  *)
(* The logs hold the records in the order of their sequence numbers, and   *)
(* all that memory and tables hold is in the logs.  While files are        *)
(* replayed, the keys that were met so far read as the newest of their     *)
(* replayed records, whatever the tables have; in the end that is all.     *)
(***************************************************************************)

\* A record that WAL::Recover reads.
Whole(rec) == rec.key \in Key /\ rec.seq >= 2

\* Every record has a higher number than those before it, and only the end of a
\* file may be torn.
Ordered(log) ==
  /\ \A f \in DOMAIN log : \A i \in DOMAIN log[f] :
       Whole(log[f][i]) \/ (log[f][i] = Torn /\ i = Len(log[f]))
  /\ \A f, g \in DOMAIN log : \A i \in DOMAIN log[f], j \in DOMAIN log[g] :
       (f < g \/ (f = g /\ i < j)) /\ Whole(log[f][i]) /\ Whole(log[g][j]) =>
         log[f][i].seq < log[g][j].seq

Records(log) == {rec \in UNION {Range(log[f]) : f \in DOMAIN log} : Whole(rec)}

\* The records of writes that are in memory or were.
Applied == IF logged THEN Records(wal) \ {Last(Last(wal))} ELSE Records(wal)

\* The records that RecoverFromWAL has met.
Met == {rec \in Records(wal) : rec.seq <= sequence_number}

Newest(recs, k, rec) ==
  /\ rec \in recs /\ rec.key = k
  /\ \A other \in recs : other.key = k => other.seq <= rec.seq

\* The entry is what the newest of the records says of the key, if there is one; a
\* deletion may have been dropped.
Reflects(e, recs, k) ==
  \A rec \in recs : Newest(recs, k, rec) =>
    e = EntryOf(rec) \/ (rec.type = "kDeletion" /\ e = Absent)

ControlInv ==
  /\ wal # << >>
  /\ logged => pc = "open" /\ Last(wal) # << >>
  /\ saving["flush"] # "idle" => pc \in {"open", "closing"}
  /\ saving["compact"] # "idle" => pc = "open"
  /\ obsolete # {} => pc = "open"
  /\ immutable_memtables # << >> => pc \in {"open", "closing"}

\* No table is in two levels.
Disjoint(ids) == \A l, m \in Level : l # m => Range(ids[l]) \cap Range(ids[m]) = {}

TableInv ==
  /\ Named \subseteq DOMAIN sst /\ obsolete \subseteq DOMAIN sst
  /\ \A id \in Named : id < manifest.next_sstable_id
  /\ Disjoint(manifest.levels) /\ Disjoint(levels)
  /\ \A l \in Level : /\ Range(levels[l]) \subseteq DOMAIN sst
                      /\ Range(levels[l]) \cap obsolete = {}
  /\ pc # "down" => /\ manifest.next_sstable_id <= next_sstable_id
                    /\ \A id \in DOMAIN sst : id < next_sstable_id
                    /\ \A t \in Thread : read_id[t] <= next_sstable_id
  /\ \A t \in Thread : saving[t] = "tmp" <=> read_id[t] > 0
  /\ saving["compact"] = "idle" => Named \cap obsolete = {}
  /\ pc = "down" => DOMAIN sst \subseteq Named

LogInv ==
  /\ Ordered(wal)
  /\ pc = "open" => /\ sequence_number >= 2
                    /\ logged => Whole(Last(Last(wal)))
                    /\ \A rec \in Records(wal) : rec.seq < sequence_number
  /\ pc = "down" => sequence_number = 1 /\ replayed = 0
  /\ pc = "replay" => \A f \in DOMAIN wal : \A i \in DOMAIN wal[f] :
       Whole(wal[f][i]) => (f <= replayed <=> wal[f][i].seq <= sequence_number)

InLog(e, k) == e = Absent \/ \E rec \in Applied : rec.key = k /\ e = EntryOf(rec)

StoredInv ==
  \A k \in Key :
    /\ InLog(memtable[k], k)
    /\ \A i \in DOMAIN immutable_memtables : InLog(immutable_memtables[i][k], k)
    /\ \A id \in DOMAIN sst : InLog(sst[id][k], k)

ReadsInv ==
  \A k \in Key :
    /\ pc = "open" /\ ~unflushed => Reflects(Lookup(k), Applied, k)
    /\ pc = "replay" => Reflects(Lookup(k), Met, k)

AllowedInv ==
  \A k \in Key :
    /\ (\A rec \in Applied : rec.key # k) => 0 \in allowed[k]
    /\ \A rec \in Applied : Newest(Applied, k, rec) =>
         Visible(EntryOf(rec)) \in allowed[k]

\* Logs, tables, manifest and memory fit together in every state of Write, flush,
\* compaction, shutdown, crash and Open (db_impl.cpp:35-216, 320-361, 373-674).
\* That the logs have everything needs crashes that lose none of their records,
\* and no record behind part of another.
IndInv ==
  /\ TypeOK /\ ControlInv /\ TableInv /\ OneSaver
  /\ ~PowerLoss /\ Intact(wal) => LogInv /\ StoredInv /\ ReadsInv /\ AllowedInv

\* An Open that is not cut short comes to an end, however many WALs there are.
OpenReturns == pc = "replay" ~> pc \in {"open", "down"}
=============================================================================
