# SplitKV in TLA+

A specification of SplitKV's core, model-checked with TLC and proved with TLAPS.
SplitKV is a key-value store in the style of WiscKey: keys and pointers live in
an LSM tree, values in a separate value log. Paths and line numbers below refer
to the repository.

## 1. The system

| Part | State | Operations | Interacts through |
|---|---|---|---|
| Index (`src/db_impl.cpp`, `src/memtable.cpp`) | `memtable_`, `immutable_memtables_`, `levels_`, `next_sstable_id_`, `sequence_number_` | `Put`, `Delete`, `Write`, `Get`, `FlushMemTable`, `CompactLevel`, `CompactRange` | `memtable_mutex_`, `sstable_mutex_`; no mutex spans a compaction |
| Flush thread (`src/db_impl.cpp`) | `shutting_down_`, `flush_cv_`, `flush_mutex_` | `MaybeScheduleFlush`, `BackgroundFlush`, `~DBImpl` | condition variable, `memtable_mutex_`, join |
| Value log (`src/vlog.cpp`) | files, `current_file_id_`, `current_offset_`, `writer_`, `readers_` | `Open`, `Append`, `RotateFile`, `Read`, `NewReader`, `RemoveReader` | `reader_mutex_`; `Append` has no lock of its own |
| Garbage collection (`DBImpl::RunGC`) | the list of live records | scan, rewrite, "CAS update", delete | `memtable_mutex_` per record, the value log |
| WAL (`src/wal.cpp`) | one log file per memtable, never deleted | `Create`, `AddRecord`, `Recover` | called under `memtable_mutex_` |
| Manifest (`src/db_impl.cpp:138-213`) | `MANIFEST`, `MANIFEST.tmp` | `SaveManifest`, `LoadManifest` | called by flushes and compactions |
| SSTable files (`src/sstable.cpp`) | data, sparse index, Bloom filter, footer | writer, reader, iterator | one `FILE*` per table, shared |
| AVL tree (`src/avl_tree.h`) | `root_`, `size_` | `Insert`, `Find`, `Remove`, iterator | the lock of its memtable |
| Bloom filter, coding, CRC | - | pure algorithms | the table writer and reader |
| File utilities, server, command line | - | wrappers and front ends | the server runs a thread per client |

**What is hard.** A `Get` looks at memtables and tables in two critical sections
while memtables are rotated, flushed, popped and compacted. It stops at its first
hit and compares no sequence numbers. A compaction works on a copy of two levels
with no lock. The flush thread is notified without the mutex it waits with.
`RunGC` moves values that are being overwritten and deletes files that are being
read. Every operation can fail or crash half-way, and all WALs are replayed at
every start, over tables that are newer. In a table, an index of offsets, a filter
and a scan must agree to the byte with what the writer laid out, and a `Get` and a
compaction read it through one file position.

**What makes each part correct.**

- *Index*: a search finds the newest version; only writes change what a key
  reads as; a `Get` returns a version from within the call; tables of a level
  are disjoint. Together: it implements an atomic map.
- *Flush thread*: every rotated memtable is flushed, once; close returns.
- *Value log and GC*: every pointer in the index leads to its own record, over
  crashes too; a collection changes no value and comes to an end.
- *WAL, manifest*: a recovered store has every acknowledged write that `sync`
  promises, newest version first; no sequence number and no table id is used
  twice; no file that a manifest names goes; `Open` comes to an end.
- *Tree and tables*: the tree stays ordered and balanced; its table holds what it
  held; a `Get` finds a key if and only if it is in the table; a walk of the
  iterator shows every entry in order before it ends.

`PROJECT.json` lists the hazards line by line, with the properties that cover them.

## 2. Modules

| Module | What it is |
|---|---|
| `KVStore` | Abstract specification: what `db.h` promises its callers |
| `LSMTree` | The index and the threads that share it |
| `LSMTreeInv` | Its inductive invariant `IndInv` |
| `LSMSearch_proofs`, `LSMControl_proofs`, `LSMTree_proofs`, `LSMRefinement_proofs` | Proofs about `LSMTree` |
| `FlushThread`, `FlushThread_proofs` | Wakeup and shutdown of the flush thread, with its inductive invariant, and the proofs |
| `ValueLog`, `ValueLog_proofs` | The value log, its clients and `RunGC`, likewise |
| `Recovery`, `Recovery_proofs` | WALs, table files, manifest, crashes, shutdown and `Open`, likewise |
| `Coding` | Fixed and variable-length integers |
| `BloomFilter` | The filter of a table |
| `SSTable`, `SSTable_proofs` | A table file: writer, `Open`, `Get`, iterator, with its inductive invariant; the proofs, those about `Coding` and `BloomFilter` among them |
| `AVLTree` | The tree of a memtable (recursive, for TLC only) |
| `MemTableFlush` | Composition: memtable, flush, table, readers |
| `MCLSMTree`, `MCFlushThread`, `MCValueLog`, `MCRecovery`, `MCMemTableFlush` | Instances for TLC |

### KVStore

A map `store` from keys to versions (0 for "not found"). A batch is opened,
applied entry by entry and closed; closing it makes it visible. A `Get` takes
effect at once (`GetNow`) or begins and ends (`GetBegin`, `GetEnd`) and returns a
version its key had in between.

### LSMTree

One action per critical section; `Write` takes one per entry and holds
`memtable_mutex_` (`writing`) throughout.

| Actions | Code |
|---|---|
| `WriteBegin`, `WriteEntry`, `WriteError`, `WriteEnd` | `Put`, `Delete`, `Write`, `MaybeScheduleFlush` |
| `GetMem`, `GetSST` | the two sections of `Get` |
| `FlushPick`, `FlushAlloc`, `FlushInstall`, `FlushPop` | `BackgroundFlush`, `FlushMemTable` |
| `CompactRange`, `CheckLevel` | the loops over the levels |
| `CompactPick`, `CompactOverlap`, `CompactDrop`, `CompactAdd`, `CompactInstall`, `CompactError` | `CompactLevel` |

Abstractions. Keys are naturals in the order of the strings. An entry is its
sequence number and type; the value-log pointer travels with it. A table is its
id, range and contents: what sparse index, Bloom filter and file layout compute
is a lookup. Sizes are numbers of entries. `levels_[0]` is a set whose order is
that of the ids, and deeper levels are sets whose order is that of
`smallest_key`, the order the code gives them. The `Put` with which `RunGC`
repoints a key is, to the index, a `Write` that ends without
`MaybeScheduleFlush`, as `WriteError` does.

`Spec` lets the client's `CompactRange` and the flush thread compact at the same
time, as the code does. `SerialSpec` adds `OneCompactor`: the two are never inside
`CompactLevel` together, which an application gets by not calling `CompactRange`
while it writes. Everything but type correctness needs it, as the run
`two_compactors` shows. A flush that fails is in `Recovery`.

### FlushThread

Memtables are numbers; writers rotate and notify, the thread tests, dozes (the
predicate was false, the sleep has not begun), sleeps, picks, flushes and pops;
the destructor stores `shutting_down_`, notifies, joins and flushes what remains.
`Wake` reaches a sleeping thread only. A WAL that cannot be created ends
`MaybeScheduleFlush` before the notification.

A `Write` inserts its entries (`WriteEntry`) and then rotates (`Rotate`), finds the
memtable below its limit (`WriteEnd`), or returns an error without looking
(`WriteError`: lines 236, 240 and 246, and the `Put` of `RunGC`, 855). After a `WriteError`,
the memtable may be at its limit or above it until some later call checks. The
history variable `unchecked` records that there was such a call, and `TypeOK` says that
a full memtable has no other cause.

What a flush writes is in `LSMTree`. `FlushMemTable` may fail, which its callers do not
look at (356, 45, 50): `flushed` says that a memtable was handed to it, no more.
`Recovery` has the failing ones.

### ValueLog

Files are sequences of bytes. The byte at which a record begins stands for the record,
and nothing can be read at the others; each record has the size that its `Put` gives it,
and it may be larger than `vlog_file_size_limit`, when it gets a file of its own
(`MustRotate`). `AppendBegin` rotates and fills in the pointer, `AppendWrite` writes the
record and moves the offset: the two steps of `VLog::Append`, which a `Write` takes
under `memtable_mutex_` and `RunGC` without.
`GCPick`, `GCScan`, `GCDecide`, `GCRewrite`, `GCUpdate`, `GCRemoveReader` and
`GCDelete` are `RunGC`. Readers keep an open file after its deletion. The index is
a map from keys to newest entries, which is what `ReadsNewest` and
`ImplementsKVStore` say of `LSMTree`.

`RotateFails` is a `RotateFile` that has closed the old file and cannot open the
next: `writer_` is gone, and every `Append` fails (`PutFails`, `GCRewriteFails`).
`Crash` stops everything at any point; with it, `Reopen` is `VLog::Open` of the next
start, which appends to the highest file behind whatever it finds there. What was
written stays, since `Append` flushes each record to the operating system; the index
comes back as it was, which is what `Recovery` shows for a crash of the process.
`CrashInAppend` leaves a torn record.

`AppendFails` is an `Append` that returns an error after it has begun to write. If
`fwrite` fails, any part of the record may be in the file and `current_offset_` stays;
if `fflush` fails, the same, and the offset has moved (`vlog.cpp:165`); if `Sync` fails,
the record is there and nobody points to it.

`Spec` has all of this. `SerialSpec` makes two assumptions. `OneAppend`: `RunGC` and a
`Write` are never inside `Append` together. `Aligned`: the active file ends at
`current_offset_`. The code does not see to either. What happens without `OneAppend` is
the run `append_race` (`RaceSpec`). Without `Aligned`, that is, after an append that
failed and left part of its record, every later pointer into the file is off:
`LiveReadable` fails with the next `Put`. That is listed as a hazard. What `SerialSpec`
keeps are appends that fail with nothing or all of their record in the file and the
offset to match. `TornSpec` adds `CrashInAppend` to it.

### Recovery

The disk: the records of every WAL file and how many of them are synced, the table
files by id, and the manifest: `next_sstable_id_` and the ids of each level. Memory:
memtables, `levels_`, `next_sstable_id_`, `sequence_number_`. A `Write` of one entry
is two steps, `WriteLog` (`AddRecord`) and `WriteEnd` (memtable, sync,
`MaybeScheduleFlush`, acknowledgement); `WriteLogFails` is an `AddRecord` that returns an
error, with nothing or part of the record in the file (`wal.cpp:98-104`), after which
the database goes on. A crash inside `AddRecord` is this step and then `Crash`.

A flush or a compaction writes its table and changes `levels_` in one step (`Flush`,
`CompactLevel`) and then saves the manifest in two, which those of the other thread may
come between: `OpenManifest` opens `MANIFEST.tmp` and reads `next_sstable_id_`
(`db_impl.cpp:141-145`), and `SaveManifest` takes `sstable_mutex_`, writes what `levels_`
says by then, and renames (147-166). `SaveManifestFails` may come instead of either: a
flush does no more (430), a compaction keeps its inputs (652). `DeleteInputs` follows.
`FlushFails` is a flush whose error its callers ignore: the memtable is popped and its
keys read as something older until the next start (`unflushed`).

`Crash` may happen at any point, in recovery too. `Close` and `Closed` are the
destructor, whose flushes, saved manifests and failures are those of the flush thread,
and which a `Crash` may cut short. `Open` is `LoadManifest`, `ReplayWAL` for each file
and `OpenDone`.

`AddRecord` hands each record to the operating system, so a crash of the process
loses none. With `PowerLoss`, a crash keeps any prefix of each WAL that includes
what was synced. Tables and the manifest are synced (`sstable.cpp`, `SaveManifest`)
and are kept. `allowed` is a history variable: what a key may read as, given what
was acknowledged and promised to last.

A level below 0 is one table, the union of its disjoint ones. What happens inside a
flush or a compaction before `SaveManifest` is `LSMTree`'s subject. The value log is not
part of this module. Taken to succeed: `WAL::Sync` (`db_impl.cpp:253`). An `Open` that
returns an error is a `Crash`.

The code does not ensure two things that the properties need, and the module names them.

- `OneSaver`: no two threads are in `SaveManifest` with `MANIFEST.tmp` open, and no
  table is installed between a thread's lines 145 and 147. `SerialSpec` assumes it. With
  `Spec`, TLC finds `TablesStay` violated: a flush reads 2 as the next id, `CompactRange`
  installs its output, table 2, and the flush saves a manifest that names table 2 and has
  2 as the next id; after a crash, the replay flushes a memtable into the file of table 2.
- `Intact`: no record is behind part of another in a WAL. `RecoveredReads` and
  `SequenceFresh` say nothing of other states. Without it TLC finds both violated: an
  `AddRecord` fails half-way, a later write is acknowledged, the process crashes, and
  `WAL::Recover` stops at the partial record (`wal.cpp:195-198`). The later write is gone
  and its number is given out again. `TypeOK`, `TablesStay` and `OpenReturns` hold with
  or without it.

So the two properties cover an `AddRecord` that fails cleanly, and one that leaves part of
its record and is followed by no other write before the next start.

### SSTable, BloomFilter, Coding

The data region is a function from byte offsets to encoded entries. An entry's size
is computed from the varint of its key's length, by the writer when it encodes and
by the readers from what they decode, so that an error in either puts the offsets
out of step. `Add` and `Finish` are `SSTableWriter`; `Open` decodes footer, index and
filter; `Get` and `Seek` ask the filter, then take one action per round of the binary
search (`Search`) and per read of the scan.

`ReadEntryAt` reads 64 bytes and, for a longer entry, the whole of it again
(`ReadHead`). Each read is `FileSeek` and then a read of what is at the position of
the file, which all readers of a table share. Where no entry begins, the model says
`Corruption`; the code may also take the bytes for some entry. There are two readers:
`get`, one at a time because `sstable_mutex_` is held around it, and `iter`, which
holds nothing. `OneCall` keeps their calls apart, and `SerialTableSpec` is the
specification of a file with it: sorted `Add`s, `Finish`, `Open` and the readers, the
file being shorter than 2^64 bytes (`SizeFits`). `from` and `seen` are history
variables, the key a walk began at and what it has shown.

The hashes of the filter are parameters, as are the lengths of the keys. What the
filter does with the hashes (number of hashes, sizes, rounding, double hashing) is
modelled as it is.

### AVLTree, MemTableFlush

A tree is a record, and an operation returns the new tree. `MemTableFlush` applies
`Put` and `RemoveKey` (`AVLTree::Remove`, which no memtable calls, as one more way to
come by a tree), then walks through the tree as `GetSortedEntries` does and feeds the
writer. `UsesTable` says that this composition is a behaviour of `SerialTableSpec`, in
which keys are added in ascending order, so that what is proved of it holds here.

## 3. Runs

| Run | Checks | Result |
|---|---|---|
| `index` | `TypeOK`, `ReadsNewest`, `LevelsDisjoint`, `IndInv`, `StableReads` | holds |
| `gets` | `GetReturnsCurrent`, `ImplementsKVStore` | holds |
| `two_compactors` | `DeletedStaysDeleted` under `Spec` | violated |
| `shutdown` | `TypeOK`, `NothingLost`, `FlushedOnce`, `ClosedIsFlushed`, `IndInv`, `AwakeFlushes`, `CloseReturns` | holds |
| `close_hangs` | `CloseAlwaysReturns` | violated |
| `gc` | `TypeOK`, `LiveReadable`, `GetReturnsOwnValue`, `IndInv`, `GCKeepsValues`, `GCReturns` | holds |
| `append_race` | `LiveReadable` under `Spec` | violated |
| `torn_tail` | `LiveReadable` under `TornSpec` | violated |
| `recovery` | `TypeOK`, `RecoveredReads`, `SequenceFresh`, `IndInv`, `TablesStay`, `OpenReturns` under `SerialSpec`, process crashes | holds |
| `power_loss` | `RecoveredReads`, loss of power | violated |
| `table` | `TypeOK`, `TreeHoldsContents`, `TableHoldsContents`, `GetFindsEntry`, `WalkIsComplete`, `TableInv`, `UsesTable`, `ReadsReturn` | holds |
| `shared_file` | `GetFindsEntry` under `Spec` | violated |

Each passing property has a mutant, an operator that replaces a definition by a
plausible mistake and makes TLC find a violation: a last level that is compacted,
level 0 searched from the front, tables that touch the end of the hull missed,
deletions always dropped, immutable memtables forgotten, the first version
winning a merge, the last output left out, a height not brought up to date in a
rotation, hashes reduced before the filter's size is rounded, the length of a key
taken to be one byte long when an entry is skipped, input files deleted
before the manifest is saved, and so on. They stand before the
definitions they mutate.

### What the violations show

- **two_compactors**: both threads capture the same tables. One merges and drops
  a deletion together with what it hides; the other, which has read the inputs
  before, installs the hidden version again.
- **close_hangs**: `flush_mutex_` is not held for the change the predicate tests,
  nor for the notification (`db_impl.cpp:36-37`). The writers do the same
  (`322-330`): the memtable of a notification that is lost waits for the next
  rotation, which is why `AwakeFlushes` speaks of a thread that is awake.
- **append_race**: two appenders read the same `current_offset_`. That the two also
  race on `writer_` and may lose an update of the offset makes it no better.
- **torn_tail**: a crash inside `Append` leaves part of a record. The next start
  appends behind it (`vlog.cpp:73`), and those records are read without trouble, by
  their offsets. When the file is full and `RunGC` scans it, `NewReader` stops at the
  torn record and reports success (`vlog.cpp:343-346`); the live records behind it are
  not rewritten, and the file is deleted.
- **power_loss**: a deletion is flushed to a table, power is lost and the WAL,
  which nobody synced, with it. `RecoverFromWAL` takes the next sequence number
  from the WALs alone (`db_impl.cpp:132`) and gives the deletion's number to the
  next write, a synced `Put` of the same key. Both are in level 0 when it is
  compacted; of equal numbers the first input wins, the deletion, and the `Put` is
  gone. With two lost records the older version has the higher number and wins at
  any level.
- **shared_file**: a `Get` has set the position of the file, the iterator of a
  compaction sets it elsewhere or reads on, and the `Get` reads what is there. It
  returns an error for a key that is in the table, or `NotFound` when the other entry
  is above its key. The iterator is as exposed: it skips entries or becomes invalid,
  which `CompactLevel` takes for the end of the table (`db_impl.cpp:593-598`).

### Bounds

`LSMTree`: two keys, memtables of one entry, three levels, tables of one entry
(`gets`) or two (`index`), three or four sequence numbers (the first is 2, so
two or three writes), three or four table ids. That is enough for a key to be in
the memtable, the deque, level 0 and two deeper levels in turn, for a merge with
two inputs or two outputs, for a deletion with something to hide in a deeper
level, and for a flush during a compaction. The proofs need no bound.
`MaxSeq` and `MaxId` bound the model only; the counters of the code are 64 and 32
bits wide and are not modelled to wrap.

`FlushThread`: three rotations, memtables that are full with two entries and may have
three: one memtable may be in a flush, one in the deque and one on its way there, and
any of them may have been left full or over the limit by a write that failed.

`ValueLog`, `gc`: one key, three Puts of size 1 or 3, up to two records that are there
at the start, dead or live, one failing append, one crash, files of two bytes, threshold
50%: enough for a file with one live and one dead record and for one that a single
record overfills, for two files to be collected, for a rotation by `RunGC` itself, and
for a collection after a crash in a collection. With one key, the records of a file are
versions of it; a second key adds only records that are live together and does not fit
in five minutes. `append_race` has two keys and records of size 1, `torn_tail` two keys
and sizes 1 and 2, so that part of a record can be written.

`Recovery`: two keys, three writes, memtables of two entries, two levels and two
crashes or shutdowns: enough for a full WAL and a partial one, for a flush in the
middle of a replay, for a crash right after it and a second replay over its
table, for a SaveManifest that fails between two that do not, and for a key with
versions in WAL, level 0 and the level below at once. Two starts are what an id needs to
be given out again. A third level does not fit in five minutes; a deletion that a level
below keeps from being dropped is in `LSMTree`'s runs, and the proofs have any number of
levels. `power_loss` has one crash and memtables of one entry.

`MemTableFlush`: five keys, one of them with two values, a block of two entries, 14
bits per key. Five nodes are the fewest with which every case of `Balance` occurs,
among them a removal after which the heavier child is itself balanced. Five entries
make three blocks, so that the binary search goes both ways. Key lengths are 20, 127
and 128 bytes: an entry within the first read, and a varint of one and of two bytes.
14 bits per key give 70 bits for five keys, which are rounded to 72, and the hashes
collide, so that the filter lets absent keys pass.

### Fairness

`FlushThread`: weak fairness of the flush thread's own steps (an OS thread that
can run does), of a `Write` that holds the mutex, and of the destructor. Nothing
is assumed of spurious wakeups, of further writes, or of a close. The writers are
finitely many steps away from releasing `memtable_mutex_`.

`ValueLog`: weak fairness of a collection that is under way and of a `Write` that
has begun, each of them within `OneAppend` and `Aligned`. `RunGC` needs `memtable_mutex_`, which `std::mutex` grants in no
particular order; with finitely many Puts (`MaxPuts`) it gets it in the end.

`Recovery`: weak fairness of `Open`, a sequential call that waits for nothing.

`MemTableFlush`: weak fairness of the reading steps, with `OneCall`: the one thread that
is inside a call goes on. Nothing is assumed of the start of further calls.

`LSMTree` has no liveness properties and no fairness. Deadlock is checked except in
`FlushThread`, where a closed database stops, and in `Recovery`, where an idle
database stops once the bounds on writes and crashes are used up.

## 4. Proofs

Every safety property that a passing run checks of `LSMTree`, `FlushThread`, `ValueLog`,
`Recovery` and `SSTable` is a theorem for all values of the constants: any keys, readers,
levels, limits and thresholds, any bounds on writes, rotations and crashes, any lengths
of keys, hashes, bits per key and sizes of a block.

| Module | Theorem | Statement |
|---|---|---|
| `LSMControl_proofs` | `TypeCorrect` | `Spec => []TypeOK` |
| `LSMTree_proofs` | `Invariance` | `SerialSpec => []IndInv` |
| | `ReadsAreNewest` | `SerialSpec => []ReadsNewest` |
| | `LevelsAreDisjoint` | `SerialSpec => []LevelsDisjoint` |
| | `GetsAreCurrent` | `SerialSpec => []GetReturnsCurrent` |
| `LSMRefinement_proofs` | `ReadsAreStable` | `SerialSpec => StableReads` |
| | `Refinement` | `SerialSpec => ImplementsKVStore` |
| `FlushThread_proofs` | `FlushOrder` | `Spec => []IndInv` |
| | `FlushTypeCorrect` | `Spec => []TypeOK` |
| | `NothingIsLost` | `Spec => []NothingLost` |
| | `NothingFlushedTwice` | `Spec => []FlushedOnce` |
| | `ClosedHasFlushed` | `Spec => []ClosedIsFlushed` |
| `ValueLog_proofs` | `LogAndIndex` | `SerialSpec => []IndInv` |
| | `LogTypeCorrect` | `SerialSpec => []TypeOK` |
| | `PointersLeadToRecords` | `SerialSpec => []LiveReadable` |
| | `GetsReadTheirOwn` | `SerialSpec => []GetReturnsOwnValue` |
| | `GCMovesOnly` | `SerialSpec => GCKeepsValues` |
| `Recovery_proofs` | `RecoveryInvariant` | `SerialSpec => []IndInv` |
| | `RecoveryTypeCorrect` | `SerialSpec => []TypeOK` |
| | `TablesInUseStay` | `SerialSpec => TablesStay` |
| | `AcknowledgedIsRead` | `~PowerLoss` implies `SerialSpec => []RecoveredReads` |
| | `SequenceIsFresh` | `~PowerLoss` implies `SerialSpec => []SequenceFresh` |
| `SSTable_proofs` | `TableInvariant` | `SerialTableSpec => []TableInv` |
| | `GetFindsWhatWasAdded` | `SerialTableSpec => []GetFindsEntry` |
| | `WalksAreComplete` | `SerialTableSpec => []WalkIsComplete` |
| | `Varint32RoundTrip` | a number of 32 bits is decoded as it was encoded, from as many bytes |
| | `Fixed64RoundTrip` | a number of 64 bits is decoded as it was encoded |
| | `NoFalseNegatives` | a key of the finite set a filter was made from may be contained in it, for any hashes and bits per key |

**Assumptions.** The named `ASSUME`s of each module: the limits are naturals and at
least 1 where the code divides by them or counts up to them; the keys of `LSMTree` are
naturals (its tables have ranges); those of `ValueLog` and `Recovery` are any set
without 0, which stands for no key, in `ValueLog` not an empty one and in `Recovery` a
finite one, because the entries of a memtable are counted; those of `SSTable` are
naturals above 0, any number of them, with lengths of 32 bits, to which the code casts
them (`sstable.cpp:48`). Beyond these, `SerialSpec` of
`LSMTree` is what the run `two_compactors` shows to be needed, `OneAppend` what
`append_race` shows, `OneCall` in `SerialTableSpec` what `shared_file` shows, and
`~PowerLoss` what `power_loss` shows. `Aligned` in `ValueLog`, and `OneSaver` and `Intact`
in `Recovery`, are conditions that the code does not ensure (section 2); `Intact` is part
of `RecoveredReads`, `SequenceFresh` and `IndInv`. `SizeFits` bounds `data_offset_` by the
width of its type, so that no addition wraps. The proofs about `Recovery` hold for power
losses, and after partial records, as far as `RecoveryTypeCorrect` and `TablesInUseStay`
go.

### LSMTree

`ReadsNewest` is not inductive: that the first hit is the
newest depends on the order of every pair of tables, on what a compaction in
progress will install, and on the memtable that is both in the deque and in level
0. `IndInv` is the conjunction of

- `ControlInv`: types, program counters and the locals they imply, fresh ids;
- `TablesInv`: tables are well formed, ids are unique, levels are ordered by age
  and disjoint (`TablesOK`);
- `MemInv`: memtables are ordered by age and newer than every table, except the
  front one between push and pop, whose entries then read the same from the levels;
- `CompactInv`: the captured inputs are still in place and complete but for newer
  level-0 tables; for every key already merged the output has the winner, or the
  winner is a deletion and no deeper level has the key; outputs are disjoint, in
  order and have fresh ids;
- `ReadsInv`: whatever a `Get` can still find is a version from within the call.

`LSMSearch_proofs` shows what a search returns from facts about
ordered tables, with no state at all. `LSMControl_proofs` proves `ControlInv` action by
action and `TypeCorrect`. `LSMTree_proofs` proves the rest, the installation of a
merge being the hard step: the new levels are again ordered and disjoint and every
key reads as before. `LSMRefinement_proofs` shows that every action but writes and
Gets leaves `Visible(Lookup(k))` alone, whence `StableReads`, and maps each action to
one of `KVStore` or a stutter.

### FlushThread

`NothingLost` says where a memtable is and not in which order, so `pop_front` might
remove another one. `IndInv` has the order: until the destructor flushes what remains,
`flushed` is 1, 2, ..., the deque goes on where it ends and `memtable_` is the next
(`InOrder`); between flush and pop the front of the deque is the last of `flushed`
(`Popped`). `ControlInv` ties the flush thread to its shutdown: the destructor
flushes only when the thread is done, and nobody writes by then. After that the
order is gone, since the destructor flushes the active memtable first, and the three
properties stand for themselves.

### ValueLog

`IndInv` says why a pointer stays good while the log is appended to, collected and
reopened:

- `LogInv`: every file is a row of whole records (`Layout`), and one above the limit has
  a single record; no file is above the active one, and `current_offset_` is its end;
- `IndexInv`: every pointer in the index leads to its record, in a file of the
  directory;
- `ReadInv`: the file of a `Get` is not above the active one, so that its id is not
  given to another file, and if it can be opened, the record is in it;
- `AppendInv`, `WriterInv`: what an `Append` has filled in is the end of the log, and
  what it has written is where the pointer says, in a file that no collection has
  begun to go through;
- `RewriteInv`, `GCInv`: the collected file is below the active one, and whatever the
  index has in it was found by the scan and is still to be rewritten, or is ahead of
  the scan. When nothing is left, the file is deleted.

An append changes nothing below the end of the log (`LogGrows`, `HoldsKept`), and most
actions are done with that. `GCMovesOnly` needs the invariant too: that the update of a
pointer keeps the value rests on the rewritten copy being that of the record the index
still points to.

### Recovery

`RecoveredReads` says nothing about a database that is down, so nearly all of the
invariant is about the disk and about the states in the middle of a recovery.

- `TableInv`: the manifest names files that exist and ids below its counter, no table
  is in two levels, all of `levels_` is on disk, and no input that is to be deleted is in
  use, by the manifest neither once it is saved. The manifest may be any number of
  flushes behind `levels_`, since saving it may fail. With `TypeOK`, `ControlInv` and
  `OneSaver` this is inductive for any kind of crash, and `TablesStay` follows.
- `LogInv`, and what follows it, for logs that are `Intact`: they are in the order of
  their sequence numbers, with part of a record at the end of a file at most, and the next number is above all of them; while files are
  replayed, the numbers up to `max_seq` are those of the replayed files.
- `StoredInv`: every entry of a memtable or table is that of a record in the logs. This
  is what makes numbers that come from the logs alone (`db_impl.cpp:132`) fresh, and
  what a loss of power takes away.
- `ReadsInv`: an open database reads every key as its newest record (a deletion may have
  been dropped). While files are replayed, a key reads as the newest of its *replayed*
  records, although the tables underneath may have had newer ones: the replay puts all
  of them on top, in order.
- `AllowedInv`: the newest record is what was acknowledged or cut short.

Of the steps, `CompactLevel` and `ReplayWAL` are the hard ones. A compaction goes by
sequence numbers and a `Get` by the order of levels, and after a replay, a failed flush
or a shutdown, which flushes the newest memtable first, the two orders differ. They
agree where it counts: the newest record of a key is found first, numbers are unique
(`SeqUnique`), so it wins the merge if it is among the inputs (`CompactHit`), and else it
is above or below them and stays so (`CompactMiss`). A replayed file leaves the keys it
has as its last records say (`ReplayMeets`) and the others where they were; flushing the
memtable in between moves its entries to the front of level 0, with nothing above
(`ReplayLookup`).

### SSTable

`GetFindsEntry` speaks of the end of a `Get`, and `WalkIsComplete` of the end of a walk.
`TableInv` says why they come out right, from the first byte written:

- `LayoutInv`: entries follow one another without a gap, in the order of their keys, and
  the end of each (`EndOfEntry`) is the begin of the next or the end of the data
  (`Offsets`);
- `IndexInv`, `FileInv`: the index has entries in their order, the one at offset 0 first;
  what `Open` has decoded is what was written, and the filter is that of the keys added;
- `SearchInv`: the keys of the blocks left of the search are below the target, those
  right of it above, and `block_idx` is the last one on the left;
- `ScanInv`: the scan is at an offset where an entry begins, or at its end; a `Get` has
  only smaller keys before it and only greater ones behind its block. A reader between
  seek and read finds the position of the file where it put it: this is where `OneCall`
  comes in;
- `WalkInv`: what a walk has shown is what it has passed (`Passed`), in order.

The encodings come first. An offset found in the index, and one computed by a reader
from the length it has decoded, must be where the writer was: `EncodeFacts` gets that
from `Varint32RoundTrip`, `OpenKeeps` from `Fixed64RoundTrip`. Both are facts about
recursive functions of at most eight steps. That such a function has the values its
definition says is shown without induction over an operator, by the least step at which
it would not (`LeastOf`, `ChainExists`, `ChainUnique`); the digits are then put together
again from the top (`FromDigitsIs`). `NoFalseNegatives` rests on one fact of
arithmetic, `SameModulus`: the size in bytes, times eight, is the number of bits the
writer used.

Of the steps, the end of the search is the one that matters (`BlockOfTarget`): a key
that is in the table at all is in the block that the search ends with, also if it is
below the first key of the index or above the last. From there on each read moves the
scan over exactly one entry (`NextOffset`), and a key that the scan has not met when it
ends, or meets a greater one, is nowhere.

### Only model-checked

- Liveness: `AwakeFlushes`, `CloseReturns`, `GCReturns`, `OpenReturns`, `ReadsReturn`. It
  rests on fairness, which is beyond the prover.
- `AVLTree` is recursive, which the prover cannot use, and what its operations do to a
  tree of any depth takes induction over trees. So `MemTableFlush`'s `TypeOK`,
  `TreeHoldsContents`, `TableHoldsContents` and `UsesTable` are checked for trees of up to
  five keys. Once a flush has added the keys in order (`UsesTable`), the theorems about
  `SerialTableSpec` take over.

## 5. Not modelled

- *Errors inside `RunGC`*: a WAL that refuses a rewritten pointer (`db_impl.cpp:853`) and
  a live record that cannot be read (`796`). In both cases the code goes on and
  deletes the file; `LiveReadable` fails as soon as either is allowed.
- *What comes after an append that left part of its record*, in the value log
  (`Aligned`) and in a WAL (`Intact`): modelled, with known outcomes, and excluded from
  the properties or the runs; see section 2.
- *Two SaveManifests that overlap* (`OneSaver`), likewise. The shared `MANIFEST.tmp`
  itself, which one thread may truncate while the other writes it (`db_impl.cpp:141`), is
  not modelled.
- *A loss of power for the value log*, the order in which it and the WAL are synced
  (`db_impl.cpp:253-254`), and `sync_writes`, which syncs the value log and not the WAL
  (`vlog.cpp:169`), although `options.h:32` says that "every write is fsync'd".
- *A crash within a batch*, of which a prefix is then recovered.
- *The manifest's text*, which a key with a space in it breaks (`db_impl.cpp:193`).
- *Errors of `Open` and of `WAL::Sync`*, see section 2.
- *Read errors of a table*, which `ReadEntryAt` half ignores (`sstable.cpp:246`).
- The hash function of the filter (a parameter), the CRC (it recognises torn
  records), and the 64-bit varints and length-prefixed slices, which have no callers.
- File utilities beyond the positioned read, server and command line: no logic of
  their own.
- Options that no code reads: `compaction_threads`, `value_inline_threshold`,
  `block_size`, and `max_memtable_count`, at which writes are said to stall
  (`options.h:45-47`) and do not.

A `Get` that `RunGC` overtakes may fail with an IOError although its key has a value
throughout (`db_impl.cpp:317`); `GetReturnsOwnValue` allows for that.

## 6. Plan

1. *Done*: `KVStore`, `LSMTree`, `FlushThread`, `ValueLog` with crashes, `Recovery` with
   table files and manifest, and `SSTable`, each with the proofs of its safety
   properties; the tree and its flush, model-checked.
2. If a later version of the code reads `next_sstable_id_` under `sstable_mutex_` and has
   one `MANIFEST.tmp` per thread or a lock around it: `Recovery` without `OneSaver`. If it
   truncates a WAL or the value log after a failed append: without `Intact` and `Aligned`.
3. If the iterator of a compaction gets a file or a lock of its own: `SSTable` without
   `OneCall`.
