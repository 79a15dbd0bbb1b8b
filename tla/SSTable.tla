------------------------------ MODULE SSTable ------------------------------
(***************************************************************************)
(* A table file (src/sstable.cpp): the writer that lays it out, and the    *)
(* readers that search it and walk through it.                             *)
(*                                                                         *)
(* The data region is a function from offsets, in bytes, to encoded        *)
(* entries.  An entry's size depends on the length of its key through the  *)
(* varint in front of it, so the offsets in the sparse index and the       *)
(* offset a reader goes on at after an entry must agree.                   *)
(*                                                                         *)
(* Readers are "get", SSTableReader::Get, which sstable_mutex_ admits one  *)
(* at a time, and "iter", the iterator of a compaction, which holds no     *)
(* lock.  Both read through the table's one FILE*: a positioned read is a  *)
(* seek and a read (src/file_util.cpp), with the position of the file      *)
(* between them.                                                           *)
(*                                                                         *)
(* Keys are naturals above 0 in the order of the strings.  The rest of an  *)
(* entry (type, sequence number, pointer) is a value of a fixed size.      *)
(***************************************************************************)
EXTENDS Coding, BloomFilter

CONSTANTS KeyLen,    \* the length of each key
          Version,   \* the values an entry of each key can have
          Interval   \* options_.sparse_index_interval

\* The length of a key is written as a number of 32 bits.
ASSUME KeyAssumption ==
  /\ Key \subseteq Nat \ {0} /\ KeyLen \in [Key -> Nat]
  /\ \A key \in Key : IsUint32(KeyLen[key])
ASSUME IntervalAssumption == Interval \in Nat \ {0}

VARIABLES
  data,                      \* the entries that have been written, by offset
  data_offset,               \* data_offset_
  entries_since_last_index,  \* entries_since_last_index_
  sparse_index,              \* sparse_index_ of the writer
  key_storage,               \* key_storage_
  file,                      \* what Finish writes behind the data
  table,                     \* what Open has loaded of it
  pos,                       \* the position of the reader's FILE*
  rpc,                       \* where each reader is
  target,                    \* the key it looks for
  left, right, block_idx,    \* its binary search
  offset, end_offset,        \* its scan
  total_len,                 \* the length of a long entry whose head it has read
  result,                    \* what Get returns
  valid,                     \* valid_ of the iterator
  from,                      \* history: the key its walk began at
  seen                       \* history: the entries it has shown since

writerVars == <<data, data_offset, entries_since_last_index, sparse_index,
                key_storage>>
scanVars   == <<target, left, right, block_idx, offset, end_offset, total_len>>
iterVars   == <<valid, from, seen>>
readVars   == <<pos, rpc, scanVars, result, iterVars>>
tableVars  == <<writerVars, file, table, readVars>>

Proc == {"get", "iter"}

None == [status |-> "none"]
NotFound == [status |-> "NotFound"]
Corruption == [status |-> "Corruption"]
OK(key, val) == [status |-> "ok", key |-> key, val |-> val]

\* No key is below Lowest; NoWalk says that the iterator has not been positioned.
Lowest == 0
NoWalk == -1

TableInit ==
  /\ data = [o \in {} |-> 0]
  /\ data_offset = 0
  /\ entries_since_last_index = 0
  /\ sparse_index = << >>
  /\ key_storage = << >>
  /\ file = None
  /\ table = None
  /\ pos = 0
  /\ rpc = [p \in Proc |-> "idle"]
  /\ target = [p \in Proc |-> 0]
  /\ left = [p \in Proc |-> 0]
  /\ right = [p \in Proc |-> 0]
  /\ block_idx = [p \in Proc |-> 0]
  /\ offset = [p \in Proc |-> 0]
  /\ end_offset = [p \in Proc |-> 0]
  /\ total_len = [p \in Proc |-> 0]
  /\ result = None
  /\ valid = FALSE
  /\ from = NoWalk
  /\ seen = << >>

-----------------------------------------------------------------------------
(* SSTableWriter. *)

\* KLen(varint32) + Key(KLen) + ValueType(1B) + Sequence(8B) + VLogPointer(16B)
Encode(key, val) == [klen |-> EncodeVarint32(KeyLen[key]), key |-> key, val |-> val]
EncodedSize(key) == Len(EncodeVarint32(KeyLen[key])) + KeyLen[key] + 1 + 8 + 16

\* Mutant: a block takes one entry more.
NeedsIndexLate == key_storage = << >> \/ entries_since_last_index > Interval

NeedsIndex == key_storage = << >> \/ entries_since_last_index >= Interval

\* Add.
Add(key, val) ==
  /\ file = None
  /\ sparse_index' = IF NeedsIndex
       THEN Append(sparse_index, [klen |-> EncodeVarint32(KeyLen[key]), key |-> key,
                                  data_offset |-> EncodeFixed64(data_offset)])
       ELSE sparse_index
  /\ entries_since_last_index' =
       IF NeedsIndex THEN 1 ELSE entries_since_last_index + 1
  /\ data' = [o \in DOMAIN data \cup {data_offset} |->
                IF o = data_offset THEN Encode(key, val) ELSE data[o]]
  /\ data_offset' = data_offset + EncodedSize(key)
  /\ key_storage' = Append(key_storage, key)
  /\ UNCHANGED <<file, table, readVars>>

KeysAdded == {key_storage[i] : i \in DOMAIN key_storage}

\* The callers add keys in ascending order.
AddSorted(key, val) ==
  /\ \A k \in KeysAdded : k < key
  /\ Add(key, val)

\* Finish: the index, the Bloom filter and the footer.
Finish ==
  /\ file = None
  /\ file' = [status |-> "finished",
              index |-> sparse_index,
              bloom |-> CreateFilter(KeysAdded),
              sparse_index_offset |-> EncodeFixed64(data_offset)]
  /\ UNCHANGED <<writerVars, table, readVars>>

-----------------------------------------------------------------------------
(* SSTableReader::Open. *)

\* What a parser makes of the key in an encoded entry: it is the key that was
\* written if its length comes out as it was.
Parses(e) == DecodeVarint32(e.klen) = [value |-> KeyLen[e.key], len |-> Len(e.klen)]

\* LoadFooter, LoadSparseIndex and LoadBloomFilter.
Open ==
  /\ file # None /\ table = None
  /\ \A i \in DOMAIN file.index : Parses(file.index[i])
  /\ table' = [status |-> "open",
               index |-> [i \in DOMAIN file.index |->
                 [key |-> file.index[i].key,
                  data_offset |-> DecodeFixed64(file.index[i].data_offset)]],
               bloom |-> file.bloom,
               data_end_offset |-> DecodeFixed64(file.sparse_index_offset)]
  /\ UNCHANGED <<writerVars, file, readVars>>

\* The entry at index i of the sparse index, which counts from 0.
Block(i) == table.index[i + 1]

-----------------------------------------------------------------------------
(* Get and Iterator::Seek: binary search in the sparse index, then a scan. *)

Goto(p, where) == rpc' = [rpc EXCEPT ![p] = where]

BeginSearch(p, key) ==
  /\ target' = [target EXCEPT ![p] = key]
  /\ left' = [left EXCEPT ![p] = 0]
  /\ right' = [right EXCEPT ![p] = Len(table.index) - 1]
  /\ block_idx' = [block_idx EXCEPT ![p] = 0]
  /\ Goto(p, "search")
  /\ UNCHANGED <<offset, end_offset, total_len>>

\* The filter, if there is one, or an empty index says that the key is not there.
RulesOut(key) == \/ table.bloom # NoFilter /\ ~MayContain(table.bloom, key)
                 \/ table.index = << >>

Get(key) ==
  /\ table # None /\ rpc["get"] = "idle"
  /\ \/ /\ ~RulesOut(key)
        /\ BeginSearch("get", key)
        /\ UNCHANGED result
     \/ /\ RulesOut(key)
        /\ target' = [target EXCEPT !["get"] = key]
        /\ result' = NotFound
        /\ Goto("get", "done")
        /\ UNCHANGED <<left, right, block_idx, offset, end_offset, total_len>>
  /\ UNCHANGED <<writerVars, file, table, pos, iterVars>>

\* Mutant: an iterator, too, stops at the end of the block.
EndOfBlock(p, b) ==
  IF b + 1 < Len(table.index) THEN Block(b + 1).data_offset
                              ELSE table.data_end_offset

\* A Get reads one block, an iterator to the end of the data.
EndOfScan(p, b) ==
  IF p = "get" /\ b + 1 < Len(table.index) THEN Block(b + 1).data_offset
                                           ELSE table.data_end_offset

\* Mutant: the search stays where it is when the middle is the left end.
StuckMid(m) == m

AfterMid(m) == m + 1

\* One round of the binary search, or its end.
Search(p) ==
  LET mid == left[p] + (right[p] - left[p]) \div 2
      StartScan(b) == /\ offset' = [offset EXCEPT ![p] = Block(b).data_offset]
                      /\ end_offset' = [end_offset EXCEPT ![p] = EndOfScan(p, b)]
                      /\ Goto(p, "seek")
  IN  /\ rpc[p] = "search"
      /\ \/ /\ left[p] > right[p]
            /\ StartScan(block_idx[p])
            /\ UNCHANGED <<left, right, block_idx>>
         \/ /\ left[p] <= right[p] /\ Block(mid).key = target[p]
            /\ block_idx' = [block_idx EXCEPT ![p] = mid]
            /\ StartScan(mid)
            /\ UNCHANGED <<left, right>>
         \/ /\ left[p] <= right[p] /\ Block(mid).key < target[p]
            /\ block_idx' = [block_idx EXCEPT ![p] = mid]
            /\ left' = [left EXCEPT ![p] = AfterMid(mid)]
            /\ UNCHANGED <<right, rpc, offset, end_offset>>
         \/ /\ left[p] <= right[p] /\ Block(mid).key > target[p]
            /\ right' = [right EXCEPT ![p] = mid - 1]
            /\ UNCHANGED <<left, block_idx, rpc, offset, end_offset>>
      /\ UNCHANGED <<writerVars, file, table, pos, target, total_len, result,
                     iterVars>>

\* The scan has come to its end.
ScanEnds(p) ==
  /\ rpc[p] = "seek" /\ offset[p] >= end_offset[p]
  /\ \/ p = "get" /\ result' = NotFound /\ Goto(p, "done") /\ UNCHANGED valid
     \/ p = "iter" /\ valid' = FALSE /\ Goto(p, "idle") /\ UNCHANGED result
  /\ UNCHANGED <<writerVars, file, table, pos, scanVars, from, seen>>

(***************************************************************************)
(* ReadEntryAt reads the first Chunk bytes at offset, and when the entry   *)
(* is longer, reads it again as a whole.  A positioned read is fseeko ...  *)
(***************************************************************************)
FileSeek(p) ==
  /\ rpc[p] = "seek" /\ offset[p] < end_offset[p]
  /\ pos' = offset[p]
  /\ Goto(p, "read")
  /\ UNCHANGED <<writerVars, file, table, scanVars, result, iterVars>>

\* ... and fread, of whatever is at the position of the file, which it leaves
\* somewhere behind.
Behind == -1
Chunk == 64

\* Mutant: the length of the key is taken to be one byte long.
OneByteLen(e) == 1 + DecodeVarint32(e.klen).value + 1 + 8 + 16

TotalLen(e) == LET len == DecodeVarint32(e.klen)
               IN  len.len + len.value + 1 + 8 + 16

\* There is more of the entry than the first read has got.
IsLong(p) == /\ total_len[p] = 0
             /\ pos \in DOMAIN data /\ TotalLen(data[pos]) > Chunk

ReadHead(p) ==
  /\ rpc[p] = "read" /\ IsLong(p)
  /\ total_len' = [total_len EXCEPT ![p] = TotalLen(data[pos])]
  /\ pos' = Behind
  /\ Goto(p, "seek")
  /\ UNCHANGED <<writerVars, file, table, target, left, right, block_idx, offset,
                 end_offset, result, iterVars>>

\* What is parsed.  Where no entry begins, where the key's length does not come
\* out as it was, and where the head was that of another entry, Corruption stands
\* for all that the bytes there may be taken for.
EntryRead(p) ==
  IF /\ pos \in DOMAIN data /\ Parses(data[pos])
     /\ total_len[p] \in {0, TotalLen(data[pos])}
    THEN OK(data[pos].key, data[pos].val)
    ELSE Corruption

\* The next entry is total_len further on.
FileRead(p) ==
  /\ rpc[p] = "read" /\ ~IsLong(p)
  /\ offset' = IF EntryRead(p).status = "ok"
                 THEN [offset EXCEPT ![p] = @ + TotalLen(data[pos])] ELSE offset
  /\ total_len' = [total_len EXCEPT ![p] = 0]
  /\ pos' = Behind
  /\ UNCHANGED <<writerVars, file, table, target, left, right, block_idx,
                 end_offset, from>>

\* The entry is below the key: the scan goes on.
Below(p, e) == e.status = "ok" /\ e.key < target[p]

ReadBelow(p) ==
  /\ FileRead(p) /\ Below(p, EntryRead(p))
  /\ Goto(p, "seek")
  /\ UNCHANGED <<result, valid, seen>>

\* Get has the entry, or has passed the place where it should be, or fails.
GetReads ==
  LET e == EntryRead("get")
  IN  /\ FileRead("get") /\ ~Below("get", e)
      /\ result' = IF e.status = "ok" /\ e.key > target["get"] THEN NotFound ELSE e
      /\ Goto("get", "done")
      /\ UNCHANGED <<valid, seen>>

\* The iterator is at the entry, or becomes invalid.
IterReads ==
  LET e == EntryRead("iter")
  IN  /\ FileRead("iter") /\ ~Below("iter", e)
      /\ valid' = (e.status = "ok")
      /\ seen' = IF e.status = "ok" THEN Append(seen, e) ELSE seen
      /\ Goto("iter", "idle")
      /\ UNCHANGED result

\* The call is over; its locals are gone.
Reset(p) ==
  /\ target' = [target EXCEPT ![p] = Lowest]
  /\ left' = [left EXCEPT ![p] = 0]
  /\ right' = [right EXCEPT ![p] = 0]
  /\ block_idx' = [block_idx EXCEPT ![p] = 0]
  /\ offset' = [offset EXCEPT ![p] = 0]
  /\ end_offset' = [end_offset EXCEPT ![p] = 0]
  /\ UNCHANGED total_len

GetOver ==
  /\ rpc["get"] = "done"
  /\ result' = None
  /\ Reset("get")
  /\ Goto("get", "idle")
  /\ UNCHANGED <<writerVars, file, table, pos, iterVars>>

-----------------------------------------------------------------------------
(* Iterator. *)

SeekToFirst ==
  /\ table # None /\ rpc["iter"] = "idle" /\ from = NoWalk
  /\ end_offset' = [end_offset EXCEPT !["iter"] = table.data_end_offset]
  /\ from' = Lowest
  /\ Goto("iter", "seek")
  /\ UNCHANGED <<writerVars, file, table, pos, target, left, right, block_idx,
                 offset, total_len, result, valid, seen>>

Seek(key) ==
  /\ table # None /\ rpc["iter"] = "idle" /\ from = NoWalk
  /\ table.index # << >>   \* otherwise it stays invalid
  /\ from' = key
  /\ BeginSearch("iter", key)
  /\ UNCHANGED <<writerVars, file, table, pos, result, valid, seen>>

\* Next reads one entry, whatever its key.
IterNext ==
  /\ rpc["iter"] = "idle" /\ valid
  /\ target' = [target EXCEPT !["iter"] = Lowest]
  /\ Goto("iter", "seek")
  /\ UNCHANGED <<writerVars, file, table, pos, left, right, block_idx, offset,
                 end_offset, total_len, result, iterVars>>

\* The iterator is destroyed.
IterOver ==
  /\ rpc["iter"] = "idle" /\ from # NoWalk
  /\ valid' = FALSE
  /\ from' = NoWalk
  /\ seen' = << >>
  /\ Reset("iter")
  /\ UNCHANGED <<writerVars, file, table, pos, rpc, result>>

-----------------------------------------------------------------------------
Write == Finish \/ \E key \in Key : \E val \in Version[key] : AddSorted(key, val)
Step(p) == Search(p) \/ ScanEnds(p) \/ FileSeek(p) \/ ReadHead(p) \/ ReadBelow(p)
ReadStep == GetReads \/ IterReads \/ \E p \in Proc : Step(p)
Call == \/ SeekToFirst \/ IterNext \/ IterOver \/ GetOver
        \/ \E key \in Key : Get(key) \/ Seek(key)
Readers == Open \/ Call \/ ReadStep

(***************************************************************************)
(* The iterators of a compaction read without sstable_mutex_, under which  *)
(* Gets read the same file.  OneCall says that a Get and a call of the     *)
(* iterator do not overlap, as is the case when no compaction is running.  *)
(***************************************************************************)
Reading(p) == rpc[p] \in {"search", "seek", "read"}
OneCall == ~(Reading("get") /\ Reading("iter"))

\* data_offset_ is a uint64_t; a file is never as long as that.
SizeFits == IsUint64(data_offset)

SerialTableSpec ==
  TableInit /\ [][(Write \/ Readers) /\ OneCall' /\ SizeFits']_tableVars

-----------------------------------------------------------------------------
(* Properties. *)

Entries == {OK(data[o].key, data[o].val) : o \in DOMAIN data}

Results == {None, NotFound, Corruption}
             \cup UNION {{OK(key, val) : val \in Version[key]} : key \in Key}

TableTypeOK ==
  /\ DOMAIN data \subseteq Nat
  /\ data_offset \in Nat
  /\ entries_since_last_index \in 0 .. Interval
  /\ key_storage \in Seq(Key)
  /\ pos \in Nat \cup {Behind}
  /\ rpc \in [Proc -> {"idle", "search", "seek", "read", "done"}]
  /\ target \in [Proc -> Key \cup {Lowest}]
  /\ left \in [Proc -> Int] /\ right \in [Proc -> Int] /\ block_idx \in [Proc -> Int]
  /\ \A p \in Proc : rpc[p] = "search" =>
       /\ left[p] \in 0 .. Len(table.index)
       /\ right[p] \in -1 .. Len(table.index) - 1
       /\ block_idx[p] \in 0 .. Len(table.index) - 1
  /\ offset \in [Proc -> Nat]
  /\ end_offset \in [Proc -> Nat]
  /\ total_len \in [Proc -> Nat]
  /\ result \in Results
  /\ valid \in BOOLEAN
  /\ from \in Key \cup {Lowest, NoWalk}
  /\ seen \in Seq(Entries)

\* Get (sstable.cpp:304-359) finds a key if and only if it is in the table, with
\* the entry that was added: Bloom filter, sparse index, offsets and block scan
\* together lose nothing, whatever the lengths of the keys.
GetFindsEntry ==
  rpc["get"] = "done" =>
    result = IF \E e \in Entries : e.key = target["get"]
               THEN CHOOSE e \in Entries : e.key = target["get"]
               ELSE NotFound

\* A walk that has come to its end has shown every entry from its first key on,
\* in ascending order.  CompactLevel (db_impl.cpp:490-598) takes an iterator that
\* is not valid for one at its end, and deletes the file.
WalkIsComplete ==
  rpc["iter"] = "idle" /\ from # NoWalk /\ ~valid =>
    /\ {seen[i] : i \in DOMAIN seen} = {e \in Entries : e.key >= from}
    /\ \A i \in 2 .. Len(seen) : seen[i - 1].key < seen[i].key

(***************************************************************************)
(* Why the readers find what the writer has laid out.  Entries follow one  *)
(* another without a gap and in the order of their keys, so an offset from *)
(* the index, and the end of an entry that was read there, is the begin of *)
(* an entry or the end of the data.  The search keeps the keys left of it  *)
(* below the target and those right of it above; the scan has passed       *)
(* nothing but smaller keys; the walk has shown what it has passed.        *)
(***************************************************************************)

\* Where an entry begins, or the next one will.
Offsets == DOMAIN data \cup {data_offset}
EndOfEntry(o) == o + EncodedSize(data[o].key)

LayoutInv ==
  /\ SizeFits /\ 0 \in Offsets
  /\ KeysAdded = {data[o].key : o \in DOMAIN data}
  /\ \A o \in DOMAIN data :
       /\ \E key \in Key : \E val \in Version[key] : data[o] = Encode(key, val)
       /\ o < data_offset /\ EndOfEntry(o) \in Offsets
       /\ \A n \in DOMAIN data :
            o < n => data[o].key < data[n].key /\ EndOfEntry(o) <= n

\* The index has some of the entries, the first one among them, in their order.
InOrder(index) == \A i, j \in DOMAIN index : i < j => index[i].key < index[j].key
Written(o) == [klen |-> EncodeVarint32(KeyLen[data[o].key]), key |-> data[o].key,
               data_offset |-> EncodeFixed64(o)]
Loaded(o) == [key |-> data[o].key, data_offset |-> o]

IndexInv ==
  /\ sparse_index \in Seq({Written(o) : o \in DOMAIN data})
  /\ InOrder(sparse_index)
  /\ key_storage # << >> => sparse_index # << >> /\ sparse_index[1] = Written(0)

FileInv ==
  /\ file # None => file = [status |-> "finished",
                            index |-> sparse_index,
                            bloom |-> CreateFilter(KeysAdded),
                            sparse_index_offset |-> EncodeFixed64(data_offset)]
  /\ table # None =>
       /\ file # None
       /\ table.index \in Seq({Loaded(o) : o \in DOMAIN data})
       /\ InOrder(table.index)
       /\ data_offset > 0 => table.index # << >> /\ table.index[1] = Loaded(0)
       /\ table.bloom = CreateFilter(KeysAdded)
       /\ table.data_end_offset = data_offset

ReaderInv(p) ==
  /\ rpc[p] # "idle" => table # None
  /\ p = "iter" => rpc[p] # "done"
  /\ rpc[p] \notin {"seek", "read"} => total_len[p] = 0

SearchInv(p) ==
  rpc[p] = "search" =>
    /\ table.index # << >>
    /\ left[p] <= right[p] + 1
    /\ block_idx[p] = IF left[p] = 0 THEN 0 ELSE left[p] - 1
    /\ \A i \in 0 .. left[p] - 1 : Block(i).key < target[p]
    /\ \A i \in right[p] + 1 .. Len(table.index) - 1 : Block(i).key > target[p]

ScanInv(p) ==
  rpc[p] \in {"seek", "read"} =>
    /\ offset[p] \in Offsets /\ end_offset[p] \in Offsets
    /\ total_len[p] # 0 => /\ offset[p] \in DOMAIN data /\ offset[p] < end_offset[p]
                           /\ total_len[p] = TotalLen(data[offset[p]])
    /\ rpc[p] = "read" => pos = offset[p] /\ offset[p] < end_offset[p]
    /\ p = "get" => \A o \in DOMAIN data :
                      /\ o < offset[p] => data[o].key < target[p]
                      /\ o >= end_offset[p] => data[o].key > target[p]

Shown == {seen[i] : i \in DOMAIN seen}
EntryAt(o) == OK(data[o].key, data[o].val)
Passed == {o \in DOMAIN data : o < offset["iter"] /\ data[o].key >= from}

WalkInv ==
  /\ from = NoWalk => /\ rpc["iter"] = "idle" /\ ~valid /\ seen = << >>
                      /\ offset["iter"] = 0 /\ target["iter"] = Lowest
  /\ from # NoWalk => table # None
  /\ \A i, j \in DOMAIN seen : i < j => seen[i].key < seen[j].key
  /\ rpc["iter"] = "search" => seen = << >> /\ target["iter"] = from
  /\ rpc["iter"] \in {"seek", "read"} \/ valid =>
       /\ offset["iter"] \in Offsets /\ end_offset["iter"] = data_offset
       /\ Shown = {EntryAt(o) : o \in Passed}
  /\ rpc["iter"] \in {"seek", "read"} =>
       target["iter"] = from \/ (target["iter"] = Lowest /\ Passed # {})
  /\ rpc["iter"] = "idle" /\ valid => Passed # {}

\* The file that SSTableWriter has laid out (sstable.cpp:22-128), what Open has made
\* of it (139-240), and the search, the scan and the walk of its readers (242-453)
\* fit together in every state.
TableInv ==
  /\ TableTypeOK /\ OneCall
  /\ LayoutInv /\ IndexInv /\ FileInv
  /\ \A p \in Proc : ReaderInv(p) /\ SearchInv(p) /\ ScanInv(p)
  /\ WalkInv
  /\ GetFindsEntry /\ WalkIsComplete

\* Every Get and every call of the iterator comes to an end.
ReadsReturn ==
  \A p \in Proc : Reading(p) ~> ~Reading(p)
=============================================================================
