----------------------------- MODULE ValueLog -----------------------------
(***************************************************************************)
(* The value log (src/vlog.cpp), the threads that append to it and read    *)
(* from it, and its garbage collection DBImpl::RunGC (src/db_impl.cpp).    *)
(*                                                                         *)
(*   - "writer": a Write, which holds memtable_mutex_ from its Append to   *)
(*     the insertion of the pointer into the memtable;                     *)
(*   - "gc": the client thread that calls RunGC.  It takes memtable_mutex_ *)
(*     for each record it looks up, but not for its own Appends;           *)
(*   - readers: Get finds a pointer in the index under the locks, releases *)
(*     them, and reads the value log.                                      *)
(*                                                                         *)
(* VLog::Append takes no lock: the pointer is filled in from               *)
(* current_file_id_ and current_offset_ in one step and the record is      *)
(* written in another.                                                     *)
(*                                                                         *)
(* The index is a map from keys to their newest entries, which is what     *)
(* LSMTree is proved to be; Recovery shows when it comes back after a      *)
(* crash of the process.                                                   *)
(*                                                                         *)
(* A file is a sequence of bytes.  Where a record begins, the byte stands  *)
(* for the whole of it, and nothing can be read at the other ones.  A      *)
(* value is identified by the number of the Put that wrote it, and has the *)
(* size that its record takes in the file.                                 *)
(***************************************************************************)
EXTENDS Integers, Sequences, FiniteSets

CONSTANTS Key,         \* the keys
          Reader,      \* client threads that call Get
          Sizes,       \* sizes of records; some may be larger than a file
          FileLimit,   \* options_.vlog_file_size_limit
          GCPercent,   \* options_.vlog_gc_threshold, in percent
          MaxPuts,     \* bound: Puts
          MaxFailures, \* bound: Appends that fail after they have begun to write
          MaxCrashes   \* bound: crashes

\* 0 stands for no key.
ASSUME KeyAssumption == Key # {} /\ 0 \notin Key
ASSUME SizesAssumption == Sizes \subseteq Nat \ {0}
ASSUME FileLimitAssumption == FileLimit \in Nat \ {0}
ASSUME GCPercentAssumption == GCPercent \in 0 .. 100
ASSUME BoundsAssumption ==
  MaxPuts \in Nat \ {0} /\ MaxFailures \in Nat /\ MaxCrashes \in Nat

VARIABLES
  files,            \* the bytes of each file, by id
  dir,              \* ids of the files that the directory lists
  readers,          \* ids with an open reader in readers_
  current_file_id,  \* current_file_id_
  current_offset,   \* current_offset_
  writer,           \* writer_ is open
  puts,             \* number of Puts so far, one before the start
  failures,         \* number of Appends that failed so far
  crashes,          \* number of crashes so far
  index,            \* newest entry of each key
  apc,              \* where each appender is in VLog::Append
  arec,             \* the record it appends
  aptr,             \* the pointer it was given
  gpc,              \* where RunGC is
  gc_file_id,       \* the file it collects
  scanned,          \* how far it has looked its records up: total_bytes
  live_bytes,       \* how much of that was live
  live_records,     \* offsets of the records it found live
  rpc,              \* where each reader is
  rkey,             \* the key it asked for
  rent              \* the index entry it found

logVars  == <<files, dir, current_file_id, current_offset, writer>>
appVars  == <<apc, arec, aptr>>
gcVars   == <<gpc, gc_file_id, scanned, live_bytes, live_records>>
readVars == <<rpc, rkey, rent>>
counters == <<puts, failures, crashes>>
vars == <<logVars, readers, counters, index, appVars, gcVars, readVars>>

Appender == {"writer", "gc"}

Pointer(f, o) == [file_id |-> f, offset |-> o]
Val(n, size) == [put |-> n, size |-> size]
NoVal == Val(0, 0)
Rec(k, v) == [key |-> k, val |-> v]
NoRec == Rec(0, NoVal)

\* A byte where no record begins that can be read: Read and NewReader find too few
\* bytes there, or a CRC that does not match.
Torn == NoRec

RecordSize(rec) == rec.val.size

\* The first n bytes of a record.  Without all of the others they cannot be read.
FirstBytes(rec, n) ==
  [i \in 1 .. n |-> IF i = 1 /\ n = RecordSize(rec) THEN rec ELSE Torn]

Bytes(rec) == FirstBytes(rec, RecordSize(rec))

\* What VLog::Read and Get return: a status, and a record when it is ok.
Found(rec) == [status |-> "ok", rec |-> rec]
Failed(status) == [status |-> status, rec |-> NoRec]

NoPointer == Pointer(0, 0)
Value(v, p) == [type |-> "kValue", val |-> v, ptr |-> p]
Deleted == [type |-> "kDeletion", val |-> NoVal, ptr |-> NoPointer]

\* VLog::Open on an empty directory, or on one with a file of up to two records of
\* a key: one that was overwritten or deleted since, and the newest one.
Init ==
  /\ \E k \in Key, old, new \in Sizes \cup {0} :
       /\ old > 0 /\ new > 0 => old + new <= FileLimit
       /\ files = <<Bytes(Rec(k, Val(0, old))) \o Bytes(Rec(k, Val(1, new)))>>
       /\ index = [j \in Key |-> IF j = k /\ new > 0
                                    THEN Value(Val(1, new), Pointer(1, old))
                                    ELSE Deleted]
  /\ dir = {1}
  /\ readers = {}
  /\ current_file_id = 1
  /\ current_offset = Len(files[1])
  /\ writer = TRUE
  /\ puts = 1
  /\ failures = 0
  /\ crashes = 0
  /\ apc = [a \in Appender |-> "idle"]
  /\ arec = [a \in Appender |-> NoRec]
  /\ aptr = [a \in Appender |-> NoPointer]
  /\ gpc = "idle"
  /\ gc_file_id = 0
  /\ scanned = 0
  /\ live_bytes = 0
  /\ live_records = << >>
  /\ rpc = [r \in Reader |-> "idle"]
  /\ rkey = [r \in Reader |-> 0]
  /\ rent = [r \in Reader |-> Deleted]

\* A Write in progress has it; nobody else keeps it between two steps.
memtable_mutex_free == apc["writer"] = "idle"

-----------------------------------------------------------------------------
(* VLog::Append and RotateFile. *)

\* Mutant: the size of the new record is not counted.
RotateWhenOver(size) == current_offset > FileLimit

\* A record that is larger than the limit has a file of its own.
MustRotate(size) == current_offset + size > FileLimit /\ current_offset > 0

\* Mutant: the id of a file that was deleted is used again.
LowestFreeId ==
  CHOOSE i \in 1 .. Len(files) + 1 :
    i \notin dir /\ \A j \in 1 .. i - 1 : j \in dir

NextFileId == current_file_id + 1

\* RotateFile opens the next file and truncates what it finds under its name.
Rotated(file) ==
  IF file \in DOMAIN files THEN [files EXCEPT ![file] = << >>]
                           ELSE Append(files, << >>)

\* The file is rotated if it is full, and the pointer is filled in.
AppendBegin(a, rec) ==
  LET rotate == MustRotate(RecordSize(rec))
      file == IF rotate THEN NextFileId ELSE current_file_id
      offset == IF rotate THEN 0 ELSE current_offset
  IN  /\ apc[a] = "idle" /\ writer
      /\ files' = IF rotate THEN Rotated(file) ELSE files
      /\ dir' = dir \cup {file}
      /\ current_file_id' = file
      /\ current_offset' = offset
      /\ arec' = [arec EXCEPT ![a] = rec]
      /\ aptr' = [aptr EXCEPT ![a] = Pointer(file, offset)]
      /\ apc' = [apc EXCEPT ![a] = "append"]
      /\ UNCHANGED writer

\* RotateFile has closed the old file and cannot open the next one.  There is no
\* writer from now on, and every Append returns an error.
RotateFails(size) ==
  /\ writer /\ MustRotate(size)
  /\ writer' = FALSE
  /\ current_file_id' = NextFileId
  /\ current_offset' = 0
  /\ UNCHANGED <<files, dir>>

\* fwrite, current_offset_ += record.size(), fflush and Sync.  The file is open for
\* appending, so the record goes to its end, wherever current_offset_ is.
AppendWrite(a) ==
  /\ apc[a] = "append"
  /\ files' = [files EXCEPT ![current_file_id] = @ \o Bytes(arec[a])]
  /\ current_offset' = current_offset + RecordSize(arec[a])
  /\ apc' = [apc EXCEPT ![a] = "done"]
  /\ UNCHANGED <<dir, readers, current_file_id, writer, counters, index, arec,
                 aptr, gcVars, readVars>>

\* RunGC has returned; its locals are gone.
GCOver ==
  /\ gpc' = "idle"
  /\ gc_file_id' = 0
  /\ scanned' = 0
  /\ live_bytes' = 0
  /\ live_records' = << >>

\* Append has returned; its locals are gone.
AppendOver(a) ==
  /\ apc' = [apc EXCEPT ![a] = "idle"]
  /\ arec' = [arec EXCEPT ![a] = NoRec]
  /\ aptr' = [aptr EXCEPT ![a] = NoPointer]

\* Append returns an error to Write or RunGC, which return it.  If fwrite fails, some
\* of the record may be in the file, and the offset stays where it was; if fflush
\* fails, the same, and the offset has moved; if Sync fails, all of it is there.
AppendFails(a) ==
  LET size == RecordSize(arec[a])
  IN  /\ apc[a] = "append"
      /\ failures < MaxFailures /\ failures' = failures + 1
      /\ \E n \in 0 .. size, moved \in BOOLEAN :
           /\ n = size => moved
           /\ files' = [files EXCEPT ![current_file_id] = @ \o FirstBytes(arec[a], n)]
           /\ current_offset' = IF moved THEN current_offset + size ELSE current_offset
      /\ AppendOver(a)
      /\ \/ a = "writer" /\ UNCHANGED gcVars
         \/ a = "gc" /\ GCOver
      /\ UNCHANGED <<dir, current_file_id, writer, readers, puts, crashes, index,
                     readVars>>

-----------------------------------------------------------------------------
(* Write, of one entry. *)

PutBegin(k, size) ==
  /\ puts < MaxPuts
  /\ puts' = puts + 1
  /\ AppendBegin("writer", Rec(k, Val(puts + 1, size)))
  /\ UNCHANGED <<failures, crashes, readers, index, gcVars, readVars>>

\* Append returns an error, and so does Write.
PutFails ==
  /\ memtable_mutex_free /\ \E n \in Sizes : RotateFails(n)
  /\ UNCHANGED <<readers, counters, index, appVars, gcVars, readVars>>

\* The WAL has the record; the memtable gets the pointer.
PutEnd ==
  /\ apc["writer"] = "done"
  /\ index' = [index EXCEPT ![arec["writer"].key] =
                 Value(arec["writer"].val, aptr["writer"])]
  /\ AppendOver("writer")
  /\ UNCHANGED <<logVars, readers, counters, gcVars, readVars>>

\* The WAL refuses the record: the value stays in the log as garbage.
PutWALFails ==
  /\ apc["writer"] = "done"
  /\ AppendOver("writer")
  /\ UNCHANGED <<logVars, readers, counters, index, gcVars, readVars>>

Delete(k) ==
  /\ memtable_mutex_free
  /\ index' = [index EXCEPT ![k] = Deleted]
  /\ UNCHANGED <<logVars, readers, counters, appVars, gcVars, readVars>>

-----------------------------------------------------------------------------
(* Get and VLog::Read. *)

GetIndex(r, k) ==
  /\ rpc[r] = "idle" /\ memtable_mutex_free
  /\ index[k].type = "kValue"   \* otherwise it returns NotFound
  /\ rkey' = [rkey EXCEPT ![r] = k]
  /\ rent' = [rent EXCEPT ![r] = index[k]]
  /\ rpc' = [rpc EXCEPT ![r] = "read"]
  /\ UNCHANGED <<logVars, readers, counters, index, appVars, gcVars>>

\* What a file holds behind a pointer.  The key in the record is not compared.
ReadAt(p) ==
  LET file == files[p.file_id]
  IN  IF p.offset < Len(file) /\ file[p.offset + 1] # Torn
        THEN Found(file[p.offset + 1])
        ELSE Failed("Corruption")

\* OpenReader: a reader that is open outlives the deletion of its file.
CanOpen(file) == file \in dir \cup readers

Read(p) == IF CanOpen(p.file_id) THEN ReadAt(p) ELSE Failed("IOError")

\* Get returns Read(rent[r].ptr) as it is in this step.
GetRead(r) ==
  LET file == rent[r].ptr.file_id
  IN  /\ rpc[r] = "read"
      /\ readers' = IF CanOpen(file) THEN readers \cup {file} ELSE readers
      /\ rpc' = [rpc EXCEPT ![r] = "idle"]
      /\ rkey' = [rkey EXCEPT ![r] = 0]
      /\ rent' = [rent EXCEPT ![r] = Deleted]
      /\ UNCHANGED <<logVars, counters, index, appVars, gcVars>>

-----------------------------------------------------------------------------
(* RunGC. *)

\* Only files below the active one are collected.
Completed == {f \in dir : f < current_file_id}

GCPick ==
  /\ gpc = "idle"
  /\ \E f \in Completed :
       /\ \A g \in Completed : f <= g
       /\ gc_file_id' = f
  /\ scanned' = 0
  /\ live_bytes' = 0
  /\ live_records' = << >>
  /\ gpc' = "scan"
  /\ UNCHANGED <<logVars, readers, counters, index, appVars, readVars>>

\* Mutant: any entry of the key makes its record live, and is overwritten.
KeyIsLive(k, p) == index[k].type = "kValue"

\* The newest entry of the key is the record's own pointer.
IsLive(k, p) == index[k].type = "kValue" /\ index[k].ptr = p

\* NewReader stops at the end of the file and at a record it cannot read.
StopsAt(offset) == ReadAt(Pointer(gc_file_id, offset)).status # "ok"

\* One call of the callback of NewReader.
GCScan ==
  /\ gpc = "scan" /\ memtable_mutex_free
  /\ ~StopsAt(scanned)
  /\ LET rec == files[gc_file_id][scanned + 1]
         live == IsLive(rec.key, Pointer(gc_file_id, scanned))
     IN  /\ live_records' = IF live THEN Append(live_records, scanned)
                                    ELSE live_records
         /\ live_bytes' = IF live THEN live_bytes + RecordSize(rec) ELSE live_bytes
         /\ scanned' = scanned + RecordSize(rec)
  /\ UNCHANGED <<logVars, readers, counters, index, appVars, gpc, gc_file_id,
                 readVars>>

\* garbage_ratio >= options_.vlog_gc_threshold
EnoughGarbage ==
  (scanned - live_bytes) * 100 >= GCPercent * scanned

\* Mutant: offset <= file_size keeps the loop going at the end of the file.
EndsBeyond == scanned > Len(files[gc_file_id])

ScanEnds == StopsAt(scanned)

GCDecide ==
  /\ gpc = "scan"
  /\ ScanEnds
  /\ \/ /\ scanned > 0 /\ EnoughGarbage
        /\ gpc' = "rewrite"
        /\ UNCHANGED <<gc_file_id, scanned, live_bytes, live_records>>
     \/ /\ ~(scanned > 0 /\ EnoughGarbage)
        /\ GCOver
  /\ UNCHANGED <<logVars, readers, counters, index, appVars, readVars>>

\* The next live record is read, which opens a reader of the file, and appended
\* to the active file.
GCRewrite ==
  /\ gpc = "rewrite" /\ live_records # << >>
  /\ AppendBegin("gc", files[gc_file_id][Head(live_records) + 1])
  /\ readers' = readers \cup {gc_file_id}
  /\ UNCHANGED <<counters, index, gcVars, readVars>>

\* Append returns an error, and so does RunGC: RotateFile fails, with the old file
\* closed or, if it cannot be synced, still open; or there is no writer.
GCRewriteFails ==
  /\ gpc = "rewrite" /\ live_records # << >> /\ apc["gc"] = "idle"
  /\ LET size == RecordSize(files[gc_file_id][Head(live_records) + 1])
     IN  \/ RotateFails(size)
         \/ (writer => MustRotate(size)) /\ UNCHANGED logVars
  /\ readers' = readers \cup {gc_file_id}
  /\ GCOver
  /\ UNCHANGED <<counters, index, appVars, readVars>>

\* "CAS update", under memtable_mutex_: if the old pointer is still the newest
\* entry of its key, the new one goes to the WAL and the memtable.
GCUpdate ==
  /\ apc["gc"] = "done" /\ memtable_mutex_free
  /\ LET k == arec["gc"].key
     IN  index' = IF IsLive(k, Pointer(gc_file_id, Head(live_records)))
                    THEN [index EXCEPT ![k] = Value(arec["gc"].val, aptr["gc"])]
                    ELSE index
  /\ live_records' = Tail(live_records)
  /\ AppendOver("gc")
  /\ UNCHANGED <<logVars, readers, counters, gpc, gc_file_id, scanned,
                 live_bytes, readVars>>

GCRemoveReader ==
  /\ gpc = "rewrite" /\ live_records = << >>
  /\ readers' = readers \ {gc_file_id}
  /\ gpc' = "delete"
  /\ UNCHANGED <<logVars, counters, index, appVars, gc_file_id, scanned,
                 live_bytes, live_records, readVars>>

\* What the operating system keeps: files with a name, and files that are open.
Kept(log, names) == [f \in DOMAIN log |-> IF f \in names THEN log[f] ELSE << >>]

GCDelete ==
  /\ gpc = "delete"
  /\ dir' = dir \ {gc_file_id}
  /\ files' = Kept(files, dir' \cup readers)
  /\ GCOver
  /\ UNCHANGED <<current_file_id, current_offset, writer, readers, counters,
                 index, appVars, readVars>>

-----------------------------------------------------------------------------
(* A crash of the process, and VLog::Open of the next start. *)

\* Mutant: the next start goes back to the oldest file.
LowestFileId == IF dir = {} THEN 1 ELSE CHOOSE f \in dir : \A g \in dir : f <= g

\* RecoverFileIds: the highest id in the directory.
RecoverFileIds == IF dir = {} THEN 1 ELSE CHOOSE f \in dir : \A g \in dir : g <= f

\* Whatever was written stays, the index comes back from the WAL, and every call
\* under way is gone.  A record that is in the log and not yet in the WAL is
\* garbage.  Open appends to the file behind what it finds there, whose size it
\* takes for the offset.
Reopen(log) ==
  /\ crashes < MaxCrashes
  /\ crashes' = crashes + 1
  /\ files' = Kept(log, dir)
  /\ current_file_id' = RecoverFileIds
  /\ current_offset' = Len(files'[RecoverFileIds])
  /\ dir' = dir \cup {RecoverFileIds}
  /\ writer' = TRUE
  /\ readers' = {}
  /\ apc' = [a \in Appender |-> "idle"]
  /\ arec' = [a \in Appender |-> NoRec]
  /\ aptr' = [a \in Appender |-> NoPointer]
  /\ GCOver
  /\ rpc' = [r \in Reader |-> "idle"]
  /\ rkey' = [r \in Reader |-> 0]
  /\ rent' = [r \in Reader |-> Deleted]
  /\ UNCHANGED <<puts, failures, index>>

Crash == Reopen(files)

\* The crash falls into the write of a record and leaves part of it.
CrashInAppend ==
  \E a \in Appender :
    /\ apc[a] = "append"
    /\ \E n \in 1 .. RecordSize(arec[a]) - 1 :
         Reopen([files EXCEPT ![current_file_id] = @ \o FirstBytes(arec[a], n)])

-----------------------------------------------------------------------------
Write == \/ \E k \in Key : Delete(k) \/ \E n \in Sizes : PutBegin(k, n)
         \/ AppendWrite("writer") \/ AppendFails("writer")
         \/ PutFails \/ PutEnd \/ PutWALFails
Get   == \E r \in Reader : GetRead(r) \/ \E k \in Key : GetIndex(r, k)
RunGC == \/ GCPick \/ GCScan \/ GCDecide
         \/ GCRewrite \/ GCRewriteFails \/ AppendWrite("gc") \/ AppendFails("gc")
         \/ GCUpdate \/ GCRemoveReader \/ GCDelete

Next == Write \/ Get \/ RunGC \/ Crash

Spec == Init /\ [][Next]_vars

(***************************************************************************)
(* VLog::Append has no lock of its own.  OneAppend says that a Write and   *)
(* RunGC are never inside it together, and that neither closes the file    *)
(* under the other, which an application gets by not writing while it      *)
(* collects.                                                               *)
(*                                                                         *)
(* Nor does Append look where the file ends.  Aligned says that it ends at *)
(* current_offset_, which is so unless fwrite or fflush has failed and     *)
(* left part of a record or moved the offset over nothing.                 *)
(***************************************************************************)
OneAppend == \A a \in Appender : apc[a] = "append" =>
               writer /\ \A b \in Appender : apc[b] = "append" => a = b

Aligned == writer => current_offset = Len(files[current_file_id])

SerialNext == Next /\ OneAppend' /\ Aligned'

\* RunGC, once called, and a Write that has begun go on whenever they can.
Fairness == /\ WF_vars(gpc # "idle" /\ RunGC /\ OneAppend' /\ Aligned')
            /\ WF_vars(~memtable_mutex_free /\ Write /\ Aligned')

SerialSpec == Init /\ [][SerialNext]_vars /\ Fairness

\* No write fails halfway, and a Write and RunGC may be in Append together.
RaceSpec == Init /\ [][Next /\ Aligned']_vars

\* With crashes in the middle of an append.
TornSpec == Init /\ [][SerialNext \/ CrashInAppend]_vars

-----------------------------------------------------------------------------
(* Properties. *)

AnyVal == [put : 0 .. MaxPuts, size : Sizes \cup {0}]
Record == [key : Key \cup {0}, val : AnyVal]
FilePointer == [file_id : 0 .. Len(files), offset : Nat]
IndexEntry == [type : {"kValue", "kDeletion"}, val : AnyVal,
               ptr : FilePointer]

\* A file grows beyond its limit only by holding a single record that is larger
\* (vlog.cpp:125-129).
TypeOK ==
  /\ files \in Seq(Seq(Record))
  /\ dir \subseteq DOMAIN files
  /\ readers \subseteq DOMAIN files
  /\ current_file_id \in Nat
  /\ writer \in BOOLEAN
  /\ writer => current_file_id \in dir
  /\ current_offset \in Nat
  /\ writer /\ current_offset > FileLimit =>
       current_offset = RecordSize(files[current_file_id][1])
  /\ puts \in 0 .. MaxPuts
  /\ failures \in 0 .. MaxFailures
  /\ crashes \in 0 .. MaxCrashes
  /\ index \in [Key -> IndexEntry]
  /\ apc \in [Appender -> {"idle", "append", "done"}]
  /\ arec \in [Appender -> Record]
  /\ aptr \in [Appender -> FilePointer]
  /\ gpc \in {"idle", "scan", "rewrite", "delete"}
  /\ gc_file_id \in 0 .. Len(files)
  /\ scanned \in Nat /\ live_bytes \in 0 .. scanned
  /\ live_records \in Seq(Nat)
  /\ rpc \in [Reader -> {"idle", "read"}]
  /\ rkey \in [Reader -> Key \cup {0}]
  /\ rent \in [Reader -> IndexEntry]

\* Every pointer in the index leads to the record it was written for, in a file
\* that is still there, whatever RunGC (db_impl.cpp:682-874) has rewritten and
\* deleted while keys were overwritten, and wherever a crash has interrupted it.
LiveReadable ==
  \A k \in Key : index[k].type = "kValue" =>
    /\ index[k].ptr.file_id \in dir
    /\ ReadAt(index[k].ptr) = Found(Rec(k, index[k].val))

\* Whenever a Get that has found its entry comes to read the log, without a lock
\* (db_impl.cpp:317), it returns the value of that key and that Put.  It may fail
\* to open a file that was collected meanwhile; it never gets another file's
\* record or part of one.
GetReturnsOwnValue ==
  \A r \in Reader : rpc[r] = "read" =>
    Read(rent[r].ptr) \in {Found(Rec(rkey[r], rent[r].val)), Failed("IOError")}

\* Garbage collection moves values and changes none: a Put or Delete between the
\* scan and the update (db_impl.cpp:725-784 and 802-858) is not undone.
GCKeepsValues ==
  [][gcVars' # gcVars \/ apc'["gc"] # apc["gc"] =>
       \A k \in Key : index'[k].type = index[k].type
                        /\ index'[k].val = index[k].val]_vars

(***************************************************************************)
(* Why the pointers stay good.  The log is only appended to at its end,    *)
(* which is where current_offset_ says it is; the file that is collected   *)
(* is below the active one; whatever the index has in it was found by the  *)
(* scan or is still ahead of it.                                           *)
(***************************************************************************)

\* The record is in the log behind the pointer.
Holds(log, p, rec) ==
  /\ p.file_id \in DOMAIN log
  /\ p.offset < Len(log[p.file_id])
  /\ log[p.file_id][p.offset + 1] = rec

\* A record of a key begins after o bytes and ends in the file; the next one, if
\* there is one, begins where it ends.
RecordAt(file, o) ==
  LET rec == file[o + 1]
  IN  /\ rec.key \in Key /\ RecordSize(rec) > 0
      /\ o + RecordSize(rec) <= Len(file)
      /\ o + RecordSize(rec) < Len(file) => file[o + RecordSize(rec) + 1] # Torn
      /\ \A i \in o + 2 .. o + RecordSize(rec) : file[i] = Torn

\* Whole records, one after the other.
Layout(file) ==
  /\ file # << >> => file[1] # Torn
  /\ \A o \in 0 .. Len(file) - 1 : file[o + 1] # Torn => RecordAt(file, o)
  /\ Len(file) > FileLimit => Len(file) = RecordSize(file[1])

LogInv ==
  /\ files # << >>
  /\ \A f \in DOMAIN files : Layout(files[f])
  /\ \A f \in dir : f <= current_file_id
  /\ Aligned

IndexInv ==
  \A k \in Key : index[k].type = "kValue" =>
    /\ index[k].ptr.file_id \in dir
    /\ Holds(files, index[k].ptr, Rec(k, index[k].val))

\* A reader's file is no newer than the active one, so that its id is not given to
\* another file before the Get is over.
ReadInv ==
  \A r \in Reader : rpc[r] = "read" =>
    LET file == rent[r].ptr.file_id
    IN  /\ rkey[r] \in Key
        /\ file \in DOMAIN files /\ file <= current_file_id
        /\ CanOpen(file) => Holds(files, rent[r].ptr, Rec(rkey[r], rent[r].val))

\* What Append is about to write, and what it has written.
AppendInv ==
  \A a \in Appender :
    /\ apc[a] = "append" => /\ writer /\ ~MustRotate(RecordSize(arec[a]))
                            /\ aptr[a] = Pointer(current_file_id, current_offset)
    /\ apc[a] = "done" => aptr[a].file_id \in dir /\ Holds(files, aptr[a], arec[a])
    /\ apc[a] # "idle" => arec[a].key \in Key /\ RecordSize(arec[a]) > 0

\* A Write that has its pointer and not yet its entry in the index keeps RunGC from
\* going through the file.
WriterInv ==
  apc["writer"] # "idle" /\ gpc # "idle" /\ aptr["writer"].file_id = gc_file_id =>
    gpc = "scan" /\ scanned = 0

\* The record that is rewritten is the first of live_records, and its copy is not
\* in the file that will go.
RewriteInv ==
  apc["gc"] # "idle" =>
    /\ gpc = "rewrite" /\ live_records # << >>
    /\ Holds(files, Pointer(gc_file_id, Head(live_records)), arec["gc"])
    /\ gc_file_id < aptr["gc"].file_id

GCInv ==
  gpc # "idle" =>
    /\ gc_file_id \in dir /\ gc_file_id < current_file_id
    /\ scanned <= Len(files[gc_file_id])
    /\ scanned < Len(files[gc_file_id]) => files[gc_file_id][scanned + 1] # Torn
    /\ \A i \in DOMAIN live_records :
         /\ live_records[i] < Len(files[gc_file_id])
         /\ files[gc_file_id][live_records[i] + 1] # Torn
    /\ gpc = "delete" => live_records = << >>
    /\ \A k \in Key :
         index[k].type = "kValue" /\ index[k].ptr.file_id = gc_file_id =>
           \/ \E i \in DOMAIN live_records : live_records[i] = index[k].ptr.offset
           \/ gpc = "scan" /\ index[k].ptr.offset >= scanned

\* The log, the index and the threads inside Append, Get and RunGC (vlog.cpp:114-176,
\* db_impl.cpp:260-318, 682-874) fit together in every state, before and after a
\* crash.  LiveReadable and GetReturnsOwnValue follow.
IndInv ==
  /\ TypeOK /\ OneAppend
  /\ LogInv /\ IndexInv /\ ReadInv
  /\ AppendInv /\ WriterInv /\ RewriteInv /\ GCInv

\* RunGC returns, although writers keep overwriting what it collects.
GCReturns == gpc # "idle" ~> gpc = "idle"
=============================================================================
