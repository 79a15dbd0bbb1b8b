--------------------------- MODULE ValueLog_proofs ---------------------------
(***************************************************************************)
(* Every pointer in the index leads to its own record, every Get reads its *)
(* own value, and garbage collection changes none, for any keys, readers,  *)
(* sizes, file limit, threshold and number of crashes, as long as RunGC    *)
(* and a Write are not inside Append together and no fwrite or fflush      *)
(* fails halfway (SerialSpec).                                             *)
(***************************************************************************)
EXTENDS ValueLog, SequenceTheorems, WellFoundedInduction, TLAPS

\* The second log has every record that the first one has in the files of S.
Keeps(log, log2, S) ==
  \A f \in S : /\ f \in DOMAIN log2
               /\ Len(log[f]) <= Len(log2[f])
               /\ \A i \in 1 .. Len(log[f]) : log2[f][i] = log[f][i]

\* The step keeps the files up to the active one and adds only newer ones.
LogGrows ==
  /\ files' \in Seq(Seq(Record))
  /\ Len(files) <= Len(files')
  /\ dir \subseteq dir' /\ dir' \subseteq DOMAIN files'
  /\ \A f \in dir' : f \in dir \/ f > current_file_id
  /\ current_file_id' \in Nat /\ current_file_id <= current_file_id'
  /\ Keeps(files, files', {f \in DOMAIN files : f <= current_file_id})
  /\ \A f \in DOMAIN files : f < current_file_id => files'[f] = files[f]

\* MustRotate at a given offset.
FullAt(offset, size) == offset + size > FileLimit /\ offset > 0

\* The offset is beyond the limit only in the file of a record that is.
OffsetOK ==
  /\ current_offset \in Nat
  /\ writer /\ current_offset > FileLimit =>
       current_offset = RecordSize(files[current_file_id][1])

-----------------------------------------------------------------------------
(* Records and pointers. *)

\* A record that was kept is found where it was.
LEMMA HoldsKept ==
  ASSUME NEW log \in Seq(Seq(Record)), NEW log2 \in Seq(Seq(Record)),
         NEW S, S \subseteq DOMAIN log, Keeps(log, log2, S),
         NEW p, p.file_id \in S, p.offset \in Nat,
         NEW rec, Holds(log, p, rec)
  PROVE  Holds(log2, p, rec)
<1> DEFINE f == p.file_id
<1>1. /\ f \in DOMAIN log /\ log[f] \in Seq(Record)
      /\ f \in DOMAIN log2 /\ log2[f] \in Seq(Record)
  BY DEF Keeps
<1>2. /\ Len(log[f]) \in Nat /\ Len(log2[f]) \in Nat
      /\ p.offset + 1 \in 1 .. Len(log[f])
  BY <1>1 DEF Holds
<1>3. Len(log[f]) <= Len(log2[f]) /\ log2[f][p.offset + 1] = log[f][p.offset + 1]
  BY <1>2 DEF Keeps
<1> QED BY <1>1, <1>2, <1>3 DEF Holds

\* A record of a key is not taken for a byte where none begins.
LEMMA RecordNotTorn ==
  /\ \A rec : rec.key \in Key => rec # Torn
  /\ \A k \in Key : \A v : Rec(k, v) # Torn /\ Rec(k, v).key = k /\ Rec(k, v).val = v
<1>1. Torn.key = 0
  BY DEF Torn, NoRec, Rec
<1>2. \A rec : rec.key \in Key => rec # Torn
  BY <1>1, KeyAssumption
<1>3. \A k \in Key : \A v : Rec(k, v).key = k /\ Rec(k, v).val = v
  BY DEF Rec
<1> QED BY <1>2, <1>3

\* VLog::Read of a whole record, and of nothing else, is a success.
LEMMA ReadAtHolds ==
  ASSUME NEW p, p.file_id \in DOMAIN files, p.offset \in Nat
  PROVE  /\ \A rec : Holds(files, p, rec) /\ rec # Torn => ReadAt(p) = Found(rec)
         /\ ReadAt(p).status = "ok" <=> /\ p.offset < Len(files[p.file_id])
                                       /\ files[p.file_id][p.offset + 1] # Torn
<1> DEFINE file == files[p.file_id]
<1>1. Failed("Corruption").status # "ok"
  BY DEF Failed
<1>2. \A rec : Found(rec).status = "ok"
  BY DEF Found
<1>3. p.offset < Len(file) /\ file[p.offset + 1] # Torn =>
        ReadAt(p) = Found(file[p.offset + 1])
  BY DEF ReadAt
<1>4. ~(p.offset < Len(file) /\ file[p.offset + 1] # Torn) =>
        ReadAt(p) = Failed("Corruption")
  BY DEF ReadAt
<1> QED BY <1>1, <1>2, <1>3, <1>4 DEF Holds

\* A pointer into a log that has grown is still one.
LEMMA PointersKept ==
  ASSUME Len(files) \in Nat, Len(files') \in Nat, Len(files) <= Len(files')
  PROVE  FilePointer \subseteq FilePointer' /\ IndexEntry \subseteq IndexEntry'
<1>1. FilePointer \subseteq FilePointer'
  BY DEF FilePointer
<1> QED BY <1>1 DEF IndexEntry

\* What is in the index and in the threads' locals are pointers.
LEMMA PointerFacts ==
  ASSUME TypeOK
  PROVE  /\ \A k \in Key : /\ index[k] \in IndexEntry
                           /\ index[k].ptr.offset \in Nat
                           /\ index[k].ptr.file_id \in Nat
         /\ \A r \in Reader : /\ rent[r] \in IndexEntry
                              /\ rent[r].ptr.offset \in Nat
                              /\ rent[r].ptr.file_id \in Nat
         /\ \A a \in Appender : /\ aptr[a] \in FilePointer
                                /\ aptr[a].offset \in Nat
                                /\ aptr[a].file_id \in Nat
         /\ Len(files) \in Nat
BY DEF TypeOK, IndexEntry, FilePointer

\* What stands for no record, no pointer and no value has its type.
LEMMA NothingTypes ==
  ASSUME Len(files) \in Nat
  PROVE  /\ NoVal \in AnyVal /\ NoRec \in Record /\ Torn \in Record
         /\ NoPointer \in FilePointer
         /\ Deleted \in IndexEntry /\ Deleted.type = "kDeletion"
<1>1. NoVal \in AnyVal
  BY BoundsAssumption DEF NoVal, Val, AnyVal
<1>2. NoRec \in Record
  BY <1>1 DEF NoRec, Rec, Record
<1>3. NoPointer \in FilePointer
  BY DEF NoPointer, Pointer, FilePointer
<1> QED BY <1>1, <1>2, <1>3 DEF Torn, Deleted, IndexEntry

-----------------------------------------------------------------------------
(* The layout of a file. *)

LEMMA RecordSizes ==
  ASSUME NEW rec \in Record
  PROVE  RecordSize(rec) \in Nat
<1>1. rec.val \in AnyVal
  BY DEF Record
<1>2. rec.val.size \in Sizes \cup {0}
  BY <1>1 DEF AnyVal
<1>3. Sizes \cup {0} \subseteq Nat
  BY SizesAssumption
<1> QED BY <1>2, <1>3 DEF RecordSize

LEMMA EmptyLayout == Layout(<< >>)
<1>1. Len(<< >>) = 0
  OBVIOUS
<1> QED BY <1>1, FileLimitAssumption DEF Layout

\* The bytes of a record behind a file.
LEMMA BytesBehind ==
  ASSUME NEW file \in Seq(Record), NEW rec \in Record
  PROVE  LET new == file \o Bytes(rec)
         IN  /\ new \in Seq(Record)
             /\ Len(new) = Len(file) + RecordSize(rec)
             /\ \A i \in 1 .. Len(file) : new[i] = file[i]
             /\ RecordSize(rec) > 0 => new[Len(file) + 1] = rec
             /\ \A i \in Len(file) + 2 .. Len(file) + RecordSize(rec) : new[i] = Torn
<1> DEFINE n == RecordSize(rec)
           bytes == Bytes(rec)
<1>1. n \in Nat /\ Len(file) \in Nat
  BY RecordSizes
<1>2. bytes = [i \in 1 .. n |-> IF i = 1 THEN rec ELSE Torn]
  BY DEF Bytes, FirstBytes
<1>3. Torn \in Record
  BY BoundsAssumption DEF Torn, NoRec, Rec, NoVal, Val, Record, AnyVal
<1> HIDE DEF n, bytes
<1>4. /\ bytes \in Seq(Record) /\ Len(bytes) = n
      /\ n > 0 => bytes[1] = rec
      /\ \A i \in 2 .. n : bytes[i] = Torn
  BY <1>1, <1>2, <1>3
<1>5. /\ file \o bytes \in Seq(Record) /\ Len(file \o bytes) = Len(file) + n
      /\ \A i \in 1 .. Len(file) + n :
           (file \o bytes)[i] = IF i <= Len(file) THEN file[i]
                                                 ELSE bytes[i - Len(file)]
  BY <1>4, ConcatProperties
<1> DEFINE new == file \o bytes
<1>6. new \in Seq(Record) /\ Len(new) = Len(file) + n
  BY <1>5
<1>7. \A i \in 1 .. Len(file) : new[i] = file[i]
  BY <1>1, <1>5
<1>8. n > 0 => new[Len(file) + 1] = rec
  BY <1>1, <1>4, <1>5
<1>9. ASSUME NEW i \in Len(file) + 2 .. Len(file) + n PROVE new[i] = Torn
  <2>1. i \in 1 .. Len(file) + n /\ ~(i <= Len(file)) /\ i - Len(file) \in 2 .. n
    BY <1>1
  <2> QED BY <1>4, <1>5, <2>1
<1> HIDE DEF new
<1>10. new = file \o Bytes(rec)
  BY DEF new, bytes
<1> QED BY <1>6, <1>7, <1>8, <1>9, <1>10 DEF n

\* They keep the records of the file whole and one after the other.
LEMMA LayoutBehind ==
  ASSUME NEW file \in Seq(Record), NEW rec \in Record, Layout(file),
         rec.key \in Key, RecordSize(rec) > 0, ~FullAt(Len(file), RecordSize(rec))
  PROVE  Layout(file \o Bytes(rec))
<1> DEFINE new == file \o Bytes(rec)
           n == RecordSize(rec)
           m == Len(file)
<1>1. n \in Nat /\ n > 0 /\ m \in Nat /\ FileLimit \in Nat
  BY RecordSizes, FileLimitAssumption
<1>2. /\ new \in Seq(Record) /\ Len(new) = m + n
      /\ \A i \in 1 .. m : new[i] = file[i]
      /\ new[m + 1] = rec
      /\ \A i \in m + 2 .. m + n : new[i] = Torn
  BY BytesBehind
<1>3. rec # Torn
  BY RecordNotTorn
<1>4. m = 0 \/ m + n <= FileLimit
  BY <1>1 DEF FullAt
<1> HIDE DEF new, n, m
<1>5. new[1] # Torn
  <2>1. CASE m = 0
    BY <1>2, <1>3, <2>1
  <2>2. CASE m # 0
    <3>1. file # << >> /\ 1 \in 1 .. m
      BY <1>1, <2>2 DEF m
    <3> QED BY <1>2, <3>1 DEF Layout
  <2> QED BY <2>1, <2>2
<1>6. ASSUME NEW o \in 0 .. Len(new) - 1, new[o + 1] # Torn PROVE RecordAt(new, o)
  <2>1. CASE o < m
    <3>1. /\ o \in 0 .. Len(file) - 1 /\ o + 1 \in 1 .. m /\ file[o + 1] = new[o + 1]
          /\ o \in Nat
      BY <1>1, <1>2, <1>6, <2>1 DEF m
    <3>2. RecordAt(file, o)
      BY <1>6, <3>1 DEF Layout
    <3> DEFINE s == RecordSize(new[o + 1])
    <3>3. s \in Nat
      <4>1. file[o + 1] \in Record
        BY <3>1 DEF m
      <4> QED BY <3>1, <4>1, RecordSizes
    <3> HIDE DEF s
    <3>4. /\ new[o + 1].key \in Key /\ s > 0 /\ o + s <= m
          /\ o + s < m => file[o + s + 1] # Torn
          /\ \A i \in o + 2 .. o + s : file[i] = Torn
      BY <3>1, <3>2 DEF RecordAt, s, m
    <3>5. o + s <= Len(new)
      BY <1>1, <1>2, <3>1, <3>3, <3>4
    <3>6. new[o + s + 1] # Torn
      <4>1. CASE o + s < m
        <5>1. o + s + 1 \in 1 .. m
          BY <1>1, <3>1, <3>3, <4>1
        <5> QED BY <1>2, <3>4, <4>1, <5>1
      <4>2. CASE o + s = m
        BY <1>2, <1>3, <4>2
      <4> QED BY <1>1, <3>1, <3>3, <3>4, <4>1, <4>2
    <3>7. \A i \in o + 2 .. o + s : new[i] = Torn
      <4> SUFFICES ASSUME NEW i \in o + 2 .. o + s PROVE new[i] = Torn
        OBVIOUS
      <4>1. i \in 1 .. m
        BY <1>1, <3>1, <3>3, <3>4
      <4> QED BY <1>2, <3>4, <4>1
    <3> QED BY <3>4, <3>5, <3>6, <3>7 DEF RecordAt, s
  <2>2. CASE o = m
    <3>1. m + n <= Len(new) /\ ~(m + n < Len(new))
      BY <1>1, <1>2
    <3>2. RecordSize(new[o + 1]) = n /\ new[o + 1].key \in Key
      BY <1>2, <2>2 DEF n
    <3> QED BY <1>1, <1>2, <2>2, <3>1, <3>2 DEF RecordAt
  <2>3. CASE o > m
    <3>1. o + 1 \in m + 2 .. m + n
      BY <1>1, <1>2, <1>6, <2>3
    <3> QED BY <1>2, <1>6, <3>1
  <2>4. o \in Int /\ m \in Int
    BY <1>1, <1>6
  <2> QED BY <2>1, <2>2, <2>3, <2>4
<1>7. Len(new) > FileLimit => Len(new) = RecordSize(new[1])
  <2> SUFFICES ASSUME Len(new) > FileLimit PROVE Len(new) = RecordSize(new[1])
    OBVIOUS
  <2>1. m = 0
    BY <1>1, <1>2, <1>4
  <2> QED BY <1>1, <1>2, <2>1 DEF n
<1>8. Layout(new)
  BY <1>5, <1>6, <1>7 DEF Layout
<1> QED BY <1>8 DEF new

-----------------------------------------------------------------------------
(* The log grows and everything else stays. *)

LEMMA IndexKept ==
  ASSUME IndInv, LogGrows, UNCHANGED index
  PROVE  IndexInv'
<1> SUFFICES ASSUME NEW k \in Key, index[k].type = "kValue"
             PROVE  /\ index[k].ptr.file_id \in dir'
                    /\ Holds(files', index[k].ptr, Rec(k, index[k].val))
  BY DEF IndexInv
<1> DEFINE S == {f \in DOMAIN files : f <= current_file_id}
<1>1. /\ index[k].ptr.file_id \in dir /\ index[k].ptr.offset \in Nat
      /\ Holds(files, index[k].ptr, Rec(k, index[k].val))
  BY PointerFacts DEF IndInv, IndexInv
<1>2. index[k].ptr.file_id \in S
  BY <1>1 DEF IndInv, LogInv, Holds
<1>3. /\ files \in Seq(Seq(Record)) /\ files' \in Seq(Seq(Record))
      /\ Keeps(files, files', S) /\ S \subseteq DOMAIN files
  BY DEF IndInv, TypeOK, LogGrows
<1> HIDE DEF S
<1> QED BY <1>1, <1>2, <1>3, HoldsKept DEF LogGrows

LEMMA ReadsKept ==
  ASSUME IndInv, LogGrows, readers' \subseteq readers \cup dir, UNCHANGED readVars
  PROVE  ReadInv'
<1> DEFINE S == {f \in DOMAIN files : f <= current_file_id}
<1> SUFFICES ASSUME NEW r \in Reader, rpc[r] = "read"
             PROVE  /\ rkey[r] \in Key
                    /\ rent[r].ptr.file_id \in DOMAIN files'
                    /\ rent[r].ptr.file_id <= current_file_id'
                    /\ rent[r].ptr.file_id \in dir' \cup readers' =>
                         Holds(files', rent[r].ptr, Rec(rkey[r], rent[r].val))
  BY DEF ReadInv, CanOpen, readVars
<1>1. /\ rkey[r] \in Key /\ rent[r].ptr.file_id \in S
      /\ rent[r].ptr.offset \in Nat /\ rent[r].ptr.file_id \in Nat
      /\ rent[r].ptr.file_id \in dir \cup readers =>
           Holds(files, rent[r].ptr, Rec(rkey[r], rent[r].val))
  BY PointerFacts DEF IndInv, ReadInv, CanOpen
<1>2. /\ files \in Seq(Seq(Record)) /\ files' \in Seq(Seq(Record))
      /\ Keeps(files, files', S) /\ S \subseteq DOMAIN files
      /\ current_file_id \in Nat
  BY DEF IndInv, TypeOK, LogGrows
<1>3. rent[r].ptr.file_id <= current_file_id
  BY <1>1
<1> HIDE DEF S
<1>4. rent[r].ptr.file_id \in DOMAIN files'
  BY <1>1, <1>2 DEF Keeps
<1>5. rent[r].ptr.file_id <= current_file_id'
  BY <1>1, <1>2, <1>3 DEF LogGrows
<1>6. rent[r].ptr.file_id \in dir' \cup readers' => rent[r].ptr.file_id \in dir \cup readers
  BY <1>1, <1>2, <1>3 DEF LogGrows
<1> QED BY <1>1, <1>2, <1>4, <1>5, <1>6, HoldsKept

LEMMA GCKept ==
  ASSUME IndInv, LogGrows, UNCHANGED <<index, gcVars>>
  PROVE  GCInv'
<1> SUFFICES ASSUME gpc # "idle" PROVE GCInv'
  BY DEF GCInv, gcVars
<1>1. /\ gc_file_id \in dir /\ gc_file_id < current_file_id
      /\ gc_file_id \in Nat /\ current_file_id \in Nat
      /\ gc_file_id \in DOMAIN files
  BY DEF IndInv, GCInv, TypeOK
<1>2. gc_file_id \in dir' /\ gc_file_id < current_file_id'
  BY <1>1 DEF LogGrows
<1>3. files'[gc_file_id] = files[gc_file_id]
  BY <1>1 DEF LogGrows
<1> QED BY <1>2, <1>3 DEF IndInv, GCInv, gcVars

\* The record behind a pointer that Append has returned.
LEMMA DoneKept ==
  ASSUME IndInv, LogGrows, NEW a \in Appender, apc[a] = "done"
  PROVE  aptr[a].file_id \in dir' /\ Holds(files', aptr[a], arec[a])
<1> DEFINE S == {f \in DOMAIN files : f <= current_file_id}
<1>1. /\ aptr[a].file_id \in dir /\ aptr[a].offset \in Nat
      /\ Holds(files, aptr[a], arec[a])
  BY PointerFacts DEF IndInv, AppendInv
<1>2. aptr[a].file_id \in S
  BY <1>1 DEF IndInv, LogInv, Holds
<1>3. /\ files \in Seq(Seq(Record)) /\ files' \in Seq(Seq(Record))
      /\ Keeps(files, files', S) /\ S \subseteq DOMAIN files
  BY DEF IndInv, TypeOK, LogGrows
<1> HIDE DEF S
<1> QED BY <1>1, <1>2, <1>3, HoldsKept DEF LogGrows

\* A record of the file that is collected.
LEMMA CollectedKept ==
  ASSUME IndInv, LogGrows, gpc # "idle", NEW o \in Nat, NEW rec,
         Holds(files, Pointer(gc_file_id, o), rec)
  PROVE  Holds(files', Pointer(gc_file_id, o), rec)
<1> DEFINE S == {f \in DOMAIN files : f <= current_file_id}
           p == Pointer(gc_file_id, o)
<1>1. p.file_id = gc_file_id /\ p.offset = o
  BY DEF Pointer
<1>2. gc_file_id \in S
  BY DEF IndInv, GCInv, LogInv, TypeOK
<1>3. /\ files \in Seq(Seq(Record)) /\ files' \in Seq(Seq(Record))
      /\ Keeps(files, files', S) /\ S \subseteq DOMAIN files
  BY DEF IndInv, TypeOK, LogGrows
<1> HIDE DEF S, p
<1>4. Holds(files, p, rec)
  BY DEF p
<1>5. Holds(files', p, rec)
  BY <1>1, <1>2, <1>3, <1>4, HoldsKept
<1> QED BY <1>5 DEF p

\* A step that leaves the log alone is a case of LogGrows.
LEMMA LogStays ==
  ASSUME IndInv, UNCHANGED <<files, dir, current_file_id>>
  PROVE  LogGrows
<1>1. Keeps(files, files, DOMAIN files)
  BY DEF Keeps, IndInv, TypeOK
<1> QED BY <1>1 DEF LogGrows, IndInv, TypeOK, Keeps

-----------------------------------------------------------------------------
(* VLog::Append. *)

\* RotateFile begins a new file behind all others.
LEMMA RotateLog ==
  ASSUME IndInv, writer, NEW file, file = NextFileId
  PROVE  /\ Rotated(file) \in Seq(Seq(Record))
         /\ Len(files) <= Len(Rotated(file))
         /\ file \in DOMAIN Rotated(file) /\ Rotated(file)[file] = << >>
         /\ \A f \in DOMAIN Rotated(file) :
              f # file => f \in DOMAIN files /\ Rotated(file)[f] = files[f]
         /\ DOMAIN files \subseteq DOMAIN Rotated(file)
<1>1. /\ files \in Seq(Seq(Record)) /\ Len(files) \in Nat
      /\ DOMAIN files = 1 .. Len(files)
      /\ current_file_id \in 1 .. Len(files)
  BY DEF IndInv, TypeOK
<1>2. file \in 1 .. Len(files) + 1
  BY <1>1 DEF NextFileId
<1>3. << >> \in Seq(Record)
  OBVIOUS
<1>4. CASE file \in DOMAIN files
  <2>1. Rotated(file) = [files EXCEPT ![file] = << >>]
    BY <1>4 DEF Rotated
  <2> QED BY <1>1, <1>3, <1>4, <2>1, ExceptSeq
<1>5. CASE file \notin DOMAIN files
  <2>1. Rotated(file) = Append(files, << >>)
    BY <1>5 DEF Rotated
  <2>1a. file = Len(files) + 1
    <3>1. Len(files) \in Nat /\ file \notin 1 .. Len(files)
      BY <1>1, <1>5
    <3> QED BY <1>2, <3>1
  <2>2. /\ Append(files, << >>) \in Seq(Seq(Record))
        /\ Len(Append(files, << >>)) = Len(files) + 1
        /\ \A i \in 1 .. Len(files) : Append(files, << >>)[i] = files[i]
        /\ Append(files, << >>)[Len(files) + 1] = << >>
    BY <1>1, <1>3, AppendProperties
  <2>3. DOMAIN Append(files, << >>) = 1 .. Len(files) + 1
    BY <2>2, LenProperties
  <2> QED BY <1>1, <2>1, <2>1a, <2>2, <2>3
<1> QED BY <1>4, <1>5

\* The beginning of Append keeps the log in order, and leaves room for a record at
\* the pointer it gives out.
LEMMA AppendBeginLog ==
  ASSUME IndInv, NEW a \in Appender, NEW rec, AppendBegin(a, rec)
  PROVE  /\ LogGrows /\ LogInv'
         /\ current_file_id' \in dir'
         /\ OffsetOK'
         /\ ~FullAt(current_offset', RecordSize(rec))
<1>1. /\ files \in Seq(Seq(Record)) /\ Len(files) \in Nat
      /\ DOMAIN files = 1 .. Len(files)
      /\ writer /\ current_file_id \in dir /\ dir \subseteq DOMAIN files
      /\ current_file_id \in Nat /\ OffsetOK
      /\ FileLimit \in Nat \ {0}
      /\ current_offset = Len(files[current_file_id])
      /\ \A f \in dir : f <= current_file_id
      /\ files # << >>
      /\ \A f \in DOMAIN files : Layout(files[f])
  BY FileLimitAssumption DEF IndInv, TypeOK, LogInv, Aligned, OffsetOK, AppendBegin
<1>2. CASE MustRotate(RecordSize(rec))
  <2>1. /\ files' = Rotated(NextFileId) /\ dir' = dir \cup {NextFileId}
        /\ current_file_id' = NextFileId /\ current_offset' = 0
        /\ writer' = writer
    BY <1>2 DEF AppendBegin
  <2>2. NextFileId = current_file_id + 1
    BY DEF NextFileId
  <2>3. /\ files' \in Seq(Seq(Record)) /\ Len(files) <= Len(files')
        /\ NextFileId \in DOMAIN files' /\ files'[NextFileId] = << >>
        /\ \A f \in DOMAIN files' :
             f # NextFileId => f \in DOMAIN files /\ files'[f] = files[f]
        /\ DOMAIN files \subseteq DOMAIN files'
    BY <1>1, <2>1, RotateLog
  <2>4. Keeps(files, files', {f \in DOMAIN files : f <= current_file_id})
    <3> SUFFICES ASSUME NEW f \in DOMAIN files, f <= current_file_id
                 PROVE  /\ f \in DOMAIN files' /\ Len(files[f]) <= Len(files'[f])
                        /\ \A i \in 1 .. Len(files[f]) : files'[f][i] = files[f][i]
      BY DEF Keeps
    <3>1. f # NextFileId
      BY <1>1, <2>2
    <3>2. f \in DOMAIN files' /\ files'[f] = files[f]
      BY <2>3, <3>1
    <3>3. Len(files[f]) \in Nat
      BY <1>1
    <3> QED BY <3>2, <3>3
  <2>5. LogGrows
    <3>1. dir \subseteq dir' /\ dir' \subseteq DOMAIN files'
      BY <1>1, <2>1, <2>3
    <3>2. /\ \A f \in dir' : f \in dir \/ f > current_file_id
          /\ current_file_id' \in Nat /\ current_file_id <= current_file_id'
      BY <1>1, <2>1, <2>2
    <3>3. ASSUME NEW f \in DOMAIN files, f < current_file_id
          PROVE  files'[f] = files[f]
      <4>1. f # NextFileId /\ f \in DOMAIN files'
        BY <1>1, <2>2, <2>3, <3>3
      <4> QED BY <2>3, <4>1
    <3> QED BY <2>3, <2>4, <3>1, <3>2, <3>3 DEF LogGrows
  <2>6. LogInv'
    <3>1. files' # << >>
      BY <1>1, <2>3
    <3>2. ASSUME NEW f \in DOMAIN files' PROVE Layout(files'[f])
      <4>1. CASE f = NextFileId
        BY <2>3, <4>1, EmptyLayout
      <4>2. CASE f # NextFileId
        <5>1. f \in DOMAIN files /\ files'[f] = files[f]
          BY <2>3, <3>2, <4>2
        <5> QED BY <1>1, <5>1
      <4> QED BY <4>1, <4>2
    <3>3. \A f \in dir' : f <= current_file_id'
      BY <1>1, <2>1, <2>2
    <3>4. current_offset' = Len(files'[current_file_id'])
      BY <2>1, <2>3
    <3> QED BY <3>1, <3>2, <3>3, <3>4 DEF LogInv, Aligned
  <2> QED BY <1>1, <2>1, <2>5, <2>6 DEF FullAt, OffsetOK
<1>3. CASE ~MustRotate(RecordSize(rec))
  <2>1. /\ files' = files /\ dir' = dir \cup {current_file_id}
        /\ current_file_id' = current_file_id /\ current_offset' = current_offset
        /\ writer' = writer
    BY <1>3 DEF AppendBegin
  <2>2. dir' = dir
    BY <1>1, <2>1
  <2>3. LogGrows
    BY <2>1, <2>2, LogStays
  <2>4. LogInv'
    BY <2>1, <2>2 DEF IndInv, LogInv, Aligned
  <2> QED BY <1>1, <1>3, <2>1, <2>2, <2>3, <2>4 DEF MustRotate, FullAt, OffsetOK
<1> QED BY <1>2, <1>3

\* The thread that begins is alone in Append; the locals of the other one stay.
LEMMA AppendBeginLocals ==
  ASSUME IndInv, NEW a \in Appender, NEW rec \in Record, rec.key \in Key,
         RecordSize(rec) > 0, AppendBegin(a, rec), OneAppend'
  PROVE  /\ AppendInv'
         /\ apc' \in [Appender -> {"idle", "append", "done"}]
         /\ arec' \in [Appender -> Record]
         /\ aptr' \in [Appender -> FilePointer']
<1>1. /\ LogGrows /\ current_file_id' \in dir'
      /\ ~FullAt(current_offset', RecordSize(rec))
      /\ current_offset' \in Nat
  BY AppendBeginLog DEF OffsetOK
<1>2. /\ apc' = [apc EXCEPT ![a] = "append"]
      /\ arec' = [arec EXCEPT ![a] = rec]
      /\ aptr' = [aptr EXCEPT ![a] = Pointer(current_file_id', current_offset')]
      /\ writer' /\ apc[a] = "idle"
  BY DEF AppendBegin
<1>3. Pointer(current_file_id', current_offset') \in FilePointer'
  BY <1>1 DEF LogGrows, Pointer, FilePointer
<1>4. FilePointer \subseteq FilePointer'
  BY <1>1, PointersKept DEF IndInv, TypeOK, LogGrows
<1>5. /\ apc' \in [Appender -> {"idle", "append", "done"}]
      /\ arec' \in [Appender -> Record]
      /\ aptr' \in [Appender -> FilePointer']
  BY <1>2, <1>3, <1>4 DEF IndInv, TypeOK
<1>6. AppendInv'
  <2> SUFFICES ASSUME NEW b \in Appender
               PROVE  /\ apc'[b] = "append" =>
                           /\ writer' /\ ~FullAt(current_offset', RecordSize(arec'[b]))
                           /\ aptr'[b] = Pointer(current_file_id', current_offset')
                      /\ apc'[b] = "done" =>
                           aptr'[b].file_id \in dir' /\ Holds(files', aptr'[b], arec'[b])
                      /\ apc'[b] # "idle" => arec'[b].key \in Key
                                              /\ RecordSize(arec'[b]) > 0
    BY DEF AppendInv, MustRotate, FullAt
  <2>1. CASE b = a
    BY <1>1, <1>2, <2>1 DEF IndInv, TypeOK
  <2>2. CASE b # a
    <3>1. /\ apc'[b] = apc[b] /\ arec'[b] = arec[b] /\ aptr'[b] = aptr[b]
          /\ apc'[a] = "append"
      BY <1>2, <2>2 DEF IndInv, TypeOK
    <3>2. apc[b] # "append"
      BY <2>2, <3>1 DEF OneAppend
    <3> QED BY <1>1, <3>1, <3>2, DoneKept DEF IndInv, AppendInv
  <2> QED BY <2>1, <2>2
<1> QED BY <1>5, <1>6

\* One file gets other contents.
LEMMA FileReplaced ==
  ASSUME NEW log \in Seq(Seq(Record)), NEW c \in 1 .. Len(log),
         NEW file \in Seq(Record), NEW log2, log2 = [log EXCEPT ![c] = file]
  PROVE  /\ log2 \in Seq(Seq(Record)) /\ Len(log2) = Len(log)
         /\ DOMAIN log2 = DOMAIN log
         /\ log2[c] = file
         /\ \A f \in DOMAIN log : f # c => log2[f] = log[f]
BY ExceptSeq

\* fwrite puts the record where the pointer says.
LEMMA AppendedLog ==
  ASSUME IndInv, NEW a \in Appender, apc[a] = "append",
         files' = [files EXCEPT ![current_file_id] = @ \o Bytes(arec[a])],
         current_offset' = current_offset + RecordSize(arec[a]),
         UNCHANGED <<dir, current_file_id, writer>>
  PROVE  /\ LogGrows /\ LogInv' /\ OffsetOK'
         /\ Holds(files', aptr[a], arec[a]) /\ aptr[a].file_id \in dir
<1> DEFINE c == current_file_id
           old == files[c]
           new == old \o Bytes(arec[a])
<1>1. /\ files \in Seq(Seq(Record)) /\ Len(files) \in Nat
      /\ DOMAIN files = 1 .. Len(files)
      /\ dir \subseteq DOMAIN files /\ c \in Nat
      /\ \A f \in dir : f <= c
      /\ files # << >>
      /\ \A f \in DOMAIN files : Layout(files[f])
      /\ arec[a] \in Record /\ RecordSize(arec[a]) \in Nat
  BY RecordSizes DEF IndInv, TypeOK, LogInv
<1>2. /\ writer /\ c \in dir /\ ~FullAt(current_offset, RecordSize(arec[a]))
      /\ arec[a].key \in Key /\ RecordSize(arec[a]) > 0
      /\ aptr[a] = Pointer(c, current_offset)
      /\ current_offset = Len(old) /\ current_offset \in Nat
      /\ FileLimit \in Nat \ {0}
  BY FileLimitAssumption DEF IndInv, TypeOK, LogInv, Aligned, AppendInv, MustRotate, FullAt
<1>3. /\ files' = [files EXCEPT ![c] = new]
      /\ current_offset' = current_offset + RecordSize(arec[a])
      /\ dir' = dir /\ current_file_id' = c /\ writer' = writer
  OBVIOUS
<1>4. /\ old \in Seq(Record) /\ Len(old) \in Nat
      /\ new \in Seq(Record)
      /\ Len(new) = Len(old) + RecordSize(arec[a])
      /\ \A i \in 1 .. Len(old) : new[i] = old[i]
      /\ new[Len(old) + 1] = arec[a]
      /\ Layout(new)
  <2>1. old \in Seq(Record) /\ Layout(old)
    BY <1>1, <1>2
  <2> HIDE DEF old
  <2> QED BY <1>1, <1>2, <2>1, BytesBehind, LayoutBehind
<1> HIDE DEF new
<1>5. /\ files' \in Seq(Seq(Record)) /\ Len(files') = Len(files)
      /\ DOMAIN files' = DOMAIN files
      /\ files'[c] = new
      /\ \A f \in DOMAIN files : f # c => files'[f] = files[f]
  <2>1. c \in 1 .. Len(files)
    BY <1>1, <1>2
  <2>2. files \in Seq(Seq(Record)) /\ new \in Seq(Record)
    BY <1>1, <1>4
  <2>3. files' = [files EXCEPT ![c] = new]
    BY <1>3
  <2> HIDE DEF c
  <2> QED BY ONLY <2>1, <2>2, <2>3, FileReplaced
<1> HIDE DEF old
<1>6. Keeps(files, files', DOMAIN files)
  <2> SUFFICES ASSUME NEW f \in DOMAIN files
               PROVE  /\ f \in DOMAIN files' /\ Len(files[f]) <= Len(files'[f])
                      /\ \A i \in 1 .. Len(files[f]) : files'[f][i] = files[f][i]
    BY DEF Keeps
  <2>1. CASE f = c
    BY <1>1, <1>4, <1>5, <2>1 DEF old
  <2>2. CASE f # c
    BY <1>1, <1>5, <2>2
  <2> QED BY <2>1, <2>2
<1>7. LogGrows
  <2>1. Keeps(files, files', {f \in DOMAIN files : f <= current_file_id})
    BY <1>6 DEF Keeps
  <2>2. files' \in Seq(Seq(Record)) /\ Len(files) <= Len(files')
    BY <1>1, <1>5
  <2>3. /\ dir \subseteq dir' /\ dir' \subseteq DOMAIN files'
        /\ \A f \in dir' : f \in dir \/ f > current_file_id
        /\ current_file_id' \in Nat /\ current_file_id <= current_file_id'
    BY <1>1, <1>3, <1>5
  <2>4. \A f \in DOMAIN files : f < current_file_id => files'[f] = files[f]
    BY <1>1, <1>5
  <2> QED BY <2>1, <2>2, <2>3, <2>4 DEF LogGrows
<1>8. current_offset' = Len(files'[c]) /\ c \in DOMAIN files'
  BY <1>1, <1>2, <1>3, <1>4, <1>5
<1>9. LogInv'
  <2>1. files' # << >>
    BY <1>1, <1>5
  <2>2. ASSUME NEW f \in DOMAIN files' PROVE Layout(files'[f])
    BY <1>1, <1>4, <1>5
  <2> QED BY <1>1, <1>3, <1>8, <2>1, <2>2 DEF LogInv, Aligned
<1>10. OffsetOK'
  <2>1. Layout(files'[c])
    BY <1>4, <1>5
  <2> QED BY <1>1, <1>2, <1>3, <1>8, <2>1 DEF OffsetOK, Layout
<1>11. Holds(files', aptr[a], arec[a]) /\ aptr[a].file_id \in dir
  <2>1. aptr[a].file_id = c /\ aptr[a].offset = current_offset
    BY <1>2 DEF Pointer
  <2>2. current_offset < Len(new) /\ new[current_offset + 1] = arec[a]
    BY <1>1, <1>2, <1>4
  <2> QED BY <1>2, <1>5, <1>8, <2>1, <2>2 DEF Holds
<1> QED BY <1>7, <1>9, <1>10, <1>11

-----------------------------------------------------------------------------
(* The steps of a Write. *)

LEMMA PutBeginInv ==
  ASSUME IndInv, NEW k \in Key, NEW n \in Sizes, PutBegin(k, n), OneAppend'
  PROVE  IndInv'
<1> DEFINE rec == Rec(k, Val(puts + 1, n))
<1>1. /\ rec \in Record /\ rec.key \in Key /\ puts' \in 0 .. MaxPuts
      /\ RecordSize(rec) > 0
      /\ AppendBegin("writer", rec) /\ "writer" \in Appender
      /\ UNCHANGED <<failures, crashes, readers, index, gcVars, readVars>>
  <2>1. puts + 1 \in 0 .. MaxPuts /\ puts' = puts + 1
    BY BoundsAssumption DEF IndInv, TypeOK, PutBegin
  <2>2. Val(puts + 1, n) \in AnyVal /\ Val(puts + 1, n).size = n
    BY <2>1 DEF Val, AnyVal
  <2>3. n > 0
    BY SizesAssumption
  <2> QED BY <2>1, <2>2, <2>3 DEF PutBegin, Rec, Record, RecordSize, Appender
<1> HIDE DEF rec
<1>2. /\ LogGrows /\ LogInv' /\ current_file_id' \in dir' /\ OffsetOK'
  BY <1>1, AppendBeginLog
<1>3. /\ AppendInv'
      /\ apc' \in [Appender -> {"idle", "append", "done"}]
      /\ arec' \in [Appender -> Record]
      /\ aptr' \in [Appender -> FilePointer']
  BY <1>1, AppendBeginLocals
<1>4. TypeOK'
  <2>1. /\ IndexEntry \subseteq IndexEntry' /\ Len(files) \in Nat
        /\ Len(files') \in Nat /\ Len(files) <= Len(files')
    BY <1>2, PointersKept DEF IndInv, TypeOK, LogGrows
  <2>2. index' \in [Key -> IndexEntry'] /\ rent' \in [Reader -> IndexEntry']
    BY <1>1, <2>1 DEF IndInv, TypeOK, readVars
  <2>3. readers' \subseteq DOMAIN files' /\ gc_file_id' \in 0 .. Len(files')
    BY <1>1, <1>2, <2>1 DEF IndInv, TypeOK, gcVars, LogGrows
  <2>4. writer' \in BOOLEAN
    BY <1>1 DEF AppendBegin, IndInv, TypeOK
  <2> QED BY <1>1, <1>2, <1>3, <2>1, <2>2, <2>3, <2>4
          DEF IndInv, TypeOK, LogGrows, OffsetOK, gcVars, readVars
<1>5. IndexInv' /\ ReadInv' /\ GCInv'
  BY <1>1, <1>2, IndexKept, ReadsKept, GCKept
<1>6. /\ aptr'["writer"].file_id = current_file_id'
      /\ apc'["gc"] = apc["gc"] /\ aptr'["gc"] = aptr["gc"] /\ arec'["gc"] = arec["gc"]
  BY <1>1 DEF AppendBegin, Pointer, Appender, IndInv, TypeOK
<1>7. WriterInv'
  BY <1>1, <1>2, <1>6 DEF WriterInv, IndInv, GCInv, TypeOK, LogGrows, gcVars
<1>8. RewriteInv'
  BY <1>1, <1>2, <1>6, CollectedKept DEF RewriteInv, IndInv, TypeOK, gcVars
<1> QED BY <1>2, <1>3, <1>4, <1>5, <1>7, <1>8 DEF IndInv

LEMMA AppendWriteInv ==
  ASSUME IndInv, NEW a \in Appender, AppendWrite(a), OneAppend'
  PROVE  IndInv'
<1>1. /\ LogGrows /\ LogInv' /\ OffsetOK'
      /\ Holds(files', aptr[a], arec[a]) /\ aptr[a].file_id \in dir
  BY AppendedLog DEF AppendWrite
<1>2. /\ apc[a] = "append" /\ apc' = [apc EXCEPT ![a] = "done"]
      /\ UNCHANGED <<dir, readers, current_file_id, writer, counters, index, arec,
                     aptr, gcVars, readVars>>
  BY DEF AppendWrite
<1>3. TypeOK'
  <2>1. /\ IndexEntry \subseteq IndexEntry' /\ FilePointer \subseteq FilePointer'
        /\ Len(files) \in Nat /\ Len(files') \in Nat /\ Len(files) <= Len(files')
    BY <1>1, PointersKept DEF IndInv, TypeOK, LogGrows
  <2>2. /\ index' \in [Key -> IndexEntry'] /\ rent' \in [Reader -> IndexEntry']
        /\ aptr' \in [Appender -> FilePointer']
        /\ apc' \in [Appender -> {"idle", "append", "done"}]
    BY <1>2, <2>1 DEF IndInv, TypeOK, readVars
  <2>3. readers' \subseteq DOMAIN files' /\ gc_file_id' \in 0 .. Len(files')
    BY <1>1, <1>2, <2>1 DEF IndInv, TypeOK, gcVars, LogGrows
  <2> QED BY <1>1, <1>2, <2>2, <2>3
          DEF IndInv, TypeOK, LogGrows, OffsetOK, gcVars, readVars, counters
<1>4. IndexInv' /\ ReadInv' /\ GCInv'
  BY <1>1, <1>2, IndexKept, ReadsKept, GCKept
<1>5. AppendInv'
  <2> SUFFICES ASSUME NEW b \in Appender
               PROVE  /\ apc'[b] = "append" =>
                           /\ writer' /\ ~FullAt(current_offset', RecordSize(arec'[b]))
                           /\ aptr'[b] = Pointer(current_file_id', current_offset')
                      /\ apc'[b] = "done" =>
                           aptr'[b].file_id \in dir' /\ Holds(files', aptr'[b], arec'[b])
                      /\ apc'[b] # "idle" => arec'[b].key \in Key
                                              /\ RecordSize(arec'[b]) > 0
    BY DEF AppendInv, MustRotate, FullAt
  <2>1. CASE b = a
    BY <1>1, <1>2, <2>1 DEF IndInv, TypeOK, AppendInv
  <2>2. CASE b # a
    <3>1. apc'[b] = apc[b] /\ apc[b] # "append"
      BY <1>2, <2>2 DEF IndInv, TypeOK, OneAppend
    <3> QED BY <1>1, <1>2, <3>1, DoneKept DEF IndInv, AppendInv
  <2> QED BY <2>1, <2>2
<1>6. \A b \in Appender : apc'[b] # "idle" <=> apc[b] # "idle"
  BY <1>2 DEF IndInv, TypeOK
<1>7. "writer" \in Appender /\ "gc" \in Appender
  BY DEF Appender
<1>8. WriterInv'
  BY <1>2, <1>6, <1>7 DEF IndInv, WriterInv, gcVars
<1>9. RewriteInv'
  BY <1>1, <1>2, <1>6, <1>7, CollectedKept DEF RewriteInv, IndInv, TypeOK, gcVars
<1> QED BY <1>1, <1>3, <1>4, <1>5, <1>8, <1>9 DEF IndInv

\* A step that changes neither log nor index.
LEMMA LogUnchanged ==
  ASSUME IndInv, UNCHANGED <<logVars, index>>
  PROVE  LogInv' /\ IndexInv' /\ LogGrows
BY LogStays DEF IndInv, LogInv, Aligned, IndexInv, logVars

\* Append has returned to thread a, and the log stays, or has the record of thread a,
\* which was alone in Append.
LEMMA AppendOverLocals ==
  ASSUME IndInv, NEW a \in Appender, AppendOver(a),
         UNCHANGED logVars \/ (LogGrows /\ Len(files') = Len(files) /\ apc[a] = "append")
  PROVE  /\ AppendInv'
         /\ apc' \in [Appender -> {"idle", "append", "done"}]
         /\ arec' \in [Appender -> Record]
         /\ aptr' \in [Appender -> FilePointer']
         /\ apc'[a] = "idle"
         /\ \A b \in Appender : b # a => /\ apc'[b] = apc[b] /\ aptr'[b] = aptr[b]
                                         /\ arec'[b] = arec[b]
<1>1. NoRec \in Record /\ NoPointer \in FilePointer
  BY PointerFacts, NothingTypes DEF IndInv
<1>2. FilePointer' = FilePointer
  BY DEF FilePointer, logVars
<1>3. /\ apc' \in [Appender -> {"idle", "append", "done"}]
      /\ arec' \in [Appender -> Record]
      /\ aptr' \in [Appender -> FilePointer']
      /\ apc'[a] = "idle"
      /\ \A b \in Appender : b # a => /\ apc'[b] = apc[b] /\ aptr'[b] = aptr[b]
                                      /\ arec'[b] = arec[b]
  BY <1>1, <1>2 DEF IndInv, TypeOK, AppendOver
<1>4. AppendInv'
  <2> SUFFICES ASSUME NEW b \in Appender, b # a
               PROVE  /\ apc'[b] = "append" =>
                           /\ writer' /\ ~FullAt(current_offset', RecordSize(arec'[b]))
                           /\ aptr'[b] = Pointer(current_file_id', current_offset')
                      /\ apc'[b] = "done" =>
                           aptr'[b].file_id \in dir' /\ Holds(files', aptr'[b], arec'[b])
                      /\ apc'[b] # "idle" => arec'[b].key \in Key
                                              /\ RecordSize(arec'[b]) > 0
    BY <1>3 DEF AppendInv, MustRotate, FullAt
  <2>1. CASE UNCHANGED logVars
    BY <1>3, <2>1 DEF IndInv, AppendInv, MustRotate, FullAt, logVars
  <2>2. CASE LogGrows /\ apc[a] = "append"
    <3>1. apc[b] # "append"
      BY <2>2 DEF IndInv, OneAppend
    <3> QED BY <1>3, <2>2, <3>1, DoneKept DEF IndInv, AppendInv
  <2> QED BY <2>1, <2>2
<1> QED BY <1>3, <1>4

\* Types when the log and the readers stay as they are.
LEMMA TypesKept ==
  ASSUME IndInv, UNCHANGED <<logVars, counters>>,
         readers' \subseteq DOMAIN files,
         index' \in [Key -> IndexEntry],
         apc' \in [Appender -> {"idle", "append", "done"}],
         arec' \in [Appender -> Record], aptr' \in [Appender -> FilePointer],
         gpc' \in {"idle", "scan", "rewrite", "delete"},
         gc_file_id' \in 0 .. Len(files), scanned' \in Nat,
         live_bytes' \in 0 .. scanned', live_records' \in Seq(Nat),
         rpc' \in [Reader -> {"idle", "read"}], rkey' \in [Reader -> Key \cup {0}],
         rent' \in [Reader -> IndexEntry]
  PROVE  TypeOK'
<1>1. FilePointer' = FilePointer /\ IndexEntry' = IndexEntry
  BY DEF FilePointer, IndexEntry, logVars
<1> QED BY <1>1 DEF IndInv, TypeOK, logVars, counters

\* RunGC has returned.
LEMMA GCOverTypes ==
  ASSUME IndInv, GCOver
  PROVE  /\ gpc' = "idle" /\ gpc' \in {"idle", "scan", "rewrite", "delete"}
         /\ gc_file_id' \in 0 .. Len(files) /\ scanned' \in Nat
         /\ live_bytes' \in 0 .. scanned' /\ live_records' \in Seq(Nat)
         /\ GCInv' /\ WriterInv'
         /\ apc'["gc"] = "idle" => RewriteInv'
BY PointerFacts DEF GCOver, IndInv, GCInv, WriterInv, RewriteInv

\* The types of what a step leaves alone.
LEMMA TypesNow ==
  ASSUME IndInv
  PROVE  /\ readers \subseteq DOMAIN files
         /\ index \in [Key -> IndexEntry]
         /\ apc \in [Appender -> {"idle", "append", "done"}]
         /\ arec \in [Appender -> Record] /\ aptr \in [Appender -> FilePointer]
         /\ gpc \in {"idle", "scan", "rewrite", "delete"}
         /\ gc_file_id \in 0 .. Len(files) /\ scanned \in Nat
         /\ live_bytes \in 0 .. scanned /\ live_records \in Seq(Nat)
         /\ rpc \in [Reader -> {"idle", "read"}] /\ rkey \in [Reader -> Key \cup {0}]
         /\ rent \in [Reader -> IndexEntry]
         /\ "writer" \in Appender /\ "gc" \in Appender
         /\ Len(files) \in Nat
BY PointerFacts DEF IndInv, TypeOK, Appender

\* The log after an Append that has failed with the file at its end where the offset
\* is: all of the record is there, or nothing.
LEMMA AppendFailsLog ==
  ASSUME IndInv, NEW a \in Appender, AppendFails(a), Aligned'
  PROVE  LogGrows /\ LogInv' /\ OffsetOK' /\ Len(files') = Len(files)
<1> DEFINE c == current_file_id
           size == RecordSize(arec[a])
           left(n) == FirstBytes(arec[a], n)
<1>1. PICK n \in 0 .. size, moved \in BOOLEAN :
        /\ n = size => moved
        /\ files' = [files EXCEPT ![c] = @ \o left(n)]
        /\ current_offset' = IF moved THEN current_offset + size ELSE current_offset
  BY DEF AppendFails
<1>2. apc[a] = "append" /\ UNCHANGED <<dir, current_file_id, writer>>
  BY DEF AppendFails
<1>3. /\ files \in Seq(Seq(Record)) /\ c \in DOMAIN files /\ files[c] \in Seq(Record)
      /\ arec[a] \in Record /\ size \in Nat /\ writer /\ OffsetOK
      /\ current_offset \in Nat /\ current_offset = Len(files[c]) /\ size > 0
  <2>1. writer /\ arec[a] \in Record /\ size > 0
    BY <1>2 DEF IndInv, AppendInv, TypeOK
  <2> QED BY <2>1, RecordSizes DEF IndInv, TypeOK, LogInv, Aligned, OffsetOK
<1>4. left(n) \in Seq(Record) /\ Len(left(n)) = n
  <2>1. Torn \in Record
    BY <1>3, NothingTypes
  <2>2. left(n) = [i \in 1 .. n |-> IF i = 1 /\ n = size THEN arec[a] ELSE Torn]
    BY DEF FirstBytes
  <2>3. n \in Nat /\ arec[a] \in Record
    BY <1>3
  <2> HIDE DEF left, size
  <2> QED BY <2>1, <2>2, <2>3
<1>5. files'[c] = files[c] \o left(n) /\ Len(files') = Len(files)
  <2> HIDE DEF left, c, size
  <2> QED BY <1>1, <1>3
<1>6. Len(files'[c]) = Len(files[c]) + n
  <2> DEFINE old == files[c]
             rest == left(n)
  <2>1. old \in Seq(Record) /\ rest \in Seq(Record) /\ Len(rest) = n
    BY <1>3, <1>4
  <2> HIDE DEF old, rest
  <2>2. Len(old \o rest) = Len(old) + Len(rest)
    BY <2>1, ConcatProperties
  <2> QED BY <1>5, <2>1, <2>2 DEF old, rest
<1>7. current_offset' = Len(files'[c])
  BY <1>2, <1>3 DEF Aligned
<1>8. (moved => n = size) /\ (~moved => n = 0)
  <2> HIDE DEF left, c, size
  <2>1. n \in Nat /\ n <= size
    BY <1>3
  <2>2. current_offset + n = current_offset'
    BY <1>3, <1>6, <1>7
  <2>3. CASE moved
    <3>1. current_offset' = current_offset + size
      BY <1>1, <2>3
    <3>2. n = size
      BY <1>3, <2>1, <2>2, <3>1
    <3> QED BY <2>3, <3>2
  <2>4. CASE ~moved
    <3>1. current_offset' = current_offset
      BY <1>1, <2>4
    <3>2. n = 0
      BY <1>3, <2>1, <2>2, <3>1
    <3> QED BY <2>4, <3>2
  <2> QED BY <2>3, <2>4
<1>9. CASE moved
  <2>1. left(n) = Bytes(arec[a])
    BY <1>8, <1>9 DEF Bytes
  <2> HIDE DEF left
  <2>2. /\ files' = [files EXCEPT ![current_file_id] = @ \o Bytes(arec[a])]
        /\ current_offset' = current_offset + RecordSize(arec[a])
    BY <1>1, <1>9, <2>1
  <2> QED BY <1>2, <1>5, <2>2, AppendedLog
<1>10. CASE ~moved
  <2>1. left(n) = << >>
    BY <1>4, <1>8, <1>10, EmptySeq
  <2> HIDE DEF left
  <2>2. files[c] \o << >> = files[c]
    BY <1>3, ConcatEmptySeq
  <2>3. files' = files
    <3>1. files' = [files EXCEPT ![c] = files[c]]
      BY <1>1, <2>1, <2>2
    <3> QED BY <1>3, <3>1
  <2>4. current_offset' = current_offset
    BY <1>1, <1>10
  <2> QED BY <1>2, <1>3, <2>3, <2>4, LogStays DEF IndInv, LogInv, Aligned, OffsetOK
<1> QED BY <1>9, <1>10

LEMMA AppendFailsInv ==
  ASSUME IndInv, NEW a \in Appender, AppendFails(a), OneAppend', Aligned'
  PROVE  IndInv'
<1>1. /\ AppendOver(a) /\ apc[a] = "append" /\ failures' \in 0 .. MaxFailures
      /\ UNCHANGED <<dir, current_file_id, writer, readers, puts, crashes, index,
                     readVars>>
      /\ \/ a = "writer" /\ UNCHANGED gcVars
         \/ a = "gc" /\ GCOver
  BY BoundsAssumption DEF AppendFails, IndInv, TypeOK
<1>2. LogGrows /\ LogInv' /\ OffsetOK' /\ Len(files') = Len(files)
  BY AppendFailsLog
<1>3. /\ AppendInv'
      /\ apc' \in [Appender -> {"idle", "append", "done"}]
      /\ arec' \in [Appender -> Record]
      /\ aptr' \in [Appender -> FilePointer']
      /\ apc'[a] = "idle"
      /\ \A b \in Appender : b # a => /\ apc'[b] = apc[b] /\ aptr'[b] = aptr[b]
                                      /\ arec'[b] = arec[b]
  BY <1>1, <1>2, AppendOverLocals
<1>4. IndexInv' /\ ReadInv'
  BY <1>1, <1>2, IndexKept, ReadsKept
<1>5. ASSUME gpc' \in {"idle", "scan", "rewrite", "delete"},
             gc_file_id' \in 0 .. Len(files), scanned' \in Nat,
             live_bytes' \in 0 .. scanned', live_records' \in Seq(Nat)
      PROVE  TypeOK'
  <2>1. FilePointer' = FilePointer /\ IndexEntry' = IndexEntry
    BY <1>2 DEF FilePointer, IndexEntry
  <2>2. DOMAIN files' = DOMAIN files
    BY <1>2 DEF LogGrows, IndInv, TypeOK
  <2> QED BY <1>1, <1>2, <1>3, <1>5, <2>1, <2>2
          DEF IndInv, TypeOK, LogGrows, OffsetOK, readVars
<1>6. CASE a = "writer" /\ UNCHANGED gcVars
  <2>1. TypeOK'
    BY <1>5, <1>6, TypesNow DEF gcVars
  <2>2. GCInv' /\ WriterInv'
    BY <1>1, <1>2, <1>3, <1>6, GCKept DEF WriterInv
  <2>3. RewriteInv'
    BY <1>2, <1>3, <1>6, TypesNow, CollectedKept DEF RewriteInv, IndInv, TypeOK, gcVars
  <2> QED BY <1>2, <1>3, <1>4, <2>1, <2>2, <2>3 DEF IndInv
<1>7. CASE a = "gc" /\ GCOver
  <2>1. TypeOK'
    BY <1>5, <1>7, GCOverTypes
  <2>2. GCInv' /\ WriterInv' /\ RewriteInv'
    BY <1>3, <1>7, GCOverTypes
  <2> QED BY <1>2, <1>3, <1>4, <2>1, <2>2 DEF IndInv
<1> QED BY <1>1, <1>6, <1>7

\* A rotation that fails moves current_file_id_ on and leaves the files.  Nobody else
\* is in Append.
LEMMA RotateFailsLog ==
  ASSUME IndInv, NEW n, RotateFails(n), UNCHANGED appVars, OneAppend'
  PROVE  /\ LogGrows /\ LogInv'
         /\ \A a \in Appender : apc[a] # "append"
         /\ writer' \in BOOLEAN /\ ~writer'
         /\ current_offset' = 0
         /\ files' = files /\ dir' = dir
<1>1. /\ ~writer' /\ writer' \in BOOLEAN /\ files' = files /\ dir' = dir
      /\ current_file_id' = current_file_id + 1 /\ current_offset' = 0
  BY DEF RotateFails, NextFileId
<1>2. \A f \in dir : f \in Nat /\ f <= current_file_id
  BY DEF IndInv, TypeOK, LogInv
<1>3. current_file_id \in Nat /\ dir \subseteq DOMAIN files /\ files \in Seq(Seq(Record))
  BY DEF IndInv, TypeOK
<1>4. Keeps(files, files, {f \in DOMAIN files : f <= current_file_id})
  BY <1>3 DEF Keeps
<1>5. LogGrows
  BY <1>1, <1>2, <1>3, <1>4 DEF LogGrows
<1>6. LogInv'
  BY <1>1, <1>2, <1>3 DEF IndInv, LogInv, Aligned
<1>7. \A a \in Appender : apc[a] # "append"
  BY <1>1 DEF OneAppend, appVars
<1> QED BY <1>1, <1>5, <1>6, <1>7

\* The types and the appenders after it.
LEMMA RotateFailsTypes ==
  ASSUME IndInv, NEW n, RotateFails(n),
         UNCHANGED <<counters, index, appVars, readVars>>, OneAppend',
         readers' \subseteq DOMAIN files,
         gpc' \in {"idle", "scan", "rewrite", "delete"},
         gc_file_id' \in 0 .. Len(files), scanned' \in Nat,
         live_bytes' \in 0 .. scanned', live_records' \in Seq(Nat)
  PROVE  TypeOK' /\ AppendInv'
<1>1. /\ \A a \in Appender : apc[a] # "append"
      /\ writer' \in BOOLEAN /\ ~writer' /\ current_offset' = 0
      /\ files' = files /\ dir' = dir /\ LogGrows
  BY RotateFailsLog
<1>2. FilePointer' = FilePointer /\ IndexEntry' = IndexEntry
  BY <1>1 DEF FilePointer, IndexEntry
<1>3. current_file_id' \in Nat
  BY <1>1 DEF LogGrows
<1>4. TypeOK'
  BY <1>1, <1>2, <1>3 DEF IndInv, TypeOK, counters, appVars, readVars
<1>5. AppendInv'
  BY <1>1 DEF IndInv, AppendInv, appVars
<1> QED BY <1>4, <1>5

LEMMA PutFailsInv ==
  ASSUME IndInv, PutFails, OneAppend'
  PROVE  IndInv'
<1>1. /\ \E n \in Sizes : RotateFails(n)
      /\ UNCHANGED <<readers, counters, index, appVars, gcVars, readVars>>
  BY DEF PutFails
<1>2. LogGrows /\ LogInv' /\ files' = files
  BY <1>1, RotateFailsLog
<1>3. TypeOK' /\ AppendInv'
  BY <1>1, TypesNow, RotateFailsTypes DEF gcVars
<1>4. IndexInv' /\ ReadInv' /\ GCInv'
  BY <1>1, <1>2, IndexKept, ReadsKept, GCKept
<1>5. WriterInv' /\ RewriteInv'
  BY <1>1, <1>2 DEF IndInv, WriterInv, RewriteInv, appVars, gcVars
<1> QED BY <1>2, <1>3, <1>4, <1>5 DEF IndInv

\* An entry that the index is given for a key.
LEMMA ValueEntry ==
  ASSUME NEW v \in AnyVal, NEW p \in FilePointer
  PROVE  /\ Value(v, p) \in IndexEntry
         /\ Value(v, p).type = "kValue" /\ Value(v, p).val = v /\ Value(v, p).ptr = p
BY DEF Value, IndexEntry

\* A record is known by its key and value.
LEMMA RecordIs ==
  ASSUME NEW rec \in Record
  PROVE  rec = Rec(rec.key, rec.val) /\ rec.val \in AnyVal
BY DEF Record, Rec

\* The index gets the pointer that Append has returned: it leads to the record, and
\* if it leads into the file that is collected, the scan has not begun.
LEMMA PutEndInv ==
  ASSUME IndInv, PutEnd, OneAppend'
  PROVE  IndInv'
<1> DEFINE k == arec["writer"].key
           v == arec["writer"].val
           p == aptr["writer"]
<1>1. /\ AppendOver("writer") /\ apc["writer"] = "done"
      /\ UNCHANGED <<logVars, readers, counters, gcVars, readVars>>
      /\ index' = [index EXCEPT ![k] = Value(v, p)]
  BY DEF PutEnd
<1>2. /\ k \in Key /\ p \in FilePointer /\ v \in AnyVal
      /\ arec["writer"] = Rec(k, v)
      /\ p.file_id \in dir /\ Holds(files, p, Rec(k, v))
      /\ p.offset \in Nat
  <2>1. arec["writer"] \in Record /\ aptr["writer"] \in FilePointer
    BY TypesNow
  <2>2. arec["writer"].key \in Key /\ p.file_id \in dir /\ Holds(files, p, arec["writer"])
    BY <1>1, TypesNow DEF IndInv, AppendInv
  <2> QED BY <2>1, <2>2, RecordIs DEF FilePointer
<1> HIDE DEF k, v, p
<1>3. /\ index' \in [Key -> IndexEntry]
      /\ index'[k].type = "kValue" /\ index'[k].val = v /\ index'[k].ptr = p
      /\ \A j \in Key : j # k => index'[j] = index[j]
  BY <1>1, <1>2, TypesNow, ValueEntry
<1>4. /\ AppendInv'
      /\ apc' \in [Appender -> {"idle", "append", "done"}]
      /\ arec' \in [Appender -> Record]
      /\ aptr' \in [Appender -> FilePointer]
      /\ apc'["writer"] = "idle"
      /\ apc'["gc"] = apc["gc"] /\ aptr'["gc"] = aptr["gc"] /\ arec'["gc"] = arec["gc"]
  BY <1>1, AppendOverLocals DEF FilePointer, logVars, Appender
<1>5. TypeOK'
  BY <1>1, <1>3, <1>4, TypesNow, TypesKept DEF gcVars, readVars
<1>6. LogInv' /\ LogGrows
  BY <1>1, LogStays DEF IndInv, LogInv, Aligned, logVars
<1>7. IndexInv'
  <2> SUFFICES ASSUME NEW j \in Key, index'[j].type = "kValue"
               PROVE  /\ index'[j].ptr.file_id \in dir
                      /\ Holds(files, index'[j].ptr, Rec(j, index'[j].val))
    BY <1>1 DEF IndexInv, logVars
  <2>1. CASE j = k
    BY <1>2, <1>3, <2>1
  <2>2. CASE j # k
    BY <1>3, <2>2 DEF IndInv, IndexInv
  <2> QED BY <2>1, <2>2
<1>8. ReadInv'
  BY <1>1, <1>6, ReadsKept
<1>9. GCInv'
  <2> SUFFICES ASSUME gpc # "idle", NEW j \in Key, index'[j].type = "kValue",
                      index'[j].ptr.file_id = gc_file_id
               PROVE  \/ \E i \in DOMAIN live_records :
                           live_records[i] = index'[j].ptr.offset
                      \/ gpc = "scan" /\ index'[j].ptr.offset >= scanned
    BY <1>1 DEF GCInv, IndInv, gcVars, logVars
  <2>1. CASE j = k
    BY <1>1, <1>2, <1>3, <2>1 DEF IndInv, WriterInv, p
  <2>2. CASE j # k
    BY <1>3, <2>2 DEF IndInv, GCInv
  <2> QED BY <2>1, <2>2
<1>10. WriterInv' /\ RewriteInv'
  BY <1>1, <1>4 DEF WriterInv, RewriteInv, IndInv, gcVars, logVars
<1> QED BY <1>4, <1>5, <1>6, <1>7, <1>8, <1>9, <1>10 DEF IndInv

LEMMA PutWALFailsInv ==
  ASSUME IndInv, PutWALFails, OneAppend'
  PROVE  IndInv'
<1>1. /\ AppendOver("writer")
      /\ UNCHANGED <<logVars, readers, counters, index, gcVars, readVars>>
  BY DEF PutWALFails
<1>2. /\ AppendInv'
      /\ apc' \in [Appender -> {"idle", "append", "done"}]
      /\ arec' \in [Appender -> Record]
      /\ aptr' \in [Appender -> FilePointer]
      /\ apc'["writer"] = "idle"
      /\ apc'["gc"] = apc["gc"] /\ aptr'["gc"] = aptr["gc"] /\ arec'["gc"] = arec["gc"]
  BY <1>1, AppendOverLocals DEF FilePointer, logVars, Appender
<1>3. LogInv' /\ IndexInv' /\ LogGrows
  BY <1>1, LogUnchanged
<1>4. TypeOK'
  BY <1>1, <1>2, TypesNow, TypesKept DEF gcVars, readVars
<1>5. ReadInv' /\ GCInv'
  BY <1>1, <1>3, ReadsKept, GCKept
<1>6. WriterInv' /\ RewriteInv'
  BY <1>1, <1>2 DEF WriterInv, RewriteInv, IndInv, gcVars, logVars
<1> QED BY <1>2, <1>3, <1>4, <1>5, <1>6 DEF IndInv

LEMMA DeleteInv ==
  ASSUME IndInv, NEW k \in Key, Delete(k), OneAppend'
  PROVE  IndInv'
<1>1. /\ index' = [index EXCEPT ![k] = Deleted]
      /\ UNCHANGED <<logVars, readers, counters, appVars, gcVars, readVars>>
  BY DEF Delete
<1>2. Deleted \in IndexEntry /\ Deleted.type = "kDeletion"
  BY TypesNow, NothingTypes
<1>3. /\ index' \in [Key -> IndexEntry]
      /\ index'[k].type # "kValue"
      /\ \A j \in Key : j # k => index'[j] = index[j]
  BY <1>1, <1>2, TypesNow
<1>4. TypeOK'
  BY <1>1, <1>3, TypesNow, TypesKept DEF appVars, gcVars, readVars
<1>5. LogInv' /\ LogGrows
  BY <1>1, LogStays DEF IndInv, LogInv, Aligned, logVars
<1>6. IndexInv' /\ GCInv'
  BY <1>1, <1>3 DEF IndInv, IndexInv, GCInv, logVars, gcVars
<1>7. ReadInv'
  BY <1>1, <1>5, ReadsKept
<1>8. AppendInv' /\ WriterInv' /\ RewriteInv'
  BY <1>1 DEF IndInv, AppendInv, WriterInv, RewriteInv, MustRotate, appVars, gcVars, logVars
<1> QED BY <1>4, <1>5, <1>6, <1>7, <1>8 DEF IndInv

-----------------------------------------------------------------------------
(* The steps of a Get. *)

LEMMA GetIndexInv ==
  ASSUME IndInv, NEW r \in Reader, NEW k \in Key, GetIndex(r, k), OneAppend'
  PROVE  IndInv'
<1>1. /\ index[k].type = "kValue"
      /\ rkey' = [rkey EXCEPT ![r] = k] /\ rent' = [rent EXCEPT ![r] = index[k]]
      /\ rpc' = [rpc EXCEPT ![r] = "read"]
      /\ UNCHANGED <<logVars, readers, counters, index, appVars, gcVars>>
  BY DEF GetIndex
<1>2. TypeOK'
  BY <1>1, TypesNow, TypesKept DEF appVars, gcVars
<1>3. LogInv' /\ IndexInv' /\ LogGrows
  BY <1>1, LogUnchanged
<1>4. GCInv'
  BY <1>1, <1>3, GCKept
<1>5. AppendInv' /\ WriterInv' /\ RewriteInv'
  BY <1>1 DEF IndInv, AppendInv, WriterInv, RewriteInv, MustRotate, appVars, gcVars, logVars
<1>6. ReadInv'
  <2> SUFFICES ASSUME NEW q \in Reader, rpc'[q] = "read"
               PROVE  /\ rkey'[q] \in Key
                      /\ rent'[q].ptr.file_id \in DOMAIN files
                      /\ rent'[q].ptr.file_id <= current_file_id
                      /\ CanOpen(rent'[q].ptr.file_id) =>
                           Holds(files, rent'[q].ptr, Rec(rkey'[q], rent'[q].val))
    BY <1>1 DEF ReadInv, CanOpen, logVars
  <2>1. CASE q = r
    <3>1. rkey'[q] = k /\ rent'[q] = index[k]
      BY <1>1, <2>1, TypesNow
    <3>2. /\ index[k].ptr.file_id \in dir
          /\ Holds(files, index[k].ptr, Rec(k, index[k].val))
      BY <1>1 DEF IndInv, IndexInv
    <3> QED BY <3>1, <3>2 DEF IndInv, TypeOK, LogInv
  <2>2. CASE q # r
    BY <1>1, <2>2, TypesNow DEF IndInv, ReadInv
  <2> QED BY <2>1, <2>2
<1> QED BY <1>2, <1>3, <1>4, <1>5, <1>6 DEF IndInv

LEMMA GetReadInv ==
  ASSUME IndInv, NEW r \in Reader, GetRead(r), OneAppend'
  PROVE  IndInv'
<1> DEFINE file == rent[r].ptr.file_id
<1>1. /\ rpc[r] = "read"
      /\ readers' = IF CanOpen(file) THEN readers \cup {file} ELSE readers
      /\ rpc' = [rpc EXCEPT ![r] = "idle"] /\ rkey' = [rkey EXCEPT ![r] = 0]
      /\ rent' = [rent EXCEPT ![r] = Deleted]
      /\ UNCHANGED <<logVars, counters, index, appVars, gcVars>>
  BY DEF GetRead
<1>2. readers' \subseteq readers \cup dir /\ readers' \subseteq DOMAIN files
  BY <1>1 DEF CanOpen, IndInv, TypeOK
<1>3. Deleted \in IndexEntry
  BY TypesNow, NothingTypes
<1>4. TypeOK'
  BY <1>1, <1>2, <1>3, TypesNow, TypesKept DEF appVars, gcVars
<1>5. LogInv' /\ IndexInv' /\ LogGrows
  BY <1>1, LogUnchanged
<1>6. GCInv'
  BY <1>1, <1>5, GCKept
<1>7. AppendInv' /\ WriterInv' /\ RewriteInv'
  BY <1>1 DEF IndInv, AppendInv, WriterInv, RewriteInv, MustRotate, appVars, gcVars, logVars
<1>8. ReadInv'
  <2> SUFFICES ASSUME NEW q \in Reader, rpc'[q] = "read"
               PROVE  /\ rkey'[q] \in Key
                      /\ rent'[q].ptr.file_id \in DOMAIN files
                      /\ rent'[q].ptr.file_id <= current_file_id
                      /\ rent'[q].ptr.file_id \in dir \cup readers' =>
                           Holds(files, rent'[q].ptr, Rec(rkey'[q], rent'[q].val))
    BY <1>1 DEF ReadInv, CanOpen, logVars
  <2>1. /\ q # r /\ rpc[q] = "read" /\ rkey'[q] = rkey[q] /\ rent'[q] = rent[q]
    BY <1>1, TypesNow
  <2> QED BY <1>2, <2>1 DEF IndInv, ReadInv, CanOpen
<1> QED BY <1>4, <1>5, <1>6, <1>7, <1>8 DEF IndInv

-----------------------------------------------------------------------------
(* The steps of RunGC. *)

\* What a step of RunGC that leaves log, index and appenders alone has to keep.
LEMMA GCStep ==
  ASSUME IndInv, UNCHANGED <<logVars, counters, index, appVars, readVars>>,
         readers' \subseteq readers \cup dir,
         gpc' \in {"idle", "scan", "rewrite", "delete"},
         gc_file_id' \in 0 .. Len(files), scanned' \in Nat,
         live_bytes' \in 0 .. scanned', live_records' \in Seq(Nat), OneAppend',
         GCInv', WriterInv', RewriteInv'
  PROVE  IndInv'
<1>1. readers' \subseteq DOMAIN files
  BY DEF IndInv, TypeOK
<1>2. TypeOK'
  BY <1>1, TypesNow, TypesKept DEF appVars, readVars
<1>3. LogInv' /\ IndexInv' /\ LogGrows
  BY LogUnchanged
<1>4. ReadInv'
  BY <1>3, ReadsKept
<1>5. AppendInv'
  BY DEF IndInv, AppendInv, MustRotate, appVars, logVars
<1> QED BY <1>2, <1>3, <1>4, <1>5 DEF IndInv

LEMMA GCPickInv ==
  ASSUME IndInv, GCPick, OneAppend'
  PROVE  IndInv'
<1>1. /\ gpc = "idle" /\ gpc' = "scan" /\ scanned' = 0 /\ live_bytes' = 0
      /\ live_records' = << >>
      /\ gc_file_id' \in dir /\ gc_file_id' < current_file_id
      /\ UNCHANGED <<logVars, readers, counters, index, appVars, readVars>>
  BY DEF GCPick, Completed
<1>2. gc_file_id' \in 0 .. Len(files)
  BY <1>1 DEF IndInv, TypeOK
<1>3. GCInv'
  <2>1. /\ Len(files[gc_file_id']) \in Nat /\ Layout(files[gc_file_id'])
    BY <1>1 DEF IndInv, TypeOK, LogInv
  <2>2. 0 < Len(files[gc_file_id']) => files[gc_file_id'][1] # Torn
    BY <2>1 DEF Layout
  <2> QED BY <1>1, <2>1, <2>2, PointerFacts DEF IndInv, GCInv, logVars
<1>4. WriterInv' /\ RewriteInv'
  BY <1>1 DEF WriterInv, RewriteInv, IndInv, appVars
<1> QED BY <1>1, <1>2, <1>3, <1>4, GCStep

\* The scan passes a record: if the index points to it, it is in live_records now.
LEMMA GCScanInv ==
  ASSUME IndInv, GCScan, OneAppend'
  PROVE  IndInv'
<1> DEFINE rec == files[gc_file_id][scanned + 1]
           here == Pointer(gc_file_id, scanned)
<1>1. /\ gpc = "scan" /\ apc["writer"] = "idle" /\ ~StopsAt(scanned)
      /\ live_records' = IF IsLive(rec.key, here) THEN Append(live_records, scanned)
                                                  ELSE live_records
      /\ live_bytes' = IF IsLive(rec.key, here) THEN live_bytes + RecordSize(rec)
                                                ELSE live_bytes
      /\ scanned' = scanned + RecordSize(rec)
      /\ UNCHANGED <<logVars, readers, counters, index, appVars, gpc, gc_file_id,
                     readVars>>
  BY DEF GCScan, memtable_mutex_free
<1>2. /\ gc_file_id \in dir /\ gc_file_id < current_file_id
      /\ gc_file_id \in DOMAIN files /\ scanned \in Nat
      /\ here.file_id = gc_file_id /\ here.offset = scanned
      /\ live_records \in Seq(Nat)
  BY <1>1 DEF IndInv, TypeOK, GCInv, Pointer
<1>3. /\ scanned < Len(files[gc_file_id]) /\ rec # Torn /\ rec \in Record
      /\ RecordSize(rec) \in Nat /\ RecordAt(files[gc_file_id], scanned)
      /\ Len(files[gc_file_id]) \in Nat
  <2>1. scanned < Len(files[gc_file_id]) /\ rec # Torn
    BY <1>1, <1>2, ReadAtHolds DEF StopsAt
  <2>2. files[gc_file_id] \in Seq(Record) /\ Layout(files[gc_file_id])
    BY <1>2 DEF IndInv, TypeOK, LogInv
  <2>3. scanned \in 0 .. Len(files[gc_file_id]) - 1 /\ rec \in Record
    BY <1>2, <2>1, <2>2
  <2> QED BY <2>1, <2>2, <2>3, RecordSizes DEF Layout
<1>4. /\ live_records' \in Seq(Nat)
      /\ \A i \in DOMAIN live_records' :
           live_records'[i] = scanned \/ \E j \in DOMAIN live_records :
                                           live_records'[i] = live_records[j]
      /\ \A i \in DOMAIN live_records :
           i \in DOMAIN live_records' /\ live_records'[i] = live_records[i]
      /\ IsLive(rec.key, here) =>
           \E i \in DOMAIN live_records' : live_records'[i] = scanned
  <2>1. CASE IsLive(rec.key, here)
    <3>1. live_records' = Append(live_records, scanned)
      BY <1>1, <2>1
    <3>2. /\ live_records' \in Seq(Nat)
          /\ DOMAIN live_records' = 1 .. Len(live_records) + 1
          /\ DOMAIN live_records = 1 .. Len(live_records)
          /\ Len(live_records) \in Nat
          /\ \A i \in 1 .. Len(live_records) : live_records'[i] = live_records[i]
          /\ live_records'[Len(live_records) + 1] = scanned
      BY <1>2, <3>1
    <3>3. ASSUME NEW i \in DOMAIN live_records'
          PROVE  live_records'[i] = scanned \/ \E j \in DOMAIN live_records :
                                                 live_records'[i] = live_records[j]
      BY <3>2
    <3>4. Len(live_records) + 1 \in DOMAIN live_records'
      BY <3>2
    <3> QED BY <3>2, <3>3, <3>4
  <2>2. CASE ~IsLive(rec.key, here)
    BY <1>1, <1>2, <2>2
  <2> QED BY <2>1, <2>2
<1>5. GCInv'
  <2>1. \A i \in DOMAIN live_records' :
          /\ live_records'[i] < Len(files[gc_file_id])
          /\ files[gc_file_id][live_records'[i] + 1] # Torn
    BY <1>1, <1>3, <1>4 DEF IndInv, GCInv
  <2>1a. /\ scanned' <= Len(files[gc_file_id])
         /\ scanned' < Len(files[gc_file_id]) => files[gc_file_id][scanned' + 1] # Torn
    BY <1>1, <1>3 DEF RecordAt
  <2>2. ASSUME NEW k \in Key, index[k].type = "kValue",
               index[k].ptr.file_id = gc_file_id
        PROVE  \/ \E i \in DOMAIN live_records' : live_records'[i] = index[k].ptr.offset
               \/ index[k].ptr.offset >= scanned'
    <3>1. index[k].ptr.offset \in Nat /\ index[k].ptr \in FilePointer
      BY TypesNow DEF IndexEntry, FilePointer
    <3>2. \/ \E i \in DOMAIN live_records : live_records[i] = index[k].ptr.offset
          \/ index[k].ptr.offset >= scanned
      BY <1>1, <2>2 DEF IndInv, GCInv
    <3>3. CASE \E i \in DOMAIN live_records : live_records[i] = index[k].ptr.offset
      BY <1>4, <3>3
    <3>4. CASE index[k].ptr.offset = scanned
      <4>1. index[k].ptr = here
        BY <2>2, <3>1, <3>4 DEF FilePointer, Pointer
      <4>2. rec = Rec(k, index[k].val)
        BY <2>2, <3>4 DEF IndInv, IndexInv, Holds
      <4>3. rec.key = k
        BY <4>2 DEF Rec
      <4>4. IsLive(rec.key, here)
        BY <2>2, <4>1, <4>3 DEF IsLive
      <4> QED BY <1>4, <3>4, <4>4
    <3>5. CASE index[k].ptr.offset > scanned
      <4>1. SUFFICES ASSUME index[k].ptr.offset < scanned + RecordSize(rec) PROVE FALSE
        BY <1>1, <1>2, <1>3, <3>1
      <4>2. index[k].ptr.offset + 1 \in scanned + 2 .. scanned + RecordSize(rec)
        BY <1>2, <1>3, <3>1, <3>5, <4>1
      <4>3. files[gc_file_id][index[k].ptr.offset + 1] = Torn
        BY <1>3, <4>2 DEF RecordAt
      <4>4. files[gc_file_id][index[k].ptr.offset + 1] = Rec(k, index[k].val)
        BY <2>2 DEF IndInv, IndexInv, Holds
      <4> QED BY <4>3, <4>4, RecordNotTorn
    <3> QED BY <1>2, <3>1, <3>2, <3>3, <3>4, <3>5
  <2> QED BY <1>1, <1>2, <2>1, <2>1a, <2>2 DEF GCInv, logVars
<1>6. WriterInv' /\ RewriteInv'
  BY <1>1 DEF WriterInv, RewriteInv, IndInv, appVars
<1>7. /\ gc_file_id' \in 0 .. Len(files) /\ scanned' \in Nat
      /\ live_bytes' \in 0 .. scanned'
      /\ gpc' \in {"idle", "scan", "rewrite", "delete"}
  BY <1>1, <1>2, <1>3, TypesNow
<1> QED BY <1>1, <1>4, <1>5, <1>6, <1>7, GCStep

\* The scan ends at the end of the file, and no Write has a record in it.
LEMMA GCDecideInv ==
  ASSUME IndInv, GCDecide, OneAppend'
  PROVE  IndInv'
<1>1. /\ gpc = "scan" /\ StopsAt(scanned)
      /\ UNCHANGED <<logVars, readers, counters, index, appVars, readVars>>
  BY DEF GCDecide, ScanEnds
<1>2. CASE scanned > 0 /\ gpc' = "rewrite" /\ UNCHANGED <<gc_file_id, scanned, live_bytes,
                                                           live_records>>
  <2>1. /\ gc_file_id \in DOMAIN files /\ scanned \in Nat
        /\ Pointer(gc_file_id, scanned).file_id = gc_file_id
        /\ Pointer(gc_file_id, scanned).offset = scanned
    BY <1>1 DEF IndInv, TypeOK, GCInv, Pointer
  <2>2. ~(scanned < Len(files[gc_file_id]))
    BY <1>1, <2>1, ReadAtHolds DEF StopsAt, IndInv, GCInv
  <2>3. Len(files[gc_file_id]) \in Nat
    BY <2>1 DEF IndInv, TypeOK
  <2>4. ASSUME NEW k \in Key, index[k].type = "kValue",
               index[k].ptr.file_id = gc_file_id
        PROVE  \E i \in DOMAIN live_records : live_records[i] = index[k].ptr.offset
    <3>1. index[k].ptr.offset \in Nat /\ index[k].ptr.offset < Len(files[gc_file_id])
      BY <2>4, PointerFacts DEF IndInv, IndexInv, Holds
    <3> QED BY <1>1, <2>1, <2>2, <2>3, <2>4, <3>1 DEF IndInv, GCInv
  <2>5. GCInv'
    BY <1>1, <1>2, <2>4 DEF IndInv, GCInv, logVars
  <2>6. WriterInv' /\ RewriteInv'
    BY <1>1, <1>2, <2>1 DEF IndInv, WriterInv, RewriteInv, appVars
  <2> QED BY <1>1, <1>2, <2>5, <2>6, TypesNow, GCStep
<1>3. CASE GCOver
  <2>1. RewriteInv'
    BY <1>1 DEF IndInv, RewriteInv, appVars
  <2> QED BY <1>1, <1>3, <2>1, GCOverTypes, GCStep
<1> QED BY <1>2, <1>3 DEF GCDecide

LEMMA GCRewriteInv ==
  ASSUME IndInv, GCRewrite, OneAppend'
  PROVE  IndInv'
<1> DEFINE o == Head(live_records)
           rec == files[gc_file_id][o + 1]
<1>1. /\ gpc = "rewrite" /\ live_records # << >> /\ AppendBegin("gc", rec)
      /\ readers' = readers \cup {gc_file_id}
      /\ UNCHANGED <<counters, index, gcVars, readVars>>
      /\ "gc" \in Appender /\ "writer" \in Appender
  BY DEF GCRewrite, Appender
<1>2. /\ gc_file_id \in dir /\ gc_file_id \in DOMAIN files
      /\ gc_file_id < current_file_id
      /\ gc_file_id \in Nat /\ current_file_id \in Nat
      /\ files[gc_file_id] \in Seq(Record)
  BY <1>1 DEF IndInv, GCInv, TypeOK
<1>3. o \in Nat /\ o < Len(files[gc_file_id]) /\ rec # Torn
  <2>1. 1 \in DOMAIN live_records /\ o = live_records[1] /\ o \in Nat
    BY <1>1 DEF IndInv, TypeOK
  <2> QED BY <1>1, <2>1 DEF IndInv, GCInv
<1>4. /\ o + 1 \in DOMAIN files[gc_file_id]
      /\ rec \in Record /\ rec.key \in Key /\ RecordSize(rec) > 0
  <2>1. o \in 0 .. Len(files[gc_file_id]) - 1 /\ Layout(files[gc_file_id])
    BY <1>2, <1>3 DEF IndInv, LogInv
  <2>2. RecordAt(files[gc_file_id], o)
    BY <1>3, <2>1 DEF Layout
  <2> QED BY <1>2, <1>3, <2>2 DEF RecordAt
<1>5. Holds(files, Pointer(gc_file_id, o), rec)
  BY <1>2, <1>3 DEF Holds, Pointer
<1> HIDE DEF rec, o
<1>6. /\ LogGrows /\ LogInv' /\ current_file_id' \in dir'
      /\ OffsetOK'
  BY <1>1, AppendBeginLog
<1>7. /\ AppendInv'
      /\ apc' \in [Appender -> {"idle", "append", "done"}]
      /\ arec' \in [Appender -> Record]
      /\ aptr' \in [Appender -> FilePointer']
  BY <1>1, <1>4, AppendBeginLocals
<1>8. TypeOK'
  <2>1. /\ IndexEntry \subseteq IndexEntry' /\ Len(files) \in Nat
        /\ Len(files') \in Nat /\ Len(files) <= Len(files')
    BY <1>6, PointersKept DEF IndInv, TypeOK, LogGrows
  <2>2. index' \in [Key -> IndexEntry'] /\ rent' \in [Reader -> IndexEntry']
    BY <1>1, <2>1 DEF IndInv, TypeOK, readVars
  <2>3. readers' \subseteq DOMAIN files' /\ gc_file_id' \in 0 .. Len(files')
    <3>1. readers \subseteq DOMAIN files /\ gc_file_id \in 0 .. Len(files)
      BY TypesNow
    <3>2. DOMAIN files \subseteq DOMAIN files'
      BY <1>6, <2>1 DEF LogGrows, IndInv, TypeOK
    <3>3. gc_file_id' = gc_file_id
      BY <1>1 DEF gcVars
    <3> QED BY <1>1, <1>2, <2>1, <3>1, <3>2, <3>3
  <2>4. writer' \in BOOLEAN
    BY <1>1 DEF AppendBegin, IndInv, TypeOK
  <2> QED BY <1>1, <1>6, <1>7, <2>2, <2>3, <2>4
          DEF IndInv, TypeOK, LogGrows, OffsetOK, gcVars, readVars, counters
<1>9. IndexInv' /\ ReadInv' /\ GCInv'
  BY <1>1, <1>2, <1>6, IndexKept, ReadsKept, GCKept
<1>10. /\ aptr'["gc"].file_id = current_file_id' /\ arec'["gc"] = rec
       /\ apc'["writer"] = apc["writer"] /\ aptr'["writer"] = aptr["writer"]
  BY <1>1 DEF AppendBegin, Pointer, Appender, IndInv, TypeOK
<1>11. WriterInv'
  BY <1>1, <1>10 DEF WriterInv, IndInv, gcVars
<1>12. RewriteInv'
  <2>1. Holds(files', Pointer(gc_file_id, o), rec)
    BY <1>1, <1>3, <1>5, <1>6, CollectedKept
  <2>2. gc_file_id < current_file_id'
    BY <1>2, <1>6 DEF LogGrows
  <2>3. /\ gpc' = gpc /\ live_records' = live_records /\ gc_file_id' = gc_file_id
    BY <1>1 DEF gcVars
  <2>4. Holds(files', Pointer(gc_file_id', Head(live_records')), arec'["gc"])
    BY <1>10, <2>1, <2>3 DEF o
  <2> QED BY <1>1, <1>10, <2>2, <2>3, <2>4 DEF RewriteInv
<1> QED BY <1>6, <1>7, <1>8, <1>9, <1>11, <1>12 DEF IndInv

LEMMA GCRewriteFailsInv ==
  ASSUME IndInv, GCRewriteFails, OneAppend'
  PROVE  IndInv'
<1>1. /\ gpc = "rewrite" /\ apc["gc"] = "idle"
      /\ readers' = readers \cup {gc_file_id} /\ GCOver
      /\ UNCHANGED <<counters, index, appVars, readVars>>
  BY DEF GCRewriteFails
<1>2. gc_file_id \in dir
  BY <1>1 DEF IndInv, GCInv
<1>3. readers' \subseteq DOMAIN files /\ readers' \subseteq readers \cup dir
  BY <1>1, <1>2 DEF IndInv, TypeOK
<1>4. apc'["gc"] = "idle"
  BY <1>1 DEF appVars
<1>5. /\ gpc' \in {"idle", "scan", "rewrite", "delete"}
      /\ gc_file_id' \in 0 .. Len(files) /\ scanned' \in Nat
      /\ live_bytes' \in 0 .. scanned' /\ live_records' \in Seq(Nat)
      /\ GCInv' /\ WriterInv' /\ RewriteInv'
  BY <1>1, <1>4, GCOverTypes
<1>6. CASE \E n \in Nat : RotateFails(n)
  <2>1. LogGrows /\ LogInv'
    BY <1>1, <1>6, RotateFailsLog
  <2>2. TypeOK' /\ AppendInv'
    BY <1>1, <1>3, <1>5, <1>6, RotateFailsTypes
  <2>3. IndexInv' /\ ReadInv'
    BY <1>1, <1>3, <2>1, IndexKept, ReadsKept
  <2> QED BY <1>5, <2>1, <2>2, <2>3 DEF IndInv
<1>7. CASE UNCHANGED logVars
  BY <1>1, <1>3, <1>5, <1>7, GCStep
<1>8. RecordSize(files[gc_file_id][Head(live_records) + 1]) \in Nat
  <2>1. 1 \in DOMAIN live_records /\ Head(live_records) = live_records[1]
    BY DEF GCRewriteFails, IndInv, TypeOK
  <2>2. /\ live_records[1] < Len(files[gc_file_id]) /\ live_records[1] \in Nat
        /\ files[gc_file_id] \in Seq(Record)
    BY <1>1, <1>2, <2>1 DEF IndInv, GCInv, TypeOK
  <2>3. files[gc_file_id][live_records[1] + 1] \in Record
    BY <2>2
  <2> QED BY <2>1, <2>3, RecordSizes
<1> QED BY <1>6, <1>7, <1>8 DEF GCRewriteFails

\* The "CAS update": the pointer that is replaced leads to the record that was
\* copied, so the entry keeps its value, and no other key points to that record.
LEMMA GCUpdateIndex ==
  ASSUME IndInv, GCUpdate
  PROVE  LET k == arec["gc"].key
             here == Pointer(gc_file_id, Head(live_records))
         IN  /\ k \in Key
             /\ \A j \in Key : j # k => index'[j] = index[j] /\ ~IsLive(j, here)
             /\ IsLive(k, here) =>
                  /\ arec["gc"] = Rec(k, index[k].val)
                  /\ index'[k] = Value(index[k].val, aptr["gc"])
                  /\ index[k].val \in AnyVal
             /\ ~IsLive(k, here) => index'[k] = index[k]
             /\ index' \in [Key -> IndexEntry]
<1> DEFINE k == arec["gc"].key
           here == Pointer(gc_file_id, Head(live_records))
<1>1. /\ apc["gc"] = "done"
      /\ index' = IF IsLive(k, here)
                    THEN [index EXCEPT ![k] = Value(arec["gc"].val, aptr["gc"])]
                    ELSE index
  BY DEF GCUpdate
<1>2. /\ k \in Key /\ arec["gc"] \in Record /\ aptr["gc"] \in FilePointer
      /\ Holds(files, here, arec["gc"]) /\ index \in [Key -> IndexEntry]
  BY <1>1, TypesNow DEF IndInv, AppendInv, RewriteInv
<1>3. arec["gc"] = Rec(k, arec["gc"].val) /\ arec["gc"].val \in AnyVal
  BY <1>2, RecordIs
<1>4. ASSUME NEW j \in Key, IsLive(j, here)
      PROVE  arec["gc"] = Rec(j, index[j].val)
  <2>1. Holds(files, here, Rec(j, index[j].val))
    BY <1>4 DEF IsLive, IndInv, IndexInv
  <2> QED BY <1>2, <2>1 DEF Holds
<1>5. \A j \in Key : j # k => ~IsLive(j, here)
  <2> SUFFICES ASSUME NEW j \in Key, IsLive(j, here) PROVE j = k
    OBVIOUS
  <2>1. arec["gc"] = Rec(j, index[j].val)
    BY <1>4
  <2> QED BY <2>1 DEF Rec
<1>6. IsLive(k, here) => arec["gc"] = Rec(k, index[k].val)
                          /\ arec["gc"].val = index[k].val
  <2> SUFFICES ASSUME IsLive(k, here)
               PROVE  arec["gc"] = Rec(k, index[k].val)
                        /\ arec["gc"].val = index[k].val
    OBVIOUS
  <2>1. arec["gc"] = Rec(k, index[k].val)
    BY <1>2, <1>4
  <2> QED BY <2>1 DEF Rec
<1>7. Value(arec["gc"].val, aptr["gc"]) \in IndexEntry
  BY <1>2, <1>3, ValueEntry
<1> HIDE DEF k, here
<1>8. index' \in [Key -> IndexEntry]
  BY <1>1, <1>2, <1>7
<1>9. \A j \in Key : j # k => index'[j] = index[j]
  BY <1>1, <1>2
<1>10. IsLive(k, here) => index'[k] = Value(index[k].val, aptr["gc"])
  BY <1>1, <1>2, <1>6
<1>11. ~IsLive(k, here) => index'[k] = index[k]
  BY <1>1
<1> QED BY <1>2, <1>3, <1>5, <1>6, <1>8, <1>9, <1>10, <1>11 DEF k, here

\* The first of live_records is done with: its key points to the copy, or to a
\* newer record.
LEMMA GCUpdateInv ==
  ASSUME IndInv, GCUpdate, OneAppend'
  PROVE  IndInv'
<1> DEFINE k == arec["gc"].key
           here == Pointer(gc_file_id, Head(live_records))
<1>1. /\ apc["gc"] = "done" /\ AppendOver("gc")
      /\ live_records' = Tail(live_records)
      /\ apc["writer"] = "idle"
      /\ UNCHANGED <<logVars, readers, counters, gpc, gc_file_id, scanned,
                     live_bytes, readVars>>
  BY DEF GCUpdate, memtable_mutex_free
<1>2. /\ k \in Key
      /\ \A j \in Key : j # k => index'[j] = index[j] /\ ~IsLive(j, here)
      /\ IsLive(k, here) =>
           /\ arec["gc"] = Rec(k, index[k].val)
           /\ index'[k] = Value(index[k].val, aptr["gc"])
           /\ index[k].val \in AnyVal
      /\ ~IsLive(k, here) => index'[k] = index[k]
      /\ index' \in [Key -> IndexEntry]
  BY GCUpdateIndex
<1>3. /\ gpc = "rewrite" /\ live_records # << >> /\ gc_file_id < aptr["gc"].file_id
      /\ aptr["gc"].file_id \in dir /\ Holds(files, aptr["gc"], arec["gc"])
      /\ gc_file_id \in Nat /\ aptr["gc"] \in FilePointer
      /\ live_records \in Seq(Nat)
  BY <1>1, TypesNow DEF IndInv, RewriteInv, AppendInv
<1>4. /\ AppendInv'
      /\ apc' \in [Appender -> {"idle", "append", "done"}]
      /\ arec' \in [Appender -> Record]
      /\ aptr' \in [Appender -> FilePointer]
      /\ apc'["gc"] = "idle" /\ apc'["writer"] = "idle"
  BY <1>1, AppendOverLocals DEF FilePointer, logVars, Appender
<1> DEFINE tail == Tail(live_records)
<1>5. /\ tail \in Seq(Nat) /\ DOMAIN live_records = 1 .. Len(live_records)
      /\ Len(live_records) \in Nat /\ Len(live_records) # 0
      /\ DOMAIN tail = 1 .. Len(live_records) - 1
      /\ \A i \in 1 .. Len(live_records) - 1 : tail[i] = live_records[i + 1]
      /\ Head(live_records) = live_records[1]
  <2>1. live_records \in Seq(Nat) /\ live_records # << >>
    BY <1>3
  <2>2. /\ tail \in Seq(Nat) /\ Len(tail) = Len(live_records) - 1
        /\ \A i \in 1 .. Len(tail) : tail[i] = live_records[i + 1]
    BY <2>1, HeadTailProperties
  <2>3. /\ DOMAIN live_records = 1 .. Len(live_records)
        /\ Len(live_records) \in Nat /\ Len(live_records) # 0
        /\ Head(live_records) = live_records[1]
    BY <2>1
  <2> HIDE DEF tail
  <2> QED BY <2>2, <2>3, LenProperties
<1>6. tail = live_records'
  BY <1>1
<1> HIDE DEF k, here, tail
<1>7. IsLive(k, here) => /\ index'[k].type = "kValue" /\ index'[k].val = index[k].val
                         /\ index'[k].ptr = aptr["gc"]
  BY <1>2, <1>3, ValueEntry
<1>8. TypeOK'
  BY <1>1, <1>2, <1>4, <1>5, <1>6, TypesNow, TypesKept DEF readVars
<1>9. LogInv' /\ LogGrows
  BY <1>1, LogStays DEF IndInv, LogInv, Aligned, logVars
<1>10. IndexInv'
  <2> SUFFICES ASSUME NEW j \in Key, index'[j].type = "kValue"
               PROVE  /\ index'[j].ptr.file_id \in dir
                      /\ Holds(files, index'[j].ptr, Rec(j, index'[j].val))
    BY <1>1 DEF IndexInv, logVars
  <2>1. CASE index'[j] = index[j]
    BY <2>1 DEF IndInv, IndexInv
  <2>2. CASE j = k /\ IsLive(k, here)
    BY <1>2, <1>3, <1>7, <2>2
  <2> QED BY <1>2, <2>1, <2>2
<1>11. ReadInv'
  BY <1>1, <1>9, ReadsKept
<1>12. GCInv'
  <2>1. /\ gc_file_id \in dir /\ gc_file_id < current_file_id
        /\ scanned <= Len(files[gc_file_id])
        /\ scanned < Len(files[gc_file_id]) => files[gc_file_id][scanned + 1] # Torn
        /\ \A i \in DOMAIN live_records :
             /\ live_records[i] < Len(files[gc_file_id])
             /\ files[gc_file_id][live_records[i] + 1] # Torn
    BY <1>3 DEF IndInv, GCInv
  <2>2. ASSUME NEW i \in DOMAIN tail
        PROVE  /\ tail[i] < Len(files[gc_file_id])
               /\ files[gc_file_id][tail[i] + 1] # Torn
    <3>1. i \in 1 .. Len(live_records) - 1 /\ i + 1 \in DOMAIN live_records
      BY <1>5, <2>2
    <3> QED BY <1>5, <2>1, <3>1
  <2>3. ASSUME NEW j \in Key, index'[j].type = "kValue",
               index'[j].ptr.file_id = gc_file_id
        PROVE  \E i \in DOMAIN tail : tail[i] = index'[j].ptr.offset
    <3>1. ~(j = k /\ IsLive(k, here))
      BY <1>3, <1>7, <2>3 DEF FilePointer
    <3>2. index'[j] = index[j] /\ ~IsLive(j, here)
      BY <1>2, <3>1
    <3>3. index[j].ptr \in FilePointer
      BY TypesNow DEF IndexEntry
    <3>4. index[j].ptr.offset # Head(live_records)
      <4>1. SUFFICES ASSUME index[j].ptr.offset = Head(live_records)
                     PROVE  FALSE
        OBVIOUS
      <4>2. index[j].ptr = Pointer(gc_file_id, Head(live_records))
        BY <2>3, <3>2, <3>3, <4>1 DEF FilePointer, Pointer
      <4> QED BY <2>3, <3>2, <4>2 DEF IsLive, here
    <3>5. PICK i \in DOMAIN live_records : live_records[i] = index[j].ptr.offset
      BY <1>3, <2>3, <3>2 DEF IndInv, GCInv
    <3>6. i # 1
      BY <1>5, <3>4, <3>5
    <3>7. /\ i - 1 \in 1 .. Len(live_records) - 1 /\ (i - 1) + 1 = i
      BY <1>5, <3>5, <3>6
    <3>8. tail[i - 1] = live_records[i] /\ i - 1 \in DOMAIN tail
      BY <1>5, <3>7
    <3> QED BY <3>2, <3>5, <3>8
  <2>4. gpc' = "rewrite" /\ gc_file_id' = gc_file_id
    BY <1>1, <1>3
  <2> QED BY <1>1, <1>6, <2>1, <2>2, <2>3, <2>4 DEF GCInv, logVars
<1>13. WriterInv' /\ RewriteInv'
  BY <1>4 DEF WriterInv, RewriteInv
<1> QED BY <1>4, <1>8, <1>9, <1>10, <1>11, <1>12, <1>13 DEF IndInv

LEMMA GCRemoveReaderInv ==
  ASSUME IndInv, GCRemoveReader, OneAppend'
  PROVE  IndInv'
<1>1. /\ gpc = "rewrite" /\ live_records = << >> /\ gpc' = "delete"
      /\ readers' = readers \ {gc_file_id}
      /\ UNCHANGED <<logVars, counters, index, appVars, gc_file_id, scanned,
                     live_bytes, live_records, readVars>>
  BY DEF GCRemoveReader
<1>2. GCInv'
  BY <1>1 DEF IndInv, GCInv, logVars
<1>3. WriterInv' /\ RewriteInv'
  BY <1>1 DEF IndInv, WriterInv, RewriteInv, appVars
<1> QED BY <1>1, <1>2, <1>3, TypesNow, GCStep

\* Files that nobody names or has open lose their contents, and nothing else does.
LEMMA KeptLog ==
  ASSUME IndInv, NEW names
  PROVE  /\ Kept(files, names) \in Seq(Seq(Record))
         /\ Len(Kept(files, names)) = Len(files)
         /\ DOMAIN Kept(files, names) = DOMAIN files
         /\ \A f \in DOMAIN files : f \in names => Kept(files, names)[f] = files[f]
         /\ \A f \in DOMAIN files : f \notin names => Kept(files, names)[f] = << >>
         /\ Kept(files, names) # << >>
         /\ \A f \in DOMAIN files : Layout(Kept(files, names)[f])
<1> DEFINE kept == Kept(files, names)
<1>1. /\ files \in Seq(Seq(Record)) /\ Len(files) \in Nat
      /\ DOMAIN files = 1 .. Len(files)
      /\ files # << >>
      /\ \A f \in DOMAIN files : Layout(files[f])
  BY DEF IndInv, TypeOK, LogInv
<1>2. /\ kept = [f \in 1 .. Len(files) |-> IF f \in names THEN files[f] ELSE << >>]
  BY <1>1 DEF Kept
<1>3. \A f \in 1 .. Len(files) : kept[f] \in Seq(Record)
  BY <1>1, <1>2
<1>4. kept \in Seq(Seq(Record)) /\ Len(kept) = Len(files)
      /\ DOMAIN kept = DOMAIN files
  BY <1>1, <1>2, <1>3, IsASeq
<1>5. \A f \in DOMAIN files : /\ f \in names => kept[f] = files[f]
                              /\ f \notin names => kept[f] = << >>
  BY <1>1, <1>2
<1>6. kept # << >>
  BY <1>1, <1>4
<1>7. ASSUME NEW f \in DOMAIN files PROVE Layout(kept[f])
  BY <1>1, <1>5, EmptyLayout
<1> QED BY <1>4, <1>5, <1>6, <1>7

\* A record in a file that is kept stays where it was.
LEMMA KeptHolds ==
  ASSUME IndInv, NEW names, NEW p, p.file_id \in names, NEW rec, Holds(files, p, rec)
  PROVE  Holds(Kept(files, names), p, rec)
<1>1. /\ p.file_id \in DOMAIN files
      /\ Kept(files, names)[p.file_id] = files[p.file_id]
      /\ DOMAIN Kept(files, names) = DOMAIN files
  BY KeptLog DEF Holds
<1> QED BY <1>1 DEF Holds

\* The file goes when nothing in the index, and no Write on its way there, points
\* into it.
LEMMA GCDeleteInv ==
  ASSUME IndInv, GCDelete, OneAppend'
  PROVE  IndInv'
<1> DEFINE names == dir' \cup readers
<1>1. /\ gpc = "delete" /\ dir' = dir \ {gc_file_id}
      /\ files' = Kept(files, names) /\ GCOver
      /\ UNCHANGED <<current_file_id, current_offset, writer, readers, counters,
                     index, appVars, readVars>>
  BY DEF GCDelete
<1>2. /\ gc_file_id \in dir /\ gc_file_id < current_file_id
      /\ gc_file_id \in Nat /\ current_file_id \in Nat
      /\ live_records = << >>
      /\ apc["gc"] = "idle"
      /\ apc["writer"] # "idle" => aptr["writer"].file_id # gc_file_id
      /\ writer => current_file_id \in dir'
  BY <1>1 DEF IndInv, GCInv, TypeOK, RewriteInv, WriterInv
<1> HIDE DEF names
<1>3. /\ files' \in Seq(Seq(Record)) /\ Len(files') = Len(files)
      /\ DOMAIN files' = DOMAIN files /\ files' # << >>
      /\ \A f \in DOMAIN files : f \in names => files'[f] = files[f]
      /\ \A f \in DOMAIN files : Layout(files'[f])
  BY <1>1, KeptLog
<1>4. \A p, rec : p.file_id \in names /\ Holds(files, p, rec) => Holds(files', p, rec)
  BY <1>1, KeptHolds
<1>5. /\ gpc' = "idle" /\ gpc' \in {"idle", "scan", "rewrite", "delete"}
      /\ gc_file_id' \in 0 .. Len(files) /\ scanned' \in Nat
      /\ live_bytes' \in 0 .. scanned' /\ live_records' \in Seq(Nat) /\ GCInv' /\ WriterInv' /\ RewriteInv'
  BY <1>1, <1>2, GCOverTypes DEF appVars
<1>6. TypeOK'
  <2>1. FilePointer' = FilePointer /\ IndexEntry' = IndexEntry
    BY <1>3 DEF FilePointer, IndexEntry
  <2>2. dir' \subseteq DOMAIN files' /\ readers' \subseteq DOMAIN files'
    BY <1>1, <1>3 DEF IndInv, TypeOK
  <2>3. writer => files'[current_file_id] = files[current_file_id]
    BY <1>1, <1>2, <1>3 DEF IndInv, TypeOK, names
  <2> QED BY <1>1, <1>2, <1>3, <1>5, <2>1, <2>2, <2>3
          DEF IndInv, TypeOK, counters, appVars, readVars
<1>7. LogInv'
  <2>1. writer' => current_offset' = Len(files'[current_file_id'])
    BY <1>1, <1>2, <1>3 DEF IndInv, LogInv, Aligned, TypeOK, names
  <2> QED BY <1>1, <1>3, <2>1 DEF IndInv, LogInv, Aligned
<1>8. IndexInv'
  <2> SUFFICES ASSUME NEW k \in Key, index[k].type = "kValue"
               PROVE  /\ index[k].ptr.file_id \in dir'
                      /\ Holds(files', index[k].ptr, Rec(k, index[k].val))
    BY <1>1 DEF IndexInv
  <2>1. index[k].ptr.file_id # gc_file_id
    BY <1>1, <1>2 DEF IndInv, GCInv
  <2>2. index[k].ptr.file_id \in dir' /\ index[k].ptr.file_id \in names
    BY <1>1, <2>1 DEF IndInv, IndexInv, names
  <2> QED BY <1>4, <2>2 DEF IndInv, IndexInv
<1>9. ReadInv'
  <2> SUFFICES ASSUME NEW r \in Reader, rpc[r] = "read"
               PROVE  /\ rkey[r] \in Key
                      /\ rent[r].ptr.file_id \in DOMAIN files'
                      /\ rent[r].ptr.file_id <= current_file_id
                      /\ rent[r].ptr.file_id \in dir' \cup readers =>
                           Holds(files', rent[r].ptr, Rec(rkey[r], rent[r].val))
    BY <1>1 DEF ReadInv, CanOpen, readVars
  <2>1. ASSUME rent[r].ptr.file_id \in dir' \cup readers
        PROVE  Holds(files', rent[r].ptr, Rec(rkey[r], rent[r].val))
    <3>1. rent[r].ptr.file_id \in names /\ CanOpen(rent[r].ptr.file_id)
      BY <1>1, <2>1 DEF CanOpen, names
    <3> QED BY <1>4, <3>1 DEF IndInv, ReadInv
  <2> QED BY <1>3, <2>1 DEF IndInv, ReadInv
<1>10. AppendInv'
  <2> SUFFICES ASSUME NEW b \in Appender, apc[b] # "idle"
               PROVE  /\ apc[b] = "append" =>
                           /\ writer /\ ~MustRotate(RecordSize(arec[b]))
                           /\ aptr[b] = Pointer(current_file_id, current_offset)
                      /\ apc[b] = "done" =>
                           aptr[b].file_id \in dir' /\ Holds(files', aptr[b], arec[b])
                      /\ arec[b].key \in Key /\ RecordSize(arec[b]) > 0
    BY <1>1 DEF AppendInv, MustRotate, appVars
  <2>1. aptr[b].file_id # gc_file_id
    BY <1>2 DEF Appender
  <2>2. apc[b] = "done" => aptr[b].file_id \in dir' /\ aptr[b].file_id \in names
    BY <1>1, <2>1 DEF IndInv, AppendInv, names
  <2> QED BY <1>4, <2>2 DEF IndInv, AppendInv
<1> QED BY <1>5, <1>6, <1>7, <1>8, <1>9, <1>10 DEF IndInv

-----------------------------------------------------------------------------
(* A crash. *)

\* A directory that is not empty has a newest file.
LEMMA NewestFile ==
  ASSUME NEW n \in Nat, NEW S \in SUBSET (1 .. n), S # {}
  PROVE  \E f \in S : \A g \in S : g <= f
<1> DEFINE Bound == {m \in Nat : \A g \in S : g <= m}
<1>1. n \in Bound
  OBVIOUS
<1>2. PICK m \in Bound : \A b \in Bound : ~(<<b, m>> \in OpToRel(<, Nat))
  BY <1>1, NatLessThanWellFounded, WFMin, Zenon
<1>3. m \in S
  <2> SUFFICES ASSUME m \notin S PROVE FALSE
    OBVIOUS
  <2>1. m - 1 \in Nat /\ m - 1 \in Bound
    <3>1. m \in Nat /\ \A g \in S : g <= m
      BY <1>2
    <3>2. ASSUME NEW g \in S PROVE g <= m - 1 /\ m >= 1
      <4>1. g \in 1 .. n /\ g # m /\ g <= m
        BY <3>1
      <4> QED BY <3>1, <4>1
    <3>3. m >= 1
      BY <3>2
    <3> QED BY <3>1, <3>2, <3>3
  <2>2. <<m - 1, m>> \in OpToRel(<, Nat)
    BY <2>1 DEF OpToRel
  <2> QED BY <1>2, <2>1, <2>2
<1> QED BY <1>2, <1>3

\* The next start finds what the index points to, and goes on behind the newest
\* record of the newest file.
LEMMA CrashInv ==
  ASSUME IndInv, Crash, OneAppend'
  PROVE  IndInv'
<1> DEFINE newest == RecoverFileIds
<1>1. /\ crashes < MaxCrashes /\ crashes' = crashes + 1
      /\ files' = Kept(files, dir) /\ current_file_id' = newest
      /\ current_offset' = Len(files'[newest]) /\ dir' = dir \cup {newest}
      /\ writer' = TRUE /\ readers' = {} /\ puts' = puts /\ failures' = failures /\ index' = index
      /\ GCOver
  BY DEF Crash, Reopen
<1>2. /\ apc' = [a \in Appender |-> "idle"]
      /\ arec' = [a \in Appender |-> NoRec]
      /\ aptr' = [a \in Appender |-> NoPointer]
      /\ rpc' = [r \in Reader |-> "idle"]
      /\ rkey' = [r \in Reader |-> 0]
      /\ rent' = [r \in Reader |-> Deleted]
  BY DEF Crash, Reopen
<1>3. /\ files \in Seq(Seq(Record)) /\ Len(files) \in Nat /\ files # << >>
      /\ DOMAIN files = 1 .. Len(files) /\ dir \subseteq DOMAIN files
  BY DEF IndInv, TypeOK, LogInv
<1>4. newest \in DOMAIN files /\ newest \in Nat /\ \A f \in dir : f <= newest
  <2>1. CASE dir = {}
    <3>1. newest = 1 /\ Len(files) # 0
      BY <1>3, <2>1 DEF RecoverFileIds
    <3> QED BY <1>3, <2>1, <3>1
  <2>2. CASE dir # {}
    <3>1. \E f \in dir : \A g \in dir : g <= f
      BY <1>3, <2>2, NewestFile
    <3>2. newest = CHOOSE f \in dir : \A g \in dir : g <= f
      BY <2>2 DEF RecoverFileIds
    <3>3. newest \in dir /\ \A g \in dir : g <= newest
      BY <3>1, <3>2
    <3> QED BY <1>3, <3>3
  <2> QED BY <2>1, <2>2
<1> HIDE DEF newest
<1>5. /\ files' \in Seq(Seq(Record)) /\ Len(files') = Len(files)
      /\ DOMAIN files' = DOMAIN files /\ files' # << >>
      /\ \A f \in DOMAIN files : Layout(files'[f])
  BY <1>1, KeptLog
<1>6. /\ gpc' = "idle" /\ gpc' \in {"idle", "scan", "rewrite", "delete"}
      /\ gc_file_id' \in 0 .. Len(files) /\ scanned' \in Nat
      /\ live_bytes' \in 0 .. scanned' /\ live_records' \in Seq(Nat) /\ GCInv' /\ WriterInv' /\ RewriteInv'
  BY <1>1, <1>2, GCOverTypes DEF Appender
<1>7. TypeOK'
  <2>1. FilePointer' = FilePointer /\ IndexEntry' = IndexEntry
    BY <1>5 DEF FilePointer, IndexEntry
  <2>2. NoRec \in Record /\ NoPointer \in FilePointer /\ Deleted \in IndexEntry
    BY <1>3, NothingTypes
  <2>5. /\ apc' \in [Appender -> {"idle", "append", "done"}]
        /\ arec' \in [Appender -> Record] /\ aptr' \in [Appender -> FilePointer]
        /\ rpc' \in [Reader -> {"idle", "read"}]
        /\ rkey' \in [Reader -> Key \cup {0}] /\ rent' \in [Reader -> IndexEntry]
    BY <1>2, <2>2
  <2>6. /\ dir' \subseteq DOMAIN files' /\ readers' \subseteq DOMAIN files'
        /\ current_file_id' \in Nat /\ current_file_id' \in dir'
    BY <1>1, <1>3, <1>4, <1>5
  <2>7. writer' \in BOOLEAN
    BY <1>1
  <2>8. OffsetOK' /\ crashes' \in 0 .. MaxCrashes
    <3>1. files'[newest] \in Seq(Record) /\ Layout(files'[newest])
      BY <1>4, <1>5
    <3>2. Len(files'[newest]) \in Nat
      BY <3>1
    <3>3. OffsetOK'
      BY <1>1, <3>1, <3>2 DEF OffsetOK, Layout
    <3> QED BY <1>1, <3>3, BoundsAssumption DEF IndInv, TypeOK
  <2>9. /\ puts' \in 0 .. MaxPuts /\ failures' \in 0 .. MaxFailures
        /\ index' \in [Key -> IndexEntry']
    BY <1>1, <2>1 DEF IndInv, TypeOK
  <2> QED BY <1>5, <1>6, <2>1, <2>5, <2>6, <2>7, <2>8, <2>9 DEF TypeOK, OffsetOK
<1>8. LogInv'
  <2>1. newest <= newest
    BY <1>4
  <2> QED BY <1>1, <1>4, <1>5, <2>1 DEF LogInv, Aligned
<1>9. IndexInv'
  <2> SUFFICES ASSUME NEW k \in Key, index[k].type = "kValue"
               PROVE  /\ index[k].ptr.file_id \in dir'
                      /\ Holds(files', index[k].ptr, Rec(k, index[k].val))
    BY <1>1 DEF IndexInv
  <2> QED BY <1>1, KeptHolds DEF IndInv, IndexInv
<1>10. ReadInv' /\ AppendInv'
  BY <1>2 DEF ReadInv, AppendInv
<1> QED BY <1>6, <1>7, <1>8, <1>9, <1>10 DEF IndInv

-----------------------------------------------------------------------------
(* The invariant. *)

LEMMA InitInv == Init => IndInv
<1> SUFFICES ASSUME Init PROVE IndInv
  OBVIOUS
<1>1. PICK k \in Key, old \in Sizes \cup {0}, new \in Sizes \cup {0} :
        /\ old > 0 /\ new > 0 => old + new <= FileLimit
        /\ files = <<Bytes(Rec(k, Val(0, old))) \o Bytes(Rec(k, Val(1, new)))>>
        /\ index = [j \in Key |-> IF j = k /\ new > 0
                                     THEN Value(Val(1, new), Pointer(1, old))
                                     ELSE Deleted]
  BY DEF Init
<1> DEFINE rec1 == Rec(k, Val(0, old))
           rec2 == Rec(k, Val(1, new))
           file1 == Bytes(rec1)
           first == file1 \o Bytes(rec2)
<1>2. /\ old \in Nat /\ new \in Nat /\ FileLimit \in Nat \ {0}
      /\ MaxPuts \in Nat /\ MaxPuts >= 1 /\ MaxFailures \in Nat /\ MaxCrashes \in Nat
  BY SizesAssumption, FileLimitAssumption, BoundsAssumption
<1>3. /\ rec1 \in Record /\ rec1.key \in Key /\ RecordSize(rec1) = old
      /\ rec2 \in Record /\ rec2.key \in Key /\ RecordSize(rec2) = new
      /\ Val(1, new) \in AnyVal
  <2>1. /\ Val(0, old) \in AnyVal /\ Val(0, old).size = old
        /\ Val(1, new) \in AnyVal /\ Val(1, new).size = new
    BY <1>2 DEF Val, AnyVal
  <2> QED BY <2>1 DEF Rec, Record, RecordSize
<1>4. /\ << >> \in Seq(Record) /\ Len(<< >>) = 0 /\ Layout(<< >>)
      /\ \A s \in Seq(Record) : << >> \o s = s /\ s \o << >> = s
  BY EmptyLayout, ConcatEmptySeq
<1>5. \A rec \in Record : RecordSize(rec) = 0 => Bytes(rec) = << >>
  BY DEF Bytes, FirstBytes
<1>6. file1 \in Seq(Record) /\ Len(file1) = old
  <2> HIDE DEF rec1
  <2>1. Bytes(rec1) \in Seq(Record)
    <3>1. Torn \in Record
      BY BoundsAssumption DEF Torn, NoRec, Rec, NoVal, Val, Record, AnyVal
    <3> QED BY <1>2, <1>3, <3>1 DEF Bytes, FirstBytes
  <2>2. << >> \o Bytes(rec1) = Bytes(rec1)
    BY <1>4, <2>1
  <2>3. Len(<< >> \o Bytes(rec1)) = Len(<< >>) + RecordSize(rec1)
    BY <1>3, <1>4, BytesBehind
  <2> QED BY <1>2, <1>3, <1>4, <2>1, <2>2, <2>3
<1>7. Layout(file1)
  <2>1. CASE old = 0
    BY <1>3, <1>5, <2>1, EmptyLayout
  <2>2. CASE old # 0
    <3>1. ~FullAt(Len(<< >>), RecordSize(rec1)) /\ RecordSize(rec1) > 0
      BY <1>2, <1>3, <1>4, <2>2 DEF FullAt
    <3> HIDE DEF rec1
    <3>2. Layout(<< >> \o Bytes(rec1))
      BY <1>3, <1>4, <3>1, LayoutBehind
    <3> QED BY <1>4, <1>6, <3>2
  <2> QED BY <2>1, <2>2
<1> HIDE DEF file1, rec1
<1>8. /\ first \in Seq(Record) /\ Len(first) = old + new /\ Layout(first)
      /\ new > 0 => first[old + 1] = rec2
  <2>1. /\ first \in Seq(Record) /\ Len(first) = old + new
        /\ new > 0 => first[old + 1] = rec2
    <3> HIDE DEF rec2
    <3> QED BY <1>3, <1>6, BytesBehind
  <2>2. CASE new = 0
    <3>1. first = file1
      <4> HIDE DEF rec2
      <4> QED BY <1>3, <1>4, <1>5, <1>6, <2>2
    <3> QED BY <1>7, <2>1, <3>1
  <2>3. CASE new # 0
    <3>1. ~FullAt(Len(file1), RecordSize(rec2)) /\ RecordSize(rec2) > 0
      BY <1>1, <1>2, <1>3, <1>6, <2>3 DEF FullAt
    <3>2. Layout(first)
      <4> HIDE DEF rec2
      <4> QED BY <1>3, <1>6, <1>7, <3>1, LayoutBehind
    <3> QED BY <2>1, <3>2
  <2> QED BY <2>2, <2>3
<1>9. files = <<first>>
  BY <1>1 DEF file1, rec1
<1> HIDE DEF first
<1>10. /\ files \in Seq(Seq(Record)) /\ Len(files) = 1
       /\ DOMAIN files = {1} /\ files[1] = first /\ files # << >>
  <2>1. first \in Seq(Record)
    BY <1>8
  <2> QED BY <1>9, <2>1
<1>11. /\ NoRec \in Record /\ NoPointer \in FilePointer
       /\ Deleted \in IndexEntry /\ Deleted.type # "kValue"
  BY <1>10, NothingTypes
<1>12. /\ Pointer(1, old) \in FilePointer
       /\ Pointer(1, old).file_id = 1 /\ Pointer(1, old).offset = old
  BY <1>2, <1>10 DEF Pointer, FilePointer
<1>13. /\ Value(Val(1, new), Pointer(1, old)) \in IndexEntry
       /\ Value(Val(1, new), Pointer(1, old)).val = Val(1, new)
       /\ Value(Val(1, new), Pointer(1, old)).ptr = Pointer(1, old)
  BY <1>3, <1>12, ValueEntry
<1>14. /\ current_offset = Len(first) /\ current_file_id = 1 /\ dir = {1}
       /\ OffsetOK
  <2>1. current_offset = Len(files[1]) /\ current_file_id = 1 /\ dir = {1}
    BY DEF Init
  <2>2. Len(first) > FileLimit => Len(first) = RecordSize(first[1])
    BY <1>8 DEF Layout
  <2> QED BY <1>2, <1>8, <1>10, <2>1, <2>2 DEF OffsetOK
<1>15. TypeOK
  <2>1. /\ index \in [Key -> IndexEntry] /\ rent \in [Reader -> IndexEntry]
        /\ apc \in [Appender -> {"idle", "append", "done"}]
        /\ arec \in [Appender -> Record] /\ aptr \in [Appender -> FilePointer]
        /\ rpc \in [Reader -> {"idle", "read"}] /\ rkey \in [Reader -> Key \cup {0}]
    BY <1>1, <1>11, <1>13 DEF Init
  <2>2. /\ current_file_id \in Nat
        /\ puts \in 0 .. MaxPuts /\ failures \in 0 .. MaxFailures
        /\ crashes \in 0 .. MaxCrashes
        /\ gc_file_id \in 0 .. Len(files) /\ scanned \in Nat
        /\ live_bytes \in 0 .. scanned /\ live_records \in Seq(Nat)
    BY <1>2, <1>10 DEF Init
  <2>3. /\ dir \subseteq DOMAIN files /\ readers \subseteq DOMAIN files
        /\ current_file_id \in dir
        /\ gpc \in {"idle", "scan", "rewrite", "delete"}
    BY <1>10 DEF Init
  <2>4. writer \in BOOLEAN
    BY DEF Init
  <2> QED BY <1>10, <1>14, <2>1, <2>2, <2>3, <2>4 DEF TypeOK, OffsetOK
<1>16. LogInv
  BY <1>8, <1>10, <1>14 DEF LogInv, Aligned
<1>17. IndexInv
  <2> SUFFICES ASSUME NEW j \in Key, index[j].type = "kValue"
               PROVE  /\ index[j].ptr.file_id \in dir
                      /\ Holds(files, index[j].ptr, Rec(j, index[j].val))
    BY DEF IndexInv
  <2>1. j = k /\ new > 0 /\ index[j] = Value(Val(1, new), Pointer(1, old))
    BY <1>1, <1>11
  <2>2. old < Len(first) /\ first[old + 1] = Rec(k, Val(1, new))
    BY <1>2, <1>8, <2>1
  <2>3. dir = {1}
    BY DEF Init
  <2> QED BY <1>10, <1>12, <1>13, <2>1, <2>2, <2>3 DEF Holds
<1>18. ReadInv /\ AppendInv /\ WriterInv /\ RewriteInv /\ GCInv /\ OneAppend
  BY DEF Init, ReadInv, AppendInv, WriterInv, RewriteInv, GCInv, OneAppend, Appender
<1> QED BY <1>15, <1>16, <1>17, <1>18 DEF IndInv

LEMMA StepInv == IndInv /\ [SerialNext]_vars => IndInv'
<1> SUFFICES ASSUME IndInv, [SerialNext]_vars PROVE IndInv'
  OBVIOUS
<1>1. CASE UNCHANGED vars
  <2>1. UNCHANGED <<logVars, counters, index, appVars, readVars, readers, gcVars>>
    BY <1>1 DEF vars
  <2>2. OneAppend' /\ GCInv' /\ WriterInv' /\ RewriteInv'
    BY <2>1 DEF IndInv, OneAppend, GCInv, WriterInv, RewriteInv, logVars, appVars, gcVars
  <2> QED BY <2>1, <2>2, TypesNow, GCStep DEF gcVars
<1>2. CASE SerialNext
  <2>1. OneAppend' /\ Aligned' /\ "writer" \in Appender /\ "gc" \in Appender
    BY <1>2 DEF SerialNext, Appender
  <2>2. CASE Write
    BY <2>1, <2>2, PutBeginInv, DeleteInv, AppendWriteInv, AppendFailsInv, PutFailsInv,
       PutEndInv, PutWALFailsInv DEF Write
  <2>3. CASE Get
    BY <2>1, <2>3, GetIndexInv, GetReadInv DEF Get
  <2>4. CASE RunGC
    BY <2>1, <2>4, GCPickInv, GCScanInv, GCDecideInv, GCRewriteInv, GCRewriteFailsInv,
       AppendWriteInv, AppendFailsInv, GCUpdateInv, GCRemoveReaderInv, GCDeleteInv
       DEF RunGC
  <2>5. CASE Crash
    BY <2>1, <2>5, CrashInv
  <2> QED BY <1>2, <2>2, <2>3, <2>4, <2>5 DEF SerialNext, Next
<1> QED BY <1>1, <1>2

\* Log, index and threads fit together in every state.
THEOREM LogAndIndex == SerialSpec => []IndInv
<1> QED BY InitInv, StepInv, PTL DEF SerialSpec

\* Type correctness of the value log, its readers and RunGC (vlog.cpp,
\* db_impl.cpp:682-874).
THEOREM LogTypeCorrect == SerialSpec => []TypeOK
<1>1. IndInv => TypeOK
  BY DEF IndInv
<1> QED BY <1>1, LogAndIndex, PTL

\* Every pointer in the index leads to its record, whatever RunGC
\* (db_impl.cpp:682-874) has moved and deleted and wherever it was interrupted.
THEOREM PointersLeadToRecords == SerialSpec => []LiveReadable
<1>1. ASSUME IndInv PROVE LiveReadable
  <2> SUFFICES ASSUME NEW k \in Key, index[k].type = "kValue"
               PROVE  /\ index[k].ptr.file_id \in dir
                      /\ ReadAt(index[k].ptr) = Found(Rec(k, index[k].val))
    BY DEF LiveReadable
  <2>1. /\ index[k].ptr.file_id \in dir /\ index[k].ptr.file_id \in DOMAIN files
        /\ Holds(files, index[k].ptr, Rec(k, index[k].val))
        /\ index[k].ptr.offset \in Nat
    BY <1>1, PointerFacts DEF IndInv, IndexInv, TypeOK
  <2> QED BY <2>1, ReadAtHolds, RecordNotTorn
<1> QED BY <1>1, LogAndIndex, PTL

\* A Get that reads the log without a lock (db_impl.cpp:317) gets its own value, or
\* an error when its file was deleted meanwhile.
THEOREM GetsReadTheirOwn == SerialSpec => []GetReturnsOwnValue
<1>1. ASSUME IndInv PROVE GetReturnsOwnValue
  <2> SUFFICES ASSUME NEW r \in Reader, rpc[r] = "read"
               PROVE  \/ Read(rent[r].ptr) = Found(Rec(rkey[r], rent[r].val))
                      \/ Read(rent[r].ptr) = Failed("IOError")
    BY DEF GetReturnsOwnValue
  <2> DEFINE p == rent[r].ptr
  <2>1. /\ p.file_id \in DOMAIN files /\ p.offset \in Nat /\ rkey[r] \in Key
        /\ CanOpen(p.file_id) => Holds(files, p, Rec(rkey[r], rent[r].val))
    BY <1>1, PointerFacts DEF IndInv, ReadInv
  <2> HIDE DEF p
  <2>2. CanOpen(p.file_id) => ReadAt(p) = Found(Rec(rkey[r], rent[r].val))
    BY <2>1, ReadAtHolds, RecordNotTorn
  <2>3. Read(p) = Found(Rec(rkey[r], rent[r].val)) \/ Read(p) = Failed("IOError")
    BY <2>2 DEF Read
  <2> QED BY <2>3 DEF p
<1> QED BY <1>1, LogAndIndex, PTL

\* A step of RunGC that changes the index is the "CAS update" (db_impl.cpp:802-858),
\* which gives a key a new pointer and leaves its value.
THEOREM GCMovesOnly == SerialSpec => GCKeepsValues
<1> DEFINE Keeps1 == \A k \in Key : index'[k].type = index[k].type
                                      /\ index'[k].val = index[k].val
           Step == gcVars' # gcVars \/ apc'["gc"] # apc["gc"] => Keeps1
<1>1. ASSUME IndInv, [SerialNext]_vars PROVE [Step]_vars
  <2>1. index' = index => Keeps1
    OBVIOUS
  <2>2. ASSUME GCUpdate PROVE Keeps1
    <3> SUFFICES ASSUME NEW j \in Key
                 PROVE  index'[j].type = index[j].type /\ index'[j].val = index[j].val
      OBVIOUS
    <3> DEFINE k == arec["gc"].key
               here == Pointer(gc_file_id, Head(live_records))
    <3>1. /\ \A i \in Key : i # k => index'[i] = index[i]
          /\ IsLive(k, here) => /\ index'[k] = Value(index[k].val, aptr["gc"])
                                /\ index[k].val \in AnyVal
          /\ ~IsLive(k, here) => index'[k] = index[k]
      BY <1>1, <2>2, GCUpdateIndex
    <3> HIDE DEF k, here
    <3>2. CASE j = k /\ IsLive(k, here)
      <4>1. index[k].type = "kValue" /\ aptr["gc"] \in FilePointer
        BY <1>1, <3>2, TypesNow DEF IsLive
      <4> QED BY <3>1, <3>2, <4>1, ValueEntry
    <3> QED BY <3>1, <3>2
  <2>3. ASSUME SerialNext
        PROVE  \/ index' = index \/ GCUpdate
               \/ ~(gcVars' # gcVars \/ apc'["gc"] # apc["gc"])
    <3>1. ASSUME Write
          PROVE  index' = index \/ ~(gcVars' # gcVars \/ apc'["gc"] # apc["gc"])
      <4>1. ASSUME PutEnd PROVE gcVars' = gcVars /\ apc'["gc"] = apc["gc"]
        BY <1>1, <4>1, TypesNow DEF PutEnd, AppendOver
      <4>2. ASSUME NEW k \in Key, Delete(k)
            PROVE  gcVars' = gcVars /\ apc'["gc"] = apc["gc"]
        BY <4>2 DEF Delete, appVars
      <4>3. ASSUME \/ \E k \in Key, n \in Sizes : PutBegin(k, n)
                   \/ AppendWrite("writer") \/ AppendFails("writer")
                   \/ PutFails \/ PutWALFails
            PROVE  index' = index
        BY <4>3 DEF PutBegin, AppendWrite, AppendFails, PutFails, PutWALFails
      <4> QED BY <3>1, <4>1, <4>2, <4>3 DEF Write
    <3>2. ASSUME Get PROVE index' = index
      BY <3>2 DEF Get, GetRead, GetIndex
    <3>3. ASSUME RunGC PROVE index' = index \/ GCUpdate
      BY <3>3 DEF RunGC, GCPick, GCScan, GCDecide, GCRewrite, GCRewriteFails, AppendWrite,
                  AppendFails, GCRemoveReader, GCDelete
    <3>4. ASSUME Crash PROVE index' = index
      BY <3>4 DEF Crash, Reopen
    <3> QED BY <2>3, <3>1, <3>2, <3>3, <3>4 DEF SerialNext, Next
  <2>4. CASE SerialNext
    BY <2>1, <2>2, <2>3, <2>4
  <2> QED BY <1>1, <2>4
<1> QED BY <1>1, LogAndIndex, PTL DEF SerialSpec, GCKeepsValues
=============================================================================
