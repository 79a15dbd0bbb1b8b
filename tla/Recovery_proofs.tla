--------------------------- MODULE Recovery_proofs ---------------------------
(***************************************************************************)
(* Whatever was acknowledged is read again after any number of crashes of  *)
(* the process, for any keys, memtable size and number of levels; the      *)
(* tables in use are never lost or overwritten, for crashes of any kind.   *)
(***************************************************************************)
EXTENDS Recovery, SequenceTheorems, FiniteSetTheorems, WellFoundedInduction, TLAPS

Table == [Key -> Entry]

-----------------------------------------------------------------------------
(* Greatest and least numbers. *)

\* A nonempty set of naturals has a least element.
LEMMA LeastOf ==
  ASSUME NEW S \in SUBSET Nat, S # {}
  PROVE  \E m \in S : \A x \in S : m <= x
<1>1. PICK m \in S : \A x \in S : ~(<<x, m>> \in OpToRel(<, Nat))
  BY NatLessThanWellFounded, WFMin
<1>2. \A x \in S : ~(x < m)
  BY <1>1 DEF OpToRel
<1> QED BY <1>2

\* A nonempty bounded set of naturals has a greatest element.
LEMMA GreatestOf ==
  ASSUME NEW n \in Nat, NEW S \in SUBSET (0 .. n), S # {}
  PROVE  \E m \in S : \A x \in S : x <= m
<1> DEFINE T == {n - x : x \in S}
<1>1. T \in SUBSET Nat /\ T # {}
  <2>1. \A x \in S : n - x \in Nat
    OBVIOUS
  <2>2. T # {}
    OBVIOUS
  <2> QED BY <2>1, <2>2
<1>2. PICK d \in T : \A y \in T : d <= y
  BY <1>1, LeastOf
<1>3. PICK m \in S : d = n - m
  BY <1>2
<1>4. ASSUME NEW x \in S PROVE x <= m
  <2>1. n - m <= n - x
    BY <1>2, <1>3
  <2> QED BY <2>1
<1> QED BY <1>4

-----------------------------------------------------------------------------
(* Entries and searches. *)

LEMMA EntryFacts ==
  /\ Absent \in Entry /\ ~Present(Absent) /\ Absent.type = "kDeletion" /\ Absent.seq = 0
  /\ EmptyTable \in Table
  /\ \A k \in Key : EmptyTable[k] = Absent
  /\ \A rec \in WALRecord : EntryOf(rec) \in Entry /\ EntryOf(rec).seq = rec.seq
                            /\ EntryOf(rec).type = rec.type
  /\ \A e \in Entry : Present(e) <=> e.seq # 0
<1>1. Absent \in Entry
  BY BoundsAssumption DEF Absent, Entry, ValueType
<1>2. ~Present(Absent) /\ Absent.type = "kDeletion" /\ Absent.seq = 0
  BY DEF Absent, Present
<1>3. EmptyTable \in Table /\ \A k \in Key : EmptyTable[k] = Absent
  BY <1>1 DEF EmptyTable, Table
<1>4. \A rec \in WALRecord : EntryOf(rec) \in Entry /\ EntryOf(rec).seq = rec.seq
                             /\ EntryOf(rec).type = rec.type
  BY DEF WALRecord, EntryOf, Entry
<1>5. \A e \in Entry : Present(e) <=> e.seq # 0
  BY DEF Entry, Present
<1> QED BY <1>1, <1>2, <1>3, <1>4, <1>5

\* The last table with the key is the one that is found.
LEMMA FindAt ==
  ASSUME NEW tables \in Seq(Table), NEW k \in Key, NEW i \in DOMAIN tables,
         Present(tables[i][k]),
         \A j \in DOMAIN tables : Present(tables[j][k]) => j <= i
  PROVE  Find(tables, k) = tables[i][k]
<1> DEFINE hits == {j \in DOMAIN tables : Present(tables[j][k])}
           top == CHOOSE j \in hits : \A h \in hits : h <= j
<1>1. i \in hits /\ \A h \in hits : h <= i
  OBVIOUS
<1>2. top \in hits /\ \A h \in hits : h <= top
  BY <1>1
<1>3. top = i
  <2>1. DOMAIN tables = 1 .. Len(tables) /\ Len(tables) \in Nat
    BY LenProperties
  <2> QED BY <1>1, <1>2, <2>1
<1> QED BY <1>1, <1>3 DEF Find

LEMMA FindNone ==
  ASSUME NEW tables, NEW k, \A j \in DOMAIN tables : ~Present(tables[j][k])
  PROVE  Find(tables, k) = Absent
BY DEF Find

\* One of these two is the case.
LEMMA FindCases ==
  ASSUME NEW tables \in Seq(Table), NEW k \in Key
  PROVE  \/ /\ \A j \in DOMAIN tables : ~Present(tables[j][k])
            /\ Find(tables, k) = Absent
         \/ \E i \in DOMAIN tables :
              /\ Present(tables[i][k]) /\ Find(tables, k) = tables[i][k]
              /\ \A j \in DOMAIN tables : Present(tables[j][k]) => j <= i
<1> DEFINE hits == {j \in DOMAIN tables : Present(tables[j][k])}
<1>1. CASE hits = {}
  BY <1>1, FindNone
<1>2. CASE hits # {}
  <2>1. Len(tables) \in Nat /\ hits \in SUBSET (0 .. Len(tables))
    BY LenProperties
  <2>2. PICK i \in hits : \A j \in hits : j <= i
    BY <1>2, <2>1, GreatestOf
  <2>3. Find(tables, k) = tables[i][k]
    BY <2>2, FindAt
  <2> QED BY <2>2, <2>3
<1> QED BY <1>1, <1>2

LEMMA FindType ==
  ASSUME NEW tables \in Seq(Table), NEW k \in Key
  PROVE  Find(tables, k) \in Entry
<1>1. \A i \in DOMAIN tables : tables[i] \in Table
  OBVIOUS
<1>2. \A i \in DOMAIN tables : tables[i][k] \in Entry
  BY <1>1 DEF Table
<1> QED BY <1>2, FindCases, EntryFacts

\* A table that is pushed hides those before it.
LEMMA FindAppend ==
  ASSUME NEW tables \in Seq(Table), NEW t \in Table, NEW k \in Key
  PROVE  Find(Append(tables, t), k) = IF Present(t[k]) THEN t[k] ELSE Find(tables, k)
<1> DEFINE new == Append(tables, t)
           n == Len(tables)
<1>1. /\ new \in Seq(Table) /\ n \in Nat
      /\ DOMAIN new = 1 .. n + 1 /\ DOMAIN tables = 1 .. n
      /\ \A i \in 1 .. n : new[i] = tables[i]
      /\ new[n + 1] = t
  OBVIOUS
<1> HIDE DEF new, n
<1>2. CASE Present(t[k])
  <2>1. n + 1 \in DOMAIN new /\ \A j \in DOMAIN new : j <= n + 1
    BY <1>1
  <2>2. Find(new, k) = new[n + 1][k]
    BY <1>1, <1>2, <2>1, FindAt
  <2> QED BY <1>1, <1>2, <2>2 DEF new
<1>3. CASE ~Present(t[k])
  <2>1. CASE /\ \A j \in DOMAIN tables : ~Present(tables[j][k])
             /\ Find(tables, k) = Absent
    <3>1. \A j \in DOMAIN new : ~Present(new[j][k])
      BY <1>1, <1>3, <2>1
    <3> QED BY <1>3, <2>1, <3>1, FindNone DEF new
  <2>2. ASSUME NEW i \in DOMAIN tables,
               Present(tables[i][k]), Find(tables, k) = tables[i][k],
               \A j \in DOMAIN tables : Present(tables[j][k]) => j <= i
        PROVE  Find(new, k) = Find(tables, k)
    <3>1. i \in DOMAIN new /\ Present(new[i][k]) /\ new[i] = tables[i]
      BY <1>1, <2>2
    <3>2. ASSUME NEW j \in DOMAIN new, Present(new[j][k]) PROVE j <= i
      <4>1. j # n + 1
        BY <1>1, <1>3, <3>2
      <4>2. j \in 1 .. n
        BY <1>1, <4>1
      <4> QED BY <1>1, <2>2, <3>2, <4>2
    <3> QED BY <1>1, <2>2, <3>1, <3>2, FindAt
  <2> QED BY <1>3, <2>1, <2>2, FindCases DEF new
<1> QED BY <1>2, <1>3

\* The first table is found only if no other one has the key.
LEMMA FindTail ==
  ASSUME NEW tables \in Seq(Table), tables # << >>, NEW k \in Key
  PROVE  /\ Present(Find(Tail(tables), k)) => Find(tables, k) = Find(Tail(tables), k)
         /\ ~Present(Find(Tail(tables), k)) =>
              Find(tables, k) = IF Present(Head(tables)[k]) THEN Head(tables)[k] ELSE Absent
<1> DEFINE rest == Tail(tables)
           n == Len(tables)
<1>1. /\ rest \in Seq(Table) /\ n \in Nat /\ n >= 1
      /\ DOMAIN rest = 1 .. n - 1 /\ DOMAIN tables = 1 .. n
      /\ \A i \in 1 .. n - 1 : rest[i] = tables[i + 1]
      /\ Head(tables) = tables[1]
  <2>1. rest \in Seq(Table) /\ Len(rest) = n - 1
        /\ \A i \in 1 .. Len(rest) : rest[i] = tables[i + 1]
    BY HeadTailProperties
  <2>2. n \in Nat /\ n >= 1 /\ DOMAIN tables = 1 .. n /\ Head(tables) = tables[1]
    OBVIOUS
  <2> HIDE DEF rest, n
  <2> QED BY <2>1, <2>2, LenProperties
<1> HIDE DEF rest, n
<1>2. ASSUME NEW j \in DOMAIN tables, j # 1
      PROVE  j - 1 \in DOMAIN rest /\ rest[j - 1] = tables[j]
  <2>1. j - 1 \in 1 .. n - 1 /\ (j - 1) + 1 = j
    BY <1>1, <1>2
  <2> QED BY <1>1, <2>1
<1>3. CASE /\ \A j \in DOMAIN rest : ~Present(rest[j][k])
           /\ Find(rest, k) = Absent
  <2>1. \A j \in DOMAIN tables : j # 1 => ~Present(tables[j][k])
    BY <1>2, <1>3
  <2>2. CASE Present(Head(tables)[k])
    <3>1. 1 \in DOMAIN tables /\ \A j \in DOMAIN tables : Present(tables[j][k]) => j <= 1
      BY <1>1, <2>1
    <3>2. Find(tables, k) = tables[1][k]
      BY <1>1, <2>2, <3>1, FindAt
    <3> QED BY <1>1, <1>3, <2>2, <3>2, EntryFacts DEF rest
  <2>3. CASE ~Present(Head(tables)[k])
    <3>1. \A j \in DOMAIN tables : ~Present(tables[j][k])
      BY <1>1, <2>1, <2>3
    <3> QED BY <1>3, <2>3, <3>1, FindNone, EntryFacts DEF rest
  <2> QED BY <2>2, <2>3
<1>4. ASSUME NEW i \in DOMAIN rest,
             Present(rest[i][k]), Find(rest, k) = rest[i][k],
             \A j \in DOMAIN rest : Present(rest[j][k]) => j <= i
      PROVE  Present(Find(rest, k)) /\ Find(tables, k) = Find(rest, k)
  <2>1. i + 1 \in DOMAIN tables /\ tables[i + 1] = rest[i] /\ i \in Nat
    BY <1>1
  <2>2. ASSUME NEW j \in DOMAIN tables, Present(tables[j][k]) PROVE j <= i + 1
    <3>1. CASE j = 1
      BY <2>1, <3>1
    <3>2. CASE j # 1
      <4>1. j - 1 <= i
        BY <1>2, <1>4, <2>2, <3>2
      <4> QED BY <1>1, <2>1, <4>1
    <3> QED BY <3>1, <3>2
  <2> QED BY <1>4, <2>1, <2>2, FindAt
<1> QED BY <1>1, <1>3, <1>4, FindCases DEF rest

\* The first place with the key is the one that Get reads.
LEMMA SearchAt ==
  ASSUME NEW places, NEW k, NEW p \in Place, Present(Find(places[p], k)),
         \A q \in Place : Present(Find(places[q], k)) => p <= q
  PROVE  Search(places, k) = Find(places[p], k)
<1> DEFINE hits == {q \in Place : Present(Find(places[q], k))}
           top == CHOOSE q \in hits : \A h \in hits : q <= h
<1>1. p \in hits /\ \A h \in hits : p <= h
  OBVIOUS
<1>2. top \in hits /\ \A h \in hits : top <= h
  BY <1>1
<1>3. top = p
  BY <1>1, <1>2, NumLevelsAssumption DEF Place, Level
<1> QED BY <1>1, <1>3 DEF Search

LEMMA SearchNone ==
  ASSUME NEW places, NEW k, \A q \in Place : ~Present(Find(places[q], k))
  PROVE  Search(places, k) = Absent
BY DEF Search

LEMMA SearchCases ==
  ASSUME NEW places, NEW k
  PROVE  \/ /\ \A q \in Place : ~Present(Find(places[q], k))
            /\ Search(places, k) = Absent
         \/ \E p \in Place :
              /\ Present(Find(places[p], k)) /\ Search(places, k) = Find(places[p], k)
              /\ \A q \in Place : Present(Find(places[q], k)) => p <= q
<1> DEFINE hits == {q \in Place : Present(Find(places[q], k))}
           T == {q + 1 : q \in hits}
<1>1. CASE hits = {}
  BY <1>1, SearchNone
<1>2. CASE hits # {}
  <2>1. T \in SUBSET Nat /\ T # {}
    BY <1>2, NumLevelsAssumption DEF Place, Level
  <2>2. PICK m \in T : \A x \in T : m <= x
    BY <2>1, LeastOf
  <2>3. PICK p \in hits : m = p + 1
    BY <2>2
  <2>4. ASSUME NEW q \in hits PROVE p <= q
    <3>1. p \in Int /\ q \in Int
      BY NumLevelsAssumption DEF Place, Level
    <3>2. q + 1 \in T
      OBVIOUS
    <3>3. p + 1 <= q + 1
      BY <2>2, <2>3, <3>2
    <3> QED BY <3>1, <3>3
  <2>5. Search(places, k) = Find(places[p], k)
    BY <2>3, <2>4, SearchAt
  <2> QED BY <2>3, <2>4, <2>5
<1> QED BY <1>1, <1>2

-----------------------------------------------------------------------------
(* Counting, sequences of ids, and the tables behind them. *)

LEMMA CountFacts ==
  ASSUME NEW m
  PROVE  /\ Count(m) \in Nat
         /\ Count(m) = 0 <=> \A k \in Key : ~Present(m[k])
<1> DEFINE S == {k \in Key : Present(m[k])}
<1>1. IsFiniteSet(S)
  BY KeyAssumption, FS_Subset
<1>2. Cardinality(S) \in Nat /\ (Cardinality(S) = 0 <=> S = {})
  BY <1>1, FS_CardinalityType, FS_EmptySet
<1> QED BY <1>2 DEF Count

LEMMA CountEmpty == Count(EmptyTable) = 0 /\ Count(EmptyTable) < MemLimit
<1>1. Count(EmptyTable) = 0
  BY CountFacts, EntryFacts
<1> QED BY <1>1, MemLimitAssumption

LEMMA RangeAppend ==
  ASSUME NEW S, NEW s \in Seq(S), NEW x \in S
  PROVE  Range(Append(s, x)) = Range(s) \cup {x}
<1>1. /\ DOMAIN Append(s, x) = 1 .. Len(s) + 1 /\ Len(s) \in Nat
      /\ DOMAIN s = 1 .. Len(s)
      /\ \A i \in 1 .. Len(s) : Append(s, x)[i] = s[i]
      /\ Append(s, x)[Len(s) + 1] = x
  OBVIOUS
<1>2. ASSUME NEW i \in DOMAIN Append(s, x) PROVE Append(s, x)[i] \in Range(s) \cup {x}
  BY <1>1 DEF Range
<1>3. ASSUME NEW y \in Range(s) \cup {x} PROVE y \in Range(Append(s, x))
  <2>1. CASE y = x
    BY <1>1, <2>1 DEF Range
  <2>2. ASSUME NEW i \in DOMAIN s, y = s[i] PROVE y \in Range(Append(s, x))
    <3>1. i \in DOMAIN Append(s, x) /\ Append(s, x)[i] = y
      BY <1>1, <2>2
    <3> QED BY <3>1 DEF Range
  <2> QED BY <2>1, <2>2 DEF Range
<1> QED BY <1>2, <1>3 DEF Range

LEMMA RangeEmpty == Range(<< >>) = {}
BY DEF Range

\* The tables that a list of ids stands for.
LEMMA TablesOf ==
  ASSUME NEW ids \in Seq(Nat), NEW files, files \in [DOMAIN files -> Table],
         Range(ids) \subseteq DOMAIN files
  PROVE  LET tables == [i \in DOMAIN ids |-> files[ids[i]]]
         IN  /\ tables \in Seq(Table) /\ Len(tables) = Len(ids)
             /\ DOMAIN tables = DOMAIN ids
             /\ \A i \in DOMAIN ids : /\ tables[i] = files[ids[i]] /\ tables[i] \in Table
                                      /\ ids[i] \in DOMAIN files
<1> DEFINE tables == [i \in DOMAIN ids |-> files[ids[i]]]
<1>1. DOMAIN ids = 1 .. Len(ids) /\ Len(ids) \in Nat
  OBVIOUS
<1>2. \A i \in DOMAIN ids : ids[i] \in DOMAIN files /\ files[ids[i]] \in Table
  BY DEF Range
<1>3. tables \in [1 .. Len(ids) -> Table]
  BY <1>1, <1>2
<1>4. tables \in Seq(Table) /\ Len(tables) = Len(ids)
  BY <1>1, <1>3
<1> QED BY <1>2, <1>4

-----------------------------------------------------------------------------
(* What holds of the disk after crashes of any kind. *)

DiskInv == TypeOK /\ ControlInv /\ TableInv

LEMMA DiskFacts ==
  ASSUME DiskInv
  PROVE  /\ wal \in Seq(Seq(WALRecord)) /\ Len(wal) \in Nat /\ Len(wal) >= 1
         /\ DOMAIN wal = 1 .. Len(wal) /\ Len(wal) \in DOMAIN wal
         /\ Last(wal) = wal[Len(wal)] /\ Last(wal) \in Seq(WALRecord)
         /\ Len(Last(wal)) \in Nat
         /\ synced \in Seq(Nat) /\ Len(synced) = Len(wal)
         /\ 0 \in Level /\ NumLevels \in Nat
         /\ sst \in [DOMAIN sst -> Table]
         /\ memtable \in Table /\ immutable_memtables \in Seq(Table)
<1>1. /\ wal \in Seq(Seq(WALRecord)) /\ Len(wal) \in Nat /\ wal # << >>
      /\ DOMAIN wal = 1 .. Len(wal)
  BY DEF DiskInv, TypeOK, ControlInv
<1>2. Len(wal) >= 1 /\ Len(wal) \in DOMAIN wal
  BY <1>1
<1>3. Last(wal) = wal[Len(wal)] /\ Last(wal) \in Seq(WALRecord)
  BY <1>1, <1>2 DEF Last
<1>4. Len(Last(wal)) \in Nat
  BY <1>3
<1>5. synced \in [1 .. Len(wal) -> Nat]
  BY <1>1 DEF DiskInv, TypeOK
<1>6. synced \in Seq(Nat) /\ Len(synced) = Len(wal)
  BY <1>1, <1>5
<1> QED BY <1>1, <1>2, <1>3, <1>4, <1>6, NumLevelsAssumption
        DEF DiskInv, TypeOK, Table, Level

\* A record that Write has in the log is the last one there.
LEMMA LoggedFacts ==
  ASSUME DiskInv, logged
  PROVE  /\ Len(Last(wal)) >= 1 /\ Last(Last(wal)) = Last(wal)[Len(Last(wal))]
         /\ Last(Last(wal)) \in WALRecord /\ pc = "open"
         /\ Len(Last(wal)) \in DOMAIN Last(wal)
<1>1. Last(wal) \in Seq(WALRecord) /\ Last(wal) # << >> /\ pc = "open"
  BY DiskFacts DEF DiskInv, ControlInv
<1>2. Len(Last(wal)) >= 1 /\ Len(Last(wal)) \in DOMAIN Last(wal)
  BY <1>1
<1> QED BY <1>1, <1>2 DEF Last

\* A step that touches no table.
LEMMA TablesUnchanged ==
  ASSUME DiskInv,
         UNCHANGED <<sst, manifest, levels, next_sstable_id, pc, saving, read_id, obsolete>>
  PROVE  TableInv'
BY DEF DiskInv, TableInv, Named, Disjoint

\* What one thread's SaveManifest changes.
LEMMA OneThread ==
  ASSUME NEW S, NEW f \in [Thread -> S], NEW t \in Thread, NEW s \in S
  PROVE  LET g == [f EXCEPT ![t] = s]
         IN  /\ g \in [Thread -> S] /\ g[t] = s
             /\ \A u \in Thread : u # t => g[u] = f[u]
OBVIOUS

LEMMA ThreadFacts ==
  /\ "flush" \in Thread /\ "compact" \in Thread /\ "flush" # "compact"
  /\ Idle \in [Thread -> {"idle", "begin", "tmp"}] /\ NothingRead \in [Thread -> Nat]
  /\ \A t \in Thread : Idle[t] = "idle" /\ NothingRead[t] = 0
BY DEF Thread, Idle, NothingRead

LEMMA WriteLogDisk ==
  ASSUME DiskInv, NEW k \in Key, NEW type \in ValueType, WriteLog(k, type)
  PROVE  DiskInv'
<1> DEFINE rec == [key |-> k, seq |-> sequence_number, type |-> type, val |-> writes + 1]
           old == Last(wal)
           new == Append(old, rec)
<1>1. /\ pc = "open" /\ writes < MaxWrites /\ writes' = writes + 1
      /\ wal' = [wal EXCEPT ![Len(wal)] = new]
      /\ sequence_number' = sequence_number + 1 /\ logged' = TRUE
      /\ UNCHANGED <<synced, sst, manifest, memory, pc, replayed, install,
                     unflushed, crashes, allowed>>
  BY DiskFacts DEF WriteLog
<1>2. rec \in WALRecord
  BY <1>1, BoundsAssumption DEF WALRecord, DiskInv, TypeOK
<1> HIDE DEF rec
<1>3. /\ new \in Seq(WALRecord) /\ Len(new) = Len(old) + 1 /\ new # << >>
      /\ Len(old) \in Nat
  <2>1. old \in Seq(WALRecord)
    BY DiskFacts
  <2> HIDE DEF old
  <2> QED BY <1>2, <2>1
<1> HIDE DEF new, old
<1>4. /\ wal' \in Seq(Seq(WALRecord)) /\ Len(wal') = Len(wal)
      /\ DOMAIN wal' = DOMAIN wal
      /\ wal'[Len(wal)] = new
      /\ \A i \in DOMAIN wal : i # Len(wal) => wal'[i] = wal[i]
  BY <1>1, <1>3, DiskFacts, ExceptSeq
<1>5. \A i \in DOMAIN wal' : synced'[i] <= Len(wal'[i])
  <2> SUFFICES ASSUME NEW i \in DOMAIN wal PROVE synced[i] <= Len(wal'[i])
    BY <1>1, <1>4
  <2>1. synced[i] \in Nat /\ synced[i] <= Len(wal[i])
    BY DEF DiskInv, TypeOK
  <2>2. CASE i = Len(wal)
    BY <1>3, <1>4, <2>1, <2>2, DiskFacts DEF old
  <2>3. CASE i # Len(wal)
    BY <1>4, <2>1, <2>3
  <2> QED BY <2>2, <2>3
<1>6. writes' \in 0 .. MaxWrites /\ sequence_number' \in Nat \ {0}
  BY <1>1, BoundsAssumption DEF DiskInv, TypeOK
<1>7. logged' \in BOOLEAN
  BY <1>1
<1>8. TypeOK'
  BY <1>1, <1>4, <1>5, <1>6, <1>7 DEF DiskInv, TypeOK, memory, install
<1>9. ControlInv'
  <2>1. wal' # << >> /\ Last(wal') = new
    BY <1>4, DiskFacts DEF Last
  <2> QED BY <1>1, <1>3, <2>1 DEF DiskInv, ControlInv, memory, install
<1>10. TableInv'
  BY <1>1, TablesUnchanged DEF memory, install
<1> QED BY <1>8, <1>9, <1>10 DEF DiskInv

\* A torn record at the end of the open file.
LEMMA TornTailFacts ==
  ASSUME DiskInv
  PROVE  /\ TornTail \in Seq(Seq(WALRecord)) /\ Len(TornTail) = Len(wal)
         /\ DOMAIN TornTail = DOMAIN wal
         /\ \A i \in DOMAIN wal : i # Len(wal) => TornTail[i] = wal[i]
         /\ \/ TornTail = wal
            \/ TornTail[Len(wal)] = Append(Last(wal), Torn)
         /\ \A i \in DOMAIN wal : /\ Len(TornTail[i]) \in Nat
                                  /\ Len(wal[i]) <= Len(TornTail[i])
<1> DEFINE old == Last(wal)
           new == Append(old, Torn)
           up == [wal EXCEPT ![Len(wal)] = new]
<1>1. TornTail = wal \/ TornTail = up
  BY DiskFacts DEF TornTail
<1>2. \A i \in DOMAIN wal : Len(wal[i]) \in Nat
  BY DEF DiskInv, TypeOK
<1>3. Torn \in WALRecord
  BY BoundsAssumption DEF Torn, WALRecord, ValueType
<1>4. new \in Seq(WALRecord) /\ Len(new) = Len(old) + 1 /\ Len(old) \in Nat
  <2>1. old \in Seq(WALRecord)
    BY DiskFacts
  <2> HIDE DEF old
  <2> QED BY <1>3, <2>1
<1> HIDE DEF new
<1>5. /\ up \in Seq(Seq(WALRecord)) /\ Len(up) = Len(wal) /\ DOMAIN up = DOMAIN wal
      /\ up[Len(wal)] = new
      /\ \A i \in DOMAIN wal : i # Len(wal) => up[i] = wal[i]
  BY <1>4, DiskFacts, ExceptSeq
<1> HIDE DEF up
<1>6. CASE TornTail = wal
  BY <1>2, <1>6, DiskFacts
<1>7. CASE TornTail = up
  <2>1. ASSUME NEW i \in DOMAIN wal
        PROVE  Len(up[i]) \in Nat /\ Len(wal[i]) <= Len(up[i])
    <3>1. CASE i = Len(wal)
      BY <1>4, <1>5, <3>1, DiskFacts
    <3>2. CASE i # Len(wal)
      BY <1>2, <1>5, <3>2
    <3> QED BY <3>1, <3>2
  <2> QED BY <1>5, <1>7, <2>1 DEF new
<1> QED BY <1>1, <1>6, <1>7

LEMMA WriteLogFailsDisk ==
  ASSUME DiskInv, WriteLogFails
  PROVE  DiskInv'
<1>1. /\ pc = "open" /\ ~logged /\ writes < MaxWrites /\ writes' = writes + 1
      /\ wal' \in {wal, TornTail} /\ sequence_number' = sequence_number + 1
      /\ UNCHANGED <<synced, sst, manifest, memory, pc, replayed, logged, install,
                     unflushed, crashes, allowed>>
  BY DEF WriteLogFails
<1>2. /\ wal' \in Seq(Seq(WALRecord)) /\ Len(wal') = Len(wal)
      /\ DOMAIN wal' = DOMAIN wal /\ wal' # << >>
      /\ \A i \in DOMAIN wal : Len(wal[i]) <= Len(wal'[i]) /\ Len(wal'[i]) \in Nat
  <2>1. \A i \in DOMAIN wal : Len(wal[i]) \in Nat
    BY DEF DiskInv, TypeOK
  <2>2. CASE wal' = wal
    BY <2>1, <2>2, DiskFacts
  <2>3. CASE wal' = TornTail
    <3>1. TornTail # << >>
      BY TornTailFacts, DiskFacts
    <3> QED BY <2>3, <3>1, TornTailFacts
  <2> QED BY <1>1, <2>2, <2>3
<1>3. \A i \in DOMAIN wal' : synced'[i] <= Len(wal'[i])
  <2>1. \A i \in DOMAIN wal : synced[i] \in Nat /\ Len(wal[i]) \in Nat
                             /\ synced[i] <= Len(wal[i])
    BY DEF DiskInv, TypeOK
  <2>2. synced' = synced
    BY <1>1
  <2> QED BY <1>2, <2>1, <2>2
<1>4. writes' \in 0 .. MaxWrites /\ sequence_number' \in Nat \ {0}
  BY <1>1, BoundsAssumption DEF DiskInv, TypeOK
<1>5. TypeOK'
  BY <1>1, <1>2, <1>3, <1>4 DEF DiskInv, TypeOK, memory, install
<1>6. ControlInv'
  BY <1>1, <1>2 DEF DiskInv, ControlInv, memory, install
<1>7. TableInv'
  BY <1>1, TablesUnchanged DEF memory, install
<1> QED BY <1>5, <1>6, <1>7 DEF DiskInv

\* The memtable that a Write leaves, before MaybeScheduleFlush looks at it.
LEMMA MemAfter ==
  ASSUME DiskInv, logged
  PROVE  [memtable EXCEPT ![Last(Last(wal)).key] = EntryOf(Last(Last(wal)))] \in Table
BY LoggedFacts, DiskFacts, EntryFacts DEF Table

LEMMA WriteEndDisk ==
  ASSUME DiskInv, NEW sync \in BOOLEAN, WriteEnd(sync)
  PROVE  DiskInv'
<1> DEFINE rec == Last(Last(wal))
           mem == [memtable EXCEPT ![rec.key] = EntryOf(rec)]
           full == ShouldFlush(mem)
           s == IF sync THEN [synced EXCEPT ![Len(wal)] = Len(Last(wal))] ELSE synced
<1>1. /\ logged
      /\ immutable_memtables' = IF full THEN Append(immutable_memtables, mem)
                                        ELSE immutable_memtables
      /\ memtable' = IF full THEN EmptyTable ELSE mem
      /\ wal' = IF full THEN Append(wal, << >>) ELSE wal
      /\ synced' = IF full THEN Append(s, 0) ELSE s
      /\ logged' = FALSE
      /\ UNCHANGED <<sst, manifest, levels, next_sstable_id, sequence_number, pc,
                     replayed, install, unflushed, writes, crashes>>
  BY DEF WriteEnd
<1>2. mem \in Table /\ rec \in WALRecord /\ pc = "open"
  BY <1>1, MemAfter, LoggedFacts
<1>3. allowed' \in [Key -> SUBSET (0 .. MaxWrites)]
  <2>1. Visible(EntryOf(rec)) \in 0 .. MaxWrites
    BY <1>2, BoundsAssumption DEF Visible, EntryOf, WALRecord
  <2>2. allowed' = [allowed EXCEPT ![rec.key] =
           {Visible(EntryOf(rec))} \cup (IF Promised(sync) THEN {} ELSE @)]
    BY DEF WriteEnd
  <2> HIDE DEF rec
  <2> QED BY <2>1, <2>2 DEF DiskInv, TypeOK
<1> HIDE DEF mem
<1>4. /\ memtable' \in Table /\ Count(memtable') < MemLimit
      /\ immutable_memtables' \in Seq(Table)
  <2>1. Count(mem) \in Nat /\ MemLimit \in Nat
    BY CountFacts, MemLimitAssumption
  <2>2. CASE full
    BY <1>1, <1>2, <2>2, DiskFacts, EntryFacts, CountEmpty
  <2>3. CASE ~full
    BY <1>1, <1>2, <2>1, <2>3, DiskFacts DEF ShouldFlush
  <2> QED BY <2>2, <2>3
<1>5. /\ s \in Seq(Nat) /\ Len(s) = Len(wal)
      /\ \A i \in DOMAIN wal : s[i] <= Len(wal[i])
  <2>1. synced \in Seq(Nat) /\ Len(wal) \in 1 .. Len(synced) /\ Len(Last(wal)) \in Nat
        /\ Len(synced) = Len(wal) /\ DOMAIN wal = 1 .. Len(wal)
        /\ Last(wal) = wal[Len(wal)]
    BY DiskFacts
  <2>2. \A i \in DOMAIN wal : synced[i] <= Len(wal[i])
    BY DEF DiskInv, TypeOK
  <2>3. CASE sync
    <3> DEFINE up == [synced EXCEPT ![Len(wal)] = Len(Last(wal))]
    <3>1. /\ up \in Seq(Nat) /\ Len(up) = Len(synced)
          /\ up[Len(wal)] = Len(Last(wal))
          /\ \A i \in 1 .. Len(synced) : i # Len(wal) => up[i] = synced[i]
      BY <2>1, ExceptSeq
    <3>2. s = up
      BY <2>3
    <3> HIDE DEF up, s
    <3>3. \A i \in DOMAIN wal : up[i] <= Len(wal[i])
      BY <2>1, <2>2, <3>1
    <3> QED BY <2>1, <3>1, <3>2, <3>3
  <2>4. CASE ~sync
    BY <2>1, <2>2, <2>4
  <2> QED BY <2>3, <2>4
<1> HIDE DEF s
<1>6. /\ wal' \in Seq(Seq(WALRecord)) /\ Len(wal') \in Nat /\ Len(wal) <= Len(wal')
      /\ wal' # << >>
      /\ synced' \in [DOMAIN wal' -> Nat]
      /\ \A i \in DOMAIN wal' : synced'[i] <= Len(wal'[i])
  <2>1. CASE ~full
    <3>1. wal' = wal /\ synced' = s
      BY <1>1, <2>1
    <3>2. s \in [DOMAIN wal -> Nat]
      <4>1. s \in Seq(Nat) /\ Len(s) = Len(wal) /\ DOMAIN wal = 1 .. Len(wal)
        BY <1>5, DiskFacts
      <4>2. s \in [1 .. Len(s) -> Nat]
        BY <4>1, LenProperties
      <4> QED BY <4>1, <4>2
    <3> QED BY <1>5, <3>1, <3>2, DiskFacts
  <2>2. CASE full
    <3>1. wal' = Append(wal, << >>) /\ synced' = Append(s, 0)
      BY <1>1, <2>2
    <3>2. wal \in Seq(Seq(WALRecord)) /\ << >> \in Seq(WALRecord) /\ 0 \in Nat
          /\ s \in Seq(Nat) /\ Len(wal) \in Nat /\ Len(wal) >= 1
          /\ Len(s) = Len(wal) /\ DOMAIN wal = 1 .. Len(wal)
      BY <1>5, DiskFacts
    <3>3. /\ wal' \in Seq(Seq(WALRecord)) /\ Len(wal') = Len(wal) + 1
          /\ \A i \in 1 .. Len(wal) : wal'[i] = wal[i]
          /\ wal'[Len(wal) + 1] = << >>
      BY <3>1, <3>2, AppendProperties
    <3>4. /\ synced' \in Seq(Nat) /\ Len(synced') = Len(wal) + 1
          /\ \A i \in 1 .. Len(wal) : synced'[i] = s[i]
          /\ synced'[Len(wal) + 1] = 0
      BY <3>1, <3>2, AppendProperties
    <3>5. DOMAIN wal' = 1 .. Len(wal) + 1 /\ DOMAIN synced' = 1 .. Len(wal) + 1
          /\ synced' \in [1 .. Len(wal) + 1 -> Nat]
      BY <3>3, <3>4, LenProperties
    <3>6. ASSUME NEW i \in DOMAIN wal' PROVE synced'[i] <= Len(wal'[i])
      <4>1. CASE i \in 1 .. Len(wal)
        BY <1>5, <3>2, <3>3, <3>4, <4>1
      <4>2. CASE i = Len(wal) + 1
        BY <3>3, <3>4, <4>2
      <4> QED BY <3>2, <3>5, <4>1, <4>2
    <3>7. wal' # << >> /\ Len(wal') \in Nat /\ Len(wal) <= Len(wal')
      BY <3>2, <3>3
    <3>8. synced' \in [DOMAIN wal' -> Nat]
      BY <3>5
    <3> QED BY <3>3, <3>6, <3>7, <3>8
  <2> QED BY <2>1, <2>2
<1>7. TypeOK'
  <2>1. replayed' \in 0 .. Len(wal')
    BY <1>1, <1>6, DiskFacts DEF DiskInv, TypeOK
  <2>2. logged' \in BOOLEAN
    BY <1>1
  <2> HIDE DEF full
  <2> QED BY <1>1, <1>3, <1>4, <1>6, <2>1, <2>2 DEF DiskInv, TypeOK, Table, install
<1>8. ControlInv'
  BY <1>1, <1>2, <1>6 DEF DiskInv, ControlInv, install
<1>9. TableInv'
  BY <1>1, TablesUnchanged DEF install
<1> QED BY <1>7, <1>8, <1>9 DEF DiskInv

\* A table is pushed to level 0 under the next id, by a flush or by a replay.
LEMMA PushedTable ==
  ASSUME DiskInv, pc # "down", NEW t \in Table,
         sst' = WithFile(next_sstable_id, t),
         levels' = [levels EXCEPT ![0] = Append(@, next_sstable_id)],
         next_sstable_id' = next_sstable_id + 1
  PROVE  /\ DOMAIN sst' = DOMAIN sst \cup {next_sstable_id}
         /\ sst' \in [DOMAIN sst' -> Table] /\ DOMAIN sst' \subseteq Nat \ {0}
         /\ sst'[next_sstable_id] = t /\ next_sstable_id \notin DOMAIN sst
         /\ \A id \in DOMAIN sst : sst'[id] = sst[id]
         /\ levels' \in [Level -> Seq(Nat)] /\ next_sstable_id' \in Nat \ {0}
         /\ Range(levels'[0]) = Range(levels[0]) \cup {next_sstable_id}
         /\ \A l \in Level : l # 0 => levels'[l] = levels[l]
         /\ \A l \in Level : Range(levels'[l]) \subseteq DOMAIN sst'
         /\ Disjoint(levels')
         /\ \A id \in DOMAIN sst' : id < next_sstable_id'
<1> DEFINE n == next_sstable_id
<1>1. /\ n \in Nat \ {0} /\ DOMAIN sst \subseteq Nat \ {0} /\ 0 \in Level
      /\ levels \in [Level -> Seq(Nat)] /\ sst \in [DOMAIN sst -> Table]
      /\ \A id \in DOMAIN sst : id < n
      /\ \A l \in Level : Range(levels[l]) \subseteq DOMAIN sst
      /\ Disjoint(levels)
  BY DiskFacts DEF DiskInv, TypeOK, TableInv
<1>2. n \notin DOMAIN sst
  BY <1>1
<1>3. /\ DOMAIN sst' = DOMAIN sst \cup {n} /\ sst' \in [DOMAIN sst' -> Table]
      /\ sst'[n] = t /\ \A id \in DOMAIN sst : sst'[id] = sst[id]
  BY <1>1, <1>2 DEF WithFile
<1>4. Append(levels[0], n) \in Seq(Nat)
      /\ Range(Append(levels[0], n)) = Range(levels[0]) \cup {n}
  <2>1. levels[0] \in Seq(Nat) /\ n \in Nat
    BY <1>1
  <2> HIDE DEF n
  <2> QED BY <2>1, RangeAppend
<1>5. /\ levels' \in [Level -> Seq(Nat)] /\ levels'[0] = Append(levels[0], n)
      /\ \A l \in Level : l # 0 => levels'[l] = levels[l]
  BY <1>1, <1>4
<1>6. \A l \in Level : Range(levels'[l]) \subseteq Range(levels[l]) \cup {n}
  BY <1>4, <1>5
<1>7. \A l \in Level : Range(levels'[l]) \subseteq DOMAIN sst'
  BY <1>1, <1>3, <1>6
<1>8. Disjoint(levels')
  <2> SUFFICES ASSUME NEW l \in Level, NEW m \in Level, l # m
               PROVE  Range(levels'[l]) \cap Range(levels'[m]) = {}
    BY DEF Disjoint
  <2>1. Range(levels[l]) \cap Range(levels[m]) = {}
        /\ n \notin Range(levels[l]) /\ n \notin Range(levels[m])
    BY <1>1, <1>2 DEF Disjoint
  <2>2. l # 0 \/ m # 0
    OBVIOUS
  <2>3. CASE l # 0
    BY <1>5, <1>6, <2>1, <2>3
  <2>4. CASE m # 0
    BY <1>5, <1>6, <2>1, <2>4
  <2> QED BY <2>2, <2>3, <2>4
<1>9. \A id \in DOMAIN sst' : id < n + 1
  BY <1>1, <1>3
<1> QED BY <1>1, <1>2, <1>3, <1>4, <1>5, <1>7, <1>8, <1>9

LEMMA TailOfImmutables ==
  ASSUME DiskInv, immutable_memtables # << >>
  PROVE  /\ Head(immutable_memtables) \in Table
         /\ Tail(immutable_memtables) \in Seq(Table)
BY DiskFacts, HeadTailProperties

LEMMA FlushDisk ==
  ASSUME DiskInv, Flush
  PROVE  DiskInv'
<1> DEFINE t == Head(immutable_memtables)
<1>1. /\ pc \in {"open", "closing"} /\ saving["flush"] = "idle"
      /\ immutable_memtables # << >>
      /\ sst' = WithFile(next_sstable_id, t)
      /\ levels' = [levels EXCEPT ![0] = Append(@, next_sstable_id)]
      /\ next_sstable_id' = next_sstable_id + 1
      /\ immutable_memtables' = Tail(immutable_memtables)
      /\ saving' = [saving EXCEPT !["flush"] = "begin"]
      /\ UNCHANGED <<logs, manifest, memtable, sequence_number, pc, replayed, logged,
                     read_id, obsolete, history>>
  BY DEF Flush
<1>2. t \in Table /\ immutable_memtables' \in Seq(Table)
  BY <1>1, TailOfImmutables
<1> HIDE DEF t
<1>3. /\ DOMAIN sst' = DOMAIN sst \cup {next_sstable_id}
      /\ sst' \in [DOMAIN sst' -> Table] /\ DOMAIN sst' \subseteq Nat \ {0}
      /\ levels' \in [Level -> Seq(Nat)] /\ next_sstable_id' \in Nat \ {0}
      /\ \A l \in Level : Range(levels'[l]) \subseteq DOMAIN sst'
      /\ Disjoint(levels') /\ next_sstable_id \notin DOMAIN sst
      /\ Range(levels'[0]) = Range(levels[0]) \cup {next_sstable_id}
      /\ \A l \in Level : l # 0 => levels'[l] = levels[l]
      /\ \A id \in DOMAIN sst' : id < next_sstable_id'
  BY <1>1, <1>2, PushedTable
<1>4. /\ saving' \in [Thread -> {"idle", "begin", "tmp"}] /\ saving'["flush"] = "begin"
      /\ \A u \in Thread : u # "flush" => saving'[u] = saving[u]
  BY <1>1, ThreadFacts, OneThread DEF DiskInv, TypeOK
<1>5. TypeOK'
  BY <1>1, <1>2, <1>3, <1>4 DEF DiskInv, TypeOK, logs, history, Table
<1>6. ControlInv'
  BY <1>1, <1>4, ThreadFacts DEF DiskInv, ControlInv, logs
<1>7. TableInv'
  <2>1. /\ Named' = Named /\ Named \subseteq DOMAIN sst'
        /\ obsolete' \subseteq DOMAIN sst'
    BY <1>1, <1>3 DEF DiskInv, TableInv, Named
  <2>2. /\ manifest'.next_sstable_id <= next_sstable_id'
        /\ \A u \in Thread : read_id'[u] <= next_sstable_id'
    <3>1. /\ manifest.next_sstable_id \in Nat /\ next_sstable_id \in Nat
          /\ manifest.next_sstable_id <= next_sstable_id
          /\ \A u \in Thread : read_id[u] \in Nat /\ read_id[u] <= next_sstable_id
      BY <1>1 DEF DiskInv, TableInv, TypeOK
    <3> QED BY <1>1, <3>1
  <2>3. \A l \in Level : Range(levels'[l]) \cap obsolete' = {}
    <3>1. obsolete' = obsolete /\ obsolete \cap Range(levels[0]) = {}
          /\ 0 \in Level /\ \A l \in Level : Range(levels[l]) \cap obsolete = {}
      BY <1>1, DiskFacts DEF DiskInv, TableInv
    <3>2. next_sstable_id \notin obsolete
      BY <1>3 DEF DiskInv, TableInv
    <3>3. ASSUME NEW l \in Level PROVE Range(levels'[l]) \cap obsolete = {}
      <4>1. CASE l = 0
        BY <1>3, <3>1, <3>2, <4>1
      <4>2. CASE l # 0
        BY <1>3, <3>1, <4>2
      <4> QED BY <4>1, <4>2
    <3> QED BY <3>1, <3>3
  <2>4. /\ \A u \in Thread : saving'[u] = "tmp" <=> read_id'[u] > 0
        /\ saving'["compact"] = "idle" => Named \cap obsolete' = {}
    BY <1>1, <1>4, ThreadFacts DEF DiskInv, TableInv
  <2> QED BY <1>1, <1>3, <2>1, <2>2, <2>3, <2>4 DEF DiskInv, TableInv
<1> QED BY <1>5, <1>6, <1>7 DEF DiskInv

LEMMA FlushFailsDisk ==
  ASSUME DiskInv, FlushFails
  PROVE  DiskInv'
<1>1. /\ pc \in {"open", "closing"} /\ immutable_memtables # << >>
      /\ next_sstable_id' = next_sstable_id + 1
      /\ immutable_memtables' = Tail(immutable_memtables) /\ unflushed' = TRUE
      /\ UNCHANGED <<disk, memtable, levels, sequence_number, pc, replayed, logged,
                     install, writes, crashes, allowed>>
  BY DEF FlushFails
<1>2. immutable_memtables' \in Seq(Table)
  BY <1>1, TailOfImmutables
<1>3. unflushed' \in BOOLEAN
  BY <1>1
<1>4. next_sstable_id' \in Nat \ {0} /\ next_sstable_id < next_sstable_id'
      /\ next_sstable_id \in Nat
  BY <1>1 DEF DiskInv, TypeOK
<1>5. TypeOK'
  BY <1>1, <1>2, <1>3, <1>4 DEF DiskInv, TypeOK, disk, logs, install, Table
<1>6. ControlInv'
  BY <1>1 DEF DiskInv, ControlInv, disk, logs, install
<1>7. TableInv'
  <2>1. Named' = Named
    BY <1>1 DEF Named, disk
  <2>2. /\ manifest.next_sstable_id <= next_sstable_id'
        /\ \A id \in DOMAIN sst : id < next_sstable_id'
        /\ \A t \in Thread : read_id[t] <= next_sstable_id'
    <3>1. /\ manifest.next_sstable_id \in Nat /\ DOMAIN sst \subseteq Nat
          /\ manifest.next_sstable_id <= next_sstable_id
          /\ \A t \in Thread : read_id[t] \in Nat /\ read_id[t] <= next_sstable_id
          /\ \A id \in DOMAIN sst : id < next_sstable_id
      BY <1>1 DEF DiskInv, TableInv, TypeOK
    <3> QED BY <1>4, <3>1
  <2> QED BY <1>1, <2>1, <2>2 DEF DiskInv, TableInv, disk, install
<1> QED BY <1>5, <1>6, <1>7 DEF DiskInv

LEMMA OpenManifestDisk ==
  ASSUME DiskInv, NEW t \in Thread, OpenManifest(t)
  PROVE  DiskInv'
<1>1. /\ saving[t] = "begin" /\ saving' = [saving EXCEPT ![t] = "tmp"]
      /\ read_id' = [read_id EXCEPT ![t] = next_sstable_id]
      /\ UNCHANGED <<disk, memory, sequence_number, pc, replayed, logged, obsolete,
                     history>>
  BY DEF OpenManifest
<1>2. /\ saving' \in [Thread -> {"idle", "begin", "tmp"}] /\ saving'[t] = "tmp"
      /\ \A u \in Thread : u # t => saving'[u] = saving[u]
  BY <1>1, OneThread DEF DiskInv, TypeOK
<1>3. /\ read_id' \in [Thread -> Nat] /\ read_id'[t] = next_sstable_id
      /\ \A u \in Thread : u # t => read_id'[u] = read_id[u]
      /\ next_sstable_id \in Nat \ {0}
  BY <1>1, OneThread DEF DiskInv, TypeOK
<1>4. /\ saving'["flush"] # "idle" => saving["flush"] # "idle"
      /\ saving'["compact"] # "idle" => saving["compact"] # "idle"
      /\ saving'["compact"] = "idle" => saving["compact"] = "idle"
  BY <1>1, <1>2, ThreadFacts
<1>5. TypeOK'
  BY <1>1, <1>2, <1>3 DEF DiskInv, TypeOK, disk, logs, memory, history
<1>6. ControlInv'
  BY <1>1, <1>4 DEF DiskInv, ControlInv, disk, logs, memory
<1>7. TableInv'
  <2>1. Named' = Named
    BY <1>1 DEF Named, disk
  <2>2. pc # "down" => \A u \in Thread : read_id'[u] <= next_sstable_id
    BY <1>3 DEF DiskInv, TableInv
  <2>3. \A u \in Thread : saving'[u] = "tmp" <=> read_id'[u] > 0
    BY <1>2, <1>3 DEF DiskInv, TableInv
  <2> QED BY <1>1, <1>4, <2>1, <2>2, <2>3 DEF DiskInv, TableInv, disk, memory
<1> QED BY <1>5, <1>6, <1>7 DEF DiskInv

\* What a thread has saved counts every table that levels_ has.
LEMMA SaveManifestDisk ==
  ASSUME DiskInv, OneSaver, NEW t \in Thread, SaveManifest(t)
  PROVE  DiskInv'
<1>1. /\ saving[t] = "tmp" /\ manifest' = Manifest(read_id[t], levels)
      /\ saving' = [saving EXCEPT ![t] = "idle"]
      /\ read_id' = [read_id EXCEPT ![t] = 0]
      /\ UNCHANGED <<logs, sst, memory, sequence_number, pc, replayed, logged,
                     obsolete, history>>
  BY DEF SaveManifest
<1>2. pc # "down"
  BY <1>1 DEF DiskInv, ControlInv, Thread
<1>3. /\ read_id[t] \in Nat \ {0} /\ read_id[t] <= next_sstable_id
      /\ \A l \in Level : \A id \in Range(levels[l]) : id < read_id[t]
  BY <1>1, <1>2 DEF DiskInv, TypeOK, TableInv, OneSaver
<1>4. /\ saving' \in [Thread -> {"idle", "begin", "tmp"}] /\ saving'[t] = "idle"
      /\ \A u \in Thread : u # t => saving'[u] = saving[u]
  BY <1>1, OneThread DEF DiskInv, TypeOK
<1>5. /\ read_id' \in [Thread -> Nat] /\ read_id'[t] = 0
      /\ \A u \in Thread : u # t => read_id'[u] = read_id[u]
  BY <1>1, OneThread DEF DiskInv, TypeOK
<1>6. /\ manifest' \in [next_sstable_id : Nat \ {0}, levels : [Level -> Seq(Nat)]]
      /\ manifest'.levels = levels /\ manifest'.next_sstable_id = read_id[t]
  BY <1>1, <1>3 DEF DiskInv, TypeOK, Manifest
<1>7. TypeOK'
  BY <1>1, <1>4, <1>5, <1>6 DEF DiskInv, TypeOK, logs, memory, history
<1>8. ControlInv'
  <2>1. \A u \in Thread : saving'[u] # "idle" => saving[u] # "idle"
    BY <1>4
  <2> QED BY <1>1, <2>1, ThreadFacts DEF DiskInv, ControlInv, logs, memory
<1>9. TableInv'
  <2>1. Named' = UNION {Range(levels[l]) : l \in Level}
    BY <1>6 DEF Named
  <2>2. /\ \A id \in Named' : id \in DOMAIN sst /\ id < read_id[t]
        /\ Named' \cap obsolete = {}
    BY <1>3, <2>1 DEF DiskInv, TableInv
  <2>3. \A u \in Thread : /\ read_id'[u] <= next_sstable_id
                          /\ saving'[u] = "tmp" <=> read_id'[u] > 0
    <3>1. next_sstable_id \in Nat
      BY DEF DiskInv, TypeOK
    <3>2. \A u \in Thread : /\ read_id[u] <= next_sstable_id
                            /\ saving[u] = "tmp" <=> read_id[u] > 0
      BY <1>2 DEF DiskInv, TableInv
    <3> QED BY <1>4, <1>5, <3>1, <3>2
  <2> QED BY <1>1, <1>2, <1>3, <1>6, <2>2, <2>3 DEF DiskInv, TableInv, memory
<1> QED BY <1>7, <1>8, <1>9 DEF DiskInv

LEMMA SaveManifestFailsDisk ==
  ASSUME DiskInv, NEW t \in Thread, SaveManifestFails(t)
  PROVE  DiskInv'
<1>1. /\ saving[t] # "idle" /\ saving' = [saving EXCEPT ![t] = "idle"]
      /\ read_id' = [read_id EXCEPT ![t] = 0]
      /\ obsolete' = IF t = "compact" THEN {} ELSE obsolete
      /\ UNCHANGED <<disk, memory, sequence_number, pc, replayed, logged, history>>
  BY DEF SaveManifestFails
<1>2. /\ saving' \in [Thread -> {"idle", "begin", "tmp"}] /\ saving'[t] = "idle"
      /\ \A u \in Thread : u # t => saving'[u] = saving[u]
  BY <1>1, OneThread DEF DiskInv, TypeOK
<1>3. /\ read_id' \in [Thread -> Nat] /\ read_id'[t] = 0
      /\ \A u \in Thread : u # t => read_id'[u] = read_id[u]
  BY <1>1, OneThread DEF DiskInv, TypeOK
<1>4. /\ obsolete' \subseteq obsolete
      /\ saving'["compact"] = "idle" => obsolete' = {} \/ saving["compact"] = "idle"
  BY <1>1, <1>2, ThreadFacts
<1>5. TypeOK'
  BY <1>1, <1>2, <1>3, <1>4 DEF DiskInv, TypeOK, disk, logs, memory, history
<1>6. ControlInv'
  <2>1. \A u \in Thread : saving'[u] # "idle" => saving[u] # "idle"
    BY <1>2
  <2> QED BY <1>1, <1>4, <2>1, ThreadFacts DEF DiskInv, ControlInv, disk, logs, memory
<1>7. TableInv'
  <2>1. Named' = Named
    BY <1>1 DEF Named, disk
  <2>2. pc # "down" => \A u \in Thread : read_id'[u] <= next_sstable_id
    <3>1. pc # "down" => next_sstable_id \in Nat
          /\ \A u \in Thread : read_id[u] <= next_sstable_id
      BY DEF DiskInv, TableInv, TypeOK
    <3> QED BY <1>3, <3>1
  <2>3. \A u \in Thread : saving'[u] = "tmp" <=> read_id'[u] > 0
    BY <1>2, <1>3 DEF DiskInv, TableInv
  <2>4. saving'["compact"] = "idle" => Named \cap obsolete' = {}
    BY <1>4 DEF DiskInv, TableInv
  <2>5. \A l \in Level : Range(levels[l]) \cap obsolete' = {}
    BY <1>4 DEF DiskInv, TableInv
  <2> QED BY <1>1, <1>4, <2>1, <2>2, <2>3, <2>4, <2>5 DEF DiskInv, TableInv, disk, memory
<1> QED BY <1>5, <1>6, <1>7 DEF DiskInv

\* The inputs of a compaction are in no level and in no manifest.
LEMMA DeleteInputsDisk ==
  ASSUME DiskInv, DeleteInputs
  PROVE  DiskInv'
<1>1. /\ obsolete # {} /\ saving["compact"] = "idle"
      /\ sst' = Restrict(sst, DOMAIN sst \ obsolete)
      /\ obsolete' = {}
      /\ UNCHANGED <<logs, manifest, memory, sequence_number, pc, replayed, logged,
                     saving, read_id, history>>
  BY DEF DeleteInputs, MayDelete
<1>2. pc = "open" /\ Named \cap obsolete = {}
  BY <1>1 DEF DiskInv, ControlInv, TableInv
<1>3. /\ DOMAIN sst' = DOMAIN sst \ obsolete
      /\ \A id \in DOMAIN sst' : sst'[id] = sst[id]
      /\ sst' \in [DOMAIN sst' -> [Key -> Entry]]
  BY <1>1 DEF Restrict, DiskInv, TypeOK
<1>4. TypeOK'
  BY <1>1, <1>3 DEF DiskInv, TypeOK, logs, memory, history
<1>5. ControlInv'
  BY <1>1 DEF DiskInv, ControlInv, logs, memory
<1>6. TableInv'
  <2>1. Named' = Named
    BY <1>1 DEF Named
  <2>2. \A l \in Level : Range(levels[l]) \subseteq DOMAIN sst'
    BY <1>3 DEF DiskInv, TableInv
  <2>3. Named' \subseteq DOMAIN sst'
    BY <1>2, <1>3, <2>1 DEF DiskInv, TableInv
  <2>4. \A l \in Level : /\ Range(levels'[l]) \subseteq DOMAIN sst'
                        /\ Range(levels'[l]) \cap obsolete' = {}
    BY <1>1, <2>2 DEF memory
  <2>5. \A id \in DOMAIN sst' : id < next_sstable_id
    BY <1>2, <1>3 DEF DiskInv, TableInv
  <2>6. obsolete' \subseteq DOMAIN sst' /\ Named' \cap obsolete' = {}
    BY <1>1
  <2> QED BY <1>1, <1>2, <2>1, <2>3, <2>4, <2>5, <2>6 DEF DiskInv, TableInv, memory
<1> QED BY <1>4, <1>5, <1>6 DEF DiskInv

-----------------------------------------------------------------------------
(* Compaction. *)

\* Among finitely many numbers there is a first highest one.
LEMMA FirstMax ==
  ASSUME NEW n \in Nat, n >= 1, NEW f \in [1 .. n -> Nat]
  PROVE  \E i \in 1 .. n : \A j \in 1 .. n : f[j] < f[i] \/ (f[j] = f[i] /\ i <= j)
<1> DEFINE Best(i, m) == \A j \in 1 .. m : f[j] < f[i] \/ (f[j] = f[i] /\ i <= j)
           Bad == {m \in 1 .. n : \A i \in 1 .. m : ~Best(i, m)}
<1>1. ASSUME NEW m \in 1 .. n, NEW i \in 1 .. m, Best(i, m) PROVE m \notin Bad
  BY <1>1
<1>2. Best(1, 1)
  OBVIOUS
<1>3. ASSUME NEW m \in 1 .. n, m # 1, NEW i \in 1 .. m - 1, Best(i, m - 1)
      PROVE  Best(i, m) \/ Best(m, m)
  <2>1. /\ m \in Nat /\ i \in Nat /\ i < m /\ i \in 1 .. n
        /\ f[i] \in Nat /\ f[m] \in Nat
    BY <1>3
  <2>2. CASE f[i] < f[m]
    <3> SUFFICES ASSUME NEW j \in 1 .. m
                 PROVE  f[j] < f[m] \/ (f[j] = f[m] /\ m <= j)
      OBVIOUS
    <3>1. CASE j = m
      BY <2>1, <3>1
    <3>2. CASE j # m
      <4>1. j \in 1 .. m - 1 /\ f[j] \in Nat
        BY <2>1, <3>2
      <4>2. f[j] <= f[i]
        BY <1>3, <2>1, <4>1
      <4> QED BY <2>1, <2>2, <4>1, <4>2
    <3> QED BY <3>1, <3>2
  <2>3. CASE ~(f[i] < f[m])
    <3> SUFFICES ASSUME NEW j \in 1 .. m
                 PROVE  f[j] < f[i] \/ (f[j] = f[i] /\ i <= j)
      OBVIOUS
    <3>1. CASE j = m
      BY <2>1, <2>3, <3>1
    <3>2. CASE j # m
      <4>1. j \in 1 .. m - 1
        BY <2>1, <3>2
      <4> QED BY <1>3, <4>1
    <3> QED BY <3>1, <3>2
  <2> QED BY <2>2, <2>3
<1> HIDE DEF Best
<1>4. ASSUME Bad # {} PROVE FALSE
  <2>1. Bad \in SUBSET Nat
    OBVIOUS
  <2>2. PICK m \in Bad : \A x \in Bad : m <= x
    BY <1>4, <2>1, LeastOf
  <2>3. m \in 1 .. n /\ \A i \in 1 .. m : ~Best(i, m)
    BY <2>2
  <2>4. m # 1
    BY <1>2, <2>3
  <2>5. m - 1 \in 1 .. n
    BY <2>3, <2>4
  <2>6. m - 1 \notin Bad
    BY <2>2, <2>3
  <2>7. PICK i \in 1 .. m - 1 : Best(i, m - 1)
    BY <2>5, <2>6
  <2>8. i \in 1 .. m /\ m \in 1 .. m
    BY <2>3, <2>7
  <2> QED BY <1>3, <2>3, <2>4, <2>7, <2>8
<1>5. n \in 1 .. n
  OBVIOUS
<1>6. PICK i \in 1 .. n : Best(i, n)
  BY <1>4, <1>5
<1> QED BY <1>6 DEF Best

\* Among the inputs of a merge one has the highest sequence number first.
LEMMA WinnerExists ==
  ASSUME NEW inputs \in Seq(Table), inputs # << >>, NEW k \in Key
  PROVE  \E i \in DOMAIN inputs : IsWinner(inputs, i, k)
<1> DEFINE n == Len(inputs)
           f == [i \in 1 .. n |-> inputs[i][k].seq]
<1>1. n \in Nat /\ n >= 1 /\ DOMAIN inputs = 1 .. n
  OBVIOUS
<1>2. \A i \in 1 .. n : inputs[i][k].seq \in Nat
  <2>1. \A i \in 1 .. n : inputs[i] \in Table
    BY <1>1
  <2> QED BY <2>1 DEF Table, Entry
<1> HIDE DEF n
<1>3. f \in [1 .. n -> Nat] /\ \A i \in 1 .. n : f[i] = inputs[i][k].seq
  BY <1>2
<1> HIDE DEF f
<1>4. PICK i \in 1 .. n : \A j \in 1 .. n : f[j] < f[i] \/ (f[j] = f[i] /\ i <= j)
  BY <1>1, <1>3, FirstMax
<1> QED BY <1>1, <1>3, <1>4 DEF IsWinner

\* The tables of a level.
LEMMA TablesType ==
  ASSUME DiskInv, NEW l \in Level
  PROVE  /\ Tables(l) \in Seq(Table) /\ Len(Tables(l)) = Len(levels[l])
         /\ DOMAIN Tables(l) = DOMAIN levels[l]
         /\ \A i \in DOMAIN levels[l] : /\ Tables(l)[i] = sst[levels[l][i]]
                                        /\ levels[l][i] \in DOMAIN sst
<1>1. /\ levels[l] \in Seq(Nat) /\ Range(levels[l]) \subseteq DOMAIN sst
      /\ sst \in [DOMAIN sst -> Table]
  BY DiskFacts DEF DiskInv, TypeOK, TableInv
<1> QED BY <1>1, TablesOf DEF Tables

\* What a merge makes of a key: an entry of the inputs with the highest number, or
\* nothing in the place of a deletion.
Inputs(l) == Tables(l) \o Tables(l + 1)

LEMMA MergedFacts ==
  ASSUME DiskInv, NEW l \in 0 .. NumLevels - 2, levels[l] # << >>, NEW k \in Key
  PROVE  /\ Merged(l, k) \in Entry /\ Inputs(l) \in Seq(Table)
         /\ \E i \in DOMAIN Inputs(l) :
              /\ \A j \in DOMAIN Inputs(l) : Inputs(l)[j][k].seq <= Inputs(l)[i][k].seq
              /\ Drop(l, k, Inputs(l)[i][k]) => Merged(l, k) = Absent
              /\ ~Drop(l, k, Inputs(l)[i][k]) => Merged(l, k) = Inputs(l)[i][k]
<1> DEFINE inputs == Tables(l) \o Tables(l + 1)
           w == CHOOSE i \in DOMAIN inputs : IsWinner(inputs, i, k)
<1>1. l \in Level /\ l + 1 \in Level
  BY NumLevelsAssumption DEF Level
<1>2. /\ Tables(l) \in Seq(Table) /\ Tables(l + 1) \in Seq(Table)
      /\ Len(Tables(l)) = Len(levels[l]) /\ levels[l] \in Seq(Nat)
  BY <1>1, TablesType DEF DiskInv, TypeOK
<1>3. /\ inputs \in Seq(Table) /\ Len(inputs) = Len(Tables(l)) + Len(Tables(l + 1))
      /\ Len(Tables(l)) \in Nat /\ Len(Tables(l + 1)) \in Nat
  BY <1>2, ConcatProperties, LenProperties
<1>4. inputs # << >>
  <2>1. Len(levels[l]) # 0
    BY <1>2
  <2>2. Len(inputs) # 0
    BY <1>2, <1>3, <2>1
  <2> HIDE DEF inputs
  <2> QED BY <1>3, <2>2
<1>5. Merged(l, k) = IF Drop(l, k, inputs[w][k]) THEN Absent ELSE inputs[w][k]
  BY DEF Merged
<1> HIDE DEF inputs
<1>6. w \in DOMAIN inputs /\ IsWinner(inputs, w, k)
  BY <1>3, <1>4, WinnerExists
<1> HIDE DEF w
<1>7. \A j \in DOMAIN inputs : inputs[j][k] \in Entry /\ inputs[j][k].seq \in Nat
  <2>1. \A j \in DOMAIN inputs : inputs[j] \in Table
    BY <1>3
  <2> QED BY <2>1 DEF Table, Entry
<1>8. \A j \in DOMAIN inputs : inputs[j][k].seq <= inputs[w][k].seq
  BY <1>6, <1>7 DEF IsWinner
<1>9. Merged(l, k) \in Entry
  BY <1>5, <1>6, <1>7, EntryFacts
<1>10. inputs = Inputs(l)
  BY DEF inputs, Inputs
<1> QED BY <1>3, <1>5, <1>6, <1>8, <1>9, <1>10

\* The tables of a compaction: the output takes the place of both levels.
LEMMA CompactTables ==
  ASSUME DiskInv, NEW l \in 0 .. NumLevels - 2, CompactLevel(l)
  PROVE  LET n == next_sstable_id
             merged == [k \in Key |-> Merged(l, k)]
             empty == Count(merged) = 0
         IN  /\ l \in Level /\ l + 1 \in Level /\ l # l + 1
             /\ merged \in Table /\ n \notin DOMAIN sst /\ n \in Nat \ {0}
             /\ DOMAIN sst' = IF empty THEN DOMAIN sst ELSE DOMAIN sst \cup {n}
             /\ sst' \in [DOMAIN sst' -> Table] /\ DOMAIN sst' \subseteq Nat \ {0}
             /\ \A id \in DOMAIN sst : sst'[id] = sst[id]
             /\ ~empty => sst'[n] = merged
             /\ levels' \in [Level -> Seq(Nat)]
             /\ levels'[l] = << >>
             /\ levels'[l + 1] = IF empty THEN << >> ELSE <<n>>
             /\ \A m \in Level : m # l /\ m # l + 1 => levels'[m] = levels[m]
<1> DEFINE n == next_sstable_id
           merged == [k \in Key |-> Merged(l, k)]
           empty == Count(merged) = 0
<1>1. l \in Level /\ l + 1 \in Level /\ l # l + 1
  BY NumLevelsAssumption DEF Level
<1>2. /\ pc = "open" /\ levels[l] # << >>
      /\ sst' = IF empty THEN sst ELSE WithFile(n, merged)
      /\ levels' = [levels EXCEPT ![l] = << >>,
                                  ![l + 1] = IF empty THEN << >> ELSE <<n>>]
  BY DEF CompactLevel
<1>3. \A k \in Key : Merged(l, k) \in Entry
  BY <1>2, MergedFacts
<1>4. merged \in Table
  BY <1>3 DEF Table
<1>5. /\ n \in Nat \ {0} /\ n \notin DOMAIN sst /\ sst \in [DOMAIN sst -> Table]
      /\ DOMAIN sst \subseteq Nat \ {0} /\ levels \in [Level -> Seq(Nat)]
  <2>1. n \in Nat \ {0} /\ \A id \in DOMAIN sst : id < n
    BY <1>2 DEF DiskInv, TypeOK, TableInv
  <2>2. DOMAIN sst \subseteq Nat \ {0} /\ levels \in [Level -> Seq(Nat)]
    BY DEF DiskInv, TypeOK
  <2> QED BY <2>1, <2>2, DiskFacts
<1> HIDE DEF merged
<1>6. /\ DOMAIN WithFile(n, merged) = DOMAIN sst \cup {n}
      /\ WithFile(n, merged) \in [DOMAIN WithFile(n, merged) -> Table]
      /\ WithFile(n, merged)[n] = merged
      /\ \A id \in DOMAIN sst : WithFile(n, merged)[id] = sst[id]
  BY <1>4, <1>5 DEF WithFile
<1> HIDE DEF n, empty
<1>7. /\ DOMAIN sst' = IF empty THEN DOMAIN sst ELSE DOMAIN sst \cup {n}
      /\ sst' \in [DOMAIN sst' -> Table] /\ DOMAIN sst' \subseteq Nat \ {0}
      /\ \A id \in DOMAIN sst : sst'[id] = sst[id]
      /\ ~empty => sst'[n] = merged
  <2>1. CASE empty
    BY <1>2, <1>5, <2>1
  <2>2. CASE ~empty
    BY <1>2, <1>5, <1>6, <2>2
  <2> QED BY <2>1, <2>2
<1>8. << >> \in Seq(Nat) /\ <<n>> \in Seq(Nat)
  BY <1>5
<1>9. /\ levels' \in [Level -> Seq(Nat)] /\ levels'[l] = << >>
      /\ levels'[l + 1] = IF empty THEN << >> ELSE <<n>>
      /\ \A m \in Level : m # l /\ m # l + 1 => levels'[m] = levels[m]
  BY <1>1, <1>2, <1>5, <1>8
<1> QED BY <1>1, <1>4, <1>5, <1>7, <1>9 DEF n, empty, merged

LEMMA CompactLevelDisk ==
  ASSUME DiskInv, NEW l \in 0 .. NumLevels - 2, CompactLevel(l)
  PROVE  DiskInv'
<1> DEFINE n == next_sstable_id
           merged == [k \in Key |-> Merged(l, k)]
           empty == Count(merged) = 0
<1>1. /\ pc = "open" /\ saving["compact"] = "idle" /\ obsolete = {}
      /\ next_sstable_id' = IF empty THEN n ELSE n + 1
      /\ obsolete' = Range(levels[l]) \cup Range(levels[l + 1])
      /\ saving' = [saving EXCEPT !["compact"] = "begin"]
      /\ UNCHANGED <<logs, manifest, memtable, immutable_memtables,
                     sequence_number, pc, replayed, logged, read_id, history>>
  BY DEF CompactLevel
<1>2. /\ l \in Level /\ l + 1 \in Level /\ l # l + 1
      /\ merged \in Table /\ n \notin DOMAIN sst /\ n \in Nat \ {0}
      /\ DOMAIN sst' = IF empty THEN DOMAIN sst ELSE DOMAIN sst \cup {n}
      /\ sst' \in [DOMAIN sst' -> Table] /\ DOMAIN sst' \subseteq Nat \ {0}
      /\ levels' \in [Level -> Seq(Nat)]
      /\ levels'[l] = << >>
      /\ levels'[l + 1] = IF empty THEN << >> ELSE <<n>>
      /\ \A m \in Level : m # l /\ m # l + 1 => levels'[m] = levels[m]
  BY CompactTables
<1> HIDE DEF merged, n, empty
<1>3. /\ Range(levels'[l]) = {} /\ Range(<<n>>) = {n}
      /\ Range(levels'[l + 1]) = IF empty THEN {} ELSE {n}
  BY <1>2, RangeEmpty DEF Range
<1>4. /\ levels \in [Level -> Seq(Nat)]
      /\ \A m \in Level : Range(levels[m]) \subseteq DOMAIN sst
      /\ Disjoint(levels) /\ \A id \in DOMAIN sst : id < n
      /\ manifest.next_sstable_id <= n
      /\ manifest.next_sstable_id \in Nat /\ DOMAIN sst \subseteq Nat
  BY <1>1 DEF DiskInv, TypeOK, TableInv, n
<1>5. /\ next_sstable_id' \in Nat \ {0} /\ n <= next_sstable_id'
      /\ \A id \in DOMAIN sst' : id < next_sstable_id'
  <2>1. CASE empty
    BY <1>1, <1>2, <1>4, <2>1
  <2>2. CASE ~empty
    BY <1>1, <1>2, <1>4, <2>2
  <2> QED BY <2>1, <2>2
<1>6. obsolete' \subseteq Nat /\ obsolete' \subseteq DOMAIN sst
  BY <1>1, <1>2, <1>4
<1>7. /\ saving' \in [Thread -> {"idle", "begin", "tmp"}] /\ saving'["compact"] = "begin"
      /\ \A u \in Thread : u # "compact" => saving'[u] = saving[u]
  BY <1>1, ThreadFacts, OneThread DEF DiskInv, TypeOK
<1>8. TypeOK'
  BY <1>1, <1>2, <1>5, <1>6, <1>7 DEF DiskInv, TypeOK, logs, history, Table
<1>9. ControlInv'
  BY <1>1, <1>7, ThreadFacts DEF DiskInv, ControlInv, logs
<1>10. DOMAIN sst \subseteq DOMAIN sst'
  BY <1>2
<1>11. \A m \in Level : /\ Range(levels'[m]) \subseteq DOMAIN sst'
                        /\ Range(levels'[m]) \cap obsolete' = {}
  <2> SUFFICES ASSUME NEW m \in Level
               PROVE  /\ Range(levels'[m]) \subseteq DOMAIN sst'
                      /\ Range(levels'[m]) \cap obsolete' = {}
    OBVIOUS
  <2>1. CASE m = l
    BY <1>3, <2>1
  <2>2. CASE m = l + 1
    BY <1>2, <1>3, <1>6, <2>2
  <2>3. CASE m # l /\ m # l + 1
    <3>1. levels'[m] = levels[m]
      BY <1>2, <2>3
    <3>2. Range(levels[m]) \cap Range(levels[l]) = {}
          /\ Range(levels[m]) \cap Range(levels[l + 1]) = {}
      BY <1>2, <1>4, <2>3 DEF Disjoint
    <3> QED BY <1>1, <1>4, <1>10, <3>1, <3>2
  <2> QED BY <2>1, <2>2, <2>3
<1>12. Disjoint(levels')
  <2> SUFFICES ASSUME NEW a \in Level, NEW b \in Level, a # b
               PROVE  Range(levels'[a]) \cap Range(levels'[b]) = {}
    BY DEF Disjoint
  <2>1. CASE a = l \/ b = l
    BY <1>3, <2>1
  <2>2. CASE a # l /\ b # l
    <3>1. \A m \in Level : m # l /\ m # l + 1 =>
            Range(levels'[m]) = Range(levels[m]) /\ n \notin Range(levels'[m])
      BY <1>2, <1>4
    <3>2. CASE a = l + 1
      BY <1>3, <2>2, <3>1, <3>2
    <3>3. CASE b = l + 1
      BY <1>3, <2>2, <3>1, <3>3
    <3>4. CASE a # l + 1 /\ b # l + 1
      BY <1>4, <2>2, <3>1, <3>4 DEF Disjoint
    <3> QED BY <3>2, <3>3, <3>4
  <2> QED BY <2>1, <2>2
<1>13. TableInv'
  <2>1. Named' = Named /\ Named \subseteq DOMAIN sst'
    BY <1>1, <1>10 DEF DiskInv, TableInv, Named
  <2>2. manifest.next_sstable_id <= next_sstable_id'
    BY <1>2, <1>4, <1>5
  <2>3. \A u \in Thread : /\ read_id'[u] <= next_sstable_id'
                          /\ saving'[u] = "tmp" <=> read_id'[u] > 0
    <3>1. \A u \in Thread : /\ read_id[u] \in Nat /\ read_id[u] <= n
                            /\ saving[u] = "tmp" <=> read_id[u] > 0
      BY <1>1 DEF DiskInv, TableInv, TypeOK, n
    <3> QED BY <1>1, <1>2, <1>5, <1>7, <3>1
  <2>4. obsolete' \subseteq DOMAIN sst' /\ saving'["compact"] # "idle"
    BY <1>6, <1>7, <1>10
  <2> QED BY <1>1, <1>5, <1>11, <1>12, <2>1, <2>2, <2>3, <2>4 DEF DiskInv, TableInv
<1> QED BY <1>8, <1>9, <1>13 DEF DiskInv

-----------------------------------------------------------------------------
(* Going down and Open. *)

LEMMA NoTablesFacts ==
  /\ NoTables \in [Level -> Seq(Nat)]
  /\ \A l \in Level : NoTables[l] = << >> /\ Range(NoTables[l]) = {}
  /\ Disjoint(NoTables)
<1>1. \A l \in Level : NoTables[l] = << >>
  BY DEF NoTables
<1> QED BY <1>1, RangeEmpty DEF NoTables, Disjoint

\* What has its name in the manifest stays.
LEMMA NamedFilesFacts ==
  ASSUME DiskInv
  PROVE  /\ DOMAIN NamedFiles = Named
         /\ NamedFiles \in [DOMAIN NamedFiles -> Table]
         /\ \A id \in Named : NamedFiles[id] = sst[id] /\ id \in DOMAIN sst
<1>1. Named \subseteq DOMAIN sst /\ Named \cap DOMAIN sst = Named
  BY DEF DiskInv, TableInv
<1> QED BY <1>1, DiskFacts DEF NamedFiles, Restrict

LEMMA NamedFilesStay ==
  ASSUME DiskInv, manifest' = manifest, sst' = NamedFiles
  PROVE  /\ manifest' \in [next_sstable_id : Nat \ {0}, levels : [Level -> Seq(Nat)]]
         /\ sst' \in [DOMAIN sst' -> Table] /\ DOMAIN sst' \subseteq Nat \ {0}
         /\ DOMAIN sst' = Named' /\ Disjoint(manifest'.levels)
         /\ \A id \in Named' : id < manifest'.next_sstable_id
<1>1. DOMAIN sst' = Named /\ sst' \in [DOMAIN sst' -> Table]
      /\ Named \subseteq DOMAIN sst
  BY NamedFilesFacts
<1>2. Named' = Named
  BY DEF Named
<1>3. /\ DOMAIN sst \subseteq Nat \ {0}
      /\ manifest \in [next_sstable_id : Nat \ {0}, levels : [Level -> Seq(Nat)]]
  BY DEF DiskInv, TypeOK
<1> QED BY <1>1, <1>2, <1>3 DEF DiskInv, TableInv

\* Memory after the process is gone.
LEMMA ForgetDisk ==
  ASSUME DiskInv, Forget, crashes < MaxCrashes, writes' = writes,
         manifest' \in [next_sstable_id : Nat \ {0}, levels : [Level -> Seq(Nat)]],
         sst' \in [DOMAIN sst' -> Table], DOMAIN sst' \subseteq Nat \ {0},
         DOMAIN sst' = Named', Disjoint(manifest'.levels),
         \A id \in Named' : id < manifest'.next_sstable_id,
         wal' \in Seq(Seq(WALRecord)), wal' # << >>,
         synced' \in [DOMAIN wal' -> Nat],
         \A i \in DOMAIN wal' : synced'[i] <= Len(wal'[i]),
         allowed' \in [Key -> SUBSET (0 .. MaxWrites)]
  PROVE  DiskInv'
<1>1. /\ pc' = "down" /\ memtable' = EmptyTable /\ immutable_memtables' = << >>
      /\ levels' = NoTables /\ next_sstable_id' = 1 /\ sequence_number' = 1
      /\ saving' = Idle /\ read_id' = NothingRead
      /\ obsolete' = {} /\ replayed' = 0 /\ crashes' = crashes + 1
  BY DEF Forget
<1>2. /\ logged' = FALSE /\ unflushed' = FALSE
      /\ logged' \in BOOLEAN /\ unflushed' \in BOOLEAN
  BY DEF Forget
<1>3. TypeOK'
  <2>1. /\ memtable' \in [Key -> Entry] /\ Count(memtable') < MemLimit
        /\ immutable_memtables' \in Seq([Key -> Entry])
        /\ levels' \in [Level -> Seq(Nat)] /\ next_sstable_id' \in Nat \ {0}
        /\ sequence_number' \in Nat \ {0} /\ pc' \in {"down", "replay", "open", "closing"}
        /\ obsolete' \subseteq Nat
        /\ saving' \in [Thread -> {"idle", "begin", "tmp"}]
        /\ read_id' \in [Thread -> Nat]
    BY <1>1, EntryFacts, CountEmpty, NoTablesFacts, ThreadFacts DEF Table
  <2>2. replayed' \in 0 .. Len(wal') /\ crashes' \in 0 .. MaxCrashes
    BY <1>1, BoundsAssumption DEF DiskInv, TypeOK
  <2>3. writes' \in 0 .. MaxWrites
    BY DEF DiskInv, TypeOK
  <2> QED BY <1>2, <2>1, <2>2, <2>3 DEF TypeOK, Table
<1>4. ControlInv'
  BY <1>1, <1>2, ThreadFacts DEF ControlInv
<1>5. TableInv'
  BY <1>1, <1>2, NoTablesFacts, ThreadFacts DEF TableInv
<1> QED BY <1>3, <1>4, <1>5 DEF DiskInv

\* What a crash leaves of the logs.
LEMMA CrashDisk ==
  ASSUME DiskInv, Crash
  PROVE  DiskInv'
<1>1. /\ crashes < MaxCrashes /\ Forget /\ sst' = NamedFiles
      /\ manifest' = manifest /\ writes' = writes
      /\ allowed' = IF logged THEN [allowed EXCEPT ![Last(Last(wal)).key] =
                                      @ \cup {Visible(EntryOf(Last(Last(wal))))}]
                              ELSE allowed
  BY DEF Crash
<1>2. PICK kept \in [DOMAIN wal -> 0 .. MaxWrites + 1] :
        /\ Survives(kept)
        /\ wal' = [i \in DOMAIN wal |-> SubSeq(wal[i], 1, kept[i])]
        /\ synced' = kept
  BY DEF Crash
<1>3. ASSUME NEW i \in DOMAIN wal
      PROVE  /\ kept[i] \in Nat
             /\ wal'[i] \in Seq(WALRecord) /\ Len(wal'[i]) = kept[i]
  <2>1. /\ wal[i] \in Seq(WALRecord) /\ Len(wal[i]) \in Nat
        /\ synced[i] \in Nat
    BY DEF DiskInv, TypeOK
  <2>2. kept[i] \in Nat /\ kept[i] <= Len(wal[i])
    BY <1>2, <2>1, BoundsAssumption DEF Survives
  <2>3. \A j \in 1 .. kept[i] : wal[i][j] \in WALRecord
    BY <2>1, <2>2
  <2>4. /\ SubSeq(wal[i], 1, kept[i]) \in Seq(WALRecord)
        /\ Len(SubSeq(wal[i], 1, kept[i])) =
             IF 1 <= kept[i] THEN kept[i] - 1 + 1 ELSE 0
    BY <2>2, <2>3, SubSeqProperties
  <2> QED BY <1>2, <2>2, <2>4
<1>4. /\ wal' \in Seq(Seq(WALRecord)) /\ wal' # << >> /\ DOMAIN wal' = DOMAIN wal
  <2>1. wal' \in [1 .. Len(wal) -> Seq(WALRecord)] /\ Len(wal) \in Nat /\ Len(wal) >= 1
    BY <1>2, <1>3, DiskFacts
  <2>2. wal' \in Seq(Seq(WALRecord)) /\ DOMAIN wal' = 1 .. Len(wal)
    BY <2>1
  <2>3. wal' # << >>
    BY <2>1, <2>2
  <2> QED BY <2>2, <2>3, DiskFacts
<1>5. /\ synced' \in [DOMAIN wal' -> Nat]
      /\ \A i \in DOMAIN wal' : synced'[i] <= Len(wal'[i])
  BY <1>2, <1>3, <1>4
<1>6. allowed' \in [Key -> SUBSET (0 .. MaxWrites)]
  <2>1. CASE logged
    <3> DEFINE rec == Last(Last(wal))
    <3>1. rec \in WALRecord
      BY <2>1, LoggedFacts
    <3>2. Visible(EntryOf(rec)) \in 0 .. MaxWrites
      BY <3>1, BoundsAssumption DEF Visible, EntryOf, WALRecord
    <3> HIDE DEF rec
    <3>3. allowed' = [allowed EXCEPT ![rec.key] = @ \cup {Visible(EntryOf(rec))}]
      BY <1>1, <2>1 DEF rec
    <3> QED BY <3>2, <3>3 DEF DiskInv, TypeOK
  <2>2. CASE ~logged
    BY <1>1, <2>2 DEF DiskInv, TypeOK
  <2> QED BY <2>1, <2>2
<1> QED BY <1>1, <1>4, <1>5, <1>6, NamedFilesStay, ForgetDisk

CloseRest == (IF Count(memtable) > 0 THEN <<memtable>> ELSE << >>) \o immutable_memtables

\* What is left to be flushed is in memory.
LEMMA CloseRestFacts ==
  ASSUME DiskInv
  PROVE  /\ CloseRest \in Seq(Table)
         /\ \A j \in DOMAIN CloseRest :
              \/ CloseRest[j] = memtable
              \/ \E i \in DOMAIN immutable_memtables : CloseRest[j] = immutable_memtables[i]
<1> DEFINE a == IF Count(memtable) > 0 THEN <<memtable>> ELSE << >>
<1>1. /\ a \in Seq(Table) /\ Len(a) \in Nat /\ \A j \in 1 .. Len(a) : a[j] = memtable
  <2>1. <<memtable>> \in Seq(Table) /\ << >> \in Seq(Table)
        /\ Len(<<memtable>>) = 1 /\ Len(<< >>) = 0 /\ <<memtable>>[1] = memtable
    BY DiskFacts
  <2>2. CASE Count(memtable) > 0
    BY <2>1, <2>2
  <2>3. CASE ~(Count(memtable) > 0)
    BY <2>1, <2>3
  <2> QED BY <2>2, <2>3
<1> HIDE DEF a
<1>2. immutable_memtables \in Seq(Table) /\ Len(immutable_memtables) \in Nat
      /\ DOMAIN immutable_memtables = 1 .. Len(immutable_memtables)
  BY DiskFacts, LenProperties
<1>3. CloseRest = a \o immutable_memtables
  BY DEF CloseRest, a
<1>4. /\ CloseRest \in Seq(Table) /\ Len(CloseRest) = Len(a) + Len(immutable_memtables)
      /\ \A i \in 1 .. Len(a) + Len(immutable_memtables) :
           CloseRest[i] = IF i <= Len(a) THEN a[i] ELSE immutable_memtables[i - Len(a)]
  BY <1>1, <1>2, <1>3, ConcatProperties
<1>5. DOMAIN CloseRest = 1 .. Len(a) + Len(immutable_memtables)
  BY <1>4, LenProperties
<1>6. ASSUME NEW j \in DOMAIN CloseRest
      PROVE  \/ CloseRest[j] = memtable
             \/ \E i \in DOMAIN immutable_memtables : CloseRest[j] = immutable_memtables[i]
  <2>1. CASE j <= Len(a)
    <3>1. j \in 1 .. Len(a) /\ j \in 1 .. Len(a) + Len(immutable_memtables)
      BY <1>1, <1>2, <1>5, <2>1
    <3> QED BY <1>1, <1>4, <2>1, <3>1
  <2>2. CASE ~(j <= Len(a))
    <3>1. /\ j - Len(a) \in DOMAIN immutable_memtables
          /\ j \in 1 .. Len(a) + Len(immutable_memtables)
      BY <1>1, <1>2, <1>5, <2>2
    <3> QED BY <1>4, <2>2, <3>1
  <2> QED BY <2>1, <2>2
<1> QED BY <1>4, <1>6

LEMMA CloseDisk ==
  ASSUME DiskInv, Close
  PROVE  DiskInv'
<1>1. /\ pc = "open" /\ ~logged /\ saving = Idle /\ obsolete = {} /\ pc' = "closing"
      /\ immutable_memtables' = CloseRest /\ memtable' = EmptyTable
      /\ UNCHANGED <<disk, levels, next_sstable_id, sequence_number, replayed, logged,
                     install, history>>
  BY DEF Close, CloseRest
<1>2. /\ immutable_memtables' \in Seq(Table) /\ memtable' \in Table
      /\ Count(memtable') < MemLimit
  BY <1>1, CloseRestFacts, EntryFacts, CountEmpty
<1>3. TypeOK'
  BY <1>1, <1>2 DEF DiskInv, TypeOK, disk, logs, install, history, Table
<1>4. ControlInv'
  BY <1>1, ThreadFacts DEF DiskInv, ControlInv, disk, logs, install
<1>5. TableInv'
  BY <1>1 DEF DiskInv, TableInv, Named, Disjoint, disk, install
<1> QED BY <1>3, <1>4, <1>5 DEF DiskInv

LEMMA ClosedDisk ==
  ASSUME DiskInv, Closed
  PROVE  DiskInv'
<1>1. /\ crashes < MaxCrashes /\ sst' = NamedFiles
      /\ synced' = [synced EXCEPT ![Len(wal)] = Len(Last(wal))]
      /\ Forget /\ UNCHANGED <<wal, manifest, writes, allowed>>
  BY DEF Closed
<1>2. /\ synced' \in [DOMAIN wal' -> Nat]
      /\ \A i \in DOMAIN wal' : synced'[i] <= Len(wal'[i])
  <2>1. /\ synced \in [DOMAIN wal -> Nat] /\ wal' = wal
        /\ \A i \in DOMAIN wal : synced[i] <= Len(wal[i])
    BY <1>1 DEF DiskInv, TypeOK
  <2>2. /\ Last(wal) = wal[Len(wal)] /\ Len(Last(wal)) \in Nat
        /\ Len(wal) \in DOMAIN wal
    BY DiskFacts
  <2>3. synced' \in [DOMAIN wal -> Nat]
    BY <1>1, <2>1, <2>2
  <2>4. ASSUME NEW i \in DOMAIN wal PROVE synced'[i] <= Len(wal[i])
    <3>1. CASE i = Len(wal)
      <4>1. synced'[i] = Len(wal[i])
        BY <1>1, <2>1, <2>2, <3>1
      <4> QED BY <2>2, <3>1, <4>1
    <3>2. CASE i # Len(wal)
      BY <1>1, <2>1, <3>2
    <3> QED BY <3>1, <3>2
  <2> QED BY <2>1, <2>3, <2>4
<1>3. /\ wal' \in Seq(Seq(WALRecord)) /\ wal' # << >>
      /\ allowed' \in [Key -> SUBSET (0 .. MaxWrites)]
  BY <1>1 DEF DiskInv, TypeOK, ControlInv
<1> QED BY <1>1, <1>2, <1>3, NamedFilesStay, ForgetDisk

\* Every table that the manifest names is there, and none is skipped.
LEMMA LoadManifestDisk ==
  ASSUME DiskInv, LoadManifest
  PROVE  DiskInv' /\ levels' = manifest.levels
<1>1. /\ pc = "down" /\ levels' = [l \in Level |-> Loaded(manifest.levels[l])]
      /\ next_sstable_id' = manifest.next_sstable_id /\ pc' = "replay"
      /\ UNCHANGED <<disk, memtable, immutable_memtables, sequence_number,
                     replayed, logged, install, history>>
  BY DEF LoadManifest
<1>2. manifest \in [next_sstable_id : Nat \ {0}, levels : [Level -> Seq(Nat)]]
  BY DEF DiskInv, TypeOK
<1>3. \A l \in Level : Range(manifest.levels[l]) \subseteq DOMAIN sst
  BY DEF DiskInv, TableInv, Named
<1>4. levels' = manifest.levels
  BY <1>1, <1>2, <1>3 DEF Loaded
<1>5. TypeOK'
  BY <1>1, <1>2, <1>4 DEF DiskInv, TypeOK, disk, logs, install, history
<1>6. ControlInv'
  BY <1>1 DEF DiskInv, ControlInv, disk, logs, install
<1>7. TableInv'
  <2>1. Named' = Named
    BY <1>1 DEF Named, disk
  <2>2. obsolete' = {} /\ sst' = sst /\ manifest' = manifest
    BY <1>1 DEF DiskInv, ControlInv, disk, install
  <2>3. \A id \in DOMAIN sst : id < manifest.next_sstable_id
    BY <1>1 DEF DiskInv, TableInv
  <2>4. manifest.next_sstable_id <= next_sstable_id'
    BY <1>1, <1>2
  <2>5. \A l \in Level : /\ Range(levels'[l]) \subseteq DOMAIN sst'
                        /\ Range(levels'[l]) \cap obsolete' = {}
    BY <1>3, <1>4, <2>2
  <2>6. Named \subseteq DOMAIN sst /\ Disjoint(manifest.levels)
        /\ \A id \in Named : id < manifest.next_sstable_id
    BY DEF DiskInv, TableInv
  <2>7. /\ obsolete' \subseteq DOMAIN sst' /\ Named \cap obsolete' = {}
        /\ \A t \in Thread : saving'[t] = "tmp" <=> read_id'[t] > 0
    BY <1>1, <2>2 DEF DiskInv, TableInv, install
  <2>8. \A t \in Thread : read_id'[t] <= next_sstable_id'
    <3>1. ASSUME NEW t \in Thread PROVE read_id[t] = 0
      <4>1. saving[t] # "tmp"
        BY <1>1 DEF DiskInv, ControlInv, Thread
      <4> QED BY <4>1 DEF DiskInv, TableInv, TypeOK
    <3> QED BY <1>1, <1>2, <3>1 DEF install
  <2> QED BY <1>1, <1>4, <2>1, <2>2, <2>3, <2>4, <2>5, <2>6, <2>7, <2>8 DEF TableInv
<1> QED BY <1>4, <1>5, <1>6, <1>7 DEF DiskInv

\* WAL::Recover returns a prefix of the file, up to the first torn record.
LEMMA RecoverFacts ==
  ASSUME NEW file \in Seq(WALRecord)
  PROVE  /\ Recover(file) \in Seq(WALRecord)
         /\ Len(Recover(file)) \in Nat /\ Len(Recover(file)) <= Len(file)
         /\ \A i \in 1 .. Len(Recover(file)) : Recover(file)[i] = file[i]
         /\ \A i \in DOMAIN file : i > Len(Recover(file)) =>
              \E j \in DOMAIN file : j <= i /\ file[j] = Torn
<1> DEFINE torn == {i \in DOMAIN file : file[i] = Torn}
           first == CHOOSE i \in torn : \A j \in torn : i <= j
<1>1. Len(file) \in Nat /\ DOMAIN file = 1 .. Len(file)
  BY LenProperties
<1>2. CASE torn = {}
  <2>1. Recover(file) = file
    BY <1>2 DEF Recover
  <2> QED BY <1>1, <2>1
<1>3. CASE torn # {}
  <2>1. Recover(file) = SubSeq(file, 1, first - 1)
    BY <1>3 DEF Recover
  <2>2. first \in torn /\ \A j \in torn : first <= j
    <3>1. torn \in SUBSET Nat
      BY <1>1
    <3>2. \E m \in torn : \A x \in torn : m <= x
      BY <1>3, <3>1, LeastOf
    <3> QED BY <3>2
  <2>3. first \in 1 .. Len(file) /\ file[first] = Torn
    BY <1>1, <2>2
  <2> HIDE DEF first
  <2>4. \A i \in 1 .. first - 1 : file[i] \in WALRecord
    BY <1>1, <2>3
  <2>5. /\ Recover(file) \in Seq(WALRecord)
        /\ Len(Recover(file)) = IF 1 <= first - 1 THEN (first - 1) - 1 + 1 ELSE 0
        /\ \A i \in 1 .. (first - 1) - 1 + 1 : Recover(file)[i] = file[1 + i - 1]
    BY <1>1, <2>1, <2>3, <2>4, SubSeqProperties
  <2>6. Len(Recover(file)) = first - 1
    BY <1>1, <2>3, <2>5
  <2>7. \A i \in 1 .. first - 1 : Recover(file)[i] = file[i]
    BY <1>1, <2>3, <2>5
  <2>8. ASSUME NEW i \in DOMAIN file, i > Len(Recover(file))
        PROVE  \E j \in DOMAIN file : j <= i /\ file[j] = Torn
    <3>1. first <= i
      BY <1>1, <2>3, <2>6, <2>8
    <3> QED BY <1>1, <2>3, <3>1
  <2>9. Len(Recover(file)) \in Nat /\ Len(Recover(file)) <= Len(file)
    BY <1>1, <2>3, <2>6
  <2> QED BY <2>5, <2>6, <2>7, <2>8, <2>9
<1> QED BY <1>2, <1>3

\* The memtable after a replay: the last record of each key, or what was there.
LEMMA ReplayFacts ==
  ASSUME NEW mem \in Table, NEW records \in Seq(WALRecord)
  PROVE  /\ Replay(mem, records) \in Table
         /\ \A k \in Key :
              \/ /\ \A i \in DOMAIN records : records[i].key # k
                 /\ Replay(mem, records)[k] = mem[k]
              \/ \E i \in DOMAIN records :
                   /\ records[i].key = k /\ Replay(mem, records)[k] = EntryOf(records[i])
                   /\ \A j \in DOMAIN records : records[j].key = k => j <= i
<1>1. Len(records) \in Nat /\ DOMAIN records = 1 .. Len(records)
  BY LenProperties
<1>2. ASSUME NEW k \in Key
      PROVE  /\ Replay(mem, records)[k] \in Entry
             /\ \/ /\ \A i \in DOMAIN records : records[i].key # k
                   /\ Replay(mem, records)[k] = mem[k]
                \/ \E i \in DOMAIN records :
                     /\ records[i].key = k /\ Replay(mem, records)[k] = EntryOf(records[i])
                     /\ \A j \in DOMAIN records : records[j].key = k => j <= i
  <2> DEFINE at == {i \in DOMAIN records : records[i].key = k}
             top == CHOOSE i \in at : \A j \in at : j <= i
  <2>1. Replay(mem, records)[k] = IF at = {} THEN mem[k] ELSE EntryOf(records[top])
    BY DEF Replay
  <2>2. CASE at = {}
    BY <2>1, <2>2 DEF Table
  <2>3. CASE at # {}
    <3>1. at \in SUBSET (0 .. Len(records))
      BY <1>1
    <3>2. \E m \in at : \A x \in at : x <= m
      BY <1>1, <2>3, <3>1, GreatestOf
    <3>3. top \in at /\ \A j \in at : j <= top
      BY <3>2
    <3>4. records[top] \in WALRecord
      BY <1>1, <3>3
    <3>5. EntryOf(records[top]) \in Entry
      BY <3>4, EntryFacts
    <3> QED BY <2>1, <2>3, <3>3, <3>5
  <2> QED BY <2>2, <2>3
<1>3. Replay(mem, records) = [k \in Key |-> Replay(mem, records)[k]]
  BY DEF Replay
<1>4. Replay(mem, records) \in Table
  BY <1>2, <1>3 DEF Table
<1> QED BY <1>2, <1>4

\* max_seq after a file.
LEMMA MaxSeqFacts ==
  ASSUME NEW seq \in Nat, NEW records \in Seq(WALRecord)
  PROVE  LET m == MaxSeq(seq, records)
         IN  /\ m \in Nat /\ m >= seq
             /\ \A i \in DOMAIN records : m >= records[i].seq
             /\ m = seq \/ \E i \in DOMAIN records : m = records[i].seq
<1> DEFINE n == Len(records)
           S == {seq} \cup {records[i].seq : i \in DOMAIN records}
           f == [i \in 1 .. n |-> records[i].seq]
<1>1. n \in Nat /\ DOMAIN records = 1 .. n
  BY LenProperties
<1>2. \A i \in DOMAIN records : records[i].seq \in Nat
  <2>1. \A i \in DOMAIN records : records[i] \in WALRecord
    BY <1>1
  <2> QED BY <2>1 DEF WALRecord
<1>3. \E m \in S : m >= seq /\ \A i \in DOMAIN records : m >= records[i].seq
  <2>1. CASE n = 0
    BY <1>1, <2>1
  <2>2. CASE n # 0
    <3>1. n >= 1 /\ f \in [1 .. n -> Nat]
      BY <1>1, <1>2, <2>2
    <3>2. PICK i \in 1 .. n : \A j \in 1 .. n : f[j] < f[i] \/ (f[j] = f[i] /\ i <= j)
      BY <1>1, <3>1, FirstMax
    <3>3. records[i].seq \in Nat /\ \A j \in DOMAIN records : records[j].seq <= records[i].seq
      BY <1>1, <1>2, <3>2
    <3>4. CASE records[i].seq >= seq
      BY <1>1, <1>2, <3>3, <3>4
    <3>5. CASE ~(records[i].seq >= seq)
      <4>1. \A j \in DOMAIN records : seq >= records[j].seq
        BY <1>2, <3>3, <3>5
      <4> QED BY <4>1
    <3> QED BY <3>4, <3>5
  <2> QED BY <2>1, <2>2
<1>4. MaxSeq(seq, records) \in S
      /\ MaxSeq(seq, records) >= seq
      /\ \A i \in DOMAIN records : MaxSeq(seq, records) >= records[i].seq
  BY <1>3 DEF MaxSeq
<1> QED BY <1>2, <1>4

\* The file that is replayed next, and the memtable after it.
NextRecords == Recover(wal[replayed + 1])
NextMem == Replay(memtable, NextRecords)

LEMMA NextFacts ==
  ASSUME DiskInv, replayed < Len(wal)
  PROVE  /\ replayed + 1 \in DOMAIN wal /\ wal[replayed + 1] \in Seq(WALRecord)
         /\ NextRecords \in Seq(WALRecord) /\ NextMem \in Table
<1>1. replayed + 1 \in DOMAIN wal /\ wal[replayed + 1] \in Seq(WALRecord)
  <2>1. replayed \in 0 .. Len(wal)
    BY DEF DiskInv, TypeOK
  <2>2. /\ wal \in Seq(Seq(WALRecord)) /\ Len(wal) \in Nat
        /\ DOMAIN wal = 1 .. Len(wal)
    BY DiskFacts
  <2>3. replayed + 1 \in 1 .. Len(wal)
    BY <2>1, <2>2
  <2> QED BY <2>2, <2>3, ElementOfSeq
<1>2. NextRecords \in Seq(WALRecord)
  BY <1>1, RecoverFacts DEF NextRecords
<1> QED BY <1>1, <1>2, DiskFacts, ReplayFacts DEF NextMem

LEMMA ReplaySteps ==
  ASSUME ReplayWAL
  PROVE  /\ pc = "replay" /\ replayed < Len(wal)
         /\ \/ /\ ShouldFlush(NextMem)
               /\ sst' = WithFile(next_sstable_id, NextMem)
               /\ levels' = [levels EXCEPT ![0] = Append(@, next_sstable_id)]
               /\ next_sstable_id' = next_sstable_id + 1
               /\ manifest' = Manifest(next_sstable_id', levels')
               /\ memtable' = EmptyTable
            \/ /\ ~ShouldFlush(NextMem)
               /\ memtable' = NextMem
               /\ UNCHANGED <<sst, levels, next_sstable_id, manifest>>
         /\ sequence_number' = MaxSeq(sequence_number, NextRecords)
         /\ replayed' = replayed + 1
         /\ UNCHANGED <<logs, immutable_memtables, pc, logged, install, history>>
BY DEF ReplayWAL, NextRecords, NextMem

LEMMA ReplayWALDisk ==
  ASSUME DiskInv, ReplayWAL
  PROVE  DiskInv'
<1>1. /\ pc = "replay" /\ replayed < Len(wal)
      /\ sequence_number' = MaxSeq(sequence_number, NextRecords)
      /\ replayed' = replayed + 1
      /\ UNCHANGED <<logs, immutable_memtables, pc, logged, install, history>>
  BY ReplaySteps
<1>2. NextRecords \in Seq(WALRecord) /\ NextMem \in Table
  BY <1>1, NextFacts
<1>3. sequence_number' \in Nat \ {0} /\ replayed' \in 0 .. Len(wal')
  <2>1. sequence_number \in Nat \ {0} /\ replayed \in 0 .. Len(wal) /\ Len(wal) \in Nat
    BY DiskFacts DEF DiskInv, TypeOK
  <2>2. sequence_number' \in Nat /\ sequence_number' >= sequence_number
    BY <1>1, <1>2, <2>1, MaxSeqFacts
  <2> QED BY <1>1, <2>1, <2>2 DEF logs
<1>4. obsolete = {} /\ \A t \in Thread : saving[t] = "idle" /\ read_id[t] = 0
  <2>1. obsolete = {} /\ \A t \in Thread : saving[t] = "idle"
    BY <1>1 DEF DiskInv, ControlInv, Thread
  <2> QED BY <2>1 DEF DiskInv, TableInv, TypeOK
<1>5. ControlInv'
  BY <1>1 DEF DiskInv, ControlInv, logs, install
<1>6. CASE ShouldFlush(NextMem)
  <2>1. /\ sst' = WithFile(next_sstable_id, NextMem)
        /\ levels' = [levels EXCEPT ![0] = Append(@, next_sstable_id)]
        /\ next_sstable_id' = next_sstable_id + 1
        /\ manifest' = Manifest(next_sstable_id', levels')
        /\ memtable' = EmptyTable
    BY <1>6, ReplaySteps
  <2>2. /\ DOMAIN sst' = DOMAIN sst \cup {next_sstable_id}
        /\ sst' \in [DOMAIN sst' -> Table] /\ DOMAIN sst' \subseteq Nat \ {0}
        /\ levels' \in [Level -> Seq(Nat)] /\ next_sstable_id' \in Nat \ {0}
        /\ \A l \in Level : Range(levels'[l]) \subseteq DOMAIN sst'
        /\ Disjoint(levels')
        /\ \A id \in DOMAIN sst' : id < next_sstable_id'
    BY <1>1, <1>2, <2>1, PushedTable
  <2>3. /\ manifest' \in [next_sstable_id : Nat \ {0}, levels : [Level -> Seq(Nat)]]
        /\ manifest'.levels = levels' /\ manifest'.next_sstable_id = next_sstable_id'
    BY <2>1, <2>2 DEF Manifest
  <2>4. TypeOK'
    BY <1>1, <1>3, <2>1, <2>2, <2>3, EntryFacts, CountEmpty
       DEF DiskInv, TypeOK, logs, install, history, Table
  <2>5. TableInv'
    <3>1. Named' = UNION {Range(levels'[l]) : l \in Level}
      BY <2>3 DEF Named
    <3>2. \A id \in Named' : id \in DOMAIN sst' /\ id < next_sstable_id'
      BY <2>2, <3>1
    <3>3. next_sstable_id' <= next_sstable_id'
      BY <2>2
    <3>4. /\ obsolete' = {} /\ pc' # "down"
          /\ \A t \in Thread : saving'[t] = "idle" /\ read_id'[t] = 0
      BY <1>1, <1>4 DEF install
    <3> QED BY <2>2, <2>3, <3>2, <3>3, <3>4 DEF TableInv
  <2> QED BY <1>5, <2>4, <2>5 DEF DiskInv
<1>7. CASE ~ShouldFlush(NextMem)
  <2>1. memtable' = NextMem /\ UNCHANGED <<sst, levels, next_sstable_id, manifest>>
    BY <1>7, ReplaySteps
  <2>2. Count(NextMem) < MemLimit
    <3>1. Count(NextMem) \in Nat /\ MemLimit \in Nat
      BY CountFacts, MemLimitAssumption
    <3> QED BY <1>7, <3>1 DEF ShouldFlush
  <2>3. TypeOK'
    BY <1>1, <1>2, <1>3, <2>1, <2>2 DEF DiskInv, TypeOK, logs, install, history, Table
  <2>4. TableInv'
    BY <1>1, <2>1, TablesUnchanged DEF install
  <2> QED BY <1>5, <2>3, <2>4 DEF DiskInv
<1> QED BY <1>6, <1>7

LEMMA OpenDoneDisk ==
  ASSUME DiskInv, OpenDone
  PROVE  DiskInv'
<1>1. /\ pc = "replay" /\ sequence_number' = sequence_number + 1
      /\ wal' = Append(wal, << >>) /\ synced' = Append(synced, 0) /\ pc' = "open"
      /\ UNCHANGED <<sst, manifest, memory, replayed, logged, install, history>>
  BY DEF OpenDone
<1>2. wal \in Seq(Seq(WALRecord)) /\ << >> \in Seq(WALRecord) /\ 0 \in Nat
      /\ synced \in Seq(Nat) /\ Len(wal) \in Nat /\ Len(wal) >= 1
      /\ Len(synced) = Len(wal) /\ DOMAIN wal = 1 .. Len(wal)
  BY DiskFacts
<1>3. /\ wal' \in Seq(Seq(WALRecord)) /\ Len(wal') = Len(wal) + 1
      /\ \A i \in 1 .. Len(wal) : wal'[i] = wal[i]
      /\ wal'[Len(wal) + 1] = << >>
  BY <1>1, <1>2, AppendProperties
<1>4. /\ synced' \in Seq(Nat) /\ Len(synced') = Len(wal) + 1
      /\ \A i \in 1 .. Len(wal) : synced'[i] = synced[i]
      /\ synced'[Len(wal) + 1] = 0
  BY <1>1, <1>2, AppendProperties
<1>5. DOMAIN wal' = 1 .. Len(wal) + 1 /\ synced' \in [1 .. Len(wal) + 1 -> Nat]
  BY <1>3, <1>4, LenProperties
<1>6. ASSUME NEW i \in DOMAIN wal' PROVE synced'[i] <= Len(wal'[i])
  <2>1. \A j \in 1 .. Len(wal) : synced[j] <= Len(wal[j])
    BY <1>2 DEF DiskInv, TypeOK
  <2>2. CASE i \in 1 .. Len(wal)
    BY <1>3, <1>4, <2>1, <2>2
  <2>3. CASE i = Len(wal) + 1
    BY <1>3, <1>4, <2>3
  <2> QED BY <1>2, <1>5, <2>2, <2>3
<1>7. /\ wal' # << >> /\ replayed' \in 0 .. Len(wal')
      /\ sequence_number' \in Nat \ {0}
  <2>1. replayed \in 0 .. Len(wal) /\ sequence_number \in Nat \ {0}
    BY DEF DiskInv, TypeOK
  <2>2. replayed' = replayed /\ sequence_number' = sequence_number + 1
    BY <1>1
  <2>3. replayed' \in 0 .. Len(wal')
    BY <1>2, <1>3, <2>1, <2>2
  <2>4. sequence_number' \in Nat \ {0}
    BY <2>1, <2>2
  <2>5. wal' # << >>
    <3>1. Len(wal') # 0
      BY <1>2, <1>3
    <3> QED BY <3>1
  <2> QED BY <2>3, <2>4, <2>5
<1>8. synced' \in [DOMAIN wal' -> Nat]
  BY <1>5
<1>9. TypeOK'
  BY <1>1, <1>3, <1>6, <1>7, <1>8 DEF DiskInv, TypeOK, memory, install, history
<1>10. ControlInv'
  BY <1>1, <1>7 DEF DiskInv, ControlInv, memory, install
<1>11. TableInv'
  BY <1>1 DEF DiskInv, TableInv, Named, Disjoint, memory, install
<1> QED BY <1>9, <1>10, <1>11 DEF DiskInv

-----------------------------------------------------------------------------
(* The disk invariant, and what follows from it. *)

LEMMA InitDisk == Init => DiskInv
<1> SUFFICES ASSUME Init PROVE DiskInv
  OBVIOUS
<1>1. /\ wal = << << >> >> /\ wal \in Seq(Seq(WALRecord)) /\ Len(wal) = 1
      /\ DOMAIN wal = {1} /\ wal # << >> /\ wal[1] = << >> /\ Len(wal[1]) = 0
  <2>1. wal = << << >> >> /\ << >> \in Seq(WALRecord)
    BY DEF Init
  <2> QED BY <2>1
<1>2. synced \in [DOMAIN wal -> Nat] /\ \A i \in DOMAIN wal : synced[i] <= Len(wal[i])
  BY <1>1 DEF Init
<1>3. /\ DOMAIN sst = {} /\ sst \in [DOMAIN sst -> [Key -> Entry]]
  BY DEF Init, NoFiles
<1>4. /\ manifest \in [next_sstable_id : Nat \ {0}, levels : [Level -> Seq(Nat)]]
      /\ manifest.levels = NoTables /\ manifest.next_sstable_id = 1
  BY NoTablesFacts DEF Init, Manifest
<1>5. /\ memtable \in [Key -> Entry] /\ Count(memtable) < MemLimit
      /\ immutable_memtables \in Seq([Key -> Entry])
      /\ levels \in [Level -> Seq(Nat)]
  BY EntryFacts, CountEmpty, NoTablesFacts DEF Init, Table
<1>6. /\ next_sstable_id \in Nat \ {0} /\ sequence_number \in Nat \ {0}
      /\ replayed \in 0 .. Len(wal) /\ writes \in 0 .. MaxWrites
      /\ crashes \in 0 .. MaxCrashes /\ obsolete \subseteq Nat
      /\ allowed \in [Key -> SUBSET (0 .. MaxWrites)]
  BY <1>1, BoundsAssumption DEF Init
<1>7. /\ logged \in BOOLEAN /\ saving \in [Thread -> {"idle", "begin", "tmp"}]
      /\ read_id \in [Thread -> Nat] /\ unflushed \in BOOLEAN
      /\ pc \in {"down", "replay", "open", "closing"}
  BY ThreadFacts DEF Init
<1>8. TypeOK
  BY <1>1, <1>2, <1>3, <1>4, <1>5, <1>6, <1>7 DEF TypeOK
<1>9. ControlInv
  BY <1>1, ThreadFacts DEF Init, ControlInv
<1>10. TableInv
  <2>1. Named = {}
    BY <1>4, NoTablesFacts DEF Named
  <2>2. /\ levels = NoTables /\ next_sstable_id = 1 /\ pc = "open" /\ obsolete = {}
        /\ \A t \in Thread : saving[t] = "idle" /\ read_id[t] = 0
    BY ThreadFacts DEF Init
  <2> QED BY <1>3, <1>4, <2>1, <2>2, NoTablesFacts DEF TableInv
<1> QED BY <1>8, <1>9, <1>10 DEF DiskInv

LEMMA InitSaver == Init => OneSaver
BY ThreadFacts DEF Init, OneSaver

LEMMA StepSaver == OneSaver /\ [SerialNext]_vars => OneSaver'
<1>1. ASSUME OneSaver, UNCHANGED vars PROVE OneSaver'
  BY <1>1 DEF OneSaver, vars, memory, install
<1> QED BY <1>1 DEF SerialNext

LEMMA StepDisk == DiskInv /\ OneSaver /\ [Next]_vars => DiskInv'
<1> SUFFICES ASSUME DiskInv, OneSaver, [Next]_vars PROVE DiskInv'
  OBVIOUS
<1>1. CASE UNCHANGED vars
  <2>1. UNCHANGED <<wal, synced, sst, manifest, memtable, immutable_memtables, levels,
                    next_sstable_id, sequence_number, pc, replayed, logged, saving,
                    read_id, obsolete, unflushed, writes, crashes, allowed>>
    BY <1>1 DEF vars, disk, logs, memory, install, history
  <2>2. TypeOK'
    BY <2>1 DEF DiskInv, TypeOK
  <2>3. ControlInv'
    BY <2>1 DEF DiskInv, ControlInv
  <2>4. TableInv'
    BY <2>1 DEF DiskInv, TableInv, Named, Disjoint
  <2> QED BY <2>2, <2>3, <2>4 DEF DiskInv
<1>2. CASE Write
  BY <1>2, WriteLogDisk, WriteLogFailsDisk, WriteEndDisk, SyncAssumption DEF Write
<1>3. CASE Background
  BY <1>3, FlushDisk, FlushFailsDisk, CompactLevelDisk, OpenManifestDisk,
     SaveManifestDisk, SaveManifestFailsDisk, DeleteInputsDisk DEF Background
<1>4. CASE GoDown
  BY <1>4, CrashDisk, CloseDisk, ClosedDisk DEF GoDown
<1>5. CASE Open
  BY <1>5, LoadManifestDisk, ReplayWALDisk, OpenDoneDisk DEF Open
<1> QED BY <1>1, <1>2, <1>3, <1>4, <1>5 DEF Next

LEMMA DiskAlways == SerialSpec => [](DiskInv /\ OneSaver)
<1>1. [SerialNext]_vars => [Next]_vars
  BY DEF SerialNext
<1>2. Init => DiskInv /\ OneSaver
  BY InitDisk, InitSaver
<1>3. DiskInv /\ OneSaver /\ [SerialNext]_vars => (DiskInv /\ OneSaver)'
  BY <1>1, StepDisk, StepSaver
<1> QED BY <1>2, <1>3, PTL DEF SerialSpec

\* Type correctness of logs, tables, manifest and memory, through every crash
\* (wal.cpp, db_impl.cpp:31-216, 320-361).
THEOREM RecoveryTypeCorrect == SerialSpec => []TypeOK
<1>1. DiskInv => TypeOK
  BY DEF DiskInv
<1> QED BY <1>1, DiskAlways, PTL

\* No table in use is lost or written over, although ids are given out from a
\* counter that is only as recent as the manifest (db_impl.cpp:145, 186, 651-661).
THEOREM TablesInUseStay == SerialSpec => TablesStay
<1> DEFINE Step == \A id \in InUse' :
                     id \in DOMAIN sst' /\ (id \in InUse => sst'[id] = sst[id])
<1>1. ASSUME DiskInv PROVE InUse \subseteq DOMAIN sst
  BY <1>1 DEF InUse, DiskInv, TableInv
<1>2. ASSUME DiskInv' PROVE InUse' \subseteq DOMAIN sst'
  BY <1>2 DEF InUse, DiskInv, TableInv
<1>3. ASSUME DiskInv, Next, NEW id \in DOMAIN sst, id \in DOMAIN sst'
      PROVE  sst'[id] = sst[id]
  <2>1. CASE Write
    BY <2>1 DEF Write, WriteLog, WriteLogFails, WriteEnd
  <2>2. CASE Flush
    <3>1. /\ pc # "down" /\ sst' = WithFile(next_sstable_id, Head(immutable_memtables))
      BY <2>2 DEF Flush
    <3>2. id # next_sstable_id
      BY <1>3, <3>1 DEF DiskInv, TableInv, TypeOK
    <3> QED BY <1>3, <3>1, <3>2 DEF WithFile
  <2>3. CASE FlushFails \/ LoadManifest \/ OpenDone \/ Close
    BY <2>3 DEF FlushFails, LoadManifest, OpenDone, Close, disk
  <2>4. ASSUME NEW l \in 0 .. NumLevels - 2, CompactLevel(l) PROVE sst'[id] = sst[id]
    BY <1>3, <2>4, CompactTables
  <2>5. CASE DeleteInputs
    BY <1>3, <2>5 DEF DeleteInputs, Restrict
  <2>6. CASE Crash \/ Closed
    BY <1>3, <2>6, NamedFilesFacts DEF Crash, Closed
  <2>7. ASSUME NEW t \in Thread,
               OpenManifest(t) \/ SaveManifest(t) \/ SaveManifestFails(t)
        PROVE  sst'[id] = sst[id]
    BY <2>7 DEF OpenManifest, SaveManifest, SaveManifestFails, disk
  <2>8. CASE ReplayWAL
    <3>1. pc = "replay" /\ (sst' = sst \/ sst' = WithFile(next_sstable_id, NextMem))
      BY <2>8, ReplaySteps
    <3>2. id # next_sstable_id
      BY <1>3, <3>1 DEF DiskInv, TableInv, TypeOK
    <3> QED BY <1>3, <3>1, <3>2 DEF WithFile
  <2> QED BY <1>3, <2>1, <2>2, <2>3, <2>4, <2>5, <2>6, <2>7, <2>8
          DEF Next, Background, GoDown, Open
<1>4. ASSUME DiskInv, DiskInv', [Next]_vars PROVE [Step]_vars
  BY <1>1, <1>2, <1>3, <1>4
<1>5. [SerialNext]_vars => [Next]_vars
  BY DEF SerialNext
<1> QED BY <1>4, <1>5, DiskAlways, PTL DEF SerialSpec, TablesStay

-----------------------------------------------------------------------------
(* The records of the logs. *)

LEMMA RecordIs ==
  ASSUME NEW log \in Seq(Seq(WALRecord)), NEW rec \in Records(log)
  PROVE  /\ rec \in WALRecord /\ Whole(rec) /\ rec.key \in Key
         /\ rec.seq \in Nat /\ rec.seq >= 2
         /\ \E f \in DOMAIN log : \E i \in DOMAIN log[f] : rec = log[f][i]
<1>1. Whole(rec) /\ \E f \in DOMAIN log : \E i \in DOMAIN log[f] : rec = log[f][i]
  BY DEF Records, Range
<1>2. PICK f \in DOMAIN log : \E i \in DOMAIN log[f] : rec = log[f][i]
  BY <1>1
<1>3. log[f] \in Seq(WALRecord)
  BY <1>2, ElementOfSeq, LenProperties
<1>4. rec \in WALRecord
  BY <1>2, <1>3, ElementOfSeq, LenProperties
<1>5. rec.key \in Key /\ rec.seq \in Nat /\ rec.seq >= 2
  BY <1>1, <1>4 DEF Whole, WALRecord
<1> QED BY <1>1, <1>4, <1>5

LEMMA RecordIn ==
  ASSUME NEW log, NEW f \in DOMAIN log, NEW i \in DOMAIN log[f], Whole(log[f][i])
  PROVE  log[f][i] \in Records(log)
BY DEF Records, Range

LEMMA TornFacts == Torn \in WALRecord /\ ~Whole(Torn)
BY KeyAssumption, BoundsAssumption DEF Torn, Whole, WALRecord, ValueType

\* A whole record makes an entry that is present.
LEMMA WholeEntry ==
  ASSUME NEW rec \in WALRecord, Whole(rec)
  PROVE  EntryOf(rec) \in Entry /\ Present(EntryOf(rec)) /\ EntryOf(rec) # Absent
<1>1. EntryOf(rec) \in Entry /\ EntryOf(rec).seq = rec.seq
  BY EntryFacts
<1>2. EntryOf(rec).seq \in Nat /\ EntryOf(rec).seq >= 2
  BY <1>1 DEF Whole, WALRecord
<1>3. EntryOf(rec).seq # 0
  BY <1>2
<1> QED BY <1>1, <1>3, EntryFacts

\* No two records have the same number.
LEMMA SeqUnique ==
  ASSUME NEW log \in Seq(Seq(WALRecord)), Ordered(log),
         NEW r \in Records(log), NEW s \in Records(log), r.seq = s.seq
  PROVE  r = s
<1>1. Whole(r) /\ Whole(s) /\ r.seq \in Nat
  BY RecordIs
<1>2. PICK f \in DOMAIN log : \E i \in DOMAIN log[f] : r = log[f][i]
  BY RecordIs
<1>3. PICK i \in DOMAIN log[f] : r = log[f][i]
  BY <1>2
<1>4. PICK g \in DOMAIN log : \E j \in DOMAIN log[g] : s = log[g][j]
  BY RecordIs
<1>5. PICK j \in DOMAIN log[g] : s = log[g][j]
  BY <1>4
<1>6. f \in Nat /\ g \in Nat /\ log[f] \in Seq(WALRecord) /\ log[g] \in Seq(WALRecord)
  BY ElementOfSeq, LenProperties
<1>7. i \in Nat /\ j \in Nat
  BY <1>6, LenProperties
<1>8. ~(r.seq < s.seq) /\ ~(s.seq < r.seq)
  BY <1>1
<1>9. ~(f < g \/ (f = g /\ i < j)) /\ ~(g < f \/ (g = f /\ j < i))
  BY <1>1, <1>3, <1>5, <1>8 DEF Ordered
<1>10. f = g /\ i = j
  BY <1>6, <1>7, <1>9
<1> QED BY <1>3, <1>5, <1>10

LEMMA NewestUnique ==
  ASSUME NEW log \in Seq(Seq(WALRecord)), Ordered(log),
         NEW recs \in SUBSET Records(log), NEW k \in Key,
         NEW r, NEW s, Newest(recs, k, r), Newest(recs, k, s)
  PROVE  r = s
<1>1. r \in Records(log) /\ s \in Records(log) /\ r.seq <= s.seq /\ s.seq <= r.seq
  BY DEF Newest
<1>2. r.seq \in Nat /\ s.seq \in Nat
  BY <1>1, RecordIs
<1>3. r.seq = s.seq
  BY <1>1, <1>2
<1> QED BY <1>1, <1>3, SeqUnique

\* A key that has records has a newest one.
LEMMA NewestExists ==
  ASSUME NEW log \in Seq(Seq(WALRecord)), NEW recs \in SUBSET Records(log),
         NEW k \in Key, NEW n \in Nat, \A r \in recs : r.seq <= n,
         NEW s \in recs, s.key = k
  PROVE  \E rec \in recs : Newest(recs, k, rec)
<1> DEFINE S == {r.seq : r \in {x \in recs : x.key = k}}
<1>1. \A r \in recs : r.seq \in 0 .. n
  <2>1. \A r \in recs : r.seq \in Nat /\ r.seq <= n
    BY RecordIs
  <2> QED BY <2>1
<1>2. S \in SUBSET (0 .. n) /\ S # {}
  BY <1>1
<1>3. PICK m \in S : \A x \in S : x <= m
  BY <1>2, GreatestOf
<1>4. PICK rec \in recs : rec.key = k /\ rec.seq = m
  BY <1>3
<1> QED BY <1>3, <1>4 DEF Newest

\* The newest of some records, as far as it is among fewer, is the newest there.
LEMMA NewestOfFewer ==
  ASSUME NEW recs, NEW more, recs \subseteq more, NEW k, NEW rec,
         Newest(more, k, rec), rec \in recs
  PROVE  Newest(recs, k, rec)
BY DEF Newest

\* A record is appended to the last file.
LEMMA AppendFacts ==
  ASSUME NEW log \in Seq(Seq(WALRecord)), Len(log) >= 1, NEW r \in WALRecord,
         NEW more, more = [log EXCEPT ![Len(log)] = Append(@, r)]
  PROVE  /\ DOMAIN more = DOMAIN log
         /\ \A f \in DOMAIN log : f # Len(log) => more[f] = log[f]
         /\ DOMAIN more[Len(log)] = 1 .. Len(log[Len(log)]) + 1
         /\ \A i \in DOMAIN log[Len(log)] : more[Len(log)][i] = log[Len(log)][i]
         /\ more[Len(log)][Len(log[Len(log)]) + 1] = r
<1> DEFINE n == Len(log)
           old == log[n]
           new == Append(old, r)
<1>1. n \in Nat /\ DOMAIN log = 1 .. n /\ n \in DOMAIN log
  <2>1. n \in Nat /\ DOMAIN log = 1 .. n
    BY LenProperties
  <2> QED BY <2>1
<1>2. old \in Seq(WALRecord)
  BY <1>1, ElementOfSeq
<1>3. DOMAIN more = DOMAIN log /\ more[n] = new
      /\ \A f \in DOMAIN log : f # n => more[f] = log[f]
  BY <1>1
<1> HIDE DEF old
<1>4. /\ new \in Seq(WALRecord) /\ Len(new) = Len(old) + 1 /\ Len(old) \in Nat
      /\ \A i \in 1 .. Len(old) : new[i] = old[i]
      /\ new[Len(old) + 1] = r
  BY <1>2, AppendProperties, LenProperties
<1> HIDE DEF new
<1>5. DOMAIN new = 1 .. Len(old) + 1 /\ DOMAIN old = 1 .. Len(old)
  BY <1>2, <1>4, LenProperties
<1> QED BY <1>3, <1>4, <1>5 DEF old

LEMMA RecordsAppend ==
  ASSUME NEW log \in Seq(Seq(WALRecord)), Len(log) >= 1, NEW r \in WALRecord,
         NEW more, more = [log EXCEPT ![Len(log)] = Append(@, r)]
  PROVE  /\ Last(more) = Append(Last(log), r) /\ Last(Last(more)) = r
         /\ Whole(r) => Records(more) = Records(log) \cup {r}
         /\ ~Whole(r) => Records(more) = Records(log)
<1> DEFINE n == Len(log)
           old == log[n]
           new == Append(old, r)
<1>1. n \in Nat /\ DOMAIN log = 1 .. n /\ n \in DOMAIN log
  <2>1. n \in Nat /\ DOMAIN log = 1 .. n
    BY LenProperties
  <2> QED BY <2>1
<1>2. old \in Seq(WALRecord)
  BY <1>1, ElementOfSeq
<1>3. DOMAIN more = DOMAIN log /\ more[n] = new
      /\ \A f \in DOMAIN log : f # n => more[f] = log[f]
  BY <1>1
<1>4. more \in Seq(Seq(WALRecord)) /\ Len(more) = n
  <2>1. new \in Seq(WALRecord)
    BY <1>2, AppendProperties
  <2>2. more \in Seq(Seq(WALRecord))
    BY <1>1, <2>1, ExceptSeq
  <2> QED BY <1>1, <1>3, <2>2, LenProperties
<1> HIDE DEF old
<1>5. /\ new \in Seq(WALRecord) /\ Len(new) = Len(old) + 1 /\ Len(old) \in Nat
      /\ \A i \in 1 .. Len(old) : new[i] = old[i]
      /\ new[Len(old) + 1] = r
  BY <1>2, AppendProperties, LenProperties
<1> HIDE DEF new
<1>6. DOMAIN new = 1 .. Len(old) + 1 /\ DOMAIN old = 1 .. Len(old)
  BY <1>2, <1>5, LenProperties
<1>7. Range(new) = Range(old) \cup {r}
  BY <1>2, RangeAppend DEF new
<1>8. \A x : x \in Records(more) <=> x \in Records(log) \/ (x = r /\ Whole(x))
  <2>1. \A f \in DOMAIN log : f # n => Range(more[f]) = Range(log[f])
    BY <1>3
  <2>2. Range(more[n]) = Range(log[n]) \cup {r}
    BY <1>3, <1>7 DEF old
  <2>3. ASSUME NEW x PROVE (\E f \in DOMAIN more : x \in Range(more[f]))
                             <=> (\E f \in DOMAIN log : x \in Range(log[f])) \/ x = r
    BY <1>1, <1>3, <2>1, <2>2
  <2>4. ASSUME NEW x PROVE x \in Records(more) <=>
                             Whole(x) /\ \E f \in DOMAIN more : x \in Range(more[f])
    BY DEF Records
  <2>5. ASSUME NEW x PROVE x \in Records(log) <=>
                             Whole(x) /\ \E f \in DOMAIN log : x \in Range(log[f])
    BY DEF Records
  <2> QED BY <2>3, <2>4, <2>5
<1>9. /\ Whole(r) => Records(more) = Records(log) \cup {r}
      /\ ~Whole(r) => Records(more) = Records(log)
  <2>1. Whole(r) => \A x : x \in Records(more) <=> x \in Records(log) \/ x = r
    BY <1>8
  <2>2. ~Whole(r) => \A x : x \in Records(more) <=> x \in Records(log)
    BY <1>8
  <2> QED BY <2>1, <2>2
<1>10. Last(more) = Append(Last(log), r) /\ Last(Last(more)) = r
  <2>1. Last(more) = new /\ Last(log) = old
    BY <1>3, <1>4 DEF Last, old
  <2>2. Last(new) = r
    BY <1>5 DEF Last
  <2> QED BY <2>1, <2>2 DEF new
<1> QED BY <1>9, <1>10

\* A new file is opened.
LEMMA RecordsNewFile ==
  ASSUME NEW log \in Seq(Seq(WALRecord))
  PROVE  /\ Records(Append(log, << >>)) = Records(log)
         /\ Ordered(log) => Ordered(Append(log, << >>))
<1> DEFINE more == Append(log, << >>)
           n == Len(log)
<1>1. n \in Nat /\ DOMAIN log = 1 .. n
  BY LenProperties
<1>2. << >> \in Seq(WALRecord)
  OBVIOUS
<1>3. /\ more \in Seq(Seq(WALRecord)) /\ Len(more) = n + 1
      /\ \A f \in 1 .. n : more[f] = log[f]
      /\ more[n + 1] = << >>
  BY <1>2, AppendProperties
<1> HIDE DEF more
<1>4. DOMAIN more = 1 .. n + 1
  BY <1>3, LenProperties
<1>5. Range(more[n + 1]) = {} /\ DOMAIN more[n + 1] = {}
  BY <1>3, RangeEmpty
<1>6. \A f \in DOMAIN more : f \in DOMAIN log \/ f = n + 1
  BY <1>1, <1>4
<1>7. DOMAIN log \subseteq DOMAIN more
  BY <1>1, <1>4
<1>8. Records(more) = Records(log)
  <2>1. ASSUME NEW x PROVE (\E f \in DOMAIN more : x \in Range(more[f]))
                             <=> (\E f \in DOMAIN log : x \in Range(log[f]))
    BY <1>1, <1>3, <1>5, <1>6, <1>7
  <2> QED BY <2>1 DEF Records
<1>9. ASSUME Ordered(log) PROVE Ordered(more)
  <2>1. \A f \in DOMAIN more : DOMAIN more[f] # {} => f \in DOMAIN log /\ more[f] = log[f]
    BY <1>1, <1>3, <1>5, <1>6
  <2> QED BY <1>9, <2>1 DEF Ordered
<1> QED BY <1>8, <1>9 DEF more

-----------------------------------------------------------------------------
(* What the invariant says, for any set of records. *)

LiveInv == LogInv /\ StoredInv /\ ReadsInv /\ AllowedInv

OfLog(e, k, recs) == e = Absent \/ \E rec \in recs : rec.key = k /\ e = EntryOf(rec)

\* The entries of a key in memory and in table files.
Held(k) == {memtable[k]} \cup {immutable_memtables[i][k] : i \in DOMAIN immutable_memtables}
             \cup {sst[id][k] : id \in DOMAIN sst}

LEMMA StoredHeld ==
  StoredInv <=> \A k \in Key : \A e \in Held(k) : OfLog(e, k, Applied)
<1>1. ASSUME NEW k \in Key, NEW e
      PROVE  e \in Held(k) <=>
               \/ e = memtable[k]
               \/ \E i \in DOMAIN immutable_memtables : e = immutable_memtables[i][k]
               \/ \E id \in DOMAIN sst : e = sst[id][k]
  BY DEF Held
<1>2. StoredInv <=>
        \A k \in Key :
          /\ OfLog(memtable[k], k, Applied)
          /\ \A i \in DOMAIN immutable_memtables :
               OfLog(immutable_memtables[i][k], k, Applied)
          /\ \A id \in DOMAIN sst : OfLog(sst[id][k], k, Applied)
  BY DEF StoredInv, InLog, OfLog
<1>3. ASSUME NEW k \in Key
      PROVE  (\A e \in Held(k) : OfLog(e, k, Applied)) <=>
               /\ OfLog(memtable[k], k, Applied)
               /\ \A i \in DOMAIN immutable_memtables :
                    OfLog(immutable_memtables[i][k], k, Applied)
               /\ \A id \in DOMAIN sst : OfLog(sst[id][k], k, Applied)
  BY <1>1
<1> QED BY <1>2, <1>3

LEMMA StoredHeldNext ==
  StoredInv' <=> \A k \in Key : \A e \in Held(k)' : OfLog(e, k, Applied')
<1>1. ASSUME NEW k \in Key, NEW e
      PROVE  e \in Held(k)' <=>
               \/ e = memtable'[k]
               \/ \E i \in DOMAIN immutable_memtables' : e = immutable_memtables'[i][k]
               \/ \E id \in DOMAIN sst' : e = sst'[id][k]
  BY DEF Held
<1>2. StoredInv' <=>
        \A k \in Key :
          /\ OfLog(memtable'[k], k, Applied')
          /\ \A i \in DOMAIN immutable_memtables' :
               OfLog(immutable_memtables'[i][k], k, Applied')
          /\ \A id \in DOMAIN sst' : OfLog(sst'[id][k], k, Applied')
  BY DEF StoredInv, InLog, OfLog
<1>3. ASSUME NEW k \in Key
      PROVE  (\A e \in Held(k)' : OfLog(e, k, Applied')) <=>
               /\ OfLog(memtable'[k], k, Applied')
               /\ \A i \in DOMAIN immutable_memtables' :
                    OfLog(immutable_memtables'[i][k], k, Applied')
               /\ \A id \in DOMAIN sst' : OfLog(sst'[id][k], k, Applied')
  BY <1>1
<1> QED BY <1>2, <1>3

\* What is stored after a step was stored before or is in the log.
LEMMA StoredStep ==
  ASSUME StoredInv, Applied \subseteq Applied',
         \A k \in Key : \A e \in Held(k)' : e \in Held(k) \/ OfLog(e, k, Applied')
  PROVE  StoredInv'
<1>1. ASSUME NEW k \in Key, NEW e \in Held(k) PROVE OfLog(e, k, Applied')
  <2>1. OfLog(e, k, Applied)
    BY <1>1, StoredHeld
  <2> QED BY <2>1 DEF OfLog
<1> QED BY <1>1, StoredHeldNext

LEMMA AppliedFacts ==
  ASSUME DiskInv
  PROVE  /\ Applied \subseteq Records(wal) /\ Met \subseteq Records(wal)
         /\ ~logged => Applied = Records(wal)
         /\ wal \in Seq(Seq(WALRecord))
<1>1. Applied \subseteq Records(wal)
  BY DEF Applied
<1>2. ~logged => Applied = Records(wal)
  BY DEF Applied
<1>3. Met \subseteq Records(wal)
  BY DEF Met
<1> QED BY <1>1, <1>2, <1>3, DiskFacts

\* The record of a write that goes on is newer than all that are applied.
LEMMA LastIsNewest ==
  ASSUME DiskInv, LogInv, logged
  PROVE  LET rec == Last(Last(wal))
         IN  /\ rec \in Records(wal) /\ rec \in WALRecord /\ Whole(rec) /\ rec.key \in Key
             /\ Records(wal) = Applied \cup {rec}
             /\ \A r \in Applied : r.seq < rec.seq
<1> DEFINE n == Len(wal)
           m == Len(Last(wal))
           rec == Last(Last(wal))
<1>1. pc = "open" /\ n \in DOMAIN wal /\ n \in Nat /\ DOMAIN wal = 1 .. n
      /\ Last(wal) = wal[n]
  BY DiskFacts, LoggedFacts
<1>2. m \in Nat /\ m \in DOMAIN wal[n] /\ rec = wal[n][m]
      /\ rec \in WALRecord
  BY DiskFacts, LoggedFacts
<1>3. Whole(rec)
  BY <1>1 DEF LogInv
<1>4. rec \in Records(wal)
  BY <1>1, <1>2, <1>3, RecordIn
<1>5. Records(wal) = Applied \cup {rec}
  BY <1>4 DEF Applied
<1>6. ASSUME NEW r \in Applied PROVE r.seq < rec.seq
  <2>1. r \in Records(wal) /\ r # rec
    BY DEF Applied
  <2>2. wal \in Seq(Seq(WALRecord)) /\ Whole(r)
    BY <2>1, DiskFacts, RecordIs
  <2>3. PICK f \in DOMAIN wal : \E i \in DOMAIN wal[f] : r = wal[f][i]
    BY <2>1, <2>2, RecordIs
  <2>4. PICK i \in DOMAIN wal[f] : r = wal[f][i]
    BY <2>3
  <2>5. wal[f] \in Seq(WALRecord)
    BY <2>2, <1>1, ElementOfSeq
  <2>6. i \in 1 .. Len(wal[f]) /\ Len(wal[f]) \in Nat
    BY <2>5, LenProperties
  <2>7. f < n \/ (f = n /\ i < m)
    <3>1. CASE f = n
      <4>1. i # m
        BY <1>2, <2>1, <2>4, <3>1
      <4>2. m = Len(wal[f])
        BY <1>1, <3>1
      <4> QED BY <2>6, <3>1, <4>1, <4>2
    <3> QED BY <1>1, <3>1
  <2>8. Ordered(wal)
    BY DEF LogInv
  <2> HIDE DEF n, m, rec
  <2> QED BY <1>1, <1>2, <1>3, <2>2, <2>4, <2>7, <2>8 DEF Ordered
<1>7. rec.key \in Key
  BY <1>3 DEF Whole
<1> QED BY <1>2, <1>3, <1>4, <1>5, <1>6, <1>7

\* A newer record joins: what the other keys read as stays right.
LEMMA NewestJoins ==
  ASSUME NEW log \in Seq(Seq(WALRecord)), NEW recs \in SUBSET Records(log),
         NEW rec \in Records(log), \A r \in recs : r.seq < rec.seq,
         NEW more, more = recs \cup {rec}, NEW k \in Key, NEW x, Newest(more, k, x)
  PROVE  IF rec.key = k THEN x = rec ELSE Newest(recs, k, x)
<1>1. CASE rec.key = k
  <2>1. rec.seq <= x.seq
    BY <1>1 DEF Newest
  <2>2. x \in recs => x.seq < rec.seq
    OBVIOUS
  <2>3. x \in more
    BY DEF Newest
  <2>4. x \in Records(log) /\ x.seq \in Nat /\ rec.seq \in Nat
    BY <2>3, RecordIs
  <2>5. x \notin recs
    BY <2>1, <2>2, <2>4
  <2> QED BY <1>1, <2>3, <2>5
<1>2. CASE rec.key # k
  BY <1>2 DEF Newest
<1> QED BY <1>1, <1>2

\* The write that is in the log is the newest, and the reader may see it.
LEMMA AllowedJoins ==
  ASSUME DiskInv, LogInv, AllowedInv, logged,
         Applied' = Applied \cup {Last(Last(wal))},
         \A k \in Key : k # Last(Last(wal)).key => allowed'[k] = allowed[k],
         Visible(EntryOf(Last(Last(wal)))) \in allowed'[Last(Last(wal)).key]
  PROVE  AllowedInv'
<1> DEFINE rec == Last(Last(wal))
<1>1. /\ rec \in Records(wal) /\ rec.key \in Key /\ \A r \in Applied : r.seq < rec.seq
  BY LastIsNewest
<1> HIDE DEF rec
<1>2. Applied' = Applied \cup {rec} /\ Visible(EntryOf(rec)) \in allowed'[rec.key]
      /\ \A k \in Key : k # rec.key => allowed'[k] = allowed[k]
  BY DEF rec
<1>3. wal \in Seq(Seq(WALRecord)) /\ Applied \in SUBSET Records(wal)
  BY AppliedFacts
<1>4. ASSUME NEW k \in Key, \A r \in Applied' : r.key # k PROVE 0 \in allowed'[k]
  <2>1. k # rec.key /\ \A r \in Applied : r.key # k
    BY <1>2, <1>4
  <2> QED BY <1>2, <2>1 DEF AllowedInv
<1>5. ASSUME NEW k \in Key, NEW x \in Applied', Newest(Applied', k, x)
      PROVE  Visible(EntryOf(x)) \in allowed'[k]
  <2>1. IF rec.key = k THEN x = rec ELSE Newest(Applied, k, x)
    BY <1>1, <1>2, <1>3, <1>5, NewestJoins
  <2>2. CASE rec.key = k
    BY <1>2, <2>1, <2>2
  <2>3. CASE rec.key # k
    <3>1. Newest(Applied, k, x) /\ x \in Applied
      BY <2>1, <2>3 DEF Newest
    <3> QED BY <1>2, <2>3, <3>1 DEF AllowedInv
  <2> QED BY <2>2, <2>3
<1> QED BY <1>4, <1>5 DEF AllowedInv, Newest

LEMMA OrderedAppend ==
  ASSUME NEW log \in Seq(Seq(WALRecord)), Len(log) >= 1, NEW r \in WALRecord,
         NEW more, more = [log EXCEPT ![Len(log)] = Append(@, r)],
         Ordered(log), \A i \in DOMAIN log[Len(log)] : Whole(log[Len(log)][i]),
         r = Torn \/ (Whole(r) /\ \A x \in Records(log) : x.seq < r.seq)
  PROVE  Ordered(more)
<1> DEFINE n == Len(log)
           m == Len(log[n])
<1>1. n \in Nat /\ DOMAIN log = 1 .. n /\ n \in DOMAIN log
  <2>1. n \in Nat /\ DOMAIN log = 1 .. n
    BY LenProperties
  <2> QED BY <2>1
<1>2. log[n] \in Seq(WALRecord)
  BY <1>1, ElementOfSeq
<1>3. m \in Nat /\ DOMAIN log[n] = 1 .. m
  BY <1>2, LenProperties
<1>4. /\ DOMAIN more = DOMAIN log /\ DOMAIN more[n] = 1 .. m + 1
      /\ \A f \in DOMAIN log : f # n => more[f] = log[f]
      /\ \A i \in DOMAIN log[n] : more[n][i] = log[n][i]
      /\ more[n][m + 1] = r
  BY AppendFacts
<1>5. more[n] = Append(log[n], r)
  BY <1>1
<1>6. Len(more[n]) = m + 1
  BY <1>2, <1>5, AppendProperties
<1> HIDE DEF m, n
\* A place in the longer log is one in the log or the new one.
<1>7. ASSUME NEW f \in DOMAIN more, NEW i \in DOMAIN more[f]
      PROVE  \/ f \in DOMAIN log /\ i \in DOMAIN log[f] /\ more[f][i] = log[f][i]
             \/ f = n /\ i = m + 1 /\ more[f][i] = r
  <2>1. CASE f # n
    BY <1>4, <1>7, <2>1
  <2>2. CASE f = n /\ i \in 1 .. m
    BY <1>1, <1>3, <1>4, <2>2
  <2>3. CASE f = n /\ i = m + 1
    BY <1>4, <2>3
  <2> QED BY <1>3, <1>4, <1>7, <2>1, <2>2, <2>3
<1>8. ASSUME NEW f \in DOMAIN more, NEW i \in DOMAIN more[f]
      PROVE  Whole(more[f][i]) \/ (more[f][i] = Torn /\ i = Len(more[f]))
  <2>1. CASE f = n /\ i = m + 1 /\ more[f][i] = r
    BY <1>6, <2>1
  <2>2. CASE f = n /\ i \in DOMAIN log[f] /\ more[f][i] = log[f][i]
    BY <2>2 DEF n
  <2>3. CASE f # n /\ f \in DOMAIN log /\ i \in DOMAIN log[f] /\ more[f][i] = log[f][i]
    <3>1. more[f] = log[f]
      BY <1>4, <2>3
    <3> QED BY <2>3, <3>1 DEF Ordered
  <2> QED BY <1>7, <1>8, <2>1, <2>2, <2>3
<1>9. ASSUME NEW f \in DOMAIN more, NEW g \in DOMAIN more,
             NEW i \in DOMAIN more[f], NEW j \in DOMAIN more[g],
             f < g \/ (f = g /\ i < j), Whole(more[f][i]), Whole(more[g][j])
      PROVE  more[f][i].seq < more[g][j].seq
  <2>1. f \in 1 .. n /\ g \in 1 .. n
    BY <1>1, <1>4
  <2>2. CASE f = n /\ i = m + 1 /\ more[f][i] = r
    <3>1. g = n /\ i < j
      BY <1>1, <1>9, <2>1, <2>2
    <3>2. j \in 1 .. m + 1
      BY <1>4, <3>1
    <3> QED BY <1>3, <2>2, <3>1, <3>2
  <2>3. CASE f \in DOMAIN log /\ i \in DOMAIN log[f] /\ more[f][i] = log[f][i]
    <3>1. CASE g = n /\ j = m + 1 /\ more[g][j] = r
      <4>1. r # Torn
        BY <1>9, <3>1, TornFacts
      <4>2. more[f][i] \in Records(log)
        BY <1>9, <2>3, RecordIn
      <4> QED BY <3>1, <4>1, <4>2
    <3>2. CASE g \in DOMAIN log /\ j \in DOMAIN log[g] /\ more[g][j] = log[g][j]
      BY <1>9, <2>3, <3>2 DEF Ordered
    <3> QED BY <1>7, <3>1, <3>2
  <2> QED BY <1>7, <2>2, <2>3
<1>10. \A f \in DOMAIN more : \A i \in DOMAIN more[f] :
         Whole(more[f][i]) \/ (more[f][i] = Torn /\ i = Len(more[f]))
  BY <1>8
<1>11. \A f, g \in DOMAIN more : \A i \in DOMAIN more[f], j \in DOMAIN more[g] :
         (f < g \/ (f = g /\ i < j)) /\ Whole(more[f][i]) /\ Whole(more[g][j]) =>
           more[f][i].seq < more[g][j].seq
  <2> TAKE f, g \in DOMAIN more
  <2> TAKE i \in DOMAIN more[f], j \in DOMAIN more[g]
  <2> HAVE (f < g \/ (f = g /\ i < j)) /\ Whole(more[f][i]) /\ Whole(more[g][j])
  <2> QED BY <1>9
<1> QED BY <1>10, <1>11 DEF Ordered

\* If no record is behind part of one then, what comes before it is whole.
LEMMA IntactAppend ==
  ASSUME NEW log \in Seq(Seq(WALRecord)), Len(log) >= 1, NEW r \in WALRecord,
         Intact([log EXCEPT ![Len(log)] = Append(@, r)])
  PROVE  /\ Intact(log)
         /\ Ordered(log) => \A i \in DOMAIN log[Len(log)] : Whole(log[Len(log)][i])
<1> DEFINE n == Len(log)
           m == Len(log[n])
           more == [log EXCEPT ![Len(log)] = Append(@, r)]
<1>1. n \in DOMAIN log /\ log[n] \in Seq(WALRecord)
  <2>1. n \in Nat /\ DOMAIN log = 1 .. n
    BY LenProperties
  <2>2. n \in DOMAIN log
    BY <2>1
  <2> QED BY <2>2, ElementOfSeq
<1>2. m \in Nat /\ DOMAIN log[n] = 1 .. m
  BY <1>1, LenProperties
<1>3. /\ DOMAIN more = DOMAIN log /\ DOMAIN more[n] = 1 .. m + 1
      /\ \A f \in DOMAIN log : f # n => more[f] = log[f]
      /\ \A i \in DOMAIN log[n] : more[n][i] = log[n][i]
  BY ONLY AppendFacts, log \in Seq(Seq(WALRecord)), Len(log) >= 1, r \in WALRecord
<1>4. Len(more[n]) = m + 1
  <2>1. more[n] = Append(log[n], r)
    BY <1>1
  <2> QED BY <1>1, <2>1, AppendProperties
<1>5. Intact(more)
  OBVIOUS
<1> HIDE DEF m, n, more
<1>6. ASSUME NEW i \in DOMAIN log[n] PROVE log[n][i] # Torn
  <2>1. i \in 1 .. m + 1 /\ i # m + 1
    BY <1>2
  <2>2. more[n][i] # Torn
    BY <1>1, <1>3, <1>4, <1>5, <2>1 DEF Intact
  <2> QED BY <1>3, <2>2
<1>7. ASSUME NEW f \in DOMAIN log, NEW i \in DOMAIN log[f], log[f][i] = Torn
      PROVE  i = Len(log[f])
  <2>1. f # n
    BY <1>6, <1>7
  <2> QED BY <1>3, <1>5, <1>7, <2>1 DEF Intact
<1>8. Ordered(log) => \A i \in DOMAIN log[n] : Whole(log[n][i])
  BY <1>1, <1>6 DEF Ordered
<1> QED BY <1>7, <1>8 DEF Intact, n

\* A new file hides nothing.
LEMMA IntactNewFile ==
  ASSUME NEW log \in Seq(Seq(WALRecord)), Intact(Append(log, << >>))
  PROVE  Intact(log)
<1> DEFINE more == Append(log, << >>)
<1>1. << >> \in Seq(WALRecord)
  OBVIOUS
<1>2. /\ more \in Seq(Seq(WALRecord)) /\ Len(more) = Len(log) + 1 /\ Len(log) \in Nat
      /\ \A f \in 1 .. Len(log) : more[f] = log[f]
  BY <1>1, AppendProperties, LenProperties
<1>3. Intact(more)
  OBVIOUS
<1> HIDE DEF more
<1>4. DOMAIN more = 1 .. Len(log) + 1 /\ DOMAIN log = 1 .. Len(log)
  BY <1>2, LenProperties
<1>5. \A f \in DOMAIN log : f \in DOMAIN more /\ more[f] = log[f]
  BY <1>2, <1>4
<1> QED BY <1>3, <1>5 DEF Intact

-----------------------------------------------------------------------------
(* What Get finds. *)

LEMMA PlaceFacts ==
  /\ -1 \in Place /\ 0 \in Place /\ Level \subseteq Place /\ -1 \notin Level
  /\ \A p \in Place : p \in Int /\ -1 <= p /\ (p # -1 => p \in Level /\ 0 <= p)
  /\ Places[-1] = Append(immutable_memtables, memtable)
  /\ \A l \in Level : Places[l] = Tables(l)
  /\ Places'[-1] = Append(immutable_memtables', memtable')
  /\ \A l \in Level : Places'[l] = Tables(l)'
<1>1. NumLevels \in Nat /\ NumLevels >= 2
  BY NumLevelsAssumption
<1>2. 0 \in Level /\ -1 \notin Level /\ \A l \in Level : l \in Nat /\ 0 <= l /\ -1 <= l /\ l # -1
  BY <1>1 DEF Level
<1>3. -1 \in Place /\ 0 \in Place /\ Level \subseteq Place
  BY <1>2 DEF Place
<1>4. \A p \in Place : p \in Int /\ -1 <= p /\ (p # -1 => p \in Level /\ 0 <= p)
  BY <1>2 DEF Place
<1>5. Places[-1] = Append(immutable_memtables, memtable)
  BY <1>3 DEF Places
<1>6. \A l \in Level : Places[l] = Tables(l)
  BY <1>2, <1>3 DEF Places
<1>7. Places'[-1] = Append(immutable_memtables', memtable')
  BY <1>3 DEF Places
<1>8. \A l \in Level : Places'[l] = Tables(l)'
  BY <1>2, <1>3 DEF Places
<1> QED BY <1>2, <1>3, <1>4, <1>5, <1>6, <1>7, <1>8

LEMMA SearchSame ==
  ASSUME NEW a, NEW b, NEW k, \A p \in Place : Find(a[p], k) = Find(b[p], k)
  PROVE  Search(a, k) = Search(b, k)
<1>1. CASE \A q \in Place : ~Present(Find(a[q], k))
  BY <1>1, SearchNone
<1>2. CASE \E p \in Place : /\ Present(Find(a[p], k)) /\ Search(a, k) = Find(a[p], k)
                            /\ \A q \in Place : Present(Find(a[q], k)) => p <= q
  <2>1. PICK p \in Place : /\ Present(Find(a[p], k)) /\ Search(a, k) = Find(a[p], k)
                           /\ \A q \in Place : Present(Find(a[q], k)) => p <= q
    BY <1>2
  <2>2. Search(b, k) = Find(b[p], k)
    BY <2>1, SearchAt
  <2> QED BY <2>1, <2>2
<1> QED BY <1>1, <1>2, SearchCases

\* An entry goes from the end of memory to the front of level 0: nothing changes.
LEMMA SearchMove ==
  ASSUME NEW a, NEW b, NEW k, NEW h,
         \A p \in Place : p # -1 /\ p # 0 => Find(a[p], k) = Find(b[p], k),
         Present(Find(b[-1], k)) => Find(a[-1], k) = Find(b[-1], k),
         ~Present(Find(b[-1], k)) => Find(a[-1], k) = IF Present(h) THEN h ELSE Absent,
         Find(b[0], k) = IF Present(h) THEN h ELSE Find(a[0], k)
  PROVE  Search(a, k) = Search(b, k)
<1>1. CASE Present(Find(b[-1], k))
  <2>1. Search(a, k) = Find(a[-1], k)
    BY <1>1, PlaceFacts, SearchAt
  <2>2. Search(b, k) = Find(b[-1], k)
    BY <1>1, PlaceFacts, SearchAt
  <2> QED BY <1>1, <2>1, <2>2
<1>2. CASE ~Present(Find(b[-1], k)) /\ Present(h)
  <2>1. Search(a, k) = Find(a[-1], k)
    BY <1>2, PlaceFacts, SearchAt
  <2>2. \A q \in Place : Present(Find(b[q], k)) => 0 <= q
    BY <1>2, PlaceFacts
  <2>3. Search(b, k) = Find(b[0], k)
    BY <1>2, <2>2, PlaceFacts, SearchAt
  <2> QED BY <1>2, <2>1, <2>3
<1>3. CASE ~Present(Find(b[-1], k)) /\ ~Present(h)
  <2>1. ~Present(Find(a[-1], k))
    BY <1>3, EntryFacts
  <2>2. \A p \in Place : p # -1 => Find(a[p], k) = Find(b[p], k)
    BY <1>3
  <2>3. CASE \A q \in Place : ~Present(Find(a[q], k))
    <3>1. \A q \in Place : ~Present(Find(b[q], k))
      BY <1>3, <2>2, <2>3
    <3> QED BY <2>3, <3>1, SearchNone
  <2>4. CASE \E p \in Place : /\ Present(Find(a[p], k)) /\ Search(a, k) = Find(a[p], k)
                              /\ \A q \in Place : Present(Find(a[q], k)) => p <= q
    <3>1. PICK p \in Place : /\ Present(Find(a[p], k)) /\ Search(a, k) = Find(a[p], k)
                             /\ \A q \in Place : Present(Find(a[q], k)) => p <= q
      BY <2>4
    <3>2. p # -1
      BY <2>1, <3>1
    <3>3. Present(Find(b[p], k)) /\ \A q \in Place : Present(Find(b[q], k)) => p <= q
      BY <1>3, <2>2, <3>1, <3>2
    <3>4. Search(b, k) = Find(b[p], k)
      BY <3>3, SearchAt
    <3> QED BY <2>2, <3>1, <3>2, <3>4
  <2> QED BY <2>3, <2>4, SearchCases
<1> QED BY <1>1, <1>2, <1>3

\* Files that no level has do not matter to Get.
LEMMA TablesSame ==
  ASSUME DiskInv, NEW l \in Level, levels'[l] = levels[l],
         \A id \in DOMAIN sst : id \in Range(levels[l]) => sst'[id] = sst[id]
  PROVE  Tables(l)' = Tables(l)
<1>1. \A i \in DOMAIN levels[l] : levels[l][i] \in DOMAIN sst /\ levels[l][i] \in Range(levels[l])
  BY TablesType DEF Range
<1> QED BY <1>1 DEF Tables

LEMMA LookupSame ==
  ASSUME DiskInv, UNCHANGED <<memtable, immutable_memtables, levels>>, NEW k \in Key,
         \A l \in Level : \A id \in DOMAIN sst :
           id \in Range(levels[l]) => sst'[id] = sst[id]
  PROVE  Lookup(k)' = Lookup(k)
<1>1. \A l \in Level : Tables(l)' = Tables(l)
  BY TablesSame
<1>2. \A p \in Place : Places'[p] = Places[p]
  BY <1>1, PlaceFacts
<1>3. Search(Places', k) = Search(Places, k)
  BY <1>2, SearchSame
<1> QED BY <1>3 DEF Lookup, Search

-----------------------------------------------------------------------------
(* What the steps of a Write do to logs and reads. *)

\* The reads stay right where records, memory and levels stay.
LEMMA ReadsSame ==
  ASSUME DiskInv, ReadsInv, Applied' = Applied, pc' = pc, pc # "replay",
         unflushed' = unflushed, \A k \in Key : Lookup(k)' = Lookup(k)
  PROVE  ReadsInv'
<1>1. ASSUME NEW k \in Key, pc' = "open", ~unflushed'
      PROVE  Reflects(Lookup(k)', Applied', k)
  BY <1>1 DEF ReadsInv
<1>2. \A k \in Key : Reflects(Lookup(k), Applied, k)' <=> Reflects(Lookup(k)', Applied', k)
  BY DEF Reflects, Newest
<1> QED BY <1>1, <1>2 DEF ReadsInv

LEMMA AllowedSame ==
  ASSUME AllowedInv, Applied' = Applied, allowed' = allowed
  PROVE  AllowedInv'
BY DEF AllowedInv, Newest

LEMMA WriteLogLive ==
  ASSUME DiskInv, DiskInv', LiveInv, Intact(wal'), NEW k \in Key, NEW type \in ValueType,
         WriteLog(k, type)
  PROVE  LiveInv'
<1> DEFINE r == [key |-> k, seq |-> sequence_number, type |-> type, val |-> writes + 1]
<1>1. /\ pc = "open" /\ ~logged /\ writes < MaxWrites
      /\ wal' = [wal EXCEPT ![Len(wal)] = Append(@, r)]
      /\ sequence_number' = sequence_number + 1 /\ logged'
      /\ UNCHANGED <<sst, memtable, immutable_memtables, levels, pc, replayed,
                     unflushed, allowed>>
  BY DEF WriteLog, memory
<1>2. wal \in Seq(Seq(WALRecord)) /\ Len(wal) >= 1 /\ Last(wal) = wal[Len(wal)]
      /\ DOMAIN Last(wal) = 1 .. Len(Last(wal))
  BY DiskFacts, LenProperties
<1>3. /\ sequence_number \in Nat /\ sequence_number >= 2
      /\ \A x \in Records(wal) : x.seq < sequence_number
  BY <1>1 DEF LiveInv, LogInv, DiskInv, TypeOK
<1>4. r \in WALRecord /\ Whole(r) /\ r.seq = sequence_number
  <2>1. writes + 1 \in 0 .. MaxWrites
    <3>1. writes \in 0 .. MaxWrites
      BY DEF DiskInv, TypeOK
    <3> QED BY <1>1, <3>1, BoundsAssumption
  <2> QED BY <1>3, <2>1 DEF WALRecord, Whole
<1> HIDE DEF r
<1>5. Records(wal') = Records(wal) \cup {r} /\ Last(wal') = Append(Last(wal), r)
      /\ Last(Last(wal')) = r
  BY <1>1, <1>2, <1>4, RecordsAppend
<1>6. r \notin Records(wal)
  BY <1>3, <1>4
<1>7. Applied' = Applied
  <2>1. Applied' = Records(wal') \ {Last(Last(wal'))}
    BY <1>1 DEF Applied, Records, Whole, Last
  <2>2. Applied = Records(wal)
    BY <1>1 DEF Applied
  <2> QED BY <1>5, <1>6, <2>1, <2>2
<1>8. LogInv'
  <2>1. Ordered(wal')
    <3>1. Ordered(wal)
      BY DEF LiveInv, LogInv
    <3>2. \A i \in DOMAIN wal[Len(wal)] : Whole(wal[Len(wal)][i])
      <4>1. Intact([wal EXCEPT ![Len(wal)] = Append(@, r)])
        BY <1>1
      <4> QED BY <1>2, <1>4, <3>1, <4>1, IntactAppend
    <3> QED BY <1>1, <1>2, <1>3, <1>4, <3>1, <3>2, OrderedAppend
  <2>2. \A x \in Records(wal') : x.seq < sequence_number'
    <3>1. \A x \in Records(wal) : x.seq \in Nat
      BY <1>2, RecordIs
    <3>2. sequence_number' = sequence_number + 1
      BY <1>1
    <3>3. Records(wal') = Records(wal) \cup {r}
      BY <1>5
    <3>4. \A x \in Records(wal) : x.seq < sequence_number + 1
      BY <1>3, <3>1
    <3> QED BY <1>3, <1>4, <3>2, <3>3, <3>4
  <2>3. Whole(Last(Last(wal)))'
    <3>1. Whole(Last(Last(wal')))
      BY <1>4, <1>5
    <3> QED BY <3>1 DEF Whole, Last
  <2>4. sequence_number' >= 2 /\ pc' = "open"
    BY <1>1, <1>3
  <2>5. Ordered(wal)' /\ \A x \in Records(wal)' : x.seq < sequence_number'
    BY <2>1, <2>2 DEF Ordered, Records, Whole
  <2> QED BY <2>3, <2>4, <2>5 DEF LogInv, Whole, Last
<1>9. StoredInv'
  <2>1. \A j \in Key : Held(j)' = Held(j)
    BY <1>1 DEF Held
  <2> QED BY <1>7, <2>1, StoredStep DEF LiveInv
<1>10. \A j \in Key : Lookup(j)' = Lookup(j)
  BY <1>1, LookupSame
<1>11. ReadsInv' /\ AllowedInv'
  BY <1>1, <1>7, <1>10, ReadsSame, AllowedSame DEF LiveInv
<1> QED BY <1>8, <1>9, <1>11 DEF LiveInv

LEMMA WriteLogFailsLive ==
  ASSUME DiskInv, DiskInv', LiveInv, Intact(wal'), WriteLogFails
  PROVE  LiveInv'
<1>1. /\ pc = "open" /\ ~logged /\ wal' \in {wal, TornTail}
      /\ sequence_number' = sequence_number + 1
      /\ UNCHANGED <<sst, memtable, immutable_memtables, levels, pc, replayed, logged,
                     unflushed, allowed>>
  BY DEF WriteLogFails, memory
<1>2. wal \in Seq(Seq(WALRecord)) /\ Len(wal) >= 1 /\ Ordered(wal)
  BY DiskFacts DEF LiveInv, LogInv
<1>3. Records(wal') = Records(wal) /\ Ordered(wal')
  <2>1. CASE wal' = wal
    BY <1>2, <2>1
  <2>2. CASE wal' = [wal EXCEPT ![Len(wal)] = Append(@, Torn)]
    <3>1. Torn \in WALRecord /\ ~Whole(Torn)
      BY TornFacts
    <3>2. Records(wal') = Records(wal)
      BY <1>2, <2>2, <3>1, RecordsAppend
    <3>3. \A i \in DOMAIN wal[Len(wal)] : Whole(wal[Len(wal)][i])
      <4>1. Intact([wal EXCEPT ![Len(wal)] = Append(@, Torn)])
        BY <2>2
      <4> QED BY <1>2, <3>1, <4>1, IntactAppend
    <3> QED BY <1>2, <2>2, <3>1, <3>2, <3>3, OrderedAppend
  <2> QED BY <1>1, <2>1, <2>2 DEF TornTail
<1>4. Records(wal)' = Records(wal') /\ Ordered(wal)'
  BY <1>3 DEF Records, Ordered, Whole
<1>5. Applied' = Applied
  BY <1>1, <1>3, <1>4 DEF Applied
<1>6. LogInv'
  <2>1. /\ sequence_number \in Nat /\ sequence_number >= 2
        /\ \A x \in Records(wal) : x.seq < sequence_number
    BY <1>1 DEF LiveInv, LogInv, DiskInv, TypeOK
  <2>2. \A x \in Records(wal) : x.seq \in Nat
    BY <1>2, RecordIs
  <2>3. sequence_number' >= 2 /\ \A x \in Records(wal)' : x.seq < sequence_number'
    BY <1>1, <1>3, <1>4, <2>1, <2>2
  <2>4. pc' = "open" /\ ~logged'
    BY <1>1
  <2> QED BY <1>4, <2>3, <2>4 DEF LogInv
<1>7. \A k \in Key : Held(k)' = Held(k)
  BY <1>1 DEF Held
<1>8. StoredInv'
  BY <1>5, <1>7, StoredStep DEF LiveInv
<1>9. \A k \in Key : Lookup(k)' = Lookup(k)
  BY <1>1, LookupSame
<1>10. ReadsInv' /\ AllowedInv'
  BY <1>1, <1>5, <1>9, ReadsSame, AllowedSame DEF LiveInv
<1> QED BY <1>6, <1>8, <1>10 DEF LiveInv

\* The memtable of a Write that goes on, with its record.
NewMem == [memtable EXCEPT ![Last(Last(wal)).key] = EntryOf(Last(Last(wal)))]

LEMMA WriteEndSteps ==
  ASSUME NEW sync, WriteEnd(sync)
  PROVE  /\ logged /\ ~logged'
         /\ \/ /\ immutable_memtables' = Append(immutable_memtables, NewMem)
               /\ memtable' = EmptyTable /\ wal' = Append(wal, << >>)
            \/ /\ immutable_memtables' = immutable_memtables
               /\ memtable' = NewMem /\ wal' = wal
         /\ allowed' = [allowed EXCEPT ![Last(Last(wal)).key] =
              {Visible(EntryOf(Last(Last(wal))))} \cup (IF Promised(sync) THEN {} ELSE @)]
         /\ UNCHANGED <<sst, levels, sequence_number, pc, unflushed>>
<1>1. /\ logged /\ logged' = FALSE
      /\ allowed' = [allowed EXCEPT ![Last(Last(wal)).key] =
           {Visible(EntryOf(Last(Last(wal))))} \cup (IF Promised(sync) THEN {} ELSE @)]
      /\ UNCHANGED <<sst, levels, sequence_number, pc, unflushed>>
  BY DEF WriteEnd
<1>2. CASE ShouldFlush(NewMem)
  <2>1. /\ immutable_memtables' = Append(immutable_memtables, NewMem)
        /\ memtable' = EmptyTable /\ wal' = Append(wal, << >>)
    BY <1>2 DEF WriteEnd, NewMem
  <2> QED BY <1>1, <2>1
<1>3. CASE ~ShouldFlush(NewMem)
  <2>1. /\ immutable_memtables' = immutable_memtables
        /\ memtable' = NewMem /\ wal' = wal
    BY <1>3 DEF WriteEnd, NewMem
  <2> QED BY <1>1, <2>1
<1> QED BY <1>2, <1>3

LEMMA NewMemFacts ==
  ASSUME DiskInv, logged, LogInv
  PROVE  /\ NewMem \in Table
         /\ NewMem[Last(Last(wal)).key] = EntryOf(Last(Last(wal)))
         /\ \A k \in Key : k # Last(Last(wal)).key => NewMem[k] = memtable[k]
<1>1. Last(Last(wal)).key \in Key
  BY LastIsNewest
<1>2. memtable \in Table
  BY DiskFacts
<1> QED BY <1>1, <1>2, MemAfter DEF NewMem, Table

\* What the memtables have for a key after a Write.
LEMMA WriteEndFinds ==
  ASSUME DiskInv, LogInv, NEW sync, WriteEnd(sync), NEW k \in Key
  PROVE  Find(Places'[-1], k) = IF Present(NewMem[k]) THEN NewMem[k]
                                ELSE Find(immutable_memtables, k)
<1>1. logged
  BY WriteEndSteps
<1>2. NewMem \in Table /\ EmptyTable \in Table /\ immutable_memtables \in Seq(Table)
  BY <1>1, NewMemFacts, DiskFacts, EntryFacts
<1>3. Places'[-1] = Append(immutable_memtables', memtable')
  BY PlaceFacts
<1>4. Find(Append(immutable_memtables, NewMem), k)
        = IF Present(NewMem[k]) THEN NewMem[k] ELSE Find(immutable_memtables, k)
  BY <1>2, FindAppend
<1>5. CASE /\ immutable_memtables' = Append(immutable_memtables, NewMem)
           /\ memtable' = EmptyTable
  <2> DEFINE pushed == Append(immutable_memtables, NewMem)
  <2>1. pushed \in Seq(Table)
    BY <1>2, AppendProperties
  <2> HIDE DEF pushed
  <2>2. ~Present(EmptyTable[k])
    BY EntryFacts
  <2>3. Find(Append(pushed, EmptyTable), k) = Find(pushed, k)
    BY <1>2, <2>1, <2>2, FindAppend
  <2> QED BY <1>3, <1>4, <1>5, <2>3 DEF pushed
<1>6. CASE immutable_memtables' = immutable_memtables /\ memtable' = NewMem
  BY <1>3, <1>4, <1>6
<1> QED BY <1>5, <1>6, WriteEndSteps

LEMMA WriteEndLog ==
  ASSUME DiskInv, LogInv, NEW sync, WriteEnd(sync)
  PROVE  LogInv' /\ Applied' = Applied \cup {Last(Last(wal))}
<1>1. /\ logged /\ ~logged' /\ UNCHANGED <<sequence_number, pc>>
      /\ wal' = Append(wal, << >>) \/ wal' = wal
  BY WriteEndSteps
<1>2. wal \in Seq(Seq(WALRecord)) /\ pc = "open"
  BY <1>1, DiskFacts, LoggedFacts
<1>3. Records(wal') = Records(wal)
  BY <1>1, <1>2, RecordsNewFile
<1>4. Ordered(wal')
  BY <1>1, <1>2, RecordsNewFile DEF LogInv
<1>5. sequence_number' >= 2 /\ pc' = "open" /\ \A x \in Records(wal') : x.seq < sequence_number'
  BY <1>1, <1>2, <1>3 DEF LogInv
<1>6. Ordered(wal)' /\ Records(wal)' = Records(wal')
  BY <1>4 DEF Ordered, Records, Whole
<1>7. LogInv'
  BY <1>1, <1>5, <1>6 DEF LogInv
<1>8. Applied' = Records(wal')
  BY <1>1, <1>6 DEF Applied
<1> QED BY <1>1, <1>3, <1>7, <1>8, LastIsNewest

LEMMA WriteEndLive ==
  ASSUME DiskInv, DiskInv', LiveInv, NEW sync, WriteEnd(sync)
  PROVE  LiveInv'
<1> DEFINE rec == Last(Last(wal))
<1>1. /\ logged /\ pc = "open" /\ LogInv
      /\ UNCHANGED <<sst, levels, pc, unflushed>>
      /\ LogInv' /\ Applied' = Applied \cup {rec}
  BY WriteEndSteps, WriteEndLog, LoggedFacts DEF LiveInv
<1>2. /\ rec \in Records(wal) /\ rec \in WALRecord /\ Whole(rec) /\ rec.key \in Key
      /\ \A r \in Applied : r.seq < rec.seq
  BY <1>1, LastIsNewest
<1>3. /\ NewMem \in Table /\ NewMem[rec.key] = EntryOf(rec)
      /\ \A k \in Key : k # rec.key => NewMem[k] = memtable[k]
  BY <1>1, NewMemFacts
<1>4. AllowedInv'
  <2>1. allowed' = [allowed EXCEPT ![rec.key] =
          {Visible(EntryOf(rec))} \cup (IF Promised(sync) THEN {} ELSE @)]
    BY WriteEndSteps
  <2>2. DOMAIN allowed = Key
    BY DEF DiskInv, TypeOK
  <2>3. /\ \A k \in Key : k # rec.key => allowed'[k] = allowed[k]
        /\ Visible(EntryOf(rec)) \in allowed'[rec.key]
    BY <1>2, <2>1, <2>2
  <2> QED BY <1>1, <2>3, AllowedJoins DEF LiveInv
<1> HIDE DEF rec
<1>5. StoredInv'
  <2>1. ASSUME NEW k \in Key
        PROVE  NewMem[k] \in Held(k) \/ OfLog(NewMem[k], k, Applied')
    <3>1. CASE k = rec.key
      BY <1>1, <1>3, <3>1 DEF OfLog
    <3>2. CASE k # rec.key
      BY <1>3, <3>2 DEF Held
    <3> QED BY <3>1, <3>2
  <2>2. ASSUME NEW k \in Key, NEW e \in Held(k)'
        PROVE  e \in Held(k) \/ e = NewMem[k] \/ e = Absent
    <3>1. CASE e = memtable'[k]
      BY <3>1, WriteEndSteps, EntryFacts
    <3>2. CASE \E id \in DOMAIN sst' : e = sst'[id][k]
      BY <1>1, <3>2 DEF Held
    <3>3. CASE \E i \in DOMAIN immutable_memtables' : e = immutable_memtables'[i][k]
      <4>1. PICK i \in DOMAIN immutable_memtables' : e = immutable_memtables'[i][k]
        BY <3>3
      <4>2. CASE immutable_memtables' = immutable_memtables
        BY <4>1, <4>2 DEF Held
      <4>3. CASE immutable_memtables' = Append(immutable_memtables, NewMem)
        <5>1. /\ immutable_memtables' \in Seq(Table)
              /\ Len(immutable_memtables') = Len(immutable_memtables) + 1
              /\ \A j \in 1 .. Len(immutable_memtables) :
                   immutable_memtables'[j] = immutable_memtables[j]
              /\ immutable_memtables'[Len(immutable_memtables) + 1] = NewMem
          BY <1>3, <4>3, DiskFacts, AppendProperties
        <5>2. immutable_memtables \in Seq(Table) /\ Len(immutable_memtables) \in Nat
              /\ DOMAIN immutable_memtables = 1 .. Len(immutable_memtables)
          BY DiskFacts, LenProperties
        <5>3. DOMAIN immutable_memtables' = 1 .. Len(immutable_memtables) + 1
          BY <5>1, LenProperties
        <5>4. i \in DOMAIN immutable_memtables \/ i = Len(immutable_memtables) + 1
          BY <5>2, <5>3
        <5>5. CASE i \in DOMAIN immutable_memtables
          BY <4>1, <5>1, <5>2, <5>5 DEF Held
        <5>6. CASE i = Len(immutable_memtables) + 1
          BY <4>1, <5>1, <5>6
        <5> QED BY <5>4, <5>5, <5>6
      <4> QED BY <4>2, <4>3, WriteEndSteps
    <3> QED BY <2>2, <3>1, <3>2, <3>3 DEF Held
  <2>3. \A k \in Key : OfLog(Absent, k, Applied')
    BY DEF OfLog
  <2> QED BY <1>1, <2>1, <2>2, <2>3, StoredStep DEF LiveInv
<1>6. ASSUME NEW k \in Key, ~unflushed' PROVE Reflects(Lookup(k)', Applied', k)
  <2>1. Lookup(k)' = Search(Places', k) /\ Lookup(k) = Search(Places, k)
    BY DEF Lookup, Search
  <2>2. ASSUME NEW x, Newest(Applied', k, x)
        PROVE  IF rec.key = k THEN x = rec ELSE Newest(Applied, k, x)
    BY <1>1, <1>2, <2>2, AppliedFacts, NewestJoins
  <2>3. CASE k = rec.key
    <3>1. Present(NewMem[k])
      BY <1>2, <1>3, <2>3, WholeEntry
    <3>2. Find(Places'[-1], k) = NewMem[k]
      BY <1>1, <3>1, WriteEndFinds
    <3>3. Search(Places', k) = NewMem[k]
      BY <3>1, <3>2, PlaceFacts, SearchAt
    <3>4. Lookup(k)' = EntryOf(rec)
      BY <1>3, <2>1, <2>3, <3>3
    <3> QED BY <2>2, <2>3, <3>4 DEF Reflects
  <2>4. CASE k # rec.key
    <3>1. NewMem[k] = memtable[k]
      BY <1>3, <2>4
    <3>2. Find(Places[-1], k) = IF Present(memtable[k]) THEN memtable[k]
                                ELSE Find(immutable_memtables, k)
      BY DiskFacts, PlaceFacts, FindAppend
    <3>3. Find(Places'[-1], k) = Find(Places[-1], k)
      BY <1>1, <3>1, <3>2, WriteEndFinds
    <3>4. \A l \in Level : Tables(l)' = Tables(l)
      BY <1>1, TablesSame
    <3>5. \A p \in Place : Find(Places'[p], k) = Find(Places[p], k)
      BY <3>3, <3>4, PlaceFacts
    <3>6. Lookup(k)' = Lookup(k)
      BY <2>1, <3>5, SearchSame
    <3>7. Reflects(Lookup(k), Applied, k)
      BY <1>1, <1>6 DEF LiveInv, ReadsInv
    <3>8. \A x : Newest(Applied', k, x) => Newest(Applied, k, x) /\ x \in Applied
      BY <2>2, <2>4 DEF Newest
    <3> QED BY <3>6, <3>7, <3>8 DEF Reflects
  <2> QED BY <2>3, <2>4
<1>7. ReadsInv'
  <2>1. \A k \in Key : Reflects(Lookup(k), Applied, k)' <=> Reflects(Lookup(k)', Applied', k)
    BY DEF Reflects, Newest
  <2> QED BY <1>1, <1>6, <2>1 DEF ReadsInv
<1> QED BY <1>1, <1>4, <1>5, <1>7 DEF LiveInv

-----------------------------------------------------------------------------
(* What flush and the manifest do to reads: nothing, unless a flush fails. *)

LEMMA LogSame ==
  ASSUME UNCHANGED <<wal, sequence_number, pc, replayed, logged>>, LogInv
  PROVE  LogInv' /\ Applied' = Applied
<1>1. LogInv'
  BY DEF LogInv, Ordered, Records, Whole, Last
<1>2. Applied' = Applied
  BY DEF Applied, Records, Whole, Last
<1> QED BY <1>1, <1>2

\* A table is pushed to the end of level 0.
LEMMA PushedLevel ==
  ASSUME DiskInv, pc # "down", NEW t \in Table,
         sst' = WithFile(next_sstable_id, t),
         levels' = [levels EXCEPT ![0] = Append(@, next_sstable_id)],
         next_sstable_id' = next_sstable_id + 1
  PROVE  /\ Tables(0)' = Append(Tables(0), t)
         /\ \A l \in Level : l # 0 => Tables(l)' = Tables(l)
<1> DEFINE n == next_sstable_id
           ids == levels[0]
           new == Append(ids, n)
<1>1. /\ DOMAIN sst' = DOMAIN sst \cup {n} /\ sst'[n] = t
      /\ \A id \in DOMAIN sst : sst'[id] = sst[id]
      /\ \A l \in Level : l # 0 => levels'[l] = levels[l]
  BY PushedTable
<1>2. \A l \in Level : l # 0 => Tables(l)' = Tables(l)
  BY <1>1, TablesSame
<1>3. 0 \in Level /\ levels \in [Level -> Seq(Nat)] /\ n \in Nat /\ ids \in Seq(Nat)
  BY DiskFacts DEF DiskInv, TypeOK
<1>4. levels'[0] = new
  BY <1>3
<1> HIDE DEF ids
<1>5. /\ new \in Seq(Nat) /\ Len(new) = Len(ids) + 1 /\ Len(ids) \in Nat
      /\ \A i \in 1 .. Len(ids) : new[i] = ids[i]
      /\ new[Len(ids) + 1] = n
  BY <1>3, AppendProperties, LenProperties
<1> HIDE DEF new, n
<1>6. DOMAIN new = 1 .. Len(ids) + 1 /\ DOMAIN ids = 1 .. Len(ids)
  BY <1>3, <1>5, LenProperties
<1>7. /\ Tables(0) \in Seq(Table) /\ Len(Tables(0)) = Len(ids)
      /\ \A i \in 1 .. Len(ids) : Tables(0)[i] = sst[ids[i]] /\ ids[i] \in DOMAIN sst
  BY <1>3, <1>6, TablesType DEF ids
<1> DEFINE pushed == Append(Tables(0), t)
<1>8. /\ pushed \in Seq(Table) /\ Len(pushed) = Len(ids) + 1
      /\ \A i \in 1 .. Len(ids) : pushed[i] = Tables(0)[i]
      /\ pushed[Len(ids) + 1] = t
  BY <1>7, AppendProperties
<1> HIDE DEF pushed
<1>9. DOMAIN pushed = 1 .. Len(ids) + 1
      /\ pushed = [i \in 1 .. Len(ids) + 1 |-> pushed[i]]
  BY <1>8, LenProperties
<1>10. Tables(0)' = [i \in 1 .. Len(ids) + 1 |-> sst'[new[i]]]
  BY <1>4, <1>6 DEF Tables
<1>11. ASSUME NEW i \in 1 .. Len(ids) + 1 PROVE sst'[new[i]] = pushed[i]
  <2>1. CASE i \in 1 .. Len(ids)
    BY <1>1, <1>5, <1>7, <1>8, <2>1
  <2>2. CASE i = Len(ids) + 1
    BY <1>1, <1>5, <1>8, <2>2
  <2> QED BY <1>5, <2>1, <2>2
<1>12. Tables(0)' = pushed
  BY <1>9, <1>10, <1>11
<1> QED BY <1>2, <1>12 DEF pushed

\* What Get finds in level 0 then.
LEMMA PushedFinds ==
  ASSUME DiskInv, pc # "down", NEW t \in Table, NEW k \in Key,
         sst' = WithFile(next_sstable_id, t),
         levels' = [levels EXCEPT ![0] = Append(@, next_sstable_id)],
         next_sstable_id' = next_sstable_id + 1
  PROVE  /\ Find(Places'[0], k) = IF Present(t[k]) THEN t[k] ELSE Find(Places[0], k)
         /\ \A p \in Place : p # -1 /\ p # 0 => Places'[p] = Places[p]
<1>1. /\ Tables(0)' = Append(Tables(0), t)
      /\ \A l \in Level : l # 0 => Tables(l)' = Tables(l)
  BY PushedLevel
<1>2. 0 \in Level /\ Tables(0) \in Seq(Table)
  BY DiskFacts, TablesType
<1>3. Find(Append(Tables(0), t), k) = IF Present(t[k]) THEN t[k] ELSE Find(Tables(0), k)
  BY <1>2, FindAppend
<1>4. Places'[0] = Append(Tables(0), t) /\ Places[0] = Tables(0)
  BY <1>1, <1>2, PlaceFacts
<1>5. \A p \in Place : p # -1 /\ p # 0 => Places'[p] = Places[p]
  BY <1>1, PlaceFacts
<1> QED BY <1>3, <1>4, <1>5

\* The memtables but the oldest hold nothing new.
LEMMA HeldTail ==
  ASSUME DiskInv, immutable_memtables # << >>,
         immutable_memtables' = Tail(immutable_memtables), NEW k \in Key
  PROVE  /\ Head(immutable_memtables)[k] \in Held(k)
         /\ \A i \in DOMAIN immutable_memtables' : immutable_memtables'[i][k] \in Held(k)
<1> DEFINE imm == immutable_memtables
<1>1. imm \in Seq(Table) /\ Len(imm) \in Nat /\ DOMAIN imm = 1 .. Len(imm)
  BY DiskFacts, LenProperties
<1>2. Len(imm) >= 1 /\ Head(imm) = imm[1]
  <2>1. Len(imm) # 0
    BY <1>1, EmptySeq
  <2> QED BY <1>1, <2>1, HeadTailProperties
<1>3. /\ Tail(imm) \in Seq(Table) /\ Len(Tail(imm)) = Len(imm) - 1
      /\ \A i \in 1 .. Len(Tail(imm)) : Tail(imm)[i] = imm[i + 1]
  BY <1>1, HeadTailProperties
<1>4. DOMAIN Tail(imm) = 1 .. Len(imm) - 1
  BY <1>3, LenProperties
<1>5. \A i \in DOMAIN imm : imm[i][k] \in Held(k)
  BY DEF Held
<1>6. 1 \in DOMAIN imm /\ \A i \in 1 .. Len(imm) - 1 : i + 1 \in DOMAIN imm
  BY <1>1, <1>2
<1> QED BY <1>2, <1>3, <1>4, <1>5, <1>6

LEMMA FlushLookup ==
  ASSUME DiskInv, Flush, NEW k \in Key
  PROVE  Lookup(k)' = Lookup(k)
<1> DEFINE imm == immutable_memtables
           h == Head(immutable_memtables)[k]
<1>1. /\ pc \in {"open", "closing"} /\ imm # << >> /\ memtable' = memtable
      /\ sst' = WithFile(next_sstable_id, Head(imm))
      /\ levels' = [levels EXCEPT ![0] = Append(@, next_sstable_id)]
      /\ next_sstable_id' = next_sstable_id + 1
      /\ immutable_memtables' = Tail(imm)
  BY DEF Flush
<1>2. Head(imm) \in Table /\ Tail(imm) \in Seq(Table) /\ imm \in Seq(Table)
      /\ memtable \in Table
  BY <1>1, DiskFacts, TailOfImmutables
<1>3. /\ Find(Places'[0], k) = IF Present(h) THEN h ELSE Find(Places[0], k)
      /\ \A p \in Place : p # -1 /\ p # 0 => Places'[p] = Places[p]
  <2>1. pc # "down"
    BY <1>1
  <2> QED BY <1>1, <1>2, <2>1, PushedFinds
<1>4. Find(Places[-1], k) = IF Present(memtable[k]) THEN memtable[k] ELSE Find(imm, k)
  BY <1>2, PlaceFacts, FindAppend
<1>5. Find(Places'[-1], k) = IF Present(memtable[k]) THEN memtable[k] ELSE Find(Tail(imm), k)
  <2>1. Places'[-1] = Append(Tail(imm), memtable)
    BY <1>1, PlaceFacts
  <2> QED BY <1>2, <2>1, FindAppend
<1>6. /\ Present(Find(Tail(imm), k)) => Find(imm, k) = Find(Tail(imm), k)
      /\ ~Present(Find(Tail(imm), k)) => Find(imm, k) = IF Present(h) THEN h ELSE Absent
  BY <1>1, <1>2, FindTail
<1> HIDE DEF h, imm
<1>7. /\ Present(Find(Places'[-1], k)) => Find(Places[-1], k) = Find(Places'[-1], k)
      /\ ~Present(Find(Places'[-1], k)) =>
           Find(Places[-1], k) = IF Present(h) THEN h ELSE Absent
  BY <1>4, <1>5, <1>6
<1>8. Search(Places, k) = Search(Places', k)
  BY <1>3, <1>7, SearchMove
<1> QED BY <1>8 DEF Lookup, Search

LEMMA FlushLive ==
  ASSUME DiskInv, LiveInv, Flush
  PROVE  LiveInv'
<1>1. /\ pc # "replay" /\ immutable_memtables # << >>
      /\ sst' = WithFile(next_sstable_id, Head(immutable_memtables))
      /\ immutable_memtables' = Tail(immutable_memtables)
      /\ UNCHANGED <<wal, memtable, sequence_number, pc, replayed, logged, unflushed, allowed>>
  BY DEF Flush, logs, history
<1>2. LogInv' /\ Applied' = Applied
  BY <1>1, LogSame DEF LiveInv
<1>3. AllowedInv' /\ ReadsInv'
  BY <1>1, <1>2, FlushLookup, ReadsSame, AllowedSame DEF LiveInv
<1>4. StoredInv'
  <2>1. ASSUME NEW k \in Key, NEW e \in Held(k)' PROVE e \in Held(k)
    <3>1. CASE e = memtable'[k]
      BY <1>1, <3>1 DEF Held
    <3>2. CASE \E id \in DOMAIN sst' : e = sst'[id][k]
      <4>1. PICK id \in DOMAIN sst' : e = sst'[id][k]
        BY <3>2
      <4>2. CASE id = next_sstable_id
        BY <1>1, <4>1, <4>2, HeldTail DEF WithFile
      <4>3. CASE id # next_sstable_id
        BY <1>1, <4>1, <4>3 DEF WithFile, Held
      <4> QED BY <4>2, <4>3
    <3>3. CASE \E i \in DOMAIN immutable_memtables' : e = immutable_memtables'[i][k]
      BY <1>1, <3>3, HeldTail
    <3> QED BY <2>1, <3>1, <3>2, <3>3 DEF Held
  <2> QED BY <1>2, <2>1, StoredStep DEF LiveInv
<1> QED BY <1>2, <1>3, <1>4 DEF LiveInv

LEMMA FlushFailsLive ==
  ASSUME DiskInv, LiveInv, FlushFails
  PROVE  LiveInv'
<1>1. /\ pc # "replay" /\ immutable_memtables # << >> /\ unflushed'
      /\ immutable_memtables' = Tail(immutable_memtables)
      /\ UNCHANGED <<wal, sst, memtable, sequence_number, pc, replayed, logged, allowed>>
  BY DEF FlushFails, disk, logs
<1>2. LogInv' /\ Applied' = Applied
  BY <1>1, LogSame DEF LiveInv
<1>3. AllowedInv'
  BY <1>1, <1>2, AllowedSame DEF LiveInv
<1>4. ReadsInv'
  BY <1>1 DEF ReadsInv
<1>5. StoredInv'
  <2>1. ASSUME NEW k \in Key, NEW e \in Held(k)' PROVE e \in Held(k)
    <3>1. CASE e = memtable'[k]
      BY <1>1, <3>1 DEF Held
    <3>2. CASE \E id \in DOMAIN sst' : e = sst'[id][k]
      BY <1>1, <3>2 DEF Held
    <3>3. CASE \E i \in DOMAIN immutable_memtables' : e = immutable_memtables'[i][k]
      BY <1>1, <3>3, HeldTail
    <3> QED BY <2>1, <3>1, <3>2, <3>3 DEF Held
  <2> QED BY <1>2, <2>1, StoredStep DEF LiveInv
<1> QED BY <1>2, <1>3, <1>4, <1>5 DEF LiveInv

\* SaveManifest changes neither logs nor tables nor memory.
LEMMA SavingLive ==
  ASSUME DiskInv, LiveInv, NEW t \in Thread, saving[t] # "idle",
         UNCHANGED <<wal, sst, memtable, immutable_memtables, levels, sequence_number, pc,
                     replayed, logged, unflushed, allowed>>
  PROVE  LiveInv'
<1>1. pc # "replay"
  BY DEF Thread, DiskInv, ControlInv
<1>2. LogInv' /\ Applied' = Applied
  BY LogSame DEF LiveInv
<1>3. \A k \in Key : Lookup(k)' = Lookup(k)
  BY LookupSame
<1>4. AllowedInv' /\ ReadsInv'
  BY <1>1, <1>2, <1>3, ReadsSame, AllowedSame DEF LiveInv
<1>5. \A k \in Key : Held(k)' = Held(k)
  BY DEF Held
<1>6. StoredInv'
  BY <1>2, <1>5, StoredStep DEF LiveInv
<1> QED BY <1>2, <1>4, <1>6 DEF LiveInv

LEMMA SaveManifestLive ==
  ASSUME DiskInv, LiveInv, NEW t \in Thread,
         OpenManifest(t) \/ SaveManifest(t) \/ SaveManifestFails(t)
  PROVE  LiveInv'
<1>1. saving[t] # "idle"
  BY DEF OpenManifest, SaveManifest, SaveManifestFails
<1>2. UNCHANGED <<wal, sst, memtable, immutable_memtables, levels, sequence_number, pc,
                  replayed, logged, unflushed, allowed>>
  BY DEF OpenManifest, SaveManifest, SaveManifestFails, disk, logs, memory, history
<1> QED BY <1>1, <1>2, SavingLive

LEMMA DeleteInputsLive ==
  ASSUME DiskInv, LiveInv, DeleteInputs
  PROVE  LiveInv'
<1>1. /\ pc = "open" /\ sst' = Restrict(sst, DOMAIN sst \ obsolete)
      /\ UNCHANGED <<wal, memtable, immutable_memtables, levels, sequence_number, pc,
                     replayed, logged, unflushed, allowed>>
  BY DEF DeleteInputs, MayDelete, logs, memory, history, DiskInv, ControlInv
<1>2. LogInv' /\ Applied' = Applied
  BY <1>1, LogSame DEF LiveInv
<1>3. DOMAIN sst' = DOMAIN sst \ obsolete /\ \A id \in DOMAIN sst' : sst'[id] = sst[id]
  BY <1>1 DEF Restrict
<1>4. \A l \in Level : \A id \in DOMAIN sst : id \in Range(levels[l]) => sst'[id] = sst[id]
  <2>1. \A l \in Level : Range(levels[l]) \cap obsolete = {}
    BY DEF DiskInv, TableInv
  <2> QED BY <1>3, <2>1
<1>5. \A k \in Key : Lookup(k)' = Lookup(k)
  BY <1>1, <1>4, LookupSame
<1>6. AllowedInv' /\ ReadsInv'
  BY <1>1, <1>2, <1>5, ReadsSame, AllowedSame DEF LiveInv
<1>7. \A k \in Key : \A e \in Held(k)' : e \in Held(k)
  BY <1>1, <1>3 DEF Held
<1>8. StoredInv'
  BY <1>2, <1>7, StoredStep DEF LiveInv
<1> QED BY <1>2, <1>6, <1>8 DEF LiveInv

-----------------------------------------------------------------------------
(* What a compaction does to reads. *)

\* The inputs are the tables of the two levels.
HasElements(c, a, b) ==
  /\ \A j \in DOMAIN c : \/ \E i \in DOMAIN a : c[j] = a[i]
                         \/ \E i \in DOMAIN b : c[j] = b[i]
  /\ \A i \in DOMAIN a : \E j \in DOMAIN c : c[j] = a[i]
  /\ \A i \in DOMAIN b : \E j \in DOMAIN c : c[j] = b[i]

LEMMA ConcatElements ==
  ASSUME NEW S, NEW a \in Seq(S), NEW b \in Seq(S), NEW c, c = a \o b
  PROVE  HasElements(c, a, b)
<1>1. /\ c \in Seq(S) /\ Len(c) = Len(a) + Len(b)
      /\ \A i \in 1 .. Len(a) + Len(b) : c[i] = IF i <= Len(a) THEN a[i] ELSE b[i - Len(a)]
  BY ConcatProperties
<1>2. /\ Len(a) \in Nat /\ DOMAIN a = 1 .. Len(a) /\ Len(b) \in Nat /\ DOMAIN b = 1 .. Len(b)
      /\ DOMAIN c = 1 .. Len(a) + Len(b)
  BY <1>1, LenProperties
<1>3. ASSUME NEW j \in DOMAIN c
      PROVE  (\E i \in DOMAIN a : c[j] = a[i]) \/ (\E i \in DOMAIN b : c[j] = b[i])
  <2>1. CASE j <= Len(a)
    BY <1>1, <1>2, <2>1
  <2>2. CASE ~(j <= Len(a))
    <3>1. j - Len(a) \in DOMAIN b
      BY <1>2, <2>2
    <3> QED BY <1>1, <1>2, <2>2, <3>1
  <2> QED BY <2>1, <2>2
<1>4. ASSUME NEW i \in DOMAIN a PROVE \E j \in DOMAIN c : c[j] = a[i]
  <2>1. i \in DOMAIN c /\ i <= Len(a)
    BY <1>2
  <2> QED BY <1>1, <1>2, <2>1
<1>5. ASSUME NEW i \in DOMAIN b PROVE \E j \in DOMAIN c : c[j] = b[i]
  <2>1. i + Len(a) \in DOMAIN c /\ ~(i + Len(a) <= Len(a)) /\ i + Len(a) - Len(a) = i
    BY <1>2
  <2> QED BY <1>1, <1>2, <2>1
<1> QED BY <1>3, <1>4, <1>5 DEF HasElements

LEMMA OneTable ==
  ASSUME NEW t \in Table
  PROVE  <<t>> \in Seq(Table)
OBVIOUS

\* What is merged for a key is the entry with the highest number among the tables
\* of the two levels, or it was dropped.
LEMMA MergedOf ==
  ASSUME DiskInv, NEW l \in 0 .. NumLevels - 2, levels[l] # << >>, NEW k \in Key
  PROVE  \E w \in Entry :
           /\ \E m \in {l, l + 1} : \E i \in DOMAIN Tables(m) : w = Tables(m)[i][k]
           /\ \A m \in {l, l + 1} : \A i \in DOMAIN Tables(m) : Tables(m)[i][k].seq <= w.seq
           /\ Drop(l, k, w) => Merged(l, k) = Absent
           /\ ~Drop(l, k, w) => Merged(l, k) = w
<1> DEFINE inputs == Inputs(l)
<1>1. l \in Level /\ l + 1 \in Level
  BY NumLevelsAssumption DEF Level
<1>2. Tables(l) \in Seq(Table) /\ Tables(l + 1) \in Seq(Table)
  BY <1>1, TablesType
<1>3. /\ \A j \in DOMAIN inputs :
           \/ \E i \in DOMAIN Tables(l) : inputs[j] = Tables(l)[i]
           \/ \E i \in DOMAIN Tables(l + 1) : inputs[j] = Tables(l + 1)[i]
      /\ \A i \in DOMAIN Tables(l) : \E j \in DOMAIN inputs : inputs[j] = Tables(l)[i]
      /\ \A i \in DOMAIN Tables(l + 1) : \E j \in DOMAIN inputs : inputs[j] = Tables(l + 1)[i]
  <2>1. inputs = Tables(l) \o Tables(l + 1)
    BY DEF Inputs
  <2>2. HasElements(inputs, Tables(l), Tables(l + 1))
    BY <1>2, <2>1, ConcatElements
  <2> QED BY <2>2 DEF HasElements
<1>4. PICK i \in DOMAIN inputs :
        /\ \A j \in DOMAIN inputs : inputs[j][k].seq <= inputs[i][k].seq
        /\ Drop(l, k, inputs[i][k]) => Merged(l, k) = Absent
        /\ ~Drop(l, k, inputs[i][k]) => Merged(l, k) = inputs[i][k]
  BY MergedFacts
<1>5. inputs[i] \in Table
  <2>1. inputs \in Seq(Table)
    BY MergedFacts
  <2> HIDE DEF inputs
  <2> QED BY <2>1, LenProperties, ElementOfSeq
<1> HIDE DEF inputs
<1>6. inputs[i][k] \in Entry
  BY <1>5 DEF Table
<1>7. \E m \in {l, l + 1} : \E j \in DOMAIN Tables(m) : inputs[i][k] = Tables(m)[j][k]
  BY <1>3
<1>8. \A m \in {l, l + 1} : \A j \in DOMAIN Tables(m) : Tables(m)[j][k].seq <= inputs[i][k].seq
  BY <1>3, <1>4
<1> QED BY <1>4, <1>6, <1>7, <1>8

\* What Get finds at each place after a compaction.
LEMMA CompactFinds ==
  ASSUME DiskInv, DiskInv', NEW l \in 0 .. NumLevels - 2, CompactLevel(l), NEW k \in Key
  PROVE  /\ l \in Place /\ l + 1 \in Place /\ l \in Nat
         /\ Find(Places'[l], k) = Absent
         /\ IF Present(Merged(l, k)) THEN Find(Places'[l + 1], k) = Merged(l, k)
                                     ELSE Find(Places'[l + 1], k) = Absent
         /\ \A p \in Place : p # l /\ p # l + 1 => Places'[p] = Places[p]
<1> DEFINE n == next_sstable_id
           merged == [j \in Key |-> Merged(l, j)]
           empty == Count(merged) = 0
<1>1. /\ l \in Level /\ l + 1 \in Level /\ merged \in Table
      /\ \A id \in DOMAIN sst : sst'[id] = sst[id]
      /\ ~empty => sst'[n] = merged
      /\ levels'[l] = << >> /\ levels'[l + 1] = IF empty THEN << >> ELSE <<n>>
      /\ \A m \in Level : m # l /\ m # l + 1 => levels'[m] = levels[m]
  BY CompactTables
<1>2. UNCHANGED <<memtable, immutable_memtables>>
  BY DEF CompactLevel
<1> HIDE DEF merged
<1>3. merged[k] = Merged(l, k)
  BY DEF merged
<1>4. Places'[l] = Tables(l)' /\ Places'[l + 1] = Tables(l + 1)'
  BY <1>1, PlaceFacts
<1>5. Find(Places'[l], k) = Absent
  <2>1. Tables(l)' = << >>
    BY <1>1 DEF Tables
  <2>2. DOMAIN << >> = {}
    OBVIOUS
  <2> QED BY <1>4, <2>1, <2>2, FindNone, EntryFacts
<1>6. IF Present(Merged(l, k)) THEN Find(Places'[l + 1], k) = Merged(l, k)
                               ELSE Find(Places'[l + 1], k) = Absent
  <2>1. CASE empty
    <3>1. Tables(l + 1)' = << >>
      BY <1>1, <2>1 DEF Tables
    <3>2. ~Present(Merged(l, k))
      BY <1>3, <2>1, CountFacts
    <3>3. DOMAIN << >> = {}
      OBVIOUS
    <3> QED BY <1>4, <3>1, <3>2, <3>3, FindNone, EntryFacts
  <2>2. CASE ~empty
    <3>1. levels'[l + 1] = <<n>> /\ sst'[n] = merged
      BY <1>1, <2>2
    <3>2. Tables(l + 1)' = [i \in {1} |-> merged]
      BY <3>1 DEF Tables
    <3>3. DOMAIN Tables(l + 1)' = {1} /\ Tables(l + 1)'[1] = merged
      BY <3>2
    <3>4. Tables(l + 1)' \in Seq(Table)
      <4>1. Tables(l + 1)' = <<merged>>
        BY <3>2
      <4>2. merged \in Table
        BY <1>1
      <4> QED BY <4>1, <4>2, OneTable
    <3> DEFINE out == Tables(l + 1)'
    <3>5. /\ out \in Seq(Table) /\ DOMAIN out = {1} /\ out[1] = merged
          /\ Places'[l + 1] = out
      BY <1>4, <3>3, <3>4
    <3> HIDE DEF out
    <3>6. CASE Present(merged[k])
      <4>1. Find(out, k) = out[1][k]
        BY <3>5, <3>6, FindAt
      <4> QED BY <1>3, <3>5, <3>6, <4>1
    <3>7. CASE ~Present(merged[k])
      BY <1>3, <3>5, <3>7, FindNone, EntryFacts
    <3> QED BY <3>6, <3>7
  <2> QED BY <2>1, <2>2
<1>7. \A m \in Level : m # l /\ m # l + 1 => Tables(m)' = Tables(m)
  BY <1>1, TablesSame
<1>8. \A p \in Place : p # l /\ p # l + 1 => Places'[p] = Places[p]
  BY <1>2, <1>7, PlaceFacts
<1> QED BY <1>1, <1>5, <1>6, <1>8, PlaceFacts

\* What Get found in one of the two levels, it finds in the output, or it was a
\* deletion and there is nothing below.
LEMMA CompactHit ==
  ASSUME DiskInv, DiskInv', LogInv, StoredInv, NEW l \in 0 .. NumLevels - 2,
         CompactLevel(l), NEW k \in Key, Reflects(Lookup(k), Applied, k),
         NEW p \in {l, l + 1}, Present(Find(Places[p], k)), Lookup(k) = Find(Places[p], k),
         \A q \in Place : Present(Find(Places[q], k)) => p <= q
  PROVE  Reflects(Search(Places', k), Applied, k)
<1>1. /\ l \in Place /\ l + 1 \in Place /\ l \in Nat
      /\ Find(Places'[l], k) = Absent
      /\ IF Present(Merged(l, k)) THEN Find(Places'[l + 1], k) = Merged(l, k)
                                  ELSE Find(Places'[l + 1], k) = Absent
      /\ \A q \in Place : q # l /\ q # l + 1 => Places'[q] = Places[q]
  BY CompactFinds
<1>2. levels[l] # << >> /\ l \in Level /\ l + 1 \in Level
  <2>1. levels[l] # << >>
    BY DEF CompactLevel
  <2> QED BY <2>1, CompactTables
<1>3. PICK w \in Entry :
        /\ \E m \in {l, l + 1} : \E i \in DOMAIN Tables(m) : w = Tables(m)[i][k]
        /\ \A m \in {l, l + 1} : \A i \in DOMAIN Tables(m) : Tables(m)[i][k].seq <= w.seq
        /\ Drop(l, k, w) => Merged(l, k) = Absent
        /\ ~Drop(l, k, w) => Merged(l, k) = w
  BY <1>2, MergedOf
<1>4. \A q \in Place : q < l => ~Present(Find(Places'[q], k))
  <2>1. \A q \in Place : q < l => q \in Int /\ ~(p <= q) /\ q # l /\ q # l + 1
    BY <1>1, PlaceFacts
  <2> QED BY <1>1, <2>1
<1>5. ASSUME NEW x \in Applied, Newest(Applied, k, x)
      PROVE  \/ Search(Places', k) = EntryOf(x)
             \/ x.type = "kDeletion" /\ Search(Places', k) = Absent
  <2>1. x \in Records(wal) /\ x \in WALRecord /\ Whole(x) /\ x.seq \in Nat /\ x.seq >= 2
    BY AppliedFacts, RecordIs
  <2>2. EntryOf(x) \in Entry /\ Present(EntryOf(x)) /\ EntryOf(x).seq = x.seq
        /\ EntryOf(x).type = x.type
    BY <2>1, WholeEntry, EntryFacts
  <2>3. Lookup(k) = EntryOf(x)
    <3>1. Lookup(k) # Absent
      BY EntryFacts
    <3> QED BY <1>5, <3>1 DEF Reflects
  <2>4. x.seq <= w.seq
    <3>1. p \in Level /\ Places[p] = Tables(p) /\ Tables(p) \in Seq(Table)
      BY <1>2, PlaceFacts, TablesType
    <3>2. \E i \in DOMAIN Tables(p) : Find(Tables(p), k) = Tables(p)[i][k]
      <4> DEFINE tables == Tables(p)
      <4>1. tables \in Seq(Table) /\ Present(Find(tables, k))
        BY <3>1
      <4> HIDE DEF tables
      <4>2. \E i \in DOMAIN tables : Find(tables, k) = tables[i][k]
        BY <4>1, FindCases, EntryFacts
      <4> QED BY <4>2 DEF tables
    <3>3. Find(Tables(p), k) = EntryOf(x)
      BY <2>3, <3>1
    <3> QED BY <1>3, <2>2, <3>2, <3>3
  <2>5. OfLog(w, k, Applied)
    <3>1. PICK m \in {l, l + 1} : \E i \in DOMAIN Tables(m) : w = Tables(m)[i][k]
      BY <1>3
    <3>2. \E id \in DOMAIN sst : w = sst[id][k]
      BY <1>2, <3>1, TablesType
    <3>3. w \in Held(k)
      BY <3>2 DEF Held
    <3> QED BY <3>3, StoredHeld
  <2>6. w.seq \in Nat /\ w.seq # 0
    BY <2>1, <2>4 DEF Entry
  <2>7. PICK r \in Applied : r.key = k /\ w = EntryOf(r)
    BY <2>5, <2>6, EntryFacts DEF OfLog
  <2>8. r = x
    <3>1. r \in Records(wal) /\ r \in WALRecord /\ r.seq \in Nat
      BY AppliedFacts, RecordIs
    <3>2. w.seq = r.seq
      BY <2>7, <3>1, EntryFacts
    <3>3. r.seq <= x.seq
      BY <1>5, <2>7 DEF Newest
    <3>4. r.seq = x.seq
      BY <2>1, <2>4, <3>1, <3>2, <3>3
    <3> QED BY <2>1, <3>1, <3>4, AppliedFacts, SeqUnique DEF LogInv
  <2>9. w = EntryOf(x)
    BY <2>7, <2>8
  <2>10. CASE Drop(l, k, w)
    <3>1. x.type = "kDeletion" /\ \A d \in l + 2 .. NumLevels - 1 : ~Present(Find(Tables(d), k))
      BY <2>2, <2>9, <2>10 DEF Drop
    <3>2. Find(Places'[l + 1], k) = Absent
      BY <1>1, <1>3, <2>10, EntryFacts
    <3>3. ASSUME NEW q \in Place PROVE ~Present(Find(Places'[q], k))
      <4>1. CASE q = l \/ q = l + 1
        BY <1>1, <3>2, <4>1, EntryFacts
      <4>2. CASE q < l
        BY <1>4, <4>2
      <4>3. CASE q > l + 1
        <5>1. q \in Level /\ q \in l + 2 .. NumLevels - 1
          <6>1. q \in Int /\ q # -1
            BY <1>1, <4>3, PlaceFacts
          <6>2. q \in Level
            BY <6>1, PlaceFacts
          <6>3. q <= NumLevels - 1
            BY <6>2, NumLevelsAssumption DEF Level
          <6> QED BY <1>1, <4>3, <6>1, <6>2, <6>3, NumLevelsAssumption
        <5>2. Places'[q] = Places[q] /\ Places[q] = Tables(q)
          <6>1. q # l /\ q # l + 1
            BY <1>1, <4>3
          <6> QED BY <1>1, <5>1, <6>1, PlaceFacts
        <5> QED BY <3>1, <5>1, <5>2
      <4>4. q \in Int
        BY PlaceFacts
      <4> QED BY <1>1, <4>1, <4>2, <4>3, <4>4
    <3>4. Search(Places', k) = Absent
      BY <3>3, SearchNone
    <3> QED BY <3>1, <3>4
  <2>11. CASE ~Drop(l, k, w)
    <3>1. Merged(l, k) = EntryOf(x)
      BY <1>3, <2>9, <2>11
    <3>2. Present(Find(Places'[l + 1], k)) /\ Find(Places'[l + 1], k) = EntryOf(x)
      BY <1>1, <2>2, <3>1
    <3>3. ASSUME NEW q \in Place, Present(Find(Places'[q], k)) PROVE l + 1 <= q
      <4>1. q \in Int /\ ~(q < l)
        BY <1>4, <3>3, PlaceFacts
      <4>2. q # l
        BY <1>1, <3>3, EntryFacts
      <4> QED BY <1>1, <4>1, <4>2
    <3>4. Search(Places', k) = Find(Places'[l + 1], k)
      BY <1>1, <3>2, <3>3, SearchAt
    <3> QED BY <3>2, <3>4
  <2> QED BY <2>10, <2>11
<1> QED BY <1>5 DEF Reflects

\* What Get found elsewhere it still finds.
LEMMA CompactMiss ==
  ASSUME DiskInv, DiskInv', NEW l \in 0 .. NumLevels - 2, CompactLevel(l), NEW k \in Key,
         ~\E p \in {l, l + 1} : /\ Present(Find(Places[p], k)) /\ Lookup(k) = Find(Places[p], k)
                                /\ \A q \in Place : Present(Find(Places[q], k)) => p <= q
  PROVE  Search(Places', k) = Search(Places, k)
<1>1. /\ l \in Place /\ l + 1 \in Place /\ l \in Nat
      /\ Find(Places'[l], k) = Absent
      /\ IF Present(Merged(l, k)) THEN Find(Places'[l + 1], k) = Merged(l, k)
                                  ELSE Find(Places'[l + 1], k) = Absent
      /\ \A q \in Place : q # l /\ q # l + 1 => Places'[q] = Places[q]
  BY CompactFinds
<1>2. levels[l] # << >> /\ l \in Level /\ l + 1 \in Level
  <2>1. levels[l] # << >>
    BY DEF CompactLevel
  <2> QED BY <2>1, CompactTables
<1>3. CASE ~Present(Find(Places[l], k)) /\ ~Present(Find(Places[l + 1], k))
  <2>1. ASSUME NEW m \in {l, l + 1}
        PROVE  /\ Find(Places[m], k) = Absent
               /\ \A i \in DOMAIN Tables(m) : ~Present(Tables(m)[i][k])
    <3>1. Places[m] = Tables(m) /\ Tables(m) \in Seq(Table) /\ ~Present(Find(Tables(m), k))
      BY <1>2, <1>3, PlaceFacts, TablesType
    <3> QED BY <3>1, FindCases
  <2>2. ~Present(Merged(l, k))
    <3>1. PICK w \in Entry :
            /\ \E m \in {l, l + 1} : \E i \in DOMAIN Tables(m) : w = Tables(m)[i][k]
            /\ Drop(l, k, w) => Merged(l, k) = Absent
            /\ ~Drop(l, k, w) => Merged(l, k) = w
      BY <1>2, MergedOf
    <3>2. ~Present(w)
      BY <2>1, <3>1
    <3> QED BY <3>1, <3>2, EntryFacts
  <2>3. \A q \in Place : Find(Places'[q], k) = Find(Places[q], k)
    BY <1>1, <2>1, <2>2
  <2> QED BY <2>3, SearchSame
<1>4. CASE Present(Find(Places[l], k)) \/ Present(Find(Places[l + 1], k))
  <2>1. PICK p \in Place : /\ Present(Find(Places[p], k))
                           /\ Search(Places, k) = Find(Places[p], k)
                           /\ \A q \in Place : Present(Find(Places[q], k)) => p <= q
    BY <1>1, <1>4, SearchCases
  <2>2. Lookup(k) = Find(Places[p], k)
    BY <2>1 DEF Lookup
  <2>3. p # l /\ p # l + 1
    BY <2>1, <2>2
  <2>4. p \in Int /\ p < l
    <3>1. p <= l \/ p <= l + 1
      BY <1>1, <1>4, <2>1
    <3>2. p \in Int /\ l \in Int
      BY <1>1, PlaceFacts
    <3> QED BY <2>3, <3>1, <3>2
  <2>5. Present(Find(Places'[p], k)) /\ Places'[p] = Places[p]
    BY <1>1, <2>1, <2>3
  <2>6. ASSUME NEW q \in Place, Present(Find(Places'[q], k)) PROVE p <= q
    <3>1. CASE q = l \/ q = l + 1
      BY <1>1, <2>4, <3>1
    <3>2. CASE q # l /\ q # l + 1
      BY <1>1, <2>1, <2>6, <3>2
    <3> QED BY <3>1, <3>2
  <2>7. Search(Places', k) = Find(Places'[p], k)
    BY <2>5, <2>6, SearchAt
  <2> QED BY <2>1, <2>5, <2>7
<1> QED BY <1>3, <1>4

LEMMA CompactReads ==
  ASSUME DiskInv, DiskInv', LogInv, StoredInv, NEW l \in 0 .. NumLevels - 2,
         CompactLevel(l), NEW k \in Key, Reflects(Lookup(k), Applied, k)
  PROVE  Reflects(Search(Places', k), Applied, k)
<1> DEFINE Hit(p) == /\ Present(Find(Places[p], k)) /\ Lookup(k) = Find(Places[p], k)
                     /\ \A q \in Place : Present(Find(Places[q], k)) => p <= q
<1>1. CASE \E p \in {l, l + 1} : Hit(p)
  <2>1. PICK p \in {l, l + 1} : Hit(p)
    BY <1>1
  <2> QED BY <2>1, CompactHit
<1>2. CASE ~\E p \in {l, l + 1} : Hit(p)
  <2>1. Search(Places', k) = Search(Places, k)
    BY <1>2, CompactMiss
  <2>2. Lookup(k) = Search(Places, k)
    BY DEF Lookup
  <2> QED BY <2>1, <2>2
<1> QED BY <1>1, <1>2

LEMMA CompactLevelLive ==
  ASSUME DiskInv, DiskInv', LiveInv, NEW l \in 0 .. NumLevels - 2, CompactLevel(l)
  PROVE  LiveInv'
<1>1. /\ pc = "open" /\ levels[l] # << >>
      /\ UNCHANGED <<wal, memtable, immutable_memtables, sequence_number, pc, replayed,
                     logged, unflushed, allowed>>
  BY DEF CompactLevel, logs, history
<1>2. LogInv' /\ Applied' = Applied
  BY <1>1, LogSame DEF LiveInv
<1>3. AllowedInv'
  BY <1>1, <1>2, AllowedSame DEF LiveInv
<1>4. ReadsInv'
  <2>1. ASSUME NEW k \in Key, ~unflushed' PROVE Reflects(Lookup(k)', Applied', k)
    <3>1. Reflects(Lookup(k), Applied, k)
      BY <1>1, <2>1 DEF LiveInv, ReadsInv
    <3>2. Lookup(k)' = Search(Places', k)
      BY DEF Lookup, Search
    <3> QED BY <1>2, <3>1, <3>2, CompactReads DEF LiveInv
  <2>2. \A k \in Key : Reflects(Lookup(k), Applied, k)' <=> Reflects(Lookup(k)', Applied', k)
    BY DEF Reflects, Newest
  <2> QED BY <1>1, <2>1, <2>2 DEF ReadsInv
<1>5. StoredInv'
  <2> DEFINE merged == [j \in Key |-> Merged(l, j)]
             empty == Count(merged) = 0
  <2>1. /\ l \in Level /\ l + 1 \in Level
        /\ DOMAIN sst' = IF empty THEN DOMAIN sst ELSE DOMAIN sst \cup {next_sstable_id}
        /\ \A id \in DOMAIN sst : sst'[id] = sst[id]
        /\ ~empty => sst'[next_sstable_id] = merged
    BY CompactTables
  <2>2. ASSUME NEW k \in Key PROVE Merged(l, k) \in Held(k) \/ Merged(l, k) = Absent
    <3>1. PICK w \in Entry :
            /\ \E m \in {l, l + 1} : \E i \in DOMAIN Tables(m) : w = Tables(m)[i][k]
            /\ Drop(l, k, w) => Merged(l, k) = Absent
            /\ ~Drop(l, k, w) => Merged(l, k) = w
      BY <1>1, MergedOf
    <3>2. \E id \in DOMAIN sst : w = sst[id][k]
      BY <2>1, <3>1, TablesType
    <3>3. w \in Held(k)
      BY <3>2 DEF Held
    <3> QED BY <3>1, <3>3
  <2>3. \A k \in Key : merged[k] = Merged(l, k)
    OBVIOUS
  <2> HIDE DEF merged
  <2>4. ASSUME NEW k \in Key, NEW e \in Held(k)' PROVE e \in Held(k) \/ e = Absent
    <3>1. CASE e = memtable'[k]
      BY <1>1, <3>1 DEF Held
    <3>2. CASE \E i \in DOMAIN immutable_memtables' : e = immutable_memtables'[i][k]
      BY <1>1, <3>2 DEF Held
    <3>3. CASE \E id \in DOMAIN sst' : e = sst'[id][k]
      <4>1. PICK id \in DOMAIN sst' : e = sst'[id][k]
        BY <3>3
      <4>2. CASE id \in DOMAIN sst
        BY <2>1, <4>1, <4>2 DEF Held
      <4>3. CASE id \notin DOMAIN sst
        <5>1. id = next_sstable_id /\ sst'[id] = merged
          BY <2>1, <4>1, <4>3
        <5> QED BY <2>2, <2>3, <4>1, <5>1
      <4> QED BY <4>2, <4>3
    <3> QED BY <2>4, <3>1, <3>2, <3>3 DEF Held
  <2>5. \A k \in Key : OfLog(Absent, k, Applied')
    BY DEF OfLog
  <2> QED BY <1>2, <2>4, <2>5, StoredStep DEF LiveInv
<1> QED BY <1>2, <1>3, <1>4, <1>5 DEF LiveInv

-----------------------------------------------------------------------------
(* Going down loses nothing that the logs have, unless power is lost. *)

LEMMA DownLive ==
  ASSUME DiskInv, DiskInv', StoredInv, Forget, Ordered(wal'), AllowedInv',
         Applied \subseteq Applied',
         \A k \in Key : \A id \in DOMAIN sst' : sst'[id][k] \in Held(k)
  PROVE  LiveInv'
<1>1. /\ pc' = "down" /\ memtable' = EmptyTable /\ immutable_memtables' = << >>
      /\ sequence_number' = 1 /\ replayed' = 0
  BY DEF Forget
<1>2. LogInv'
  <2>1. Ordered(wal)'
    BY DEF Ordered, Whole
  <2>2. pc' # "open" /\ pc' # "replay"
    BY <1>1
  <2> QED BY <1>1, <2>1, <2>2 DEF LogInv
<1>3. ReadsInv'
  <2>1. pc' # "open" /\ pc' # "replay"
    BY <1>1
  <2> QED BY <2>1 DEF ReadsInv
<1>4. StoredInv'
  <2>1. ASSUME NEW k \in Key, NEW e \in Held(k)' PROVE e \in Held(k) \/ e = Absent
    <3>1. CASE e = memtable'[k]
      BY <1>1, <3>1, EntryFacts
    <3>2. CASE \E i \in DOMAIN immutable_memtables' : e = immutable_memtables'[i][k]
      BY <1>1, <3>2
    <3>3. CASE \E id \in DOMAIN sst' : e = sst'[id][k]
      BY <3>3
    <3> QED BY <2>1, <3>1, <3>2, <3>3 DEF Held
  <2>2. \A k \in Key : OfLog(Absent, k, Applied')
    BY DEF OfLog
  <2> QED BY <2>1, <2>2, StoredStep
<1> QED BY <1>2, <1>3, <1>4 DEF LiveInv

LEMMA AppliedDown ==
  ASSUME Forget
  PROVE  Applied' = Records(wal')
<1>1. ~logged'
  BY DEF Forget
<1>2. Records(wal)' = Records(wal')
  BY DEF Records, Whole
<1> QED BY <1>1, <1>2 DEF Applied

LEMMA NamedHeld ==
  ASSUME DiskInv, sst' = NamedFiles, NEW k \in Key, NEW id \in DOMAIN sst'
  PROVE  sst'[id][k] \in Held(k)
<1>1. id \in Named /\ sst'[id] = sst[id] /\ id \in DOMAIN sst
  BY NamedFilesFacts
<1> QED BY <1>1 DEF Held

\* A crash of the process leaves the logs as they are.
LEMMA CrashLog ==
  ASSUME DiskInv, ~PowerLoss, Crash
  PROVE  wal' = wal
<1>1. PICK kept : /\ Survives(kept)
                  /\ wal' = [i \in DOMAIN wal |-> SubSeq(wal[i], 1, kept[i])]
  BY DEF Crash
<1>2. ASSUME NEW i \in DOMAIN wal PROVE SubSeq(wal[i], 1, kept[i]) = wal[i]
  <2>1. kept[i] = Len(wal[i])
    BY <1>1 DEF Survives
  <2>2. wal[i] \in Seq(WALRecord)
    BY DiskFacts, ElementOfSeq
  <2> DEFINE file == wal[i]
  <2>3. file \in Seq(WALRecord) /\ Len(file) \in Nat
    BY <2>2, LenProperties
  <2> HIDE DEF file
  <2>4. SubSeq(file, 1, Len(file)) = file
    BY <2>3
  <2> QED BY <2>1, <2>4 DEF file
<1>3. wal = [i \in DOMAIN wal |-> wal[i]]
  <2>1. wal \in [1 .. Len(wal) -> Seq(WALRecord)]
    BY DiskFacts, LenProperties
  <2> QED BY <2>1
<1> QED BY <1>1, <1>2, <1>3

LEMMA CrashLive ==
  ASSUME DiskInv, DiskInv', ~PowerLoss, LiveInv, Crash
  PROVE  LiveInv'
<1>1. /\ sst' = NamedFiles /\ Forget
      /\ allowed' = IF logged THEN [allowed EXCEPT ![Last(Last(wal)).key] =
                                      @ \cup {Visible(EntryOf(Last(Last(wal))))}]
                              ELSE allowed
  BY DEF Crash
<1>2. wal' = wal
  BY CrashLog
<1>3. Ordered(wal') /\ Applied' = Records(wal)
  BY <1>1, <1>2, AppliedDown DEF LiveInv, LogInv
<1>4. AllowedInv' /\ Applied \subseteq Applied'
  <2>1. CASE logged
    <3> DEFINE rec == Last(Last(wal))
    <3>1. rec.key \in Key /\ Records(wal) = Applied \cup {rec}
      BY <2>1, LastIsNewest DEF LiveInv
    <3>2. allowed' = [allowed EXCEPT ![rec.key] = @ \cup {Visible(EntryOf(rec))}]
          /\ DOMAIN allowed = Key
      BY <1>1, <2>1 DEF DiskInv, TypeOK
    <3>3. /\ \A k \in Key : k # rec.key => allowed'[k] = allowed[k]
          /\ Visible(EntryOf(rec)) \in allowed'[rec.key]
      BY <3>1, <3>2
    <3> QED BY <1>3, <2>1, <3>1, <3>3, AllowedJoins DEF LiveInv
  <2>2. CASE ~logged
    <3>1. Applied' = Applied /\ allowed' = allowed
      BY <1>1, <1>3, <2>2, AppliedFacts
    <3> QED BY <3>1, AllowedSame DEF LiveInv
  <2> QED BY <2>1, <2>2
<1>5. \A k \in Key : \A id \in DOMAIN sst' : sst'[id][k] \in Held(k)
  BY <1>1, NamedHeld
<1> QED BY <1>1, <1>3, <1>4, <1>5, DownLive DEF LiveInv

\* The memtables are flushed out of order from now on, and nobody reads.
LEMMA CloseLive ==
  ASSUME DiskInv, DiskInv', LiveInv, Close
  PROVE  LiveInv'
<1>1. /\ pc = "open" /\ pc' = "closing" /\ ~logged
      /\ immutable_memtables' = CloseRest /\ memtable' = EmptyTable
      /\ UNCHANGED <<wal, sst, logged, allowed>>
  BY DEF Close, CloseRest, disk, logs, history
<1>2. LogInv'
  <2>1. Ordered(wal)'
    BY <1>1 DEF LiveInv, LogInv, Ordered, Whole
  <2>2. pc' # "open" /\ pc' # "down" /\ pc' # "replay"
    BY <1>1
  <2> QED BY <2>1, <2>2 DEF LogInv
<1>3. Applied' = Applied
  BY <1>1 DEF Applied, Records, Whole, Last
<1>4. AllowedInv'
  BY <1>1, <1>3, AllowedSame DEF LiveInv
<1>5. ReadsInv'
  <2>1. pc' # "open" /\ pc' # "replay"
    BY <1>1
  <2> QED BY <2>1 DEF ReadsInv
<1>6. StoredInv'
  <2>1. ASSUME NEW k \in Key, NEW e \in Held(k)' PROVE e \in Held(k) \/ e = Absent
    <3>1. CASE e = memtable'[k]
      BY <1>1, <3>1, EntryFacts
    <3>2. CASE \E i \in DOMAIN immutable_memtables' : e = immutable_memtables'[i][k]
      <4>1. PICK i \in DOMAIN CloseRest : e = CloseRest[i][k]
        BY <1>1, <3>2
      <4> QED BY <4>1, CloseRestFacts DEF Held
    <3>3. CASE \E id \in DOMAIN sst' : e = sst'[id][k]
      BY <1>1, <3>3 DEF Held
    <3> QED BY <2>1, <3>1, <3>2, <3>3 DEF Held
  <2>2. \A k \in Key : OfLog(Absent, k, Applied')
    BY DEF OfLog
  <2> QED BY <1>3, <2>1, <2>2, StoredStep DEF LiveInv
<1> QED BY <1>2, <1>4, <1>5, <1>6 DEF LiveInv

LEMMA ClosedLive ==
  ASSUME DiskInv, DiskInv', LiveInv, Closed
  PROVE  LiveInv'
<1>1. /\ pc = "closing" /\ Forget /\ sst' = NamedFiles
      /\ wal' = wal /\ allowed' = allowed
  BY DEF Closed
<1>2. ~logged
  BY <1>1 DEF DiskInv, ControlInv
<1>3. Applied' = Applied
  BY <1>1, <1>2, AppliedDown, AppliedFacts
<1>4. AllowedInv'
  BY <1>1, <1>3, AllowedSame DEF LiveInv
<1>5. Ordered(wal')
  BY <1>1 DEF LiveInv, LogInv
<1>6. \A k \in Key : \A id \in DOMAIN sst' : sst'[id][k] \in Held(k)
  BY <1>1, NamedHeld
<1> QED BY <1>1, <1>3, <1>4, <1>5, <1>6, DownLive DEF LiveInv

-----------------------------------------------------------------------------
(* Open brings back what the logs have. *)

LEMMA LoadManifestLive ==
  ASSUME DiskInv, DiskInv', LiveInv, LoadManifest
  PROVE  LiveInv'
<1>1. /\ pc = "down" /\ pc' = "replay"
      /\ UNCHANGED <<wal, sst, memtable, immutable_memtables, sequence_number, replayed,
                     logged, allowed>>
  BY DEF LoadManifest, disk, logs, history
<1>2. sequence_number = 1 /\ replayed = 0 /\ Ordered(wal)
  BY <1>1 DEF LiveInv, LogInv
<1>3. Applied' = Applied
  BY <1>1 DEF Applied, Records, Whole, Last
<1>4. wal \in Seq(Seq(WALRecord)) /\ DOMAIN wal = 1 .. Len(wal) /\ Len(wal) \in Nat
  BY DiskFacts
<1>5. \A rec \in Records(wal) : ~(rec.seq <= 1)
  <2>1. \A rec \in Records(wal) : rec.seq \in Nat /\ rec.seq >= 2
    BY <1>4, RecordIs
  <2> QED BY <2>1
<1>6. LogInv'
  <2>1. Ordered(wal)'
    BY <1>1, <1>2 DEF Ordered, Whole
  <2>2. ASSUME NEW f \in DOMAIN wal, NEW i \in DOMAIN wal[f], Whole(wal[f][i])
        PROVE  f <= replayed <=> wal[f][i].seq <= sequence_number
    <3>1. ~(f <= replayed)
      BY <1>2, <1>4
    <3>2. wal[f][i] \in Records(wal)
      BY <2>2, RecordIn
    <3> QED BY <1>2, <1>5, <3>1, <3>2
  <2>3. \A f \in DOMAIN wal' : \A i \in DOMAIN wal'[f] :
          Whole(wal'[f][i]) => (f <= replayed' <=> wal'[f][i].seq <= sequence_number')
    BY <1>1, <2>2
  <2>4. pc' # "open" /\ pc' # "down"
    BY <1>1
  <2> QED BY <2>1, <2>3, <2>4 DEF LogInv, Whole
<1>7. \A k \in Key : Held(k)' = Held(k)
  BY <1>1 DEF Held
<1>8. StoredInv'
  BY <1>3, <1>7, StoredStep DEF LiveInv
<1>9. AllowedInv'
  BY <1>1, <1>3, AllowedSame DEF LiveInv
<1>10. ReadsInv'
  <2>1. Met' = {}
    <3>1. Met = {}
      BY <1>2, <1>5 DEF Met
    <3> QED BY <1>1, <3>1 DEF Met, Records, Whole
  <2>2. pc' # "open"
    BY <1>1
  <2> QED BY <2>1, <2>2 DEF ReadsInv, Reflects
<1> QED BY <1>6, <1>8, <1>9, <1>10 DEF LiveInv

LEMMA OpenDoneLive ==
  ASSUME DiskInv, DiskInv', LiveInv, OpenDone
  PROVE  LiveInv'
<1>1. /\ pc = "replay" /\ pc' = "open" /\ replayed = Len(wal)
      /\ sequence_number' = sequence_number + 1 /\ wal' = Append(wal, << >>)
      /\ UNCHANGED <<sst, memtable, immutable_memtables, levels, logged, unflushed, allowed>>
  BY DEF OpenDone, AllReplayed, memory, history
<1>2. /\ wal \in Seq(Seq(WALRecord)) /\ DOMAIN wal = 1 .. Len(wal) /\ Len(wal) \in Nat
      /\ Ordered(wal) /\ ~logged
  BY <1>1, DiskFacts DEF LiveInv, LogInv, DiskInv, ControlInv
<1>3. Records(wal') = Records(wal) /\ Ordered(wal')
  BY <1>1, <1>2, RecordsNewFile
<1>4. Records(wal)' = Records(wal') /\ Ordered(wal)'
  BY <1>3 DEF Records, Ordered, Whole
<1>5. Applied = Records(wal) /\ Applied' = Applied
  BY <1>1, <1>2, <1>3, <1>4 DEF Applied
<1>6. \A rec \in Records(wal) : rec.seq <= sequence_number
  <2>1. ASSUME NEW rec \in Records(wal) PROVE rec.seq <= sequence_number
    <3>1. PICK f \in DOMAIN wal : \E i \in DOMAIN wal[f] : rec = wal[f][i]
      BY <1>2, RecordIs
    <3>2. Whole(rec) /\ f <= replayed
      BY <1>1, <1>2, RecordIs
    <3> QED BY <1>1, <3>1, <3>2 DEF LiveInv, LogInv
  <2> QED BY <2>1
<1>7. Met = Records(wal)
  BY <1>6 DEF Met
<1>8. LogInv'
  <2>1. sequence_number \in Nat /\ sequence_number >= 1
    <3>1. sequence_number \in Nat \ {0}
      BY DEF DiskInv, TypeOK
    <3> QED BY <3>1
  <2>2. \A rec \in Records(wal) : rec.seq \in Nat
    BY <1>2, RecordIs
  <2>3. sequence_number' >= 2 /\ \A rec \in Records(wal)' : rec.seq < sequence_number'
    BY <1>1, <1>3, <1>4, <1>6, <2>1, <2>2
  <2>4. pc' # "down" /\ pc' # "replay" /\ ~logged'
    BY <1>1, <1>2
  <2> QED BY <1>4, <2>3, <2>4 DEF LogInv
<1>9. \A k \in Key : Held(k)' = Held(k)
  BY <1>1 DEF Held
<1>10. StoredInv'
  BY <1>5, <1>9, StoredStep DEF LiveInv
<1>11. AllowedInv'
  BY <1>1, <1>5, AllowedSame DEF LiveInv
<1>12. ReadsInv'
  <2>1. ASSUME NEW k \in Key PROVE Reflects(Lookup(k)', Applied', k)
    <3>1. Reflects(Lookup(k), Met, k)
      BY <1>1 DEF LiveInv, ReadsInv
    <3>2. Lookup(k)' = Lookup(k)
      BY <1>1, LookupSame
    <3> QED BY <1>5, <1>7, <3>1, <3>2
  <2>2. \A k \in Key : Reflects(Lookup(k), Applied, k)' <=> Reflects(Lookup(k)', Applied', k)
    BY DEF Reflects, Newest
  <2>3. pc' # "replay"
    BY <1>1
  <2> QED BY <2>1, <2>2, <2>3 DEF ReadsInv
<1> QED BY <1>8, <1>10, <1>11, <1>12 DEF LiveInv

\* WAL::Recover reads all whole records of a file, and only those.
LEMMA RecoverWhole ==
  ASSUME NEW file \in Seq(WALRecord),
         \A i \in DOMAIN file : Whole(file[i]) \/ (file[i] = Torn /\ i = Len(file))
  PROVE  /\ \A i \in DOMAIN Recover(file) :
              i \in DOMAIN file /\ Recover(file)[i] = file[i] /\ Whole(file[i])
         /\ \A i \in DOMAIN file : Whole(file[i]) => i \in DOMAIN Recover(file)
<1> DEFINE m == Len(Recover(file))
<1>1. /\ Recover(file) \in Seq(WALRecord) /\ m \in Nat /\ m <= Len(file)
      /\ \A i \in 1 .. m : Recover(file)[i] = file[i]
      /\ \A i \in DOMAIN file : i > m => \E j \in DOMAIN file : j <= i /\ file[j] = Torn
  BY RecoverFacts
<1>2. DOMAIN file = 1 .. Len(file) /\ Len(file) \in Nat /\ DOMAIN Recover(file) = 1 .. m
  BY <1>1, LenProperties
<1>3. ASSUME NEW i \in DOMAIN Recover(file) PROVE file[i] # Torn
  <2> DEFINE torn == {j \in DOMAIN file : file[j] = Torn}
             c == CHOOSE j \in torn : \A x \in torn : j <= x
  <2> SUFFICES ASSUME file[i] = Torn PROVE FALSE
    OBVIOUS
  <2>1. i \in torn
    BY <1>1, <1>2, <1>3
  <2>2. torn \in SUBSET Nat /\ torn # {}
    BY <1>2, <2>1
  <2>3. Recover(file) = SubSeq(file, 1, c - 1)
    BY <2>2 DEF Recover
  <2> HIDE DEF torn
  <2>4. c \in torn /\ \A x \in torn : c <= x
    BY <2>2, LeastOf
  <2> HIDE DEF c
  <2>5. c <= i /\ c \in 1 .. Len(file)
    BY <1>2, <2>1, <2>4 DEF torn
  <2>6. Len(SubSeq(file, 1, c - 1)) = c - 1
    <3>1. c - 1 \in 0 .. Len(file)
      BY <1>2, <2>5
    <3> QED BY <1>2, <3>1
  <2>7. i \in 1 .. c - 1
    BY <1>2, <1>3, <2>3, <2>6
  <2> QED BY <1>2, <2>5, <2>7
<1>4. ASSUME NEW i \in DOMAIN file, Whole(file[i]) PROVE i \in DOMAIN Recover(file)
  <2>1. CASE i > m
    <3>1. PICK j \in DOMAIN file : j <= i /\ file[j] = Torn
      BY <1>1, <2>1
    <3>2. j = Len(file)
      BY <3>1, TornFacts
    <3>3. i = j
      BY <1>2, <3>1, <3>2
    <3> QED BY <1>4, <3>1, <3>3, TornFacts
  <2> QED BY <1>1, <1>2, <2>1
<1>5. \A i \in DOMAIN Recover(file) : i \in DOMAIN file
  BY <1>1, <1>2
<1> QED BY <1>1, <1>2, <1>3, <1>4, <1>5

LEMMA NextRecordsWhole ==
  ASSUME DiskInv, LogInv, replayed < Len(wal)
  PROVE  /\ \A i \in DOMAIN NextRecords :
              /\ i \in DOMAIN wal[replayed + 1] /\ NextRecords[i] = wal[replayed + 1][i]
              /\ Whole(NextRecords[i]) /\ NextRecords[i] \in Records(wal)
         /\ \A i \in DOMAIN wal[replayed + 1] :
              Whole(wal[replayed + 1][i]) => i \in DOMAIN NextRecords
<1> DEFINE n == replayed + 1
           file == wal[n]
<1>1. n \in DOMAIN wal /\ file \in Seq(WALRecord)
  BY NextFacts
<1>2. \A i \in DOMAIN file : Whole(file[i]) \/ (file[i] = Torn /\ i = Len(file))
  BY <1>1 DEF LogInv, Ordered
<1>3. NextRecords = Recover(file)
  BY DEF NextRecords
<1> HIDE DEF n
<1>4. \A i \in DOMAIN file : Whole(file[i]) => file[i] \in Records(wal)
  BY <1>1, RecordIn
<1> HIDE DEF file
<1>5. /\ \A i \in DOMAIN Recover(file) :
           i \in DOMAIN file /\ Recover(file)[i] = file[i] /\ Whole(file[i])
      /\ \A i \in DOMAIN file : Whole(file[i]) => i \in DOMAIN Recover(file)
  BY <1>1, <1>2, RecoverWhole
<1>6. file = wal[replayed + 1]
  BY DEF file, n
<1> QED BY <1>3, <1>4, <1>5, <1>6

\* After a file is replayed, the records met are those up to its end.
LEMMA ReplayMeets ==
  ASSUME DiskInv, LogInv, ReplayWAL,
         NEW f \in DOMAIN wal, NEW i \in DOMAIN wal[f], Whole(wal[f][i])
  PROVE  f <= replayed + 1 <=> wal[f][i].seq <= sequence_number'
<1> DEFINE n == replayed + 1
<1>1. /\ pc = "replay" /\ replayed < Len(wal)
      /\ sequence_number' = MaxSeq(sequence_number, NextRecords)
  BY ReplaySteps
<1>2. replayed \in Nat /\ sequence_number \in Nat /\ n \in DOMAIN wal
      /\ NextRecords \in Seq(WALRecord)
  <2>1. replayed \in 0 .. Len(wal) /\ sequence_number \in Nat \ {0} /\ Len(wal) \in Nat
    BY DiskFacts DEF DiskInv, TypeOK
  <2> QED BY <1>1, <2>1, NextFacts
<1>3. /\ sequence_number' \in Nat /\ sequence_number' >= sequence_number
      /\ \A j \in DOMAIN NextRecords : sequence_number' >= NextRecords[j].seq
      /\ \/ sequence_number' = sequence_number
         \/ \E j \in DOMAIN NextRecords : sequence_number' = NextRecords[j].seq
  BY <1>1, <1>2, MaxSeqFacts
<1>4. wal[f][i] \in Records(wal) /\ wal[f][i].seq \in Nat /\ f \in Nat
  <2>1. wal[f][i] \in Records(wal)
    BY RecordIn
  <2> QED BY <2>1, DiskFacts, RecordIs
<1>5. f <= replayed <=> wal[f][i].seq <= sequence_number
  BY <1>1 DEF LogInv
<1>6. CASE f <= replayed
  <2>1. wal[f][i].seq <= sequence_number'
    BY <1>2, <1>3, <1>4, <1>5, <1>6
  <2> QED BY <1>2, <1>4, <1>6, <2>1
<1>7. CASE f = n
  <2>1. i \in DOMAIN NextRecords /\ NextRecords[i] = wal[f][i]
    BY <1>1, <1>7, NextRecordsWhole
  <2>2. wal[f][i].seq <= sequence_number'
    BY <1>3, <1>4, <2>1
  <2> QED BY <1>2, <1>7, <2>2
<1>8. CASE f > n
  <2>1. ~(wal[f][i].seq <= sequence_number)
    BY <1>2, <1>4, <1>5, <1>8
  <2>2. ASSUME NEW j \in DOMAIN NextRecords PROVE NextRecords[j].seq < wal[f][i].seq
    <3>1. j \in DOMAIN wal[n] /\ NextRecords[j] = wal[n][j] /\ Whole(wal[n][j])
      BY <1>1, NextRecordsWhole
    <3> QED BY <1>2, <1>8, <3>1 DEF LogInv, Ordered
  <2>3. ~(wal[f][i].seq <= sequence_number')
    <3>1. CASE sequence_number' = sequence_number
      BY <2>1, <3>1
    <3>2. CASE \E j \in DOMAIN NextRecords : sequence_number' = NextRecords[j].seq
      <4>1. PICK j \in DOMAIN NextRecords : sequence_number' = NextRecords[j].seq
        BY <3>2
      <4> QED BY <1>3, <1>4, <2>2, <4>1
    <3> QED BY <1>3, <3>1, <3>2
  <2> QED BY <1>2, <1>4, <1>8, <2>3
<1> QED BY <1>2, <1>4, <1>6, <1>7, <1>8

\* Where Get would look if the memtable with the replayed records were not flushed.
Replayed == [Places EXCEPT ![-1] = Append(immutable_memtables, NextMem)]

LEMMA ReplayLookup ==
  ASSUME DiskInv, ReplayWAL, NEW k \in Key
  PROVE  Search(Places', k) = Search(Replayed, k)
<1>1. /\ pc = "replay" /\ replayed < Len(wal) /\ immutable_memtables' = immutable_memtables
      /\ immutable_memtables = << >>
  BY ReplaySteps DEF DiskInv, ControlInv
<1>2. NextMem \in Table /\ immutable_memtables \in Seq(Table) /\ EmptyTable \in Table
  BY <1>1, NextFacts, DiskFacts, EntryFacts
<1>3. DOMAIN Places = Place
  BY DEF Places
<1>4. /\ Replayed[-1] = Append(immutable_memtables, NextMem)
      /\ \A p \in Place : p # -1 => Replayed[p] = Places[p]
  BY <1>3, PlaceFacts DEF Replayed
<1>5. Places'[-1] = Append(immutable_memtables, memtable')
  BY <1>1, PlaceFacts
<1>6. CASE /\ sst' = WithFile(next_sstable_id, NextMem)
           /\ levels' = [levels EXCEPT ![0] = Append(@, next_sstable_id)]
           /\ next_sstable_id' = next_sstable_id + 1
           /\ memtable' = EmptyTable
  <2> DEFINE h == NextMem[k]
  <2>1. Find(immutable_memtables, k) = Absent
    <3>1. DOMAIN immutable_memtables = {}
      BY <1>1
    <3> QED BY <3>1, FindNone
  <2>2. pc # "down"
    BY <1>1
  <2>3. /\ Find(Places'[0], k) = IF Present(h) THEN h ELSE Find(Places[0], k)
        /\ \A p \in Place : p # -1 /\ p # 0 => Places'[p] = Places[p]
    BY <1>2, <1>6, <2>2, PushedFinds
  <2>4. ~Present(Find(Places'[-1], k))
    <3>1. Find(Append(immutable_memtables, EmptyTable), k) = Absent
      BY <1>2, <2>1, FindAppend, EntryFacts
    <3> QED BY <1>5, <1>6, <3>1, EntryFacts
  <2>5. Find(Replayed[-1], k) = IF Present(h) THEN h ELSE Absent
    BY <1>2, <1>4, <2>1, FindAppend
  <2>6. Find(Places'[0], k) = IF Present(h) THEN h ELSE Find(Replayed[0], k)
    BY <1>4, <2>3, PlaceFacts
  <2>7. \A p \in Place : p # -1 /\ p # 0 => Find(Replayed[p], k) = Find(Places'[p], k)
    BY <1>4, <2>3
  <2> HIDE DEF h
  <2>8. Search(Replayed, k) = Search(Places', k)
    BY <2>4, <2>5, <2>6, <2>7, SearchMove
  <2> QED BY <2>8
<1>7. CASE memtable' = NextMem /\ UNCHANGED <<sst, levels>>
  <2>1. \A l \in Level : Tables(l)' = Tables(l)
    BY <1>7, TablesSame
  <2>2. \A p \in Place : p # -1 => Places'[p] = Places[p]
    BY <2>1, PlaceFacts
  <2>3. \A p \in Place : Find(Places'[p], k) = Find(Replayed[p], k)
    BY <1>4, <1>5, <1>7, <2>2
  <2> QED BY <2>3, SearchSame
<1> QED BY <1>6, <1>7, ReplaySteps

\* A key of the file reads as its last record there, the others as before.
LEMMA ReplayReads ==
  ASSUME DiskInv, LogInv, ReadsInv, ReplayWAL, NEW k \in Key, NEW met,
         met = {rec \in Records(wal) : rec.seq <= sequence_number'}
  PROVE  Reflects(Search(Places', k), met, k)
<1> DEFINE n == replayed + 1
<1>1. pc = "replay" /\ replayed < Len(wal) /\ replayed \in Nat
  BY ReplaySteps DEF DiskInv, TypeOK
<1>2. /\ wal \in Seq(Seq(WALRecord)) /\ n \in DOMAIN wal /\ DOMAIN wal = 1 .. Len(wal)
      /\ NextRecords \in Seq(WALRecord) /\ NextMem \in Table /\ memtable \in Table
      /\ immutable_memtables \in Seq(Table) /\ Len(wal) \in Nat
  BY <1>1, NextFacts, DiskFacts
<1>3. \/ /\ \A i \in DOMAIN NextRecords : NextRecords[i].key # k
         /\ NextMem[k] = memtable[k]
      \/ \E i \in DOMAIN NextRecords :
           /\ NextRecords[i].key = k /\ NextMem[k] = EntryOf(NextRecords[i])
           /\ \A j \in DOMAIN NextRecords : NextRecords[j].key = k => j <= i
  BY <1>2, ReplayFacts DEF NextMem
<1>4. DOMAIN Places = Place /\ -1 \in Place
  BY PlaceFacts DEF Places
<1>5. /\ Replayed[-1] = Append(immutable_memtables, NextMem)
      /\ \A p \in Place : p # -1 => Replayed[p] = Places[p]
  BY <1>4 DEF Replayed
<1>6. Find(Replayed[-1], k) = IF Present(NextMem[k]) THEN NextMem[k]
                              ELSE Find(immutable_memtables, k)
  BY <1>2, <1>5, FindAppend
<1>7. Search(Places', k) = Search(Replayed, k)
  BY ReplayLookup
<1>8. CASE /\ \A i \in DOMAIN NextRecords : NextRecords[i].key # k
           /\ NextMem[k] = memtable[k]
  <2>1. Find(Places[-1], k) = IF Present(memtable[k]) THEN memtable[k]
                              ELSE Find(immutable_memtables, k)
    BY <1>2, PlaceFacts, FindAppend
  <2>2. \A p \in Place : Find(Replayed[p], k) = Find(Places[p], k)
    BY <1>5, <1>6, <1>8, <2>1
  <2>3. Search(Replayed, k) = Search(Places, k)
    BY <2>2, SearchSame
  <2>4. Reflects(Search(Places, k), Met, k)
    BY <1>1 DEF ReadsInv, Lookup
  <2>5. ASSUME NEW x \in met, x.key = k PROVE x \in Met
    <3>1. x \in Records(wal) /\ x.seq <= sequence_number' /\ Whole(x)
      BY <1>2, RecordIs
    <3>2. PICK f \in DOMAIN wal : \E i \in DOMAIN wal[f] : x = wal[f][i]
      BY <1>2, <3>1, RecordIs
    <3>3. PICK i \in DOMAIN wal[f] : x = wal[f][i]
      BY <3>2
    <3>4. f <= n
      BY <3>1, <3>3, ReplayMeets
    <3>5. f # n
      <4>1. ASSUME f = n PROVE FALSE
        <5>1. i \in DOMAIN NextRecords /\ NextRecords[i] = x
          BY <1>1, <3>1, <3>3, <4>1, NextRecordsWhole
        <5> QED BY <1>8, <2>5, <5>1
      <4> QED BY <4>1
    <3>6. f <= replayed
      BY <1>1, <1>2, <3>4, <3>5
    <3>7. x.seq <= sequence_number
      BY <1>1, <3>1, <3>3, <3>6 DEF LogInv
    <3> QED BY <3>1, <3>7 DEF Met
  <2>6. Met \subseteq met
    <3>1. ASSUME NEW x \in Met PROVE x.seq <= sequence_number'
      <4>1. x \in Records(wal) /\ x.seq <= sequence_number
        BY DEF Met
      <4>2. sequence_number \in Nat /\ x.seq \in Nat
        <5>1. sequence_number \in Nat \ {0}
          BY DEF DiskInv, TypeOK
        <5> QED BY <1>2, <4>1, <5>1, RecordIs
      <4>3. sequence_number' \in Nat /\ sequence_number' >= sequence_number
        BY <1>2, <4>2, ReplaySteps, MaxSeqFacts
      <4> QED BY <4>1, <4>2, <4>3
    <3> QED BY <3>1 DEF Met
  <2>7. \A x : Newest(met, k, x) => x \in Met /\ Newest(Met, k, x)
    BY <2>5, <2>6 DEF Newest
  <2> QED BY <1>7, <2>3, <2>4, <2>7 DEF Reflects
<1>9. CASE \E i \in DOMAIN NextRecords :
             /\ NextRecords[i].key = k /\ NextMem[k] = EntryOf(NextRecords[i])
             /\ \A j \in DOMAIN NextRecords : NextRecords[j].key = k => j <= i
  <2>1. PICK i \in DOMAIN NextRecords :
          /\ NextRecords[i].key = k /\ NextMem[k] = EntryOf(NextRecords[i])
          /\ \A j \in DOMAIN NextRecords : NextRecords[j].key = k => j <= i
    BY <1>9
  <2> DEFINE rec == NextRecords[i]
  <2>2. i \in DOMAIN wal[n] /\ rec = wal[n][i] /\ Whole(rec) /\ rec \in Records(wal)
    BY <1>1, NextRecordsWhole
  <2>3. rec \in met
    <3>1. rec.seq <= sequence_number'
      <4>1. n <= n
        BY <1>1
      <4> QED BY <1>2, <2>2, <4>1, ReplayMeets
    <3> QED BY <2>2, <3>1
  <2>4. ASSUME NEW x \in met, x.key = k PROVE x.seq <= rec.seq
    <3>1. x \in Records(wal) /\ x.seq <= sequence_number' /\ Whole(x) /\ x.seq \in Nat
      BY <1>2, RecordIs
    <3>2. PICK f \in DOMAIN wal : \E j \in DOMAIN wal[f] : x = wal[f][j]
      BY <1>2, <3>1, RecordIs
    <3>3. PICK j \in DOMAIN wal[f] : x = wal[f][j]
      BY <3>2
    <3>4. f <= n
      BY <3>1, <3>3, ReplayMeets
    <3>5. rec.seq \in Nat
      BY <1>2, <2>2, RecordIs
    <3>6. CASE f = n
      <4>1. j \in DOMAIN NextRecords /\ NextRecords[j] = x
        BY <1>1, <3>1, <3>3, <3>6, NextRecordsWhole
      <4>2. j <= i /\ i \in Nat /\ j \in Nat
        BY <1>2, <2>1, <2>4, <4>1, LenProperties
      <4>3. CASE j = i
        BY <3>1, <4>1, <4>3
      <4>4. CASE j < i
        <5>1. x.seq < rec.seq
          BY <1>2, <2>2, <3>1, <3>3, <3>6, <4>4 DEF LogInv, Ordered
        <5> QED BY <3>1, <3>5, <5>1
      <4> QED BY <4>2, <4>3, <4>4
    <3>7. CASE f < n
      <4>1. x.seq < rec.seq
        BY <1>2, <2>2, <3>1, <3>3, <3>7 DEF LogInv, Ordered
      <4> QED BY <3>1, <3>5, <4>1
    <3> QED BY <1>1, <1>2, <3>4, <3>6, <3>7
  <2> HIDE DEF rec
  <2>5. Newest(met, k, rec)
    BY <2>1, <2>3, <2>4 DEF Newest, rec
  <2>6. Present(NextMem[k]) /\ NextMem[k] = EntryOf(rec)
    <3>1. rec \in WALRecord
      BY <1>2, <2>2, RecordIs
    <3> QED BY <2>1, <2>2, <3>1, WholeEntry DEF rec
  <2>7. Search(Replayed, k) = EntryOf(rec)
    <3>1. Find(Replayed[-1], k) = NextMem[k]
      BY <1>6, <2>6
    <3>2. Search(Replayed, k) = Find(Replayed[-1], k)
      BY <2>6, <3>1, PlaceFacts, SearchAt
    <3> QED BY <2>6, <3>1, <3>2
  <2>8. \A x : Newest(met, k, x) => x = rec
    <3>1. met \in SUBSET Records(wal) /\ Ordered(wal)
      BY DEF LogInv
    <3> QED BY <1>2, <2>5, <3>1, NewestUnique
  <2> QED BY <1>7, <2>7, <2>8 DEF Reflects
<1> QED BY <1>3, <1>8, <1>9

LEMMA ReplayWALLive ==
  ASSUME DiskInv, DiskInv', LiveInv, ReplayWAL
  PROVE  LiveInv'
<1>1. /\ pc = "replay" /\ replayed < Len(wal) /\ replayed' = replayed + 1
      /\ UNCHANGED <<wal, immutable_memtables, pc, logged, unflushed, allowed>>
  BY ReplaySteps DEF logs, history
<1>2. /\ wal \in Seq(Seq(WALRecord)) /\ Ordered(wal) /\ ~logged
  BY <1>1, DiskFacts DEF LiveInv, LogInv, DiskInv, ControlInv
<1>3. Applied' = Applied /\ Applied = Records(wal)
  BY <1>1, <1>2 DEF Applied, Records, Whole, Last
<1>4. LogInv'
  <2>1. Ordered(wal)'
    BY <1>1, <1>2 DEF Ordered, Whole
  <2>2. \A f \in DOMAIN wal : \A i \in DOMAIN wal[f] :
          Whole(wal[f][i]) => (f <= replayed' <=> wal[f][i].seq <= sequence_number')
    BY <1>1, ReplayMeets DEF LiveInv
  <2>3. \A f \in DOMAIN wal' : \A i \in DOMAIN wal'[f] :
          Whole(wal'[f][i]) => (f <= replayed' <=> wal'[f][i].seq <= sequence_number')
    BY <1>1, <2>2
  <2>4. pc' # "open" /\ pc' # "down"
    BY <1>1
  <2> QED BY <2>1, <2>3, <2>4 DEF LogInv, Whole
<1>5. AllowedInv'
  BY <1>1, <1>3, AllowedSame DEF LiveInv
<1>6. ReadsInv'
  <2>1. Met' = {rec \in Records(wal) : rec.seq <= sequence_number'}
    BY <1>1 DEF Met, Records, Whole
  <2>2. \A k \in Key : Reflects(Search(Places', k), Met', k)
    BY <2>1, ReplayReads DEF LiveInv
  <2>3. \A k \in Key : Lookup(k)' = Search(Places', k)
    BY DEF Lookup, Search
  <2>4. \A k \in Key : Reflects(Lookup(k), Met, k)' <=> Reflects(Lookup(k)', Met', k)
    BY DEF Reflects, Newest
  <2>5. pc' # "open"
    BY <1>1
  <2> QED BY <2>2, <2>3, <2>4, <2>5 DEF ReadsInv
<1>7. StoredInv'
  <2>1. ASSUME NEW k \in Key
        PROVE  NextMem[k] \in Held(k) \/ OfLog(NextMem[k], k, Applied')
    <3>1. \/ NextMem[k] = memtable[k]
          \/ \E i \in DOMAIN NextRecords :
               NextRecords[i].key = k /\ NextMem[k] = EntryOf(NextRecords[i])
      BY <1>1, DiskFacts, NextFacts, ReplayFacts DEF NextMem
    <3>2. \A i \in DOMAIN NextRecords : NextRecords[i] \in Applied'
      BY <1>1, <1>3, NextRecordsWhole DEF LiveInv
    <3> QED BY <3>1, <3>2 DEF Held, OfLog
  <2>2. ASSUME NEW k \in Key, NEW e \in Held(k)'
        PROVE  e \in Held(k) \/ e = NextMem[k] \/ e = Absent
    <3>1. CASE e = memtable'[k]
      BY <3>1, ReplaySteps, EntryFacts
    <3>2. CASE \E i \in DOMAIN immutable_memtables' : e = immutable_memtables'[i][k]
      BY <1>1, <3>2 DEF Held
    <3>3. CASE \E id \in DOMAIN sst' : e = sst'[id][k]
      <4>1. CASE sst' = sst
        BY <3>3, <4>1 DEF Held
      <4>2. CASE sst' = WithFile(next_sstable_id, NextMem)
        BY <3>3, <4>2 DEF Held, WithFile
      <4> QED BY <4>1, <4>2, ReplaySteps
    <3> QED BY <2>2, <3>1, <3>2, <3>3 DEF Held
  <2>3. \A k \in Key : OfLog(Absent, k, Applied')
    BY DEF OfLog
  <2> QED BY <1>3, <2>1, <2>2, <2>3, StoredStep DEF LiveInv
<1> QED BY <1>4, <1>5, <1>6, <1>7 DEF LiveInv

-----------------------------------------------------------------------------
(* The inductive invariant, and what is read after crashes. *)

LEMMA InitLive == Init => LiveInv
<1> SUFFICES ASSUME Init PROVE LiveInv
  OBVIOUS
<1>1. /\ wal = << << >> >> /\ memtable = EmptyTable /\ immutable_memtables = << >>
      /\ sst = NoFiles /\ sequence_number = 2 /\ pc = "open" /\ ~logged
      /\ allowed = [k \in Key |-> {0}]
  BY DEF Init
<1>2. DOMAIN wal = {1} /\ wal[1] = << >> /\ Len(wal) = 1
  BY <1>1
<1>3. DOMAIN wal[1] = {} /\ Range(wal[1]) = {} /\ Last(wal) = << >>
  BY <1>2, RangeEmpty DEF Last
<1>4. Records(wal) = {}
  BY <1>2, <1>3 DEF Records
<1>5. Applied = {}
  BY <1>1, <1>4 DEF Applied
<1>6. LogInv
  <2>1. Ordered(wal)
    BY <1>2, <1>3 DEF Ordered
  <2> QED BY <1>1, <1>3, <1>4, <2>1 DEF LogInv
<1>7. StoredInv
  <2>1. DOMAIN sst = {} /\ DOMAIN immutable_memtables = {}
    BY <1>1 DEF NoFiles
  <2>2. \A k \in Key : memtable[k] = Absent
    BY <1>1, EntryFacts
  <2> QED BY <2>1, <2>2 DEF StoredInv, InLog
<1>8. ReadsInv
  BY <1>1, <1>5 DEF ReadsInv, Reflects
<1>9. AllowedInv
  BY <1>1, <1>5 DEF AllowedInv
<1> QED BY <1>6, <1>7, <1>8, <1>9 DEF LiveInv

\* The logs only grow, and a record that hides others hides them for good.
LEMMA StepIntact ==
  ASSUME ~PowerLoss, DiskInv, [Next]_vars, Intact(wal')
  PROVE  Intact(wal)
<1>1. wal \in Seq(Seq(WALRecord)) /\ Len(wal) >= 1
  BY DiskFacts
<1>2. CASE wal' = wal
  BY <1>2
<1>3. CASE wal' = Append(wal, << >>)
  BY <1>1, <1>3, IntactNewFile
<1>4. ASSUME NEW r \in WALRecord, wal' = [wal EXCEPT ![Len(wal)] = Append(@, r)]
      PROVE  Intact(wal)
  <2>1. Intact([wal EXCEPT ![Len(wal)] = Append(@, r)])
    BY <1>4
  <2> QED BY <1>1, <2>1, IntactAppend
<1>5. ASSUME NEW k \in Key, NEW type \in ValueType, WriteLog(k, type)
      PROVE  Intact(wal)
  <2> DEFINE r == [key |-> k, seq |-> sequence_number, type |-> type, val |-> writes + 1]
  <2>1. wal' = [wal EXCEPT ![Len(wal)] = Append(@, r)] /\ writes < MaxWrites
    BY <1>5 DEF WriteLog
  <2>2. r \in WALRecord
    BY <2>1, BoundsAssumption DEF WALRecord, DiskInv, TypeOK
  <2> HIDE DEF r
  <2> QED BY <1>4, <2>1, <2>2
<1>6. CASE WriteLogFails
  BY <1>2, <1>4, <1>6, TornFacts DEF WriteLogFails, TornTail
<1>7. ASSUME NEW sync, WriteEnd(sync) PROVE Intact(wal)
  BY <1>2, <1>3, <1>7, WriteEndSteps
<1>8. CASE Crash
  BY <1>2, <1>8, CrashLog
<1>9. CASE Background
  <2>1. wal' = wal
    BY <1>9 DEF Background, Flush, FlushFails, CompactLevel, OpenManifest, SaveManifest,
                SaveManifestFails, DeleteInputs, disk, logs
  <2> QED BY <1>2, <2>1
<1>10. CASE Close \/ Closed
  <2>1. wal' = wal
    BY <1>10 DEF Close, Closed, disk, logs
  <2> QED BY <1>2, <2>1
<1>11. CASE Open
  <2>1. wal' = wal \/ wal' = Append(wal, << >>)
    BY <1>11 DEF Open, LoadManifest, ReplayWAL, OpenDone, disk, logs
  <2> QED BY <1>2, <1>3, <2>1
<1>12. CASE UNCHANGED vars
  BY <1>2, <1>12 DEF vars, disk, logs
<1> QED BY <1>5, <1>6, <1>7, <1>8, <1>9, <1>10, <1>11, <1>12 DEF Next, Write, GoDown

LEMMA StepLive ==
  ASSUME ~PowerLoss, DiskInv, DiskInv', LiveInv, Intact(wal'), [Next]_vars
  PROVE  LiveInv'
<1>1. CASE UNCHANGED vars
  <2>1. UNCHANGED <<wal, sst, memtable, immutable_memtables, levels, sequence_number, pc,
                    replayed, logged, unflushed, allowed>>
    BY <1>1 DEF vars, disk, logs, memory, history
  <2>2. LogInv' /\ Applied' = Applied
    BY <2>1, LogSame DEF LiveInv
  <2>3. AllowedInv'
    BY <2>1, <2>2, AllowedSame DEF LiveInv
  <2>4. \A k \in Key : Held(k)' = Held(k)
    BY <2>1 DEF Held
  <2>5. StoredInv'
    BY <2>2, <2>4, StoredStep DEF LiveInv
  <2>6. Met' = Met
    BY <2>1 DEF Met, Records, Whole
  <2>7. \A k \in Key : Lookup(k)' = Lookup(k)
    BY <2>1, LookupSame
  <2>8. ReadsInv'
    <3>1. \A k \in Key :
            /\ Reflects(Lookup(k), Applied, k)' <=> Reflects(Lookup(k)', Applied', k)
            /\ Reflects(Lookup(k), Met, k)' <=> Reflects(Lookup(k)', Met', k)
      BY DEF Reflects, Newest
    <3> QED BY <2>1, <2>2, <2>6, <2>7, <3>1 DEF LiveInv, ReadsInv
  <2> QED BY <2>2, <2>3, <2>5, <2>8 DEF LiveInv
<1>2. CASE Write
  BY <1>2, WriteLogLive, WriteLogFailsLive, WriteEndLive DEF Write
<1>3. CASE Background
  BY <1>3, FlushLive, FlushFailsLive, CompactLevelLive, SaveManifestLive,
     DeleteInputsLive DEF Background
<1>4. CASE GoDown
  BY <1>4, CrashLive, CloseLive, ClosedLive DEF GoDown
<1>5. CASE Open
  BY <1>5, LoadManifestLive, ReplayWALLive, OpenDoneLive DEF Open
<1> QED BY <1>1, <1>2, <1>3, <1>4, <1>5 DEF Next

\* Logs, tables, manifest and memory fit together through writes and writes that
\* fail, flushes, compactions, shutdowns, crashes and replays of any number, while no
\* two SaveManifests overlap (db_impl.cpp:35-216, 227-258, 320-361, 373-674, wal.cpp);
\* that the logs have all that tables and memory have, while power is not lost and
\* no record is behind part of one.
THEOREM RecoveryInvariant == SerialSpec => []IndInv
<1>1. IndInv <=> DiskInv /\ OneSaver /\ (~PowerLoss /\ Intact(wal) => LiveInv)
  BY DEF IndInv, DiskInv, LiveInv
<1>2. Init => IndInv
  BY <1>1, InitDisk, InitSaver, InitLive
<1>3. ASSUME IndInv, [SerialNext]_vars PROVE IndInv'
  <2>1. IndInv' <=> DiskInv' /\ OneSaver' /\ (~PowerLoss /\ Intact(wal') => LiveInv')
    BY DEF IndInv, DiskInv, LiveInv, Intact
  <2>2. [Next]_vars
    BY <1>3 DEF SerialNext
  <2>3. DiskInv' /\ OneSaver'
    BY <1>1, <1>3, <2>2, StepDisk, StepSaver
  <2>4. ASSUME ~PowerLoss, Intact(wal') PROVE LiveInv'
    <3>1. LiveInv
      BY <1>1, <1>3, <2>2, <2>4, StepIntact
    <3> QED BY <1>1, <1>3, <2>2, <2>3, <2>4, <3>1, StepLive
  <2> QED BY <2>1, <2>3, <2>4
<1>4. IndInv /\ [SerialNext]_vars => IndInv'
  BY <1>3
<1> QED BY <1>2, <1>4, PTL DEF SerialSpec

\* A Get after any number of crashes of the process returns the last write that was
\* acknowledged, or a later one that was cut short (db_impl.cpp:60-130).
THEOREM AcknowledgedIsRead ==
  ASSUME ~PowerLoss
  PROVE  SerialSpec => []RecoveredReads
<1>1. ASSUME IndInv PROVE RecoveredReads
  <2> SUFFICES ASSUME pc = "open", ~logged, ~unflushed, Intact(wal), NEW k \in Key
               PROVE  Visible(Lookup(k)) \in allowed[k]
    BY DEF RecoveredReads
  <2>1. DiskInv /\ LogInv /\ StoredInv /\ ReadsInv /\ AllowedInv
    BY <1>1 DEF IndInv, DiskInv
  <2>2. wal \in Seq(Seq(WALRecord)) /\ Applied \in SUBSET Records(wal)
    BY <2>1, AppliedFacts
  <2>3. Visible(Absent) = 0
    BY DEF Visible, Absent
  <2>4. CASE \E s \in Applied : s.key = k
    <3>1. sequence_number \in Nat
      BY <2>1 DEF DiskInv, TypeOK
    <3>2. \A r \in Applied : r.seq <= sequence_number
      <4>1. \A r \in Applied : r.seq < sequence_number /\ r.seq \in Nat
        BY <2>1, <2>2, RecordIs DEF LogInv
      <4> QED BY <3>1, <4>1
    <3>3. PICK rec \in Applied : Newest(Applied, k, rec)
      BY <2>2, <2>4, <3>1, <3>2, NewestExists
    <3>4. Visible(EntryOf(rec)) \in allowed[k]
      BY <2>1, <3>3 DEF AllowedInv
    <3>5. Lookup(k) = EntryOf(rec) \/ (rec.type = "kDeletion" /\ Lookup(k) = Absent)
      BY <2>1, <3>3 DEF ReadsInv, Reflects
    <3>6. rec.type = "kDeletion" => Visible(EntryOf(rec)) = 0
      BY DEF Visible, EntryOf
    <3> QED BY <2>3, <3>4, <3>5, <3>6
  <2>5. CASE \A s \in Applied : s.key # k
    <3>1. 0 \in allowed[k]
      BY <2>1, <2>5 DEF AllowedInv
    <3>2. \A e \in Held(k) : e = Absent
      BY <2>1, <2>5, StoredHeld DEF OfLog
    <3>3. Lookup(k) = Absent
      <4>1. ASSUME NEW p \in Place PROVE Find(Places[p], k) = Absent
        <5>1. CASE p = -1
          <6>1. memtable \in Table /\ immutable_memtables \in Seq(Table)
            BY <2>1, DiskFacts
          <6>2. memtable[k] = Absent
            BY <3>2 DEF Held
          <6>3. \A i \in DOMAIN immutable_memtables : immutable_memtables[i][k] = Absent
            BY <3>2 DEF Held
          <6>4. Find(immutable_memtables, k) = Absent
            BY <6>3, FindNone, EntryFacts
          <6>5. Find(Append(immutable_memtables, memtable), k) = Absent
            BY <6>1, <6>2, <6>4, FindAppend, EntryFacts
          <6> QED BY <5>1, <6>5, PlaceFacts
        <5>2. CASE p # -1
          <6>1. p \in Level /\ Places[p] = Tables(p)
            BY <5>2, PlaceFacts
          <6>2. \A i \in DOMAIN Tables(p) : \E id \in DOMAIN sst : Tables(p)[i] = sst[id]
            BY <2>1, <6>1, TablesType
          <6>3. \A i \in DOMAIN Tables(p) : Tables(p)[i][k] = Absent
            BY <3>2, <6>2 DEF Held
          <6> QED BY <6>1, <6>3, FindNone, EntryFacts
        <5> QED BY <5>1, <5>2
      <4> QED BY <4>1, SearchNone, EntryFacts DEF Lookup
    <3> QED BY <2>3, <3>1, <3>3
  <2> QED BY <2>4, <2>5
<1> QED BY <1>1, RecoveryInvariant, PTL

\* No table has a sequence number that a later write will get, so that compaction
\* never prefers an older version (memtable.h:38, db_impl.cpp:104-132).
THEOREM SequenceIsFresh ==
  ASSUME ~PowerLoss
  PROVE  SerialSpec => []SequenceFresh
<1>1. ASSUME IndInv PROVE SequenceFresh
  <2> SUFFICES ASSUME pc = "open", Intact(wal),
                      NEW l \in Level, NEW k \in Key, NEW i \in DOMAIN levels[l]
               PROVE  Tables(l)[i][k].seq < sequence_number
    BY DEF SequenceFresh
  <2>1. DiskInv /\ LogInv /\ StoredInv
    BY <1>1 DEF IndInv, DiskInv
  <2>2. levels[l][i] \in DOMAIN sst /\ Tables(l)[i] = sst[levels[l][i]]
    BY <2>1, TablesType
  <2>3. Tables(l)[i][k] \in Held(k)
    BY <2>2 DEF Held
  <2>4. OfLog(Tables(l)[i][k], k, Applied)
    BY <2>1, <2>3, StoredHeld
  <2>5. sequence_number >= 2 /\ sequence_number \in Nat
    BY <2>1 DEF LogInv, DiskInv, TypeOK
  <2>6. CASE Tables(l)[i][k] = Absent
    BY <2>5, <2>6, EntryFacts
  <2>7. CASE \E rec \in Applied : Tables(l)[i][k] = EntryOf(rec)
    <3>1. PICK rec \in Applied : Tables(l)[i][k] = EntryOf(rec)
      BY <2>7
    <3>2. rec \in Records(wal) /\ rec \in WALRecord
      BY <2>1, AppliedFacts, RecordIs
    <3>3. rec.seq < sequence_number
      BY <2>1, <3>2 DEF LogInv
    <3> QED BY <3>1, <3>2, <3>3, EntryFacts
  <2> QED BY <2>4, <2>6, <2>7 DEF OfLog
<1> QED BY <1>1, RecoveryInvariant, PTL
=============================================================================
