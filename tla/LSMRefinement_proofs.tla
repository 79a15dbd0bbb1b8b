----------------------- MODULE LSMRefinement_proofs -----------------------
(***************************************************************************)
(* Only writes change what a key reads as, and therefore LSMTree with one  *)
(* compactor at a time implements KVStore.                                 *)
(***************************************************************************)
EXTENDS LSMTree_proofs

-----------------------------------------------------------------------------
(* What a step does to what a key reads as. *)

\* MaybeScheduleFlush: moving the memtable to the back of the deque does not
\* change what the memtable search finds.
LEMMA RotationFinds ==
  ASSUME ControlInv, NEW k \in Key
  PROVE  SearchMem(EmptyTable, Append(immutable_memtables, memtable), k) = MemFind(k)
<1> DEFINE imm == immutable_memtables
           new == Append(imm, memtable)
           found == SearchMem(EmptyTable, new, k)
<1> SUFFICES found = MemFind(k)
  OBVIOUS
<1>1. memtable \in MemTable /\ imm \in Seq(MemTable) /\ EmptyTable \in MemTable
  BY EntryFacts DEF ControlInv, TypeOK
<1>2. /\ new \in Seq(MemTable)
      /\ DOMAIN new = 1 .. Len(imm) + 1 /\ DOMAIN imm = 1 .. Len(imm) /\ Len(imm) \in Nat
      /\ new[Len(imm) + 1] = memtable
      /\ \A i \in DOMAIN imm : new[i] = imm[i]
  BY <1>1
<1>3. ~Present(EmptyTable[k])
  BY EntryFacts DEF EmptyTable
<1> HIDE DEF new, found
<1>4. CASE Present(memtable[k])
  <2>1. \E i \in DOMAIN new : Present(new[i][k])
    BY <1>2, <1>4
  <2>2. PICK i \in DOMAIN new : /\ found = new[i][k]
                                /\ \A j \in DOMAIN new : Present(new[j][k]) => j <= i
    BY <1>1, <1>2, <1>3, <2>1, SearchMemFinds DEF found
  <2>3. i = Len(imm) + 1
    BY <1>2, <1>4, <2>2
  <2>4. MemFind(k) = memtable[k]
    BY <1>1, <1>4, SearchMemFinds DEF MemFind
  <2>5. found = memtable[k]
    BY <1>2, <2>2, <2>3
  <2> QED BY <2>4, <2>5
<1>5. CASE ~Present(memtable[k]) /\ \E i \in DOMAIN imm : Present(imm[i][k])
  <2>1. PICK i \in DOMAIN new : /\ Present(new[i][k]) /\ found = new[i][k]
                                /\ \A j \in DOMAIN new : Present(new[j][k]) => j <= i
    <3>1. \E i \in DOMAIN new : Present(new[i][k])
      BY <1>2, <1>5
    <3> QED BY <1>1, <1>2, <1>3, <3>1, SearchMemFinds DEF found
  <2>2. PICK j \in DOMAIN imm : /\ Present(imm[j][k]) /\ MemFind(k) = imm[j][k]
                                /\ \A h \in DOMAIN imm : Present(imm[h][k]) => h <= j
    BY <1>1, <1>5, SearchMemFinds DEF MemFind
  <2>3. i \in DOMAIN imm
    BY <1>2, <1>5, <2>1
  <2>4. i = j
    BY <1>2, <2>1, <2>2, <2>3
  <2>5. found = imm[j][k]
    BY <1>2, <2>1, <2>4
  <2> QED BY <2>2, <2>5
<1>6. CASE ~Present(memtable[k]) /\ \A i \in DOMAIN imm : ~Present(imm[i][k])
  <2>1. \A i \in DOMAIN new : ~Present(new[i][k])
    BY <1>2, <1>6
  <2>2. found = Absent
    BY <1>1, <1>2, <1>3, <2>1, SearchMemFinds DEF found
  <2>3. MemFind(k) = Absent
    BY <1>1, <1>6, SearchMemFinds DEF MemFind
  <2> QED BY <2>2, <2>3
<1> QED BY <1>4, <1>5, <1>6

\* pop_front: the popped memtable only answered for keys that the levels now
\* answer for in the same way.
LEMMA PopFinds ==
  ASSUME IndInv, FlushPop, NEW k \in Key
  PROVE  Visible(Lookup(k))' = Visible(Lookup(k))
<1> DEFINE imm == immutable_memtables
           new == Tail(imm)
           found == SearchMem(memtable, new, k)
<1>1. /\ memtable \in MemTable /\ imm \in Seq(MemTable) /\ imm # << >>
      /\ pc["bg"] = "pop"
  BY DEF FlushPop, IndInv, ControlInv, FlushOK, TypeOK
<1>2. /\ memtable' = memtable /\ immutable_memtables' = new /\ levels' = levels
  BY DEF FlushPop
<1>3. /\ new \in Seq(MemTable)
      /\ DOMAIN new = 1 .. Len(imm) - 1 /\ DOMAIN imm = 1 .. Len(imm) /\ Len(imm) \in Nat
      /\ 1 \in DOMAIN imm
      /\ \A i \in DOMAIN new : i + 1 \in DOMAIN imm /\ new[i] = imm[i + 1]
      /\ \A i \in DOMAIN imm : i # 1 => i - 1 \in DOMAIN new /\ imm[i] = new[i - 1]
  BY <1>1
<1>4. Lookup(k)' = IF Present(found) THEN found ELSE LevelFind(k)
  BY <1>2 DEF Lookup, MemFind, LevelFind
<1> HIDE DEF new
<1>5. CASE Present(memtable[k])
  <2>1. found = memtable[k] /\ MemFind(k) = memtable[k]
    BY <1>1, <1>3, <1>5, SearchMemFinds DEF MemFind
  <2> QED BY <1>4, <1>5, <2>1 DEF Lookup, Visible
<1>6. CASE ~Present(memtable[k]) /\ \E i \in DOMAIN new : Present(new[i][k])
  <2>1. PICK i \in DOMAIN new : /\ Present(new[i][k]) /\ found = new[i][k]
                                /\ \A j \in DOMAIN new : Present(new[j][k]) => j <= i
    BY <1>1, <1>3, <1>6, SearchMemFinds
  <2>2. \E j \in DOMAIN imm : Present(imm[j][k])
    BY <1>3, <2>1
  <2>3. PICK j \in DOMAIN imm : /\ Present(imm[j][k]) /\ MemFind(k) = imm[j][k]
                                /\ \A h \in DOMAIN imm : Present(imm[h][k]) => h <= j
    BY <1>1, <1>6, <2>2, SearchMemFinds DEF MemFind
  <2>4. j = i + 1
    <3>1. i + 1 <= j
      BY <1>3, <2>1, <2>3
    <3>2. j # 1 /\ j - 1 <= i
      BY <1>3, <2>1, <2>3, <3>1
    <3> QED BY <1>3, <3>1, <3>2
  <2>5. found = MemFind(k) /\ Present(found)
    BY <1>3, <2>1, <2>3, <2>4
  <2> QED BY <1>4, <2>5 DEF Lookup, Visible
<1>7. CASE /\ ~Present(memtable[k]) /\ \A i \in DOMAIN new : ~Present(new[i][k])
           /\ Present(imm[1][k])
  <2>1. ~Present(found)
    BY <1>1, <1>3, <1>7, SearchMemFinds, EntryFacts
  <2>2. PICK j \in DOMAIN imm : Present(imm[j][k]) /\ MemFind(k) = imm[j][k]
    <3>1. \E i \in DOMAIN imm : Present(imm[i][k])
      BY <1>3, <1>7
    <3> QED BY <1>1, <1>7, <3>1, SearchMemFinds DEF MemFind
  <2>3. j = 1
    BY <1>3, <1>7, <2>2
  <2>4. Visible(LevelFind(k)) = Visible(imm[1][k])
    BY <1>1, <1>7 DEF IndInv, MemInv, FlushedReadable
  <2>5. Lookup(k) = imm[1][k]
    BY <2>2, <2>3 DEF Lookup
  <2> QED BY <1>4, <2>1, <2>4, <2>5 DEF Visible
<1>8. CASE /\ ~Present(memtable[k]) /\ \A i \in DOMAIN new : ~Present(new[i][k])
           /\ ~Present(imm[1][k])
  <2>1. ~Present(found)
    BY <1>1, <1>3, <1>8, SearchMemFinds, EntryFacts
  <2>2. \A i \in DOMAIN imm : ~Present(imm[i][k])
    BY <1>3, <1>8
  <2>3. ~Present(MemFind(k))
    BY <1>1, <1>8, <2>2, SearchMemFinds, EntryFacts DEF MemFind
  <2> QED BY <1>4, <2>1, <2>3 DEF Lookup, Visible
<1> QED BY <1>5, <1>6, <1>7, <1>8

\* A step that leaves the memtables and the levels alone leaves reads alone.
LEMMA SameTables ==
  ASSUME UNCHANGED <<memtable, immutable_memtables, levels>>, NEW k \in Key
  PROVE  Visible(Lookup(k))' = Visible(Lookup(k))
BY DEF Lookup, MemFind, LevelFind, Visible

\* Every step but the write of an entry leaves what a key reads as unchanged.
LEMMA LookupStable ==
  ASSUME IndInv, [SerialNext]_vars, ~WriteEntry, NEW k \in Key
  PROVE  Visible(Lookup(k))' = Visible(Lookup(k))
<1>1. ControlInv
  BY DEF IndInv
<1>2. CASE \/ UNCHANGED vars \/ WriteBegin \/ WriteError
           \/ Get
  BY <1>2, SameTables DEF vars, memVars, WriteBegin, WriteError, Get, GetMem, GetSST
<1>3. CASE WriteEnd
  <2>1. CASE UNCHANGED memVars
    BY <1>3, <2>1, SameTables DEF WriteEnd, memVars
  <2>2. CASE /\ immutable_memtables' = Append(immutable_memtables, memtable)
             /\ memtable' = EmptyTable
    <3>1. MemFind(k)' = MemFind(k)
      BY <1>1, <2>2, RotationFinds DEF MemFind
    <3>2. LevelFind(k)' = LevelFind(k)
      BY <1>3 DEF WriteEnd, LevelFind
    <3> QED BY <3>1, <3>2 DEF Lookup, Visible
  <2> QED BY <1>3, <2>1, <2>2 DEF WriteEnd
<1>4. CASE Background /\ ~FlushPop
  <2>1. UNCHANGED memVars
    BY <1>4 DEF Background, Flush, Compact, FlushPick, FlushAlloc, FlushInstall,
                CompactRange, CheckLevel, CompactPick, CompactOverlap, CompactDrop,
                CompactAdd, CompactInstall, CompactError, memVars
  <2>2. MemFind(k)' = MemFind(k)
    BY <2>1 DEF memVars, MemFind
  <2>3. CASE Present(MemFind(k))
    BY <2>2, <2>3 DEF Lookup, Visible
  <2>4. CASE ~Present(MemFind(k))
    <3>1. ~(FlushInstall /\ Present(immutable_memtables[1][k]))
      <4>1. SUFFICES ASSUME FlushInstall, Present(immutable_memtables[1][k]) PROVE FALSE
        OBVIOUS
      <4>2. /\ memtable \in MemTable /\ immutable_memtables \in Seq(MemTable)
            /\ 1 \in DOMAIN immutable_memtables
        BY <1>1, <4>1 DEF FlushInstall, ControlInv, FlushOK, TypeOK
      <4> QED BY <2>4, <4>1, <4>2, SearchMemFinds DEF MemFind
    <3>2. Visible(LevelFind(k))' = Visible(LevelFind(k))
      BY <3>1, LevelFindChange
    <3> QED BY <2>2, <2>4, <3>2 DEF Lookup, Visible
  <2> QED BY <2>3, <2>4
<1>5. CASE FlushPop
  BY <1>5, PopFinds
<1> QED BY <1>2, <1>3, <1>4, <1>5 DEF SerialNext, Next, Write, Background

\* The write of an entry makes its key read as the new version, and leaves the
\* other keys alone.
LEMMA WriteEntryFinds ==
  ASSUME IndInv, WriteEntry
  PROVE  LET op == Head(batch)
         IN  /\ op \in Op
             /\ \A k \in Key : Visible(Lookup(k))' =
                  IF k # op.key THEN Visible(Lookup(k))
                  ELSE IF op.type = "kValue" THEN sequence_number ELSE 0
<1> DEFINE op == Head(batch)
           e == [seq |-> sequence_number, type |-> op.type]
<1>1. /\ op \in Op /\ op.key \in Key
      /\ memtable \in MemTable /\ immutable_memtables \in Seq(MemTable)
      /\ sequence_number \in Nat \ {0}
  <2>1. batch \in Seq(Op) /\ batch # << >>
    BY DEF IndInv, ControlInv, TypeOK, WriteEntry
  <2>2. op \in Op
    BY <2>1
  <2> QED BY <2>2 DEF IndInv, ControlInv, TypeOK, Op
<1>2. /\ memtable' = [memtable EXCEPT ![op.key] = e]
      /\ immutable_memtables' = immutable_memtables /\ levels' = levels
  BY DEF WriteEntry
<1>3. e \in Entry /\ Present(e)
  BY <1>1 DEF Entry, Op, Present
<1>4. /\ memtable' \in MemTable /\ memtable'[op.key] = e
      /\ \A k \in Key \ {op.key} : memtable'[k] = memtable[k]
  BY <1>1, <1>2, <1>3 DEF MemTable
<1>5. ASSUME NEW k \in Key, k = op.key PROVE Lookup(k)' = e
  <2>1. immutable_memtables' \in Seq(MemTable) /\ Present(memtable'[k])
    BY <1>1, <1>2, <1>3, <1>4, <1>5
  <2>2. SearchMem(memtable', immutable_memtables', k) = memtable'[k]
    BY <1>4, <2>1, SearchMemFinds
  <2> QED BY <1>3, <1>4, <1>5, <2>2 DEF Lookup, MemFind
<1>6. \A k \in Key \ {op.key} : Lookup(k)' = Lookup(k)
  BY <1>2, <1>4 DEF Lookup, MemFind, LevelFind, SearchMem
<1> QED BY <1>1, <1>5, <1>6 DEF Visible

\* StableReads holds of every step: rotation, flush, pop_front and compaction
\* leave what every key reads as alone.
THEOREM ReadsAreStable == SerialSpec => StableReads
<1> DEFINE Stable == \A k \in Key : Visible(Lookup(k))' # Visible(Lookup(k))
                                     => sequence_number' = sequence_number + 1
<1>1. IndInv /\ [SerialNext]_vars => [Stable]_vars
  <2> SUFFICES ASSUME IndInv, [SerialNext]_vars PROVE Stable
    OBVIOUS
  <2>1. CASE WriteEntry
    BY <2>1 DEF WriteEntry
  <2>2. CASE ~WriteEntry
    BY <2>2, LookupStable
  <2> QED BY <2>1, <2>2
<1> QED BY <1>1, Invariance, PTL DEF SerialSpec, StableReads

-----------------------------------------------------------------------------
(* The refinement mapping. *)

\* The variables of KVStore as the mapping defines them.
StoreBar   == [k \in Key |-> Visible(Lookup(k))]
PendingBar == [r \in Reader |-> rpc[r] = "sst"]
GotBar     == [r \in Reader |-> Visible(rres[r])]
ReadsBar   == <<PendingBar, rkey, seen, GotBar>>

\* A step that changes no read leaves the mapped store as it is.
LEMMA StoreStable ==
  ASSUME IndInv, [SerialNext]_vars, ~WriteEntry
  PROVE  StoreBar' = StoreBar
BY LookupStable DEF StoreBar

\* An unchanged reader state maps to an unchanged reader state.
LEMMA ReadsFrame ==
  ASSUME UNCHANGED <<rpc, rkey, rres, seen>>
  PROVE  ReadsBar' = ReadsBar
BY DEF ReadsBar, PendingBar, GotBar, Visible

\* A new database maps to an empty store.
LEMMA InitRefines == Init => KV!Init
<1> SUFFICES ASSUME Init PROVE KV!Init
  OBVIOUS
<1>1. ControlInv
  BY InitControl
<1>2. ASSUME NEW k \in Key PROVE Visible(Lookup(k)) = 0
  <2>1. memtable[k] = Absent /\ DOMAIN immutable_memtables = {}
    BY DEF Init, EmptyTable
  <2>2. \A l \in Level : levels[l] = {}
    BY DEF Init
  <2>3. MemFind(k) = Absent
    BY <1>1, <2>1, SearchMemFinds, EntryFacts DEF MemFind, ControlInv, TypeOK
  <2>4. LevelFind(k) = Absent
    BY <1>1, <2>2, SearchLevelsNothing DEF LevelFind, ControlInv, TypeOK, IdsBelowNext
  <2> QED BY <2>3, <2>4, EntryFacts DEF Lookup
<1> QED BY <1>2, EntryFacts DEF Init, KV!Init

\* Applying an entry is a Put or a Delete of the abstract store.
LEMMA WriteEntryRefines ==
  ASSUME IndInv, WriteEntry
  PROVE  \E k \in Key : KV!Put(k) \/ KV!Delete(k)
<1> DEFINE op == Head(batch)
<1>1. /\ op.key \in Key /\ op.type \in ValueType
      /\ \A k \in Key : Visible(Lookup(k))' =
           IF k # op.key THEN Visible(Lookup(k))
           ELSE IF op.type = "kValue" THEN sequence_number ELSE 0
  BY WriteEntryFinds DEF Op
<1>2. /\ writing /\ writing' = writing
      /\ sequence_number' = sequence_number + 1
      /\ UNCHANGED <<rpc, rkey, rres, seen>>
  BY DEF WriteEntry, readVars
<1>3. ReadsBar' = ReadsBar
  BY <1>2, ReadsFrame
<1>4. PICK key \in Key, type \in ValueType : key = op.key /\ type = op.type
  BY <1>1
<1>5. StoreBar' = [StoreBar EXCEPT ![key] = IF type = "kValue" THEN sequence_number ELSE 0]
  BY <1>1, <1>4 DEF StoreBar
<1>6. CASE type = "kValue"
  <2>1. KV!Put(key)
    BY <1>2, <1>3, <1>5, <1>6 DEF KV!Put, KV!reads, StoreBar, ReadsBar, PendingBar, GotBar
  <2> QED BY <2>1
<1>7. CASE type = "kDeletion"
  <2>1. KV!Delete(key)
    BY <1>2, <1>3, <1>5, <1>7 DEF KV!Delete, KV!reads, StoreBar, ReadsBar, PendingBar, GotBar
  <2> QED BY <2>1
<1> QED BY <1>6, <1>7 DEF ValueType

\* Releasing memtable_mutex_ closes the batch of the abstract store.
LEMMA PublishRefines ==
  ASSUME IndInv, SerialNext, WriteError \/ WriteEnd
  PROVE  KV!CloseBatch
<1>1. /\ writing /\ writing' = FALSE
      /\ sequence_number' \in {sequence_number, sequence_number + 1}
      /\ UNCHANGED <<rpc, rkey, rres>>
      /\ seen' = [r \in Reader |-> IF rpc[r] = "sst"
                                     THEN seen[r] \cup {Visible(Lookup(rkey[r]))}
                                     ELSE seen[r]]
  BY DEF WriteError, WriteEnd, Publish
<1>2. ~WriteEntry
  BY <1>1 DEF WriteEntry
<1>3. StoreBar' = StoreBar
  BY <1>2, StoreStable
<1>4. PendingBar' = PendingBar /\ GotBar' = GotBar
  BY <1>1 DEF PendingBar, GotBar, Visible
<1>5. \A r \in Reader : StoreBar[rkey[r]] = Visible(Lookup(rkey[r]))
  BY DEF StoreBar, IndInv, ControlInv, TypeOK
<1>6. seen' = [r \in Reader |-> IF PendingBar[r]
                                  THEN seen[r] \cup {StoreBar[rkey[r]]}
                                  ELSE seen[r]]
  BY <1>1, <1>5 DEF PendingBar
<1> QED BY <1>1, <1>3, <1>4, <1>6 DEF KV!CloseBatch, StoreBar, PendingBar, GotBar

\* The first section of Get is a whole Get, or the beginning of one.
LEMMA GetMemRefines ==
  ASSUME IndInv, NEW q \in Reader, NEW k \in Key, SerialNext, GetMem(q, k)
  PROVE  KV!GetNow(q, k) \/ KV!GetBegin(q, k)
<1>1. /\ ~writing /\ rpc[q] = "idle"
      /\ UNCHANGED <<memtable, immutable_memtables, levels, writing, sequence_number>>
      /\ rkey' = [rkey EXCEPT ![q] = k]
      /\ seen' = [seen EXCEPT ![q] = {Visible(Lookup(k))}]
  BY DEF GetMem, memVars, writeVars
<1>2. StoreBar' = StoreBar
  BY <1>1, SameTables DEF StoreBar
<1>3. StoreBar[k] = Visible(Lookup(k)) /\ ~PendingBar[q]
  BY <1>1 DEF StoreBar, PendingBar
<1>4. rpc \in [Reader -> {"idle", "sst"}] /\ rres \in [Reader -> Entry]
  BY DEF IndInv, ControlInv, TypeOK
<1>5. CASE /\ Present(MemFind(k))
           /\ rres' = [rres EXCEPT ![q] = MemFind(k)]
           /\ rpc' = rpc
  <2>1. GotBar' = [GotBar EXCEPT ![q] = StoreBar[k]]
    <3>1. rres'[q] = Lookup(k) /\ \A r \in Reader \ {q} : rres'[r] = rres[r]
      BY <1>4, <1>5 DEF Lookup
    <3>2. \A r \in Reader : Visible(rres'[r]) =
                              IF r = q THEN Visible(Lookup(k)) ELSE Visible(rres[r])
      BY <3>1
    <3>3. GotBar' = [r \in Reader |-> Visible(rres'[r])]
      BY DEF GotBar, Visible
    <3>4. GotBar' = [r \in Reader |-> IF r = q THEN StoreBar[k] ELSE Visible(rres[r])]
      BY <1>3, <3>2, <3>3
    <3> QED BY <3>4 DEF GotBar
  <2>2. PendingBar' = PendingBar
    BY <1>5 DEF PendingBar
  <2> QED BY <1>1, <1>2, <1>3, <2>1, <2>2
          DEF KV!GetNow, StoreBar, PendingBar, GotBar
<1>6. CASE /\ ~Present(MemFind(k))
           /\ rpc' = [rpc EXCEPT ![q] = "sst"]
           /\ rres' = rres
  <2>1. GotBar' = GotBar
    BY <1>6 DEF GotBar, Visible
  <2>2. PendingBar' = [PendingBar EXCEPT ![q] = TRUE]
    BY <1>4, <1>6 DEF PendingBar
  <2> QED BY <1>1, <1>2, <1>3, <2>1, <2>2
          DEF KV!GetBegin, StoreBar, PendingBar, GotBar
<1> QED BY <1>5, <1>6 DEF GetMem

\* The second section of Get ends it with a version the key had meanwhile.
LEMMA GetSSTRefines ==
  ASSUME IndInv, NEW q \in Reader, GetSST(q)
  PROVE  KV!GetEnd(q)
<1>1. /\ rpc[q] = "sst"
      /\ UNCHANGED <<memtable, immutable_memtables, levels, writing, sequence_number,
                     rkey, seen>>
      /\ rres' = [rres EXCEPT ![q] = LevelFind(rkey[q])]
      /\ rpc' = [rpc EXCEPT ![q] = "idle"]
  BY DEF GetSST, memVars, writeVars
<1>2. StoreBar' = StoreBar
  BY <1>1, SameTables DEF StoreBar
<1>3. rpc \in [Reader -> {"idle", "sst"}] /\ rres \in [Reader -> Entry]
  BY DEF IndInv, ControlInv, TypeOK
<1>4. PICK v \in seen[q] : v = Visible(LevelFind(rkey[q]))
  BY <1>1 DEF IndInv, ReadsInv, ReadersOK
<1>5. GotBar' = [GotBar EXCEPT ![q] = v]
  <2>1. rres'[q] = LevelFind(rkey[q]) /\ \A r \in Reader \ {q} : rres'[r] = rres[r]
    BY <1>1, <1>3
  <2>2. \A r \in Reader : Visible(rres'[r]) = IF r = q THEN v ELSE Visible(rres[r])
    BY <1>4, <2>1
  <2>3. GotBar' = [r \in Reader |-> Visible(rres'[r])]
    BY DEF GotBar, Visible
  <2>4. GotBar' = [r \in Reader |-> IF r = q THEN v ELSE Visible(rres[r])]
    BY <2>2, <2>3
  <2> QED BY <2>4 DEF GotBar
<1>6. PendingBar[q] /\ PendingBar' = [PendingBar EXCEPT ![q] = FALSE]
  BY <1>1, <1>3 DEF PendingBar
<1> QED BY <1>1, <1>2, <1>4, <1>5, <1>6 DEF KV!GetEnd, StoreBar, PendingBar, GotBar

\* Every step is a step of the abstract store, or leaves it as it is.
LEMMA NextRefines == IndInv /\ [SerialNext]_vars => [KV!Next]_KV!vars
<1> SUFFICES ASSUME IndInv, [SerialNext]_vars PROVE [KV!Next]_KV!vars
  OBVIOUS
<1>1. CASE UNCHANGED vars \/ Background
  <2>1. UNCHANGED <<rpc, rkey, rres, seen, writing, sequence_number>>
    BY <1>1, BackgroundFrame DEF vars, readVars, writeVars
  <2>2. ~WriteEntry
    <3>1. sequence_number \in Nat
      BY DEF IndInv, ControlInv, TypeOK
    <3> QED BY <2>1, <3>1 DEF WriteEntry
  <2>3. StoreBar' = StoreBar /\ ReadsBar' = ReadsBar
    BY <2>1, <2>2, StoreStable, ReadsFrame
  <2> QED BY <2>1, <2>3 DEF KV!vars, StoreBar, ReadsBar, PendingBar, GotBar
<1>2. CASE WriteBegin
  <2>1. /\ UNCHANGED <<rpc, rkey, rres, seen, sequence_number, memtable,
                       immutable_memtables, levels>>
        /\ ~writing /\ writing' = TRUE
    BY <1>2 DEF WriteBegin, readVars, memVars
  <2>2. StoreBar' = StoreBar /\ ReadsBar' = ReadsBar
    BY <2>1, SameTables, ReadsFrame DEF StoreBar
  <2>3. KV!OpenBatch
    BY <2>1, <2>2 DEF KV!OpenBatch, KV!reads, StoreBar, ReadsBar, PendingBar, GotBar
  <2> QED BY <2>3 DEF KV!Next
<1>3. CASE WriteEntry
  BY <1>3, WriteEntryRefines DEF KV!Next
<1>4. CASE SerialNext /\ (WriteError \/ WriteEnd)
  BY <1>4, PublishRefines DEF KV!Next
<1>5. CASE SerialNext /\ Get
  BY <1>5, GetMemRefines, GetSSTRefines DEF Get, KV!Next
<1> QED BY <1>1, <1>2, <1>3, <1>4, <1>5 DEF SerialNext, Next, Write, Background

\* ImplementsKVStore: every behaviour of the index with one compactor at a time
\* is a behaviour of KVStore, for all sets of keys and readers and all limits.
THEOREM Refinement == SerialSpec => ImplementsKVStore
<1>1. SerialSpec => KV!Init /\ [][KV!Next]_KV!vars
  BY InitRefines, NextRefines, Invariance, PTL DEF SerialSpec
<1> QED BY <1>1, PTL DEF ImplementsKVStore, KV!Spec
=============================================================================
