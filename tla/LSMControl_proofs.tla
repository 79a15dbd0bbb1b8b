------------------------- MODULE LSMControl_proofs -------------------------
(***************************************************************************)
(* Control and types: ControlInv is an invariant of LSMTree for all keys,  *)
(* readers, levels and limits, with any number of compactors at once.      *)
(***************************************************************************)
EXTENDS LSMSearch_proofs, SequenceTheorems

\* A new database satisfies the control invariant.
LEMMA InitControl == Init => ControlInv
<1> SUFFICES ASSUME Init PROVE ControlInv
  OBVIOUS
<1>1. TypeOK
  <2>1. NoWriter \in Table
    BY EntryFacts DEF NoWriter, Table
  <2>2. batch \in Seq(Op) /\ immutable_memtables \in Seq(MemTable)
    BY DEF Init
  <2>2b. writing \in BOOLEAN
    BY DEF Init
  <2>3. /\ memtable \in MemTable
        /\ levels \in [Level -> SUBSET Table]
        /\ next_sstable_id \in Nat \ {0}
        /\ sequence_number \in Nat \ {0}
    BY EntryFacts DEF Init
  <2>4. /\ pc \in [Thread -> {"idle", "alloc", "install", "pop", "check", "pick",
                              "overlap", "merge"}]
        /\ lvl \in [Thread -> Level]
    BY LevelFacts DEF Init
  <2>5. /\ inputs_lvl \in [Thread -> SUBSET Table]
        /\ inputs_next \in [Thread -> SUBSET Table]
        /\ todo \in [Thread -> SUBSET Key]
        /\ current_writer \in [Thread -> Table]
        /\ new_sstables \in [Thread -> SUBSET Table]
    BY <2>1 DEF Init
  <2>6. /\ rpc \in [Reader -> {"idle", "sst"}]
        /\ rkey \in [Reader -> Key]
        /\ rres \in [Reader -> Entry]
        /\ seen \in [Reader -> SUBSET Nat]
    BY EntryFacts DEF Init
  <2> QED BY <2>2, <2>2b, <2>3, <2>4, <2>5, <2>6 DEF TypeOK
<1>2. LvlOK /\ FlushOK /\ LocalsOK
  BY DEF Init, LvlOK, FlushOK, LocalsOK, Thread
<1>3. IdsBelowNext
  BY DEF Init, IdsBelowNext, NoWriter
<1> QED BY <1>1, <1>2, <1>3 DEF ControlInv

\* What the searches return has the type of an entry.
LEMMA FindTypes ==
  ControlInv => \A k \in Key : MemFind(k) \in Entry /\ LevelFind(k) \in Entry
                               /\ Lookup(k) \in Entry
<1> SUFFICES ASSUME ControlInv, NEW k \in Key
             PROVE  MemFind(k) \in Entry /\ LevelFind(k) \in Entry
  BY DEF Lookup
<1>1. MemFind(k) \in Entry
  BY SearchMemFinds DEF ControlInv, TypeOK, MemFind
<1>2. LevelFind(k) \in Entry
  BY SearchLevelsFinds DEF ControlInv, TypeOK, IdsBelowNext, LevelFind
<1> QED BY <1>1, <1>2

\* A level that CompactLevel runs on has a next one.
LEMMA NextLevel ==
  \A l \in Level : l \in Nat /\ (l < MaxLevels - 1 => l + 1 \in Level)
BY LevelsAssumption DEF Level

\* One turn of the merge that keeps the winner e of key k.
AddStep(c, k, e) ==
  /\ IsMinKey(c, k) /\ IsWinner(c, k, e)
  /\ todo' = [todo EXCEPT ![c] = @ \ {k}]
  /\ LET w == Add(current_writer[c], k, e)
     IN  \/ /\ new_sstables' = [new_sstables EXCEPT ![c] = @ \cup {w}]
            /\ current_writer' = [current_writer EXCEPT ![c] = NoWriter]
         \/ /\ current_writer' = [current_writer EXCEPT ![c] = w]
            /\ new_sstables' = new_sstables

\* Every step of every thread preserves the control invariant, however many
\* compactors there are.
LEMMA NextControl == ControlInv /\ [Next]_vars => ControlInv'
<1> SUFFICES ASSUME ControlInv, [Next]_vars PROVE ControlInv'
  OBVIOUS
<1> USE DEF ControlInv
<1>1. CASE UNCHANGED vars
  BY <1>1 DEF vars, memVars, writeVars, compVars, readVars, TypeOK, LvlOK,
              FlushOK, LocalsOK, IdsBelowNext
<1>2. CASE WriteBegin
  <2>1. TypeOK'
    <3>1. batch' \in Batch /\ writing' \in BOOLEAN
      BY <1>2 DEF WriteBegin
    <3>2. PICK n \in 0 .. MaxBatch : batch' \in [1 .. n -> Op]
      BY <3>1 DEF Batch
    <3>3. batch' \in Seq(Op)
      BY <3>2
    <3> QED BY <1>2, <3>1, <3>3 DEF WriteBegin, memVars, compVars, readVars, TypeOK
  <2>2. LvlOK' /\ FlushOK' /\ LocalsOK' /\ IdsBelowNext'
    BY <1>2 DEF WriteBegin, memVars, compVars, LvlOK, FlushOK, LocalsOK, IdsBelowNext
  <2> QED BY <2>1, <2>2
<1>3. CASE WriteEntry
  <2>1. TypeOK'
    <3>1. Head(batch) \in Op /\ batch' \in Seq(Op)
      BY <1>3 DEF WriteEntry, TypeOK
    <3>2. [seq |-> sequence_number, type |-> Head(batch).type] \in Entry
      BY <3>1 DEF TypeOK, Op, Entry
    <3>3. memtable' \in MemTable
      BY <1>3, <3>1, <3>2 DEF WriteEntry, TypeOK, MemTable
    <3>4. sequence_number' \in Nat \ {0}
      BY <1>3 DEF WriteEntry, TypeOK
    <3> QED BY <1>3, <3>1, <3>3, <3>4 DEF WriteEntry, compVars, readVars, TypeOK
  <2>2. LvlOK' /\ FlushOK' /\ LocalsOK' /\ IdsBelowNext'
    BY <1>3 DEF WriteEntry, memVars, compVars, LvlOK, FlushOK, LocalsOK, IdsBelowNext
  <2> QED BY <2>1, <2>2
<1>4. ASSUME Publish
      PROVE  /\ writing' \in BOOLEAN
             /\ batch' \in Seq(Op)
             /\ seen' \in [Reader -> SUBSET Nat]
             /\ rpc' = rpc /\ rkey' = rkey /\ rres' = rres
  <2>1. \A r \in Reader : Visible(Lookup(rkey[r])) \in Nat
    BY FindTypes, EntryFacts DEF TypeOK
  <2>2. batch' \in Seq(Op)
    BY <1>4 DEF Publish
  <2>2b. writing' \in BOOLEAN
    BY <1>4 DEF Publish
  <2>3. seen' \in [Reader -> SUBSET Nat]
    BY <1>4, <2>1 DEF Publish, TypeOK
  <2> QED BY <1>4, <2>2, <2>2b, <2>3 DEF Publish
<1>5. CASE WriteError
  <2>1. TypeOK'
    <3>1. sequence_number' \in Nat \ {0}
      BY <1>5 DEF WriteError, TypeOK
    <3> QED BY <1>4, <1>5, <3>1 DEF WriteError, memVars, compVars, TypeOK
  <2>2. LvlOK' /\ FlushOK' /\ LocalsOK' /\ IdsBelowNext'
    BY <1>5 DEF WriteError, memVars, compVars, LvlOK, FlushOK, LocalsOK, IdsBelowNext
  <2> QED BY <2>1, <2>2
<1>6. CASE WriteEnd
  <2>1. /\ memtable' \in MemTable
        /\ immutable_memtables' \in Seq(MemTable)
        /\ immutable_memtables # << >> => immutable_memtables' # << >>
    <3>1. CASE UNCHANGED memVars
      BY <3>1 DEF memVars, TypeOK
    <3>2. CASE /\ immutable_memtables' = Append(immutable_memtables, memtable)
               /\ memtable' = EmptyTable
      <4>1. /\ Append(immutable_memtables, memtable) \in Seq(MemTable)
            /\ Append(immutable_memtables, memtable) # << >>
        <5>1. immutable_memtables \in Seq(MemTable) /\ memtable \in MemTable
          BY DEF TypeOK
        <5> QED BY <5>1, AppendProperties
      <4> QED BY <3>2, <4>1, EntryFacts
    <3> QED BY <1>6, <3>1, <3>2 DEF WriteEnd
  <2>2. TypeOK'
    BY <1>4, <1>6, <2>1 DEF WriteEnd, compVars, TypeOK
  <2>3. LvlOK' /\ FlushOK' /\ LocalsOK' /\ IdsBelowNext'
    BY <1>6, <2>1 DEF WriteEnd, compVars, LvlOK, FlushOK, LocalsOK, IdsBelowNext
  <2> QED BY <2>2, <2>3
<1>7. ASSUME NEW r \in Reader, NEW k \in Key, GetMem(r, k)
      PROVE  ControlInv'
  <2>1. /\ MemFind(k) \in Entry
        /\ Visible(Lookup(k)) \in Nat
    BY FindTypes, EntryFacts
  <2>2. /\ rpc' \in [Reader -> {"idle", "sst"}]
        /\ rkey' \in [Reader -> Key]
        /\ rres' \in [Reader -> Entry]
        /\ seen' \in [Reader -> SUBSET Nat]
    BY <1>7, <2>1 DEF GetMem, TypeOK
  <2>3. TypeOK'
    BY <1>7, <2>2 DEF GetMem, memVars, writeVars, compVars, TypeOK
  <2>4. LvlOK' /\ FlushOK' /\ LocalsOK' /\ IdsBelowNext'
    BY <1>7 DEF GetMem, memVars, compVars, LvlOK, FlushOK, LocalsOK, IdsBelowNext
  <2> QED BY <2>3, <2>4
<1>8. ASSUME NEW r \in Reader, GetSST(r)
      PROVE  ControlInv'
  <2>1. LevelFind(rkey[r]) \in Entry
    BY FindTypes DEF TypeOK
  <2>2. TypeOK'
    BY <1>8, <2>1 DEF GetSST, memVars, writeVars, compVars, TypeOK
  <2>3. LvlOK' /\ FlushOK' /\ LocalsOK' /\ IdsBelowNext'
    BY <1>8 DEF GetSST, memVars, compVars, LvlOK, FlushOK, LocalsOK, IdsBelowNext
  <2> QED BY <2>2, <2>3
<1>9. CASE FlushPick
  <2>1. TypeOK'
    BY <1>9 DEF FlushPick, Goto, memVars, writeVars, compVars, readVars, TypeOK
  <2>2. LvlOK' /\ FlushOK' /\ LocalsOK' /\ IdsBelowNext'
    BY <1>9 DEF FlushPick, Goto, memVars, compVars, TypeOK, LvlOK, FlushOK,
                LocalsOK, IdsBelowNext, Thread
  <2> QED BY <2>1, <2>2
<1>10. CASE FlushAlloc
  <2>1. current_writer' \in [Thread -> Table] /\ next_sstable_id' \in Nat \ {0}
    <3>1. [current_writer["bg"] EXCEPT !.id = next_sstable_id] \in Table
      BY DEF TypeOK, Table, Thread
    <3>2. current_writer' = [current_writer EXCEPT !["bg"] =
                               [current_writer["bg"] EXCEPT !.id = next_sstable_id]]
      BY <1>10 DEF FlushAlloc, TypeOK, Thread
    <3>3. current_writer' \in [Thread -> Table]
      BY <3>1, <3>2 DEF TypeOK
    <3> QED BY <1>10, <3>3 DEF FlushAlloc, TypeOK
  <2>2. TypeOK'
    BY <1>10, <2>1 DEF FlushAlloc, Goto, memVars, writeVars, compVars, readVars, TypeOK
  <2>3. LvlOK' /\ FlushOK'
    BY <1>10 DEF FlushAlloc, Goto, memVars, TypeOK, LvlOK, FlushOK, Thread
  <2>4. LocalsOK'
    BY <1>10 DEF FlushAlloc, Goto, compVars, TypeOK, LocalsOK, Thread, NoWriter, Table
  <2>5. IdsBelowNext'
    BY <1>10 DEF FlushAlloc, compVars, TypeOK, IdsBelowNext, Thread, Table
  <2> QED BY <2>2, <2>3, <2>4, <2>5
<1>11. CASE FlushInstall
  <2>1. PICK s, g \in Key :
          levels' = [levels EXCEPT ![0] = @ \cup
            {[id |-> current_writer["bg"].id, smallest |-> s,
              largest |-> g, ents |-> Head(immutable_memtables)]}]
    BY <1>11 DEF FlushInstall
  <2> DEFINE new == [id |-> current_writer["bg"].id, smallest |-> s,
                     largest |-> g, ents |-> Head(immutable_memtables)]
  <2>2. new \in Table /\ new.id < next_sstable_id
    <3>1. Head(immutable_memtables) \in MemTable
      BY <1>11 DEF FlushInstall, FlushOK, TypeOK
    <3>2. current_writer["bg"].id \in Nat /\ current_writer["bg"].id < next_sstable_id
      BY DEF TypeOK, Thread, Table, IdsBelowNext
    <3> QED BY <3>1, <3>2, KeyAssumption DEF Table
  <2> HIDE DEF new
  <2>3. /\ levels' \in [Level -> SUBSET Table]
        /\ \A l \in Level : levels'[l] \subseteq levels[l] \cup {new}
    BY <2>1, <2>2, LevelFacts DEF TypeOK, new
  <2>4. current_writer' \in [Thread -> Table]
    <3>1. NoWriter \in Table
      BY EntryFacts DEF NoWriter, Table
    <3> QED BY <1>11, <3>1 DEF FlushInstall, TypeOK
  <2>5. TypeOK'
    BY <1>11, <2>3, <2>4 DEF FlushInstall, Goto, memVars, writeVars, compVars, readVars, TypeOK
  <2>6. LvlOK' /\ FlushOK'
    BY <1>11 DEF FlushInstall, Goto, memVars, TypeOK, LvlOK, FlushOK, Thread
  <2>7. LocalsOK'
    BY <1>11 DEF FlushInstall, Goto, compVars, TypeOK, LocalsOK, Thread
  <2>8. IdsBelowNext'
    BY <1>11, <2>2, <2>3 DEF FlushInstall, compVars, TypeOK, IdsBelowNext, Thread, NoWriter
  <2> QED BY <2>5, <2>6, <2>7, <2>8
<1>12. CASE FlushPop
  <2>1. immutable_memtables' \in Seq(MemTable)
    BY <1>12 DEF FlushPop, FlushOK, TypeOK
  <2>2. TypeOK'
    BY <1>12, <2>1, LevelFacts DEF FlushPop, Goto, writeVars, compVars, readVars, TypeOK
  <2>3. LvlOK' /\ FlushOK' /\ LocalsOK' /\ IdsBelowNext'
    BY <1>12 DEF FlushPop, Goto, compVars, TypeOK, LvlOK, FlushOK, LocalsOK,
                 IdsBelowNext, Thread
  <2> QED BY <2>2, <2>3
<1>13. CASE CompactRange
  <2>1. TypeOK'
    BY <1>13, LevelFacts DEF CompactRange, Goto, memVars, writeVars, compVars, readVars, TypeOK
  <2>2. LvlOK' /\ FlushOK' /\ LocalsOK' /\ IdsBelowNext'
    BY <1>13 DEF CompactRange, Goto, memVars, compVars, TypeOK, LvlOK, FlushOK,
                LocalsOK, IdsBelowNext, Thread
  <2> QED BY <2>1, <2>2
<1>14. ASSUME NEW c \in Thread, CheckLevel(c)
       PROVE  ControlInv'
  <2>0. ~IsLastLevel(lvl[c]) => lvl[c] < MaxLevels - 1
    <3>1. lvl[c] \in Nat
      BY NextLevel DEF TypeOK
    <3> QED BY <3>1, LevelsAssumption DEF IsLastLevel
  <2>1. /\ lvl' \in [Thread -> Level]
        /\ pc' \in [Thread -> {"idle", "alloc", "install", "pop", "check", "pick",
                              "overlap", "merge"}]
    BY <1>14, <2>0, NextLevel DEF CheckLevel, Goto, TypeOK
  <2>2. TypeOK'
    BY <1>14, <2>1 DEF CheckLevel, memVars, writeVars, compVars, readVars, TypeOK
  <2>3. LvlOK' /\ FlushOK'
    BY <1>14, <2>0 DEF CheckLevel, Goto, memVars, TypeOK, LvlOK, FlushOK, Thread
  <2>4. LocalsOK' /\ IdsBelowNext'
    BY <1>14 DEF CheckLevel, Goto, compVars, TypeOK, LocalsOK, IdsBelowNext, Thread
  <2> QED BY <2>2, <2>3, <2>4
<1>15. ASSUME NEW c \in Thread, CompactPick(c)
       PROVE  ControlInv'
  <2>1. /\ lvl' \in [Thread -> Level]
        /\ pc' \in [Thread -> {"idle", "alloc", "install", "pop", "check", "pick",
                              "overlap", "merge"}]
        /\ inputs_lvl' \in [Thread -> SUBSET Table]
    <3>1. lvl[c] \in Level /\ lvl[c] + 1 \in Level
      BY <1>15, NextLevel DEF CompactPick, LvlOK, TypeOK
    <3>2. CASE levels[lvl[c]] = {}
      <4>1. /\ lvl' = [lvl EXCEPT ![c] = @ + 1]
            /\ pc' = [pc EXCEPT ![c] = "check"]
            /\ inputs_lvl' = inputs_lvl
        BY <1>15, <3>2 DEF CompactPick, Goto
      <4> QED BY <3>1, <4>1 DEF TypeOK
    <3>3. CASE levels[lvl[c]] # {}
      <4>1. levels[lvl[c]] \in SUBSET Table
        BY <3>1 DEF TypeOK
      <4>2. inputs_lvl' \in [Thread -> SUBSET Table]
        BY <1>15, <3>3, <4>1 DEF CompactPick, TypeOK
      <4> QED BY <1>15, <3>3, <4>2 DEF CompactPick, Goto, TypeOK
    <3> QED BY <3>2, <3>3
  <2>2. TypeOK'
    BY <1>15, <2>1 DEF CompactPick, memVars, writeVars, readVars, TypeOK
  <2>3. LvlOK' /\ FlushOK'
    BY <1>15 DEF CompactPick, Goto, memVars, TypeOK, LvlOK, FlushOK, Thread
  <2>4. LocalsOK' /\ IdsBelowNext'
    BY <1>15 DEF CompactPick, Goto, TypeOK, LocalsOK, IdsBelowNext, Thread
  <2> QED BY <2>2, <2>3, <2>4
<1>16. ASSUME NEW c \in Thread, CompactOverlap(c)
       PROVE  ControlInv'
  <2>1. /\ inputs_next' \in [Thread -> SUBSET Table]
        /\ todo' \in [Thread -> SUBSET Key]
    BY <1>16, LevelsAssumption DEF CompactOverlap, KeysOf, TypeOK, LvlOK, Level
  <2>2. TypeOK'
    BY <1>16, <2>1 DEF CompactOverlap, Goto, memVars, writeVars, readVars, TypeOK
  <2>3. LvlOK' /\ FlushOK'
    BY <1>16 DEF CompactOverlap, Goto, memVars, TypeOK, LvlOK, FlushOK, Thread
  <2>4. LocalsOK' /\ IdsBelowNext'
    BY <1>16 DEF CompactOverlap, Goto, TypeOK, LocalsOK, IdsBelowNext, Thread
  <2> QED BY <2>2, <2>3, <2>4
<1>17. ASSUME NEW c \in Thread, CompactDrop(c)
       PROVE  ControlInv'
  <2>1. todo' \in [Thread -> SUBSET Key]
    BY <1>17 DEF CompactDrop, TypeOK
  <2>2. TypeOK'
    BY <1>17, <2>1 DEF CompactDrop, memVars, writeVars, readVars, TypeOK
  <2>3. LvlOK' /\ FlushOK' /\ LocalsOK' /\ IdsBelowNext'
    BY <1>17 DEF CompactDrop, memVars, TypeOK, LvlOK, FlushOK, LocalsOK, IdsBelowNext
  <2> QED BY <2>2, <2>3
<1>18. ASSUME NEW c \in Thread, CompactAdd(c)
       PROVE  ControlInv'
  <2>1. PICK k \in todo[c] : \E e \in Versions(c, k) : AddStep(c, k, e)
    BY <1>18 DEF CompactAdd, AddStep
  <2>2. PICK e \in Versions(c, k) : AddStep(c, k, e)
    BY <2>1
  <2> DEFINE w == Add(current_writer[c], k, e)
  <2>3. next_sstable_id' \in Nat \ {0} /\ next_sstable_id <= next_sstable_id'
    BY <1>18 DEF CompactAdd, TypeOK
  <2>4. k \in Key /\ k \in Nat /\ e \in Entry
    BY KeyAssumption DEF TypeOK, Versions, Inputs, Table, MemTable
  <2>5. w \in Table /\ w.id < next_sstable_id' /\ w.id # 0
    <3>1. current_writer[c] \in Table
      BY DEF TypeOK
    <3>2. CASE current_writer[c].id = 0
      BY <1>18, <2>4, <3>2, EntryFacts DEF CompactAdd, Add, TypeOK, Table, MemTable
    <3>3. CASE current_writer[c].id # 0
      BY <2>3, <2>4, <3>1, <3>3 DEF Add, TypeOK, Table, MemTable, IdsBelowNext
    <3> QED BY <3>2, <3>3
  <2> HIDE DEF w
  <2>6. NoWriter \in Table /\ NoWriter.id = 0
    BY EntryFacts DEF NoWriter, Table
  <2>7. /\ todo' \in [Thread -> SUBSET Key]
        /\ new_sstables' \in [Thread -> SUBSET Table]
        /\ current_writer' \in [Thread -> Table]
    BY <2>2, <2>5, <2>6 DEF AddStep, TypeOK, w
  <2>8. TypeOK'
    BY <1>18, <2>3, <2>7 DEF CompactAdd, memVars, writeVars, readVars, TypeOK
  <2>9. LvlOK' /\ FlushOK'
    BY <1>18 DEF CompactAdd, memVars, LvlOK, FlushOK
  <2>10. LocalsOK'
    BY <1>18, <2>2 DEF CompactAdd, AddStep, TypeOK, LocalsOK
  <2>11. IdsBelowNext'
    <3>1. /\ \A l \in Level : \A t \in levels[l] : t.id < next_sstable_id'
          /\ \A d \in Thread : /\ current_writer[d].id < next_sstable_id'
                               /\ \A t \in new_sstables[d] : t.id < next_sstable_id'
      BY <2>3 DEF IdsBelowNext, TypeOK, Table
    <3>2. \A d \in Thread : /\ current_writer'[d].id < next_sstable_id'
                            /\ \A t \in new_sstables'[d] : t.id < next_sstable_id'
      BY <2>2, <2>3, <2>5, <2>6, <3>1 DEF AddStep, TypeOK, w
    <3> QED BY <1>18, <3>1, <3>2 DEF CompactAdd, IdsBelowNext
  <2> QED BY <2>8, <2>9, <2>10, <2>11
<1>19. ASSUME NEW c \in Thread, CompactReturn(c)
       PROVE  /\ inputs_lvl' \in [Thread -> SUBSET Table]
              /\ inputs_next' \in [Thread -> SUBSET Table]
              /\ todo' \in [Thread -> SUBSET Key]
              /\ new_sstables' \in [Thread -> SUBSET Table]
              /\ current_writer' \in [Thread -> Table]
  <2>1. NoWriter \in Table
    BY EntryFacts DEF NoWriter, Table
  <2> QED BY <1>19, <2>1 DEF CompactReturn, TypeOK
<1>20. ASSUME NEW c \in Thread, CompactInstall(c)
       PROVE  ControlInv'
  <2>1. lvl[c] \in Level /\ lvl[c] + 1 \in Level /\ lvl[c] \in Nat
    BY <1>20, NextLevel DEF CompactInstall, LvlOK, TypeOK
  <2>2. \A w \in Outputs(c) : w \in Table /\ w.id < next_sstable_id
    BY DEF Outputs, TypeOK, IdsBelowNext
  <2>3. /\ levels' \in [Level -> SUBSET Table]
        /\ \A l \in Level : levels'[l] \subseteq levels[l] \cup Outputs(c)
    BY <1>20, <2>1, <2>2 DEF CompactInstall, TypeOK
  <2>4. /\ lvl' \in [Thread -> Level]
        /\ pc' \in [Thread -> {"idle", "alloc", "install", "pop", "check", "pick",
                              "overlap", "merge"}]
    BY <1>20, <2>1 DEF CompactInstall, Goto, TypeOK
  <2>5. TypeOK'
    BY <1>19, <1>20, <2>3, <2>4 DEF CompactInstall, memVars, writeVars, readVars, TypeOK
  <2>6. LvlOK' /\ FlushOK'
    BY <1>20 DEF CompactInstall, Goto, memVars, TypeOK, LvlOK, FlushOK, Thread
  <2>7. LocalsOK'
    BY <1>20 DEF CompactInstall, CompactReturn, Goto, TypeOK, LocalsOK, Thread
  <2>8. IdsBelowNext'
    <3>1. \A l \in Level : \A t \in levels'[l] : t.id < next_sstable_id
      BY <2>2, <2>3 DEF IdsBelowNext
    <3>2. \A d \in Thread : /\ current_writer'[d].id < next_sstable_id
                            /\ \A t \in new_sstables'[d] : t.id < next_sstable_id
      BY <1>20 DEF CompactInstall, CompactReturn, TypeOK, IdsBelowNext, NoWriter
    <3> QED BY <1>20, <3>1, <3>2 DEF CompactInstall, IdsBelowNext
  <2> QED BY <2>5, <2>6, <2>7, <2>8
<1>21. ASSUME NEW c \in Thread, CompactError(c)
       PROVE  ControlInv'
  <2>1. lvl[c] \in Level /\ lvl[c] + 1 \in Level /\ lvl[c] \in Nat
    BY <1>21, NextLevel DEF CompactError, LvlOK, TypeOK
  <2>2. /\ lvl' \in [Thread -> Level]
        /\ pc' \in [Thread -> {"idle", "alloc", "install", "pop", "check", "pick",
                              "overlap", "merge"}]
    BY <1>21, <2>1 DEF CompactError, Goto, TypeOK
  <2>3. TypeOK'
    BY <1>19, <1>21, <2>2 DEF CompactError, memVars, writeVars, readVars, TypeOK
  <2>4. LvlOK' /\ FlushOK'
    BY <1>21 DEF CompactError, Goto, memVars, TypeOK, LvlOK, FlushOK, Thread
  <2>5. LocalsOK'
    BY <1>21 DEF CompactError, CompactReturn, Goto, TypeOK, LocalsOK, Thread
  <2>6. IdsBelowNext'
    BY <1>21 DEF CompactError, CompactReturn, TypeOK, IdsBelowNext, NoWriter
  <2> QED BY <2>3, <2>4, <2>5, <2>6
<1> QED BY <1>1, <1>2, <1>3, <1>5, <1>6, <1>7, <1>8, <1>9, <1>10, <1>11, <1>12,
           <1>13, <1>14, <1>15, <1>16, <1>17, <1>18, <1>20, <1>21
        DEF Next, Write, Get, Flush, Compact

\* Type correctness, whatever the threads do: SerialSpec is not needed.
THEOREM TypeCorrect == Spec => []TypeOK
<1>1. Init => ControlInv
  BY InitControl
<1>2. ControlInv /\ [Next]_vars => ControlInv'
  BY NextControl
<1>3. ControlInv => TypeOK
  BY DEF ControlInv
<1> QED BY <1>1, <1>2, <1>3, PTL DEF Spec
=============================================================================
