------------------------------ MODULE LSMTree ------------------------------
(***************************************************************************)
(* DBImpl's in-memory index (src/db_impl.cpp): the active memtable, the    *)
(* deque of immutable memtables, the levels of SSTables, and the threads   *)
(* that share them.                                                        *)
(*                                                                         *)
(*   - writers: Write holds memtable_mutex_ for a whole batch;             *)
(*   - readers: Get looks at the memtables under memtable_mutex_, releases *)
(*     it, and looks at the SSTables under sstable_mutex_;                 *)
(*   - "bg", the flush thread: BackgroundFlush, FlushMemTable and the      *)
(*     compactions it triggers;                                            *)
(*   - "user", a client thread that calls CompactRange.                    *)
(*                                                                         *)
(* Every section the code runs under a mutex is one action, except Write,  *)
(* which takes one action per entry and holds memtable_mutex_ (writing)    *)
(* throughout.  What a thread does between two such sections is private to *)
(* it and is part of one of them.                                          *)
(*                                                                         *)
(* Data: keys are naturals in the order of the strings they stand for.  An *)
(* InternalEntry keeps its sequence number and type; its vlog pointer      *)
(* travels with the sequence number and is left out.  A memtable or an     *)
(* SSTable is a function from keys to entries with Absent where it has     *)
(* none; sizes in bytes become numbers of entries.  WAL, manifest and the  *)
(* files themselves are not part of this module.                           *)
(***************************************************************************)
EXTENDS Integers, Sequences, FiniteSets

CONSTANTS
  Key,         \* the keys
  Reader,      \* client threads that call Get
  MaxLevels,   \* options_.max_sstable_levels
  MemLimit,    \* entries at which a memtable should be flushed
  TableLimit,  \* entries at which compaction closes an output table
  L0Trigger,   \* level-0 tables at which bg compacts level 0 (4 in the code)
  LevelBase,   \* entries above which bg compacts level 1; x10 per level
  MaxBatch,    \* bound: entries in one WriteBatch
  MaxSeq,      \* bound: sequence numbers handed out
  MaxId        \* bound: table ids handed out (failed compactions use them up)

ASSUME KeyAssumption == Key \subseteq Nat
ASSUME LevelsAssumption == MaxLevels \in Nat \ {0}
ASSUME LimitsAssumption == /\ MemLimit \in Nat \ {0}
                           /\ TableLimit \in Nat
                           /\ L0Trigger \in Nat
                           /\ LevelBase \in Nat
                           /\ MaxBatch \in Nat
                           /\ MaxSeq \in Nat
                           /\ MaxId \in Nat

VARIABLES
  memtable,             \* memtable_
  immutable_memtables,  \* immutable_memtables_, front first
  levels,               \* levels_
  next_sstable_id,      \* next_sstable_id_
  sequence_number,      \* sequence_number_
  writing,              \* a Write holds memtable_mutex_
  batch,                \* the entries that Write has still to apply
  pc,                   \* where each of bg and user is
  lvl,                  \* the level its loop over the levels has reached
  inputs_lvl,           \* CompactLevel: captured tables of level lvl
  inputs_next,          \* CompactLevel: captured tables of level lvl + 1
  todo,                 \* CompactLevel: keys its iterators have still to yield
  current_writer,       \* the SSTableWriter in use (id 0: none)
  new_sstables,         \* CompactLevel: finished output tables
  rpc,                  \* where each reader is
  rkey,                 \* the key it asked for
  rres,                 \* the entry its last Get found
  seen                  \* history: versions rkey had since the call began

memVars  == <<memtable, immutable_memtables>>
writeVars == <<sequence_number, writing, batch>>
compVars == <<inputs_lvl, inputs_next, todo, new_sstables>>
readVars == <<rpc, rkey, rres, seen>>
vars == <<memVars, levels, next_sstable_id, writeVars, pc, lvl, compVars,
          current_writer, readVars>>

-----------------------------------------------------------------------------
(* Entries, tables and searches. *)

Thread == {"bg", "user"}
Level  == 0 .. MaxLevels - 1

ValueType == {"kValue", "kDeletion"}
Entry  == [seq : Nat, type : ValueType]
Absent == [seq |-> 0, type |-> "kDeletion"]
Present(e) == e.seq > 0

MemTable   == [Key -> Entry]
EmptyTable == [k \in Key |-> Absent]
Count(m)   == Cardinality({k \in Key : Present(m[k])})

\* memory_usage_ grows by one entry for each new key of the memtable.
ShouldFlush(m) == Count(m) >= MemLimit

\* SSTableInfo: the meta data and the contents of one table.
Table == [id : Nat, smallest : Nat, largest : Nat, ents : MemTable]
NoWriter == [id |-> 0, smallest |-> 0, largest |-> 0, ents |-> EmptyTable]

Covers(t, k) == t.smallest <= k /\ k <= t.largest
Has(t, k)    == Covers(t, k) /\ Present(t.ents[k])

\* smallest and largest are the first and the last key the writer was given.
IsRange(m, smallest, largest) ==
  /\ Present(m[smallest]) /\ Present(m[largest])
  /\ \A k \in Key : Present(m[k]) => smallest <= k /\ k <= largest

MaxOf(S) == CHOOSE x \in S : \A y \in S : y <= x
MinOf(S) == CHOOSE x \in S : \A y \in S : x <= y

\* Active memtable, then the immutable ones from the back of the deque.
MemHits(imm, k) == {i \in DOMAIN imm : Present(imm[i][k])}

\* Mutant: the immutable memtables are forgotten.
SearchActiveOnly(mem, imm, k) == mem[k]

SearchMem(mem, imm, k) ==
  IF Present(mem[k]) THEN mem[k]
  ELSE IF MemHits(imm, k) # {} THEN imm[MaxOf(MemHits(imm, k))][k]
  ELSE Absent

(***************************************************************************)
(* levels_[0] is only ever appended to, by the one thread that also hands  *)
(* its tables their ascending ids, so its reverse order is descending id.  *)
(* A deeper level is sorted by smallest_key whenever it changes.           *)
(***************************************************************************)
L0Hits(L, k) == {t \in L[0] : Present(t.ents[k])}

\* Mutant: level 0 searched from its front.
OldestFirst(S) == CHOOSE t \in S : \A u \in S : t.id <= u.id

Newest(S) == CHOOSE t \in S : \A u \in S : u.id <= t.id
First(S)  == CHOOSE t \in S : \A u \in S : t.smallest <= u.smallest
LevelHits(L, l, k) == {t \in L[l] : Has(t, k)}
DeepHits(L, k) == {l \in Level \ {0} : LevelHits(L, l, k) # {}}
SearchLevels(L, k) ==
  IF L0Hits(L, k) # {} THEN Newest(L0Hits(L, k)).ents[k]
  ELSE IF DeepHits(L, k) # {}
         THEN First(LevelHits(L, MinOf(DeepHits(L, k)), k)).ents[k]
  ELSE Absent

MemFind(k)   == SearchMem(memtable, immutable_memtables, k)
LevelFind(k) == SearchLevels(levels, k)

\* The entry an uninterrupted search finds, and what Get makes of it.
Lookup(k)  == IF Present(MemFind(k)) THEN MemFind(k) ELSE LevelFind(k)
Visible(e) == IF e.type = "kValue" THEN e.seq ELSE 0

-----------------------------------------------------------------------------
(* A new, empty database after Open: RecoverFromWAL leaves number 2. *)
Init ==
  /\ memtable = EmptyTable
  /\ immutable_memtables = << >>
  /\ levels = [l \in Level |-> {}]
  /\ next_sstable_id = 1
  /\ sequence_number = 2
  /\ writing = FALSE
  /\ batch = << >>
  /\ pc = [c \in Thread |-> "idle"]
  /\ lvl = [c \in Thread |-> 0]
  /\ inputs_lvl = [c \in Thread |-> {}]
  /\ inputs_next = [c \in Thread |-> {}]
  /\ todo = [c \in Thread |-> {}]
  /\ current_writer = [c \in Thread |-> NoWriter]
  /\ new_sstables = [c \in Thread |-> {}]
  /\ rpc = [r \in Reader |-> "idle"]
  /\ rkey \in [Reader -> Key]
  /\ rres = [r \in Reader |-> Absent]
  /\ seen = [r \in Reader |-> {0}]

-----------------------------------------------------------------------------
(* Write. *)

Op == [key : Key, type : ValueType]
Batch == UNION {[1 .. n -> Op] : n \in 0 .. MaxBatch}

\* Put and Delete build a batch of one entry and call Write.
WriteBegin ==
  /\ ~writing
  /\ \E b \in Batch :
       /\ sequence_number + Len(b) <= MaxSeq + 1
       /\ batch' = b
  /\ writing' = TRUE
  /\ UNCHANGED <<memVars, levels, next_sstable_id, sequence_number, pc, lvl,
                 compVars, current_writer, readVars>>

\* One entry: its value is in the vlog and its record in the WAL.
WriteEntry ==
  /\ writing /\ batch # << >>
  /\ memtable' = [memtable EXCEPT ![Head(batch).key] =
                    [seq |-> sequence_number, type |-> Head(batch).type]]
  /\ sequence_number' = sequence_number + 1
  /\ batch' = Tail(batch)
  /\ UNCHANGED <<immutable_memtables, levels, next_sstable_id, writing, pc,
                 lvl, compVars, current_writer, readVars>>

\* Releasing memtable_mutex_ makes what the batch applied current.
Publish ==
  /\ writing' = FALSE
  /\ batch' = << >>
  /\ seen' = [r \in Reader |-> IF rpc[r] = "sst"
                                 THEN seen[r] \cup {Visible(Lookup(rkey[r]))}
                                 ELSE seen[r]]
  /\ UNCHANGED <<rpc, rkey, rres>>

\* The vlog or the WAL refuses an entry: its number is used up, the entries
\* before it stay applied, and MaybeScheduleFlush is not reached.
WriteError ==
  /\ writing /\ batch # << >>
  /\ sequence_number' = sequence_number + 1
  /\ Publish
  /\ UNCHANGED <<memVars, levels, next_sstable_id, pc, lvl, compVars,
                 current_writer>>

\* MaybeScheduleFlush, and the lock is released.
WriteEnd ==
  /\ writing /\ batch = << >>
  /\ \/ /\ ShouldFlush(memtable)
        /\ immutable_memtables' = Append(immutable_memtables, memtable)
        /\ memtable' = EmptyTable
     \/ /\ ~ShouldFlush(memtable)
        /\ UNCHANGED memVars
  /\ Publish
  /\ UNCHANGED <<levels, next_sstable_id, sequence_number, pc, lvl, compVars,
                 current_writer>>

-----------------------------------------------------------------------------
(* Get. *)

\* Memtables, under memtable_mutex_.  The call is taken to begin here.
GetMem(r, k) ==
  /\ rpc[r] = "idle" /\ ~writing
  /\ rkey' = [rkey EXCEPT ![r] = k]
  /\ seen' = [seen EXCEPT ![r] = {Visible(Lookup(k))}]
  /\ \/ /\ Present(MemFind(k))
        /\ rres' = [rres EXCEPT ![r] = MemFind(k)]
        /\ UNCHANGED rpc
     \/ /\ ~Present(MemFind(k))
        /\ rpc' = [rpc EXCEPT ![r] = "sst"]
        /\ UNCHANGED rres
  /\ UNCHANGED <<memVars, levels, next_sstable_id, writeVars, pc, lvl,
                 compVars, current_writer>>

\* SSTables, under sstable_mutex_.
GetSST(r) ==
  /\ rpc[r] = "sst"
  /\ rres' = [rres EXCEPT ![r] = LevelFind(rkey[r])]
  /\ rpc' = [rpc EXCEPT ![r] = "idle"]
  /\ UNCHANGED <<memVars, levels, next_sstable_id, writeVars, pc, lvl,
                 compVars, current_writer, rkey, seen>>

-----------------------------------------------------------------------------
(* BackgroundFlush and FlushMemTable. *)

Goto(c, to) == pc' = [pc EXCEPT ![c] = to]

\* immutable_memtables_.front(); only this thread pops, so it stays the front.
FlushPick ==
  /\ pc["bg"] = "idle" /\ ~writing
  /\ immutable_memtables # << >>
  /\ Goto("bg", "alloc")
  /\ UNCHANGED <<memVars, levels, next_sstable_id, writeVars, lvl, compVars,
                 current_writer, readVars>>

FlushAlloc ==
  /\ pc["bg"] = "alloc" /\ next_sstable_id <= MaxId
  /\ current_writer' = [current_writer EXCEPT !["bg"].id = next_sstable_id]
  /\ next_sstable_id' = next_sstable_id + 1
  /\ Goto("bg", "install")
  /\ UNCHANGED <<memVars, levels, writeVars, lvl, compVars, readVars>>

\* The sorted entries are written and the table appended to level 0.
FlushInstall ==
  /\ pc["bg"] = "install"
  /\ \E smallest, largest \in Key :
       /\ IsRange(Head(immutable_memtables), smallest, largest)
       /\ levels' = [levels EXCEPT ![0] = @ \cup
            {[id |-> current_writer["bg"].id, smallest |-> smallest,
              largest |-> largest, ents |-> Head(immutable_memtables)]}]
  /\ current_writer' = [current_writer EXCEPT !["bg"] = NoWriter]
  /\ Goto("bg", "pop")
  /\ UNCHANGED <<memVars, next_sstable_id, writeVars, lvl, compVars, readVars>>

\* pop_front, whatever FlushMemTable returned; then the loop over the levels.
FlushPop ==
  /\ pc["bg"] = "pop" /\ ~writing
  /\ immutable_memtables' = Tail(immutable_memtables)
  /\ lvl' = [lvl EXCEPT !["bg"] = 0]
  /\ Goto("bg", "check")
  /\ UNCHANGED <<memtable, levels, next_sstable_id, writeVars, compVars,
                 current_writer, readVars>>

-----------------------------------------------------------------------------
(* CompactRange, and the compactions bg triggers after a flush. *)

CompactRange ==
  /\ pc["user"] = "idle"
  /\ lvl' = [lvl EXCEPT !["user"] = 0]
  /\ Goto("user", "check")
  /\ UNCHANGED <<memVars, levels, next_sstable_id, writeVars, compVars,
                 current_writer, readVars>>

LevelSize(l) == Cardinality({p \in levels[l] \X Key : Present(p[1].ents[p[2]])})

NeedsCompaction(c, l) ==
  CASE c = "user"             -> levels[l] # {}
    [] c = "bg" /\ l = 0      -> Cardinality(levels[0]) >= L0Trigger
    [] c = "bg" /\ l # 0      -> LevelSize(l) > LevelBase * 10 ^ (l - 1)

\* Mutant: the loop also visits the last level.
PastLastLevel(l) == l >= MaxLevels

\* The levels that are compacted are those with a next one.
IsLastLevel(l) == l >= MaxLevels - 1

\* One turn of "for (lvl = 0; lvl < max_sstable_levels - 1; ++lvl)".
CheckLevel(c) ==
  /\ pc[c] = "check"
  /\ \/ /\ IsLastLevel(lvl[c])
        /\ Goto(c, "idle")
        /\ UNCHANGED lvl
     \/ /\ ~IsLastLevel(lvl[c])
        /\ NeedsCompaction(c, lvl[c])
        /\ Goto(c, "pick")
        /\ UNCHANGED lvl
     \/ /\ ~IsLastLevel(lvl[c])
        /\ ~NeedsCompaction(c, lvl[c])
        /\ lvl' = [lvl EXCEPT ![c] = @ + 1]
        /\ UNCHANGED pc
  /\ UNCHANGED <<memVars, levels, next_sstable_id, writeVars, compVars,
                 current_writer, readVars>>

\* CompactLevel, first section: capture the whole of level lvl.
CompactPick(c) ==
  /\ pc[c] = "pick"
  /\ \/ /\ levels[lvl[c]] = {}
        /\ lvl' = [lvl EXCEPT ![c] = @ + 1]
        /\ Goto(c, "check")
        /\ UNCHANGED inputs_lvl
     \/ /\ levels[lvl[c]] # {}
        /\ inputs_lvl' = [inputs_lvl EXCEPT ![c] = levels[lvl[c]]]
        /\ Goto(c, "overlap")
        /\ UNCHANGED lvl
  /\ UNCHANGED <<memVars, levels, next_sstable_id, writeVars, inputs_next,
                 todo, new_sstables, current_writer, readVars>>

\* Mutant: tables that only touch the end of the hull are missed.
ReachesInto(t, S) ==
  /\ \E s \in S : t.smallest < s.largest
  /\ \E s \in S : t.largest >= s.smallest

\* t reaches into the hull of the key ranges of the tables in S.
Overlaps(t, S) ==
  /\ \E s \in S : t.smallest <= s.largest
  /\ \E s \in S : t.largest >= s.smallest

KeysOf(S) == {k \in Key : \E t \in S : Present(t.ents[k])}

\* Second section: the overlapping tables of the next level; the iterators
\* are opened on their first keys.
CompactOverlap(c) ==
  LET next == {t \in levels[lvl[c] + 1] : Overlaps(t, inputs_lvl[c])}
  IN  /\ pc[c] = "overlap"
      /\ inputs_next' = [inputs_next EXCEPT ![c] = next]
      /\ todo' = [todo EXCEPT ![c] = KeysOf(inputs_lvl[c] \cup next)]
      /\ Goto(c, "merge")
      /\ UNCHANGED <<memVars, levels, next_sstable_id, writeVars, lvl,
                     inputs_lvl, new_sstables, current_writer, readVars>>

Inputs(c) == inputs_lvl[c] \cup inputs_next[c]

\* min_key, and the entry with the highest sequence number it has.
IsMinKey(c, k) == \A j \in todo[c] : k <= j
Versions(c, k) == {t.ents[k] : t \in Inputs(c)}

\* Mutant: the first version wins.
LowestWins(c, k, e) ==
  Present(e) /\ \A v \in Versions(c, k) : Present(v) => e.seq <= v.seq

IsWinner(c, k, e) == \A v \in Versions(c, k) : v.seq <= e.seq

ExistsDeeper(l, k) ==
  \E d \in l + 2 .. MaxLevels - 1 : \E t \in levels[d] : Has(t, k)

\* Mutant: deletions are dropped whatever the deeper levels hold.
DropAlways(c, k, e) == e.type = "kDeletion"

Drop(c, k, e) == e.type = "kDeletion" /\ ~ExistsDeeper(lvl[c], k)

CompactDrop(c) ==
  /\ pc[c] = "merge"
  /\ \E k \in todo[c] : \E e \in Versions(c, k) :
       /\ IsMinKey(c, k) /\ IsWinner(c, k, e)
       /\ Drop(c, k, e)
       /\ todo' = [todo EXCEPT ![c] = @ \ {k}]
  /\ UNCHANGED <<memVars, levels, next_sstable_id, writeVars, pc, lvl,
                 inputs_lvl, inputs_next, new_sstables, current_writer,
                 readVars>>

\* SSTableWriter::Add, on a writer opened for this key when there is none.
Add(w, k, e) ==
  IF w.id = 0
    THEN [id |-> next_sstable_id, smallest |-> k, largest |-> k,
          ents |-> [EmptyTable EXCEPT ![k] = e]]
    ELSE [id |-> w.id, smallest |-> w.smallest, largest |-> k,
          ents |-> [w.ents EXCEPT ![k] = e]]

CompactAdd(c) ==
  /\ pc[c] = "merge"
  /\ current_writer[c].id = 0 => next_sstable_id <= MaxId
  /\ \E k \in todo[c] : \E e \in Versions(c, k) :
       /\ IsMinKey(c, k) /\ IsWinner(c, k, e)
       /\ ~Drop(c, k, e)
       /\ todo' = [todo EXCEPT ![c] = @ \ {k}]
       /\ LET w == Add(current_writer[c], k, e)
          IN  \/ /\ Count(w.ents) >= TableLimit
                 /\ new_sstables' = [new_sstables EXCEPT ![c] = @ \cup {w}]
                 /\ current_writer' = [current_writer EXCEPT ![c] = NoWriter]
              \/ /\ Count(w.ents) < TableLimit
                 /\ current_writer' = [current_writer EXCEPT ![c] = w]
                 /\ UNCHANGED new_sstables
  /\ next_sstable_id' = IF current_writer[c].id = 0 THEN next_sstable_id + 1
                                                    ELSE next_sstable_id
  /\ UNCHANGED <<memVars, levels, writeVars, pc, lvl, inputs_lvl, inputs_next,
                 readVars>>

\* CompactLevel returns: its local variables go away and the loop goes on.
CompactReturn(c) ==
  /\ inputs_lvl' = [inputs_lvl EXCEPT ![c] = {}]
  /\ inputs_next' = [inputs_next EXCEPT ![c] = {}]
  /\ todo' = [todo EXCEPT ![c] = {}]
  /\ new_sstables' = [new_sstables EXCEPT ![c] = {}]
  /\ current_writer' = [current_writer EXCEPT ![c] = NoWriter]

IdsOf(S) == {t.id : t \in S}

\* Mutant: the last table of a merge is not finished.
FinishedOutputs(c) == new_sstables[c]

\* Every table the merge produced, the last one finished on the way.
Outputs(c) ==
  new_sstables[c] \cup (IF current_writer[c].id = 0 THEN {}
                                                     ELSE {current_writer[c]})

\* Last section: the inputs are erased by file id and the outputs added.  When
\* SaveManifest then fails, CompactRange returns and bg goes on.
CompactInstall(c) ==
  /\ pc[c] = "merge" /\ todo[c] = {}
  /\ levels' = [levels EXCEPT
       ![lvl[c]] = {t \in @ : t.id \notin IdsOf(inputs_lvl[c])},
       ![lvl[c] + 1] = {t \in @ : t.id \notin IdsOf(inputs_next[c])}
                         \cup Outputs(c)]
  /\ lvl' = [lvl EXCEPT ![c] = @ + 1]
  /\ \/ Goto(c, "check")
     \/ c = "user" /\ Goto(c, "idle")
  /\ CompactReturn(c)
  /\ UNCHANGED <<memVars, next_sstable_id, writeVars, readVars>>

\* Reading an input or writing an output fails: bg ignores the status and goes
\* on with the next level, CompactRange returns it.
CompactError(c) ==
  /\ pc[c] = "merge"
  /\ \/ c = "bg" /\ Goto(c, "check") /\ lvl' = [lvl EXCEPT ![c] = @ + 1]
     \/ c = "user" /\ Goto(c, "idle") /\ UNCHANGED lvl
  /\ CompactReturn(c)
  /\ UNCHANGED <<memVars, levels, next_sstable_id, writeVars, readVars>>

-----------------------------------------------------------------------------
Write   == WriteBegin \/ WriteEntry \/ WriteError \/ WriteEnd
Get     == \E r \in Reader : GetSST(r) \/ \E k \in Key : GetMem(r, k)
Flush   == FlushPick \/ FlushAlloc \/ FlushInstall \/ FlushPop
Compact == \E c \in Thread :
             \/ CheckLevel(c) \/ CompactPick(c) \/ CompactOverlap(c)
             \/ CompactDrop(c) \/ CompactAdd(c)
             \/ CompactInstall(c) \/ CompactError(c)

Next == Write \/ Get \/ Flush \/ CompactRange \/ Compact

Spec == Init /\ [][Next]_vars

(***************************************************************************)
(* CompactLevel takes no lock that spans its sections.  OneCompactor says  *)
(* that the two threads are never inside it together, which an application *)
(* gets by not calling CompactRange while the flush thread compacts.       *)
(***************************************************************************)
Compacting(c) == pc[c] \in {"overlap", "merge"}
OneCompactor == \A c, d \in Thread : Compacting(c) /\ Compacting(d) => c = d

SerialNext == Next /\ OneCompactor'
SerialSpec == Init /\ [][SerialNext]_vars

-----------------------------------------------------------------------------
(* Properties. *)

TypeOK ==
  /\ memtable \in MemTable
  /\ immutable_memtables \in Seq(MemTable)
  /\ levels \in [Level -> SUBSET Table]
  /\ next_sstable_id \in Nat \ {0}
  /\ sequence_number \in Nat \ {0}
  /\ writing \in BOOLEAN
  /\ batch \in Seq(Op)
  /\ pc \in [Thread -> {"idle", "alloc", "install", "pop", "check", "pick",
                        "overlap", "merge"}]
  /\ lvl \in [Thread -> Level]
  /\ inputs_lvl \in [Thread -> SUBSET Table]
  /\ inputs_next \in [Thread -> SUBSET Table]
  /\ todo \in [Thread -> SUBSET Key]
  /\ current_writer \in [Thread -> Table]
  /\ new_sstables \in [Thread -> SUBSET Table]
  /\ rpc \in [Reader -> {"idle", "sst"}]
  /\ rkey \in [Reader -> Key]
  /\ rres \in [Reader -> Entry]
  /\ seen \in [Reader -> SUBSET Nat]

(***************************************************************************)
(* Get stops at the first hit of its search (db_impl.cpp:264-306) and never *)
(* compares sequence numbers.  ReadsNewest says that it need not: the hit  *)
(* is the newest version of the key stored anywhere, in every interleaving *)
(* of writes, flushes and one compaction.                                  *)
(***************************************************************************)
Stored(k) ==
  {memtable[k]}
    \cup {immutable_memtables[i][k] : i \in DOMAIN immutable_memtables}
    \cup {t.ents[k] : t \in UNION {levels[l] : l \in Level}}
ReadsNewest == \A k \in Key : \A e \in Stored(k) : e.seq <= Lookup(k).seq

\* "Level 1+: check one per level" (db_impl.cpp:292): the tables of a level
\* below 0 have disjoint key ranges, whatever compactions built the level.
Apart(t, u) == t.largest < u.smallest \/ u.largest < t.smallest
LevelsDisjoint ==
  \A l \in Level \ {0} : \A t, u \in levels[l] : t # u => Apart(t, u)

\* A Get whose key moves from memtable to level 0 to deeper levels between its
\* two critical sections (db_impl.cpp:266-278 and 282-307) still returns a
\* version the key had during the call, never an older one and never nothing.
GetReturnsCurrent ==
  \A r \in Reader : rpc[r] = "idle" => Visible(rres[r]) \in seen[r]

(***************************************************************************)
(* Only a write changes what a key reads as: rotating the memtable,        *)
(* flushing, popping the deque and compacting (dropping a deletion and the *)
(* versions it hides included) never do, so a deleted key stays deleted.   *)
(***************************************************************************)
StableReads ==
  [][\A k \in Key : Visible(Lookup(k))' # Visible(Lookup(k))
                        => sequence_number' = sequence_number + 1]_vars

\* StableReads for deleted keys only: no flush or compaction brings a deleted
\* value back (test_compaction_gc.cpp:125 expects NotFound after CompactRange).
DeletedStaysDeleted ==
  [][\A k \in Key : Visible(Lookup(k)) = 0 /\ Visible(Lookup(k))' # 0
                        => sequence_number' = sequence_number + 1]_vars

\* The index implements the abstract store.
KV == INSTANCE KVStore WITH
        store   <- [k \in Key |-> Visible(Lookup(k))],
        version <- sequence_number,
        open    <- writing,
        pending <- [r \in Reader |-> rpc[r] = "sst"],
        key     <- rkey,
        current <- seen,
        got     <- [r \in Reader |-> Visible(rres[r])]

\* Every behaviour of DBImpl with one compactor at a time is a behaviour of a
\* plain map: Write, Get, flush and compaction together are atomic to callers.
ImplementsKVStore == KV!Spec
=============================================================================
