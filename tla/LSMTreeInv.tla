---------------------------- MODULE LSMTreeInv ----------------------------
(***************************************************************************)
(* The inductive invariant of LSMTree under SerialSpec: what is true of    *)
(* the tables, the memtables, a compaction in progress and a Get in        *)
(* progress after every step, and strong enough to be preserved by every   *)
(* step.  LSMTree_proofs proves that.                                      *)
(***************************************************************************)
EXTENDS LSMTree

-----------------------------------------------------------------------------
(* Control. *)

\* CompactLevel only runs on a level that has a next one.
LvlOK == \A c \in Thread : pc[c] \in {"pick", "overlap", "merge"}
                             => lvl[c] < MaxLevels - 1

\* Only bg flushes, and what it flushes is the front of the deque.
FlushOK ==
  /\ pc["user"] \notin {"alloc", "install", "pop"}
  /\ pc["bg"] \in {"alloc", "install", "pop"} => immutable_memtables # << >>

\* The locals of FlushMemTable and CompactLevel exist while those run.
LocalsOK ==
  \A c \in Thread :
    /\ pc[c] \notin {"overlap", "merge"} => inputs_lvl[c] = {}
    /\ pc[c] # "merge" => /\ inputs_next[c] = {}
                          /\ todo[c] = {}
                          /\ new_sstables[c] = {}
    /\ pc[c] \notin {"install", "merge"} => current_writer[c] = NoWriter
    /\ pc[c] = "install" => /\ current_writer[c].id # 0
                            /\ current_writer[c].ents = EmptyTable

(* Ids: handed out once, in ascending order. *)
IdsBelowNext ==
  /\ \A l \in Level : \A t \in levels[l] : t.id < next_sstable_id
  /\ \A c \in Thread : /\ current_writer[c].id < next_sstable_id
                       /\ \A t \in new_sstables[c] : t.id < next_sstable_id

ControlInv == TypeOK /\ LvlOK /\ FlushOK /\ LocalsOK /\ IdsBelowNext

-----------------------------------------------------------------------------
(* Tables. *)

WellFormed(t) ==
  /\ t.smallest \in Key /\ t.largest \in Key
  /\ IsRange(t.ents, t.smallest, t.largest)

TablesWellFormed(L) == \A l \in Level : \A t \in L[l] : WellFormed(t)

IdsUnique(L) == \A l, m \in Level : \A t \in L[l], u \in L[m] :
                  t.id = u.id => l = m /\ t = u

\* A table the search reaches first holds the newer version of a shared key.
Newer(m, n) == \A k \in Key : Present(m[k]) /\ Present(n[k])
                                => m[k].seq > n[k].seq
LevelsOrdered(L) ==
  /\ \A t, u \in L[0] : t.id > u.id => Newer(t.ents, u.ents)
  /\ \A l, m \in Level : \A t \in L[l], u \in L[m] :
       l < m => Newer(t.ents, u.ents)

\* LevelsDisjoint, of any assignment of tables to levels.
Disjoint(L) ==
  \A l \in Level \ {0} : \A t, u \in L[l] : t # u => Apart(t, u)

TablesOK(L) == /\ TablesWellFormed(L)
               /\ IdsUnique(L)
               /\ LevelsOrdered(L)
               /\ Disjoint(L)

TablesInv == TablesOK(levels)

-----------------------------------------------------------------------------
(* Memtables. *)

MemOrdered ==
  /\ \A i \in DOMAIN immutable_memtables :
       Newer(memtable, immutable_memtables[i])
  /\ \A i, j \in DOMAIN immutable_memtables :
       i > j => Newer(immutable_memtables[i], immutable_memtables[j])

\* Between push_back of its table and pop_front the front memtable is in level
\* 0 as well, or has been compacted further.
Flushed(i) == i = 1 /\ pc["bg"] = "pop"

MemAboveLevels ==
  \A l \in Level : \A t \in levels[l] :
    /\ Newer(memtable, t.ents)
    /\ \A i \in DOMAIN immutable_memtables :
         ~Flushed(i) => Newer(immutable_memtables[i], t.ents)

FlushedReadable ==
  pc["bg"] = "pop" =>
    \A k \in Key : Present(immutable_memtables[1][k]) =>
      /\ Visible(LevelFind(k)) = Visible(immutable_memtables[1][k])
      /\ \A l \in Level : \A t \in levels[l] :
           t.ents[k].seq <= immutable_memtables[1][k].seq

SeqBound ==
  \A k \in Key :
    /\ memtable[k].seq < sequence_number
    /\ \A i \in DOMAIN immutable_memtables :
         immutable_memtables[i][k].seq < sequence_number
    /\ \A l \in Level : \A t \in levels[l] : t.ents[k].seq < sequence_number

MemInv == MemOrdered /\ MemAboveLevels /\ FlushedReadable /\ SeqBound

-----------------------------------------------------------------------------
(* A table that is about to join level 0, and a compaction in progress. *)

FlushIdNewest ==
  pc["bg"] = "install" =>
    /\ \A l \in Level : \A t \in levels[l] : t.id # current_writer["bg"].id
    /\ \A t \in levels[0] : t.id < current_writer["bg"].id
    /\ \A t \in Outputs("user") : t.id # current_writer["bg"].id

\* What CompactLevel captured is still there, and is all there is to capture
\* except for tables flushed to level 0 since.
InputsOK(c) ==
  Compacting(c) =>
    /\ inputs_lvl[c] # {}
    /\ inputs_lvl[c] \subseteq levels[lvl[c]]
    /\ \A t \in levels[lvl[c]] \ inputs_lvl[c] :
         lvl[c] = 0 /\ \A u \in inputs_lvl[c] : t.id > u.id
    /\ pc[c] = "merge" =>
         inputs_next[c] = {t \in levels[lvl[c] + 1] : Overlaps(t, inputs_lvl[c])}

\* What the merge has written: for each key the iterators have yielded, the
\* winner, or nothing when a deletion won and no deeper level has the key.
Kept(c, k) == \E w \in Outputs(c) : IsWinner(c, k, w.ents[k])
Dropped(c, k) ==
  /\ \A w \in Outputs(c) : ~Present(w.ents[k])
  /\ \A e \in Versions(c, k) : IsWinner(c, k, e) => e.type = "kDeletion"
  /\ ~ExistsDeeper(lvl[c], k)

MergeOK(c) ==
  pc[c] = "merge" =>
    /\ todo[c] \subseteq KeysOf(Inputs(c))
    /\ \A k \in KeysOf(Inputs(c)) \ todo[c] : Kept(c, k) \/ Dropped(c, k)
    /\ \A w \in Outputs(c), k \in Key :
         Present(w.ents[k]) => w.ents[k] \in Versions(c, k)
                               /\ IsWinner(c, k, w.ents[k])
    /\ \A w \in Outputs(c), j \in todo[c] : w.largest < j

\* The output tables: new ids, and key ranges that ascend as the merge does.
OutputsOK(c) ==
  pc[c] = "merge" =>
    /\ \A w \in Outputs(c) : /\ WellFormed(w)
                             /\ w.id # 0
                             /\ \A l \in Level : \A t \in levels[l] : w.id # t.id
    /\ \A w, x \in Outputs(c) : w # x => w.id # x.id /\ Apart(w, x)
    /\ current_writer[c].id # 0 =>
         \A w \in new_sstables[c] : w.largest < current_writer[c].smallest

CompactInv ==
  FlushIdNewest /\ \A c \in Thread : InputsOK(c) /\ MergeOK(c) /\ OutputsOK(c)

-----------------------------------------------------------------------------
(* A Get that found nothing in the memtables: whatever its second section  *)
(* can find by then, the key had during the call.                          *)
ReadersOK ==
  \A r \in Reader : rpc[r] = "sst" =>
    /\ Visible(LevelFind(rkey[r])) \in seen[r]
    /\ \A i \in DOMAIN immutable_memtables :
         Present(immutable_memtables[i][rkey[r]])
           => Visible(immutable_memtables[i][rkey[r]]) \in seen[r]
    /\ ~writing /\ Present(memtable[rkey[r]])
         => Visible(memtable[rkey[r]]) \in seen[r]

ReadsInv == ReadersOK /\ GetReturnsCurrent

IndInv == ControlInv /\ OneCompactor /\ TablesInv /\ MemInv /\ CompactInv
            /\ ReadsInv
=============================================================================
