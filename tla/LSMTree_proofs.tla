-------------------------- MODULE LSMTree_proofs --------------------------
(***************************************************************************)
(* IndInv is an invariant of LSMTree with one compactor at a time, and the *)
(* properties of its reads follow from it.                                 *)
(***************************************************************************)
EXTENDS LSMControl_proofs

-----------------------------------------------------------------------------
(* FlushInstall: the front memtable joins level 0. *)

\* FlushMemTable appends one well-formed table with the front memtable's entries.
LEMMA FlushInstallLevels ==
  ASSUME IndInv, FlushInstall
  PROVE  \E new \in Table :
           /\ new.ents = immutable_memtables[1]
           /\ new.id = current_writer["bg"].id
           /\ WellFormed(new)
           /\ levels' = [levels EXCEPT ![0] = @ \cup {new}]
<1>1. PICK s \in Key, g \in Key :
        /\ IsRange(Head(immutable_memtables), s, g)
        /\ levels' = [levels EXCEPT ![0] = @ \cup
            {[id |-> current_writer["bg"].id, smallest |-> s,
              largest |-> g, ents |-> Head(immutable_memtables)]}]
  BY DEF FlushInstall
<1> DEFINE new == [id |-> current_writer["bg"].id, smallest |-> s,
                   largest |-> g, ents |-> Head(immutable_memtables)]
<1>2. Head(immutable_memtables) = immutable_memtables[1]
      /\ Head(immutable_memtables) \in MemTable
  BY DEF FlushInstall, IndInv, ControlInv, FlushOK, TypeOK
<1>3. new \in Table
  <2>1. current_writer["bg"].id \in Nat
    BY DEF IndInv, ControlInv, TypeOK, Thread, Table
  <2> QED BY <1>2, <2>1, KeyAssumption DEF Table
<1>4. WellFormed(new)
  BY <1>1 DEF WellFormed
<1> QED BY <1>1, <1>2, <1>3, <1>4

\* The new table shadows every older one, so the tables stay in order.
LEMMA FlushInstallTables ==
  ASSUME IndInv, FlushInstall
  PROVE  TablesOK(levels')
<1>1. PICK new \in Table :
           /\ new.ents = immutable_memtables[1]
           /\ new.id = current_writer["bg"].id
           /\ WellFormed(new)
           /\ levels' = [levels EXCEPT ![0] = @ \cup {new}]
  BY FlushInstallLevels
<1>2. /\ levels \in [Level -> SUBSET Table]
      /\ 0 \in Level
      /\ TablesOK(levels)
  BY LevelFacts DEF IndInv, ControlInv, TypeOK, TablesInv
<1>3. /\ levels'[0] = levels[0] \cup {new}
      /\ \A l \in Level \ {0} : levels'[l] = levels[l]
  BY <1>1, <1>2
<1>4. \A l \in Level : \A t \in levels[l] :
        /\ t \in Table
        /\ Newer(new.ents, t.ents)
        /\ t.id # new.id
        /\ l = 0 => t.id < new.id
  <2>1. pc["bg"] = "install" /\ 1 \in DOMAIN immutable_memtables /\ ~Flushed(1)
    BY DEF FlushInstall, IndInv, ControlInv, FlushOK, TypeOK, Flushed
  <2> QED BY <1>1, <1>2, <2>1
          DEF IndInv, MemInv, MemAboveLevels, CompactInv, FlushIdNewest
<1>5. TablesWellFormed(levels')
  BY <1>1, <1>2, <1>3 DEF TablesOK, TablesWellFormed
<1>6. IdsUnique(levels')
  <2> SUFFICES ASSUME NEW l \in Level, NEW m \in Level, NEW t \in levels'[l],
                      NEW u \in levels'[m], t.id = u.id
               PROVE  l = m /\ t = u
    BY DEF IdsUnique
  <2>1. CASE t \in levels[l] /\ u \in levels[m]
    BY <2>1, <1>2 DEF TablesOK, IdsUnique
  <2>2. CASE t \notin levels[l] \/ u \notin levels[m]
    BY <2>2, <1>3, <1>4
  <2> QED BY <2>1, <2>2
<1>7. LevelsOrdered(levels')
  <2>1. ASSUME NEW t \in levels'[0], NEW u \in levels'[0], t.id > u.id
        PROVE  Newer(t.ents, u.ents)
    <3>1. CASE t \in levels[0] /\ u \in levels[0]
      BY <2>1, <3>1, <1>2 DEF TablesOK, LevelsOrdered
    <3>2. CASE t = new /\ u \in levels[0]
      BY <3>2, <1>2, <1>4
    <3>3. CASE u = new
      <4>1. t = new \/ t.id < new.id
        BY <1>2, <1>3, <1>4
      <4>2. t.id \in Nat /\ new.id \in Nat
        BY <1>2, <1>3 DEF Table
      <4> QED BY <2>1, <3>3, <4>1, <4>2
    <3> QED BY <3>1, <3>2, <3>3, <1>3
  <2>2. ASSUME NEW l \in Level, NEW m \in Level, NEW t \in levels'[l],
               NEW u \in levels'[m], l < m
        PROVE  Newer(t.ents, u.ents)
    <3>1. m # 0 /\ u \in levels[m]
      BY <2>2, <1>3, LevelFacts
    <3>2. CASE t \in levels[l]
      BY <2>2, <3>1, <3>2, <1>2 DEF TablesOK, LevelsOrdered
    <3>3. CASE t = new
      BY <3>1, <3>3, <1>4
    <3> QED BY <3>2, <3>3, <1>3
  <2> QED BY <2>1, <2>2 DEF LevelsOrdered
<1>8. Disjoint(levels')
  BY <1>2, <1>3 DEF TablesOK, Disjoint
<1> QED BY <1>5, <1>6, <1>7, <1>8 DEF TablesOK

\* Facts about the levels after a step, in the form the search lemmas need.
LEMMA LevelsAfter ==
  ASSUME IndInv, SerialNext
  PROVE  /\ levels' \in [Level -> SUBSET Table]
         /\ next_sstable_id' \in Nat
         /\ \A l \in Level : \A t \in levels'[l] : t.id < next_sstable_id'
<1>1. ControlInv'
  BY NextControl DEF IndInv, SerialNext
<1> QED BY <1>1 DEF ControlInv, TypeOK, IdsBelowNext

\* Facts about the levels before a step, in the same form.
LEMMA LevelsBefore ==
  ASSUME IndInv
  PROVE  /\ levels \in [Level -> SUBSET Table]
         /\ next_sstable_id \in Nat
         /\ \A l \in Level : \A t \in levels[l] :
              /\ t.id < next_sstable_id
              /\ t \in Table
              /\ \A k \in Key : t.ents[k] \in Entry /\ t.ents[k].seq \in Nat
         /\ TablesOK(levels)
BY DEF IndInv, ControlInv, TypeOK, IdsBelowNext, TablesInv, Table, MemTable, Entry

\* The level search returns the newest version in the levels, or nothing when
\* there is none.
LEMMA LevelFindIs ==
  ASSUME IndInv, NEW k \in Key
  PROVE  \/ /\ LevelFind(k) = Absent
            /\ \A l \in Level : \A t \in levels[l] : ~Present(t.ents[k])
         \/ \E l \in Level : \E t \in levels[l] :
              /\ Present(t.ents[k]) /\ LevelFind(k) = t.ents[k]
              /\ \A m \in Level : \A u \in levels[m] :
                   u.ents[k].seq <= t.ents[k].seq
<1>1. CASE \A l \in Level : \A t \in levels[l] : ~Present(t.ents[k])
  BY <1>1, LevelsBefore, SearchLevelsNothing DEF LevelFind
<1>2. CASE \E l \in Level : \E t \in levels[l] : Present(t.ents[k])
  <2>1. /\ \A l \in Level : \A t \in levels[l] : t.ents[k].seq <= LevelFind(k).seq
        /\ LevelFind(k) \in Entry
    BY LevelsBefore, SearchLevelsNewest, SearchLevelsFinds DEF LevelFind
  <2>2. LevelFind(k) # Absent
    BY <1>2, <2>1, LevelsBefore DEF Present, Absent
  <2>3. \E l \in Level : \E t \in levels[l] :
          Present(t.ents[k]) /\ LevelFind(k) = t.ents[k]
    BY <2>2, LevelsBefore, SearchLevelsFinds DEF LevelFind
  <2> QED BY <2>1, <2>3
<1> QED BY <1>1, <1>2

\* After a flush the level search finds the flushed version of a key, if the
\* memtable had one, and otherwise what it found before.
LEMMA FlushInstallFind ==
  ASSUME IndInv, SerialNext, FlushInstall, NEW k \in Key
  PROVE  LevelFind(k)' = IF Present(immutable_memtables[1][k])
                           THEN immutable_memtables[1][k]
                           ELSE LevelFind(k)
<1>1. PICK new \in Table :
           /\ new.ents = immutable_memtables[1]
           /\ new.id = current_writer["bg"].id
           /\ WellFormed(new)
           /\ levels' = [levels EXCEPT ![0] = @ \cup {new}]
  BY FlushInstallLevels
<1>2. /\ levels'[0] = levels[0] \cup {new}
      /\ \A l \in Level \ {0} : levels'[l] = levels[l]
      /\ \A l \in Level : levels[l] \subseteq levels'[l]
  BY <1>1, LevelsBefore, LevelFacts
<1>3. new.ents[k] \in Entry /\ new.ents[k].seq \in Nat
  BY DEF Table, MemTable, Entry
<1>4. TablesOK(levels')
  BY FlushInstallTables
<1>5. CASE Present(new.ents[k])
  <2>1. \A l \in Level : \A t \in levels[l] : Newer(new.ents, t.ents)
    <3>1. pc["bg"] = "install" /\ 1 \in DOMAIN immutable_memtables /\ ~Flushed(1)
      BY DEF FlushInstall, IndInv, ControlInv, FlushOK, TypeOK, Flushed
    <3> QED BY <1>1, <3>1 DEF IndInv, MemInv, MemAboveLevels
  <2>2. \A l \in Level : \A t \in levels[l] : t.ents[k].seq <= new.ents[k].seq
    BY <1>3, <1>5, <2>1, LevelsBefore DEF Newer, Present
  <2>3. \A l \in Level : \A t \in levels'[l] : t.ents[k].seq <= new.ents[k].seq
    BY <1>2, <1>3, <2>2
  <2>4. new \in levels'[0]
    BY <1>2
  <2>5. SearchLevels(levels', k) = new.ents[k]
    BY <1>4, <1>5, <2>3, <2>4, LevelsAfter, LevelFacts, SearchLevelsIs
  <2> QED BY <1>1, <1>5, <2>5 DEF LevelFind
<1>6. CASE ~Present(new.ents[k])
  <2>1. CASE /\ LevelFind(k) = Absent
             /\ \A l \in Level : \A t \in levels[l] : ~Present(t.ents[k])
    <3>1. \A l \in Level : \A t \in levels'[l] : ~Present(t.ents[k])
      BY <1>2, <1>6, <2>1
    <3>2. SearchLevels(levels', k) = Absent
      BY <3>1, LevelsAfter, SearchLevelsNothing
    <3> QED BY <1>1, <1>6, <2>1, <3>2 DEF LevelFind
  <2>2. ASSUME NEW l \in Level, NEW t \in levels[l],
               Present(t.ents[k]), LevelFind(k) = t.ents[k],
               \A m \in Level : \A u \in levels[m] : u.ents[k].seq <= t.ents[k].seq
        PROVE  LevelFind(k)' = LevelFind(k)
    <3>1. \A m \in Level : \A u \in levels'[m] : u.ents[k].seq <= t.ents[k].seq
      BY <1>2, <1>3, <1>6, <2>2, LevelsBefore DEF Present
    <3>2. t \in levels'[l]
      BY <1>2
    <3>3. SearchLevels(levels', k) = t.ents[k]
      BY <1>4, <2>2, <3>1, <3>2, LevelsAfter, SearchLevelsIs
    <3> QED BY <2>2, <3>3 DEF LevelFind
  <2> QED BY <1>1, <1>6, <2>1, <2>2, LevelFindIs
<1> QED BY <1>5, <1>6

-----------------------------------------------------------------------------
(* CompactInstall: the inputs are replaced by the outputs. *)

\* Erasing the inputs by file id erases exactly the inputs.
LEMMA CompactInstallLevels ==
  ASSUME IndInv, NEW c \in Thread, CompactInstall(c)
  PROVE  /\ lvl[c] \in Level /\ lvl[c] + 1 \in Level /\ lvl[c] \in Nat
         /\ levels'[lvl[c]] = levels[lvl[c]] \ inputs_lvl[c]
         /\ levels'[lvl[c] + 1] = (levels[lvl[c] + 1] \ inputs_next[c]) \cup Outputs(c)
         /\ \A m \in Level \ {lvl[c], lvl[c] + 1} : levels'[m] = levels[m]
         /\ inputs_lvl[c] \subseteq levels[lvl[c]]
         /\ inputs_next[c] \subseteq levels[lvl[c] + 1]
<1> DEFINE l == lvl[c]
<1>1. l \in Level /\ l + 1 \in Level /\ l \in Nat
  BY NextLevel DEF CompactInstall, IndInv, ControlInv, LvlOK, TypeOK
<1>2. /\ inputs_lvl[c] \subseteq levels[l]
      /\ inputs_next[c] \subseteq levels[l + 1]
  BY DEF CompactInstall, IndInv, CompactInv, InputsOK, Compacting
<1>3. \A t \in levels[l] : t.id \in IdsOf(inputs_lvl[c]) <=> t \in inputs_lvl[c]
  BY <1>1, <1>2, LevelsBefore DEF IdsOf, TablesOK, IdsUnique
<1>4. \A t \in levels[l + 1] : t.id \in IdsOf(inputs_next[c]) <=> t \in inputs_next[c]
  BY <1>1, <1>2, LevelsBefore DEF IdsOf, TablesOK, IdsUnique
<1>5. levels' = [levels EXCEPT
       ![l] = {t \in @ : t.id \notin IdsOf(inputs_lvl[c])},
       ![l + 1] = {t \in @ : t.id \notin IdsOf(inputs_next[c])} \cup Outputs(c)]
  BY DEF CompactInstall
<1>6. /\ levels'[l] = {t \in levels[l] : t.id \notin IdsOf(inputs_lvl[c])}
      /\ levels'[l + 1] = {t \in levels[l + 1] : t.id \notin IdsOf(inputs_next[c])}
                            \cup Outputs(c)
      /\ \A m \in Level \ {l, l + 1} : levels'[m] = levels[m]
  BY <1>1, <1>5, LevelsBefore
<1> QED BY <1>1, <1>2, <1>3, <1>4, <1>6

\* What the outputs hold is held by inputs, and is the newest of it.
LEMMA OutputsFromInputs ==
  ASSUME IndInv, NEW c \in Thread, pc[c] = "merge",
         NEW w \in Outputs(c), NEW k \in Key, Present(w.ents[k])
  PROVE  /\ \E s \in Inputs(c) : w.ents[k] = s.ents[k]
         /\ \A s \in Inputs(c) : s.ents[k].seq <= w.ents[k].seq
BY DEF IndInv, CompactInv, MergeOK, Versions, IsWinner

\* Replacing the inputs of a compaction by its outputs keeps the tables in order
\* and the levels below 0 disjoint.
LEMMA CompactInstallTables ==
  ASSUME IndInv, NEW c \in Thread, CompactInstall(c)
  PROVE  TablesOK(levels')
<1> DEFINE l == lvl[c]
<1>1. /\ l \in Level /\ l + 1 \in Level /\ l \in Nat
      /\ levels'[l] = levels[l] \ inputs_lvl[c]
      /\ levels'[l + 1] = (levels[l + 1] \ inputs_next[c]) \cup Outputs(c)
      /\ \A m \in Level \ {l, l + 1} : levels'[m] = levels[m]
      /\ inputs_lvl[c] \subseteq levels[l]
      /\ inputs_next[c] \subseteq levels[l + 1]
  BY CompactInstallLevels
<1>2. pc[c] = "merge" /\ Compacting(c)
  BY DEF CompactInstall, Compacting
<1>3. \A m \in Level : \A t \in levels'[m] :
        t \in levels[m] \/ (m = l + 1 /\ t \in Outputs(c))
  BY <1>1
<1>4. OutputsOK(c) /\ InputsOK(c) /\ TablesOK(levels)
  BY DEF IndInv, CompactInv, TablesInv
<1> HIDE DEF l
<1>5. TablesWellFormed(levels')
  BY <1>2, <1>3, <1>4 DEF TablesOK, TablesWellFormed, OutputsOK
<1>6. IdsUnique(levels')
  <2> SUFFICES ASSUME NEW m \in Level, NEW n \in Level, NEW t \in levels'[m],
                      NEW u \in levels'[n], t.id = u.id
               PROVE  m = n /\ t = u
    BY DEF IdsUnique
  <2>1. CASE t \in levels[m] /\ u \in levels[n]
    BY <2>1, <1>4 DEF TablesOK, IdsUnique
  <2>2. CASE t \in Outputs(c) /\ u \in Outputs(c) /\ m = l + 1 /\ n = l + 1
    BY <2>2, <1>2, <1>4 DEF OutputsOK
  <2>3. CASE (t \in Outputs(c) /\ u \in levels[n]) \/ (u \in Outputs(c) /\ t \in levels[m])
    BY <2>3, <1>2, <1>4 DEF OutputsOK
  <2> QED BY <2>1, <2>2, <2>3, <1>3
<1>7. LevelsOrdered(levels')
  <2>1. levels'[0] \subseteq levels[0]
    BY <1>1, <1>3, LevelFacts
  <2>2. ASSUME NEW m \in Level, NEW n \in Level, NEW t \in levels'[m],
               NEW u \in levels'[n], m < n, NEW k \in Key,
               Present(t.ents[k]), Present(u.ents[k])
        PROVE  t.ents[k].seq > u.ents[k].seq
    <3>1. CASE t \in levels[m] /\ u \in levels[n]
      BY <2>2, <3>1, <1>4 DEF TablesOK, LevelsOrdered, Newer
    <3>2. CASE t \in Outputs(c) /\ m = l + 1
      <4>1. PICK s \in Inputs(c) : t.ents[k] = s.ents[k]
        BY <2>2, <3>2, <1>2, OutputsFromInputs
      <4>2. u \in levels[n]
        BY <2>2, <3>2, <1>1, <1>3
      <4>3. \E i \in {l, l + 1} : s \in levels[i]
        BY <4>1, <1>1 DEF Inputs
      <4>4. \E i \in Level : i < n /\ s \in levels[i]
        BY <2>2, <3>2, <4>3, <1>1, LevelFacts
      <4> QED BY <2>2, <4>1, <4>2, <4>4, <1>4 DEF TablesOK, LevelsOrdered, Newer
    <3>3. CASE t \in levels[m] /\ u \in Outputs(c) /\ n = l + 1
      <4>1. PICK s \in Inputs(c) : u.ents[k] = s.ents[k]
        BY <2>2, <3>3, <1>2, OutputsFromInputs
      <4>2. CASE s \in inputs_next[c]
        BY <2>2, <3>3, <4>1, <4>2, <1>1, <1>4 DEF TablesOK, LevelsOrdered, Newer
      <4>3. CASE s \in inputs_lvl[c] /\ m # l
        <5>1. m < l /\ s \in levels[l]
          BY <2>2, <3>3, <4>3, <1>1, LevelFacts
        <5> QED BY <2>2, <3>3, <4>1, <5>1, <1>1, <1>4 DEF TablesOK, LevelsOrdered, Newer
      <4>4. CASE s \in inputs_lvl[c] /\ m = l
        <5>1. l = 0 /\ t.id > s.id /\ s \in levels[0] /\ t \in levels[0]
          BY <2>2, <3>3, <4>4, <1>1, <1>2, <1>4 DEF InputsOK, l
        <5> QED BY <2>2, <4>1, <5>1, <1>4 DEF TablesOK, LevelsOrdered, Newer
      <4> QED BY <4>1, <4>2, <4>3, <4>4 DEF Inputs
    <3> QED BY <3>1, <3>2, <3>3, <1>3
  <2> QED BY <2>1, <2>2, <1>4 DEF TablesOK, LevelsOrdered, Newer
<1>8. Disjoint(levels')
  <2>1. ASSUME NEW u \in levels[l + 1] \ inputs_next[c], NEW w \in Outputs(c)
        PROVE  Apart(u, w)
    <3>1. /\ w.smallest \in Key /\ w.largest \in Key
          /\ Present(w.ents[w.smallest]) /\ Present(w.ents[w.largest])
      BY <1>2, <1>4 DEF OutputsOK, WellFormed, IsRange
    <3>2. PICK s \in Inputs(c) : Present(s.ents[w.smallest])
      BY <1>2, <3>1, OutputsFromInputs
    <3>3. PICK g \in Inputs(c) : Present(g.ents[w.largest])
      BY <1>2, <3>1, OutputsFromInputs
    <3>4. \A t \in levels[l] \cup levels[l + 1] :
            /\ t.smallest \in Nat /\ t.largest \in Nat
            /\ t.smallest <= t.largest
            /\ \A k \in Key : Present(t.ents[k]) => t.smallest <= k /\ k <= t.largest
      BY <1>1, <1>4, LevelsBefore, KeyAssumption
         DEF TablesOK, TablesWellFormed, WellFormed, IsRange
    <3>5. /\ s.smallest <= w.smallest /\ w.largest <= g.largest
          /\ s \in levels[l] \cup levels[l + 1] /\ g \in levels[l] \cup levels[l + 1]
      BY <1>1, <3>1, <3>2, <3>3, <3>4 DEF Inputs
    <3>6. \A v \in inputs_next[c] : Overlaps(v, inputs_lvl[c]) /\ Apart(u, v)
      <4>1. l + 1 \in Level \ {0}
        BY <1>1
      <4> QED BY <4>1, <1>1, <1>2, <1>4 DEF InputsOK, TablesOK, Disjoint, l
    <3>7. ~Overlaps(u, inputs_lvl[c])
      BY <1>1, <1>2, <1>4 DEF InputsOK, l
    <3>8. w.smallest \in Nat /\ w.largest \in Nat
      BY <3>1, KeyAssumption
    <3>9. CASE \A x \in inputs_lvl[c] : ~(u.smallest <= x.largest)
      <4>1. g.largest < u.smallest
        <5>1. CASE g \in inputs_lvl[c]
          BY <5>1, <1>1, <3>4, <3>9
        <5>2. CASE g \in inputs_next[c]
          <6>1. PICK x \in inputs_lvl[c] : g.smallest <= x.largest
            BY <5>2, <3>6 DEF Overlaps
          <6>2. x.largest < u.smallest
            BY <1>1, <3>4, <3>9
          <6>3. Apart(u, g)
            BY <5>2, <3>6
          <6> QED BY <6>1, <6>2, <6>3, <1>1, <3>4, <5>2 DEF Apart
        <5> QED BY <3>3, <5>1, <5>2 DEF Inputs
      <4> QED BY <4>1, <3>4, <3>5, <3>8 DEF Apart
    <3>10. CASE \A x \in inputs_lvl[c] : ~(u.largest >= x.smallest)
      <4>1. u.largest < s.smallest
        <5>1. CASE s \in inputs_lvl[c]
          BY <5>1, <1>1, <3>4, <3>10
        <5>2. CASE s \in inputs_next[c]
          <6>1. PICK x \in inputs_lvl[c] : s.largest >= x.smallest
            BY <5>2, <3>6 DEF Overlaps
          <6>2. u.largest < x.smallest
            BY <1>1, <3>4, <3>10
          <6>3. Apart(u, s)
            BY <5>2, <3>6
          <6> QED BY <6>1, <6>2, <6>3, <1>1, <3>4, <5>2 DEF Apart
        <5> QED BY <3>2, <5>1, <5>2 DEF Inputs
      <4> QED BY <4>1, <3>4, <3>5, <3>8 DEF Apart
    <3> QED BY <3>7, <3>9, <3>10 DEF Overlaps
  <2>2. ASSUME NEW m \in Level \ {0}, NEW t \in levels'[m], NEW u \in levels'[m], t # u
        PROVE  Apart(t, u)
    <3>1. CASE t \in levels[m] /\ u \in levels[m]
      BY <2>2, <3>1, <1>4 DEF TablesOK, Disjoint
    <3>2. CASE m = l + 1
      <4>1. /\ t \in (levels[l + 1] \ inputs_next[c]) \cup Outputs(c)
            /\ u \in (levels[l + 1] \ inputs_next[c]) \cup Outputs(c)
        BY <3>2, <1>1
      <4>2. CASE t \in Outputs(c) /\ u \in Outputs(c)
        BY <2>2, <4>2, <1>2, <1>4 DEF OutputsOK
      <4> QED BY <2>1, <3>1, <3>2, <4>1, <4>2 DEF Apart
    <3> QED BY <3>1, <3>2, <1>3
  <2> QED BY <2>2 DEF Disjoint
<1> QED BY <1>5, <1>6, <1>7, <1>8 DEF TablesOK

\* A version in the levels after the step was in the levels before it.
LEMMA CompactInstallVersions ==
  ASSUME IndInv, NEW c \in Thread, CompactInstall(c), NEW k \in Key,
         NEW m \in Level, NEW u \in levels'[m], Present(u.ents[k])
  PROVE  \E n \in Level : \E t \in levels[n] : u.ents[k] = t.ents[k]
<1>1. pc[c] = "merge"
  BY DEF CompactInstall
<1>2. CASE u \in levels[m]
  BY <1>2
<1>3. CASE u \in Outputs(c)
  <2>1. PICK s \in Inputs(c) : u.ents[k] = s.ents[k]
    BY <1>1, <1>3, OutputsFromInputs
  <2> QED BY <2>1, CompactInstallLevels DEF Inputs
<1> QED BY <1>2, <1>3, CompactInstallLevels

\* A compaction changes no key's value: the winner stays, and a deletion is
\* dropped only with everything it hides.
LEMMA CompactInstallFind ==
  ASSUME IndInv, SerialNext, NEW c \in Thread, CompactInstall(c), NEW k \in Key
  PROVE  Visible(LevelFind(k))' = Visible(LevelFind(k))
<1> DEFINE l == lvl[c]
<1>1. /\ l \in Level /\ l + 1 \in Level /\ l \in Nat
      /\ levels'[l] = levels[l] \ inputs_lvl[c]
      /\ levels'[l + 1] = (levels[l + 1] \ inputs_next[c]) \cup Outputs(c)
      /\ \A m \in Level \ {l, l + 1} : levels'[m] = levels[m]
      /\ inputs_lvl[c] \subseteq levels[l]
      /\ inputs_next[c] \subseteq levels[l + 1]
  BY CompactInstallLevels
<1>2. pc[c] = "merge" /\ Compacting(c) /\ todo[c] = {}
  BY DEF CompactInstall, Compacting
<1>3. /\ InputsOK(c) /\ MergeOK(c) /\ TablesOK(levels)
      /\ TablesOK(levels')
  BY CompactInstallTables DEF IndInv, CompactInv, TablesInv
<1> HIDE DEF l
<1>4. Inputs(c) \subseteq levels[l] \cup levels[l + 1]
  BY <1>1 DEF Inputs
<1>5. \A m \in Level : \A t \in levels[m] : t \in levels'[m] \/ t \in Inputs(c)
  BY <1>1 DEF Inputs
<1>6. \A m \in Level : \A u \in levels'[m] : Present(u.ents[k]) =>
        \E n \in Level : \E t \in levels[n] : u.ents[k] = t.ents[k]
  BY CompactInstallVersions
<1>7. CASE /\ LevelFind(k) = Absent
           /\ \A m \in Level : \A t \in levels[m] : ~Present(t.ents[k])
  <2>1. \A m \in Level : \A t \in levels'[m] : ~Present(t.ents[k])
    BY <1>6, <1>7
  <2>2. SearchLevels(levels', k) = Absent
    BY <2>1, LevelsAfter, SearchLevelsNothing
  <2> QED BY <1>7, <2>2 DEF LevelFind, Visible
<1>8. ASSUME NEW m \in Level, NEW t \in levels[m],
             Present(t.ents[k]), LevelFind(k) = t.ents[k],
             \A n \in Level : \A u \in levels[n] : u.ents[k].seq <= t.ents[k].seq
      PROVE  Visible(LevelFind(k))' = Visible(LevelFind(k))
  <2>1. \A n \in Level : \A u \in levels'[n] : u.ents[k].seq <= t.ents[k].seq
    <3>1. \A n \in Level : \A u \in levels'[n] : u.ents[k].seq \in Nat
      BY LevelsAfter DEF Table, MemTable, Entry
    <3> QED BY <1>6, <1>8, <3>1, LevelsBefore DEF Present
  <2>2. ASSUME NEW n \in Level, NEW u \in levels'[n], u.ents[k] = t.ents[k]
        PROVE  Visible(LevelFind(k))' = Visible(LevelFind(k))
    <3>1. SearchLevels(levels', k) = u.ents[k]
      BY <1>3, <1>8, <2>1, <2>2, LevelsAfter, SearchLevelsIs
    <3> QED BY <1>8, <2>2, <3>1 DEF LevelFind, Visible
  <2>3. CASE t \in Inputs(c)
    <3>1. k \in KeysOf(Inputs(c)) \ todo[c]
      BY <1>2, <1>8, <2>3 DEF KeysOf
    <3>2. t.ents[k] \in Versions(c, k) /\ IsWinner(c, k, t.ents[k])
      BY <1>1, <1>4, <1>8, <2>3 DEF Versions, IsWinner
    <3>3. CASE Kept(c, k)
      <4>1. PICK w \in Outputs(c) : IsWinner(c, k, w.ents[k])
        BY <3>3 DEF Kept
      <4>2. w \in levels'[l + 1] /\ w.ents[k].seq \in Nat
        BY <1>1, LevelsAfter DEF Table, MemTable, Entry
      <4>3. t.ents[k].seq <= w.ents[k].seq
        BY <3>2, <4>1 DEF IsWinner
      <4>4. w.ents[k].seq = t.ents[k].seq /\ Present(w.ents[k])
        BY <1>1, <1>8, <2>1, <4>2, <4>3, LevelsBefore DEF Present
      <4>5. PICK s \in Inputs(c) : w.ents[k] = s.ents[k]
        BY <1>2, <4>4, OutputsFromInputs
      <4>6. s = t
        BY <1>1, <1>3, <1>4, <1>8, <4>4, <4>5, LevelsBefore, VersionUnique
      <4> QED BY <1>1, <2>2, <4>2, <4>5, <4>6
    <3>4. CASE Dropped(c, k)
      <4>1. t.ents[k].type = "kDeletion" /\ Visible(LevelFind(k)) = 0
        BY <1>8, <3>2, <3>4 DEF Dropped, Visible
      <4>2. ASSUME NEW n \in Level, NEW u \in levels'[n], Present(u.ents[k])
            PROVE  FALSE
        <5>1. u \in levels[n] /\ u \notin Inputs(c)
          <6>1. u \notin Outputs(c)
            BY <3>4, <4>2 DEF Dropped
          <6>2. u \in levels[n] /\ (n = l => u \notin inputs_lvl[c])
                                /\ (n = l + 1 => u \notin inputs_next[c])
            BY <1>1, <4>2, <6>1
          <6>3. n = l + 1 => u \notin inputs_lvl[c]
            BY <1>1, <1>3, <6>2 DEF TablesOK, IdsUnique
          <6>4. n = l => u \notin inputs_next[c]
            BY <1>1, <1>3, <6>2 DEF TablesOK, IdsUnique
          <6>5. n \notin {l, l + 1} => u \notin inputs_lvl[c] /\ u \notin inputs_next[c]
            BY <1>1, <1>3, <6>2 DEF TablesOK, IdsUnique
          <6> QED BY <6>2, <6>3, <6>4, <6>5 DEF Inputs
        <5>2. u.ents[k].seq <= t.ents[k].seq /\ u.ents[k].seq \in Nat /\ t.ents[k].seq \in Nat
          BY <1>8, <5>1, LevelsBefore
        <5>3. ~Newer(u.ents, t.ents)
          BY <1>8, <4>2, <5>2 DEF Newer
        <5>4. PICK i \in {l, l + 1} : t \in levels[i] /\ i \in Level
          BY <1>1, <1>4, <2>3
        <5>5. /\ u.smallest \in Nat /\ u.largest \in Nat /\ u.smallest <= k /\ k <= u.largest
              /\ t.smallest \in Nat /\ t.largest \in Nat /\ t.smallest <= k /\ k <= t.largest
              /\ k \in Nat
          BY <1>3, <1>8, <4>2, <5>1, KeyAssumption
             DEF TablesOK, TablesWellFormed, WellFormed, IsRange
        <5>6. CASE n < l
          BY <1>1, <1>3, <5>1, <5>3, <5>4, <5>6, LevelFacts DEF TablesOK, LevelsOrdered
        <5>7. CASE n = l
          <6>1. l = 0 /\ \A x \in inputs_lvl[c] : u.id > x.id
            BY <1>1, <1>2, <1>3, <5>1, <5>7 DEF InputsOK, Inputs, l
          <6>2. CASE t \in inputs_lvl[c]
            BY <1>1, <1>3, <5>1, <5>3, <5>7, <6>1, <6>2 DEF TablesOK, LevelsOrdered
          <6>3. CASE t \in inputs_next[c]
            BY <1>1, <1>3, <5>1, <5>3, <5>7, <6>3 DEF TablesOK, LevelsOrdered
          <6> QED BY <2>3, <6>2, <6>3 DEF Inputs
        <5>8. CASE n = l + 1
          <6>1. CASE t \in inputs_lvl[c]
            <7>1. Overlaps(u, inputs_lvl[c])
              BY <5>5, <6>1 DEF Overlaps
            <7> QED BY <1>1, <1>2, <1>3, <5>1, <5>8, <7>1 DEF InputsOK, Inputs, l
          <6>2. CASE t \in inputs_next[c]
            <7>1. ~Apart(u, t)
              BY <5>5 DEF Apart
            <7>2. u = t
              BY <1>1, <1>3, <5>1, <5>8, <6>2, <7>1 DEF TablesOK, Disjoint
            <7> QED BY <2>3, <5>1, <7>2
          <6> QED BY <2>3, <6>1, <6>2 DEF Inputs
        <5>9. CASE n > l + 1
          <6>1. n \in l + 2 .. MaxLevels - 1
            BY <1>1, <5>9, LevelsAssumption DEF Level
          <6>2. Has(u, k)
            BY <4>2, <5>5 DEF Has, Covers
          <6> QED BY <3>4, <5>1, <6>1, <6>2 DEF Dropped, ExistsDeeper, l
        <5> QED BY <1>1, <5>6, <5>7, <5>8, <5>9, LevelFacts
      <4>3. SearchLevels(levels', k) = Absent
        BY <4>2, LevelsAfter, SearchLevelsNothing
      <4> QED BY <4>1, <4>3 DEF LevelFind, Visible, Absent
    <3> QED BY <1>2, <1>3, <3>1, <3>3, <3>4 DEF MergeOK
  <2>4. CASE t \notin Inputs(c)
    BY <1>5, <2>2, <2>4
  <2> QED BY <2>3, <2>4
<1> QED BY <1>7, <1>8, LevelFindIs

-----------------------------------------------------------------------------
(* The tables after any step. *)

\* Only the two install sections change the levels.
LEMMA LevelsChange ==
  ASSUME [SerialNext]_vars
  PROVE  \/ levels' = levels
         \/ FlushInstall
         \/ \E c \in Thread : CompactInstall(c)
BY DEF SerialNext, Next, Write, Get, Flush, Compact, vars, WriteBegin, WriteEntry,
       WriteError, WriteEnd, GetMem, GetSST, FlushPick, FlushAlloc, FlushPop,
       CompactRange, CheckLevel, CompactPick, CompactOverlap, CompactDrop,
       CompactAdd, CompactError

\* Every step keeps the tables in order.
LEMMA NextTables ==
  ASSUME IndInv, [SerialNext]_vars
  PROVE  TablesInv'
<1>1. CASE levels' = levels
  BY <1>1 DEF IndInv, TablesInv
<1> QED BY <1>1, LevelsChange, FlushInstallTables, CompactInstallTables DEF TablesInv

\* What a key reads as in the levels changes only when its newest version is
\* flushed.
LEMMA LevelFindChange ==
  ASSUME IndInv, [SerialNext]_vars, NEW k \in Key
  PROVE  \/ Visible(LevelFind(k))' = Visible(LevelFind(k))
         \/ /\ FlushInstall
            /\ Present(immutable_memtables[1][k])
            /\ LevelFind(k)' = immutable_memtables[1][k]
<1>1. CASE levels' = levels
  BY <1>1 DEF LevelFind, Visible
<1>2. CASE FlushInstall /\ SerialNext
  BY <1>2, FlushInstallFind DEF Visible
<1>3. CASE SerialNext /\ \E c \in Thread : CompactInstall(c)
  BY <1>3, CompactInstallFind
<1>4. CASE UNCHANGED vars
  BY <1>1, <1>4 DEF vars
<1> QED BY <1>1, <1>2, <1>3, <1>4, LevelsChange

-----------------------------------------------------------------------------
(* The memtables. *)

\* Steps that leave the memtables and the levels alone.
LEMMA MemFrame ==
  ASSUME MemInv, ControlInv, UNCHANGED <<memVars, levels>>,
         sequence_number' \in {sequence_number, sequence_number + 1},
         pc'["bg"] = "pop" <=> pc["bg"] = "pop"
  PROVE  MemInv'
<1>1. MemOrdered' /\ MemAboveLevels'
  BY DEF MemInv, MemOrdered, MemAboveLevels, Flushed, memVars
<1>2. FlushedReadable'
  BY DEF MemInv, FlushedReadable, LevelFind, Visible, memVars
<1>3. SeqBound'
  <2>1. /\ sequence_number \in Nat
        /\ \A k \in Key :
             /\ memtable[k].seq \in Nat
             /\ \A i \in DOMAIN immutable_memtables : immutable_memtables[i][k].seq \in Nat
             /\ \A l \in Level : \A t \in levels[l] : t.ents[k].seq \in Nat
    BY DEF ControlInv, TypeOK, MemTable, Entry, Table
  <2> QED BY <2>1 DEF MemInv, SeqBound, memVars
<1> QED BY <1>1, <1>2, <1>3 DEF MemInv

\* The types of the versions in the memtables and of the deque.
LEMMA MemTypes ==
  ASSUME ControlInv
  PROVE  /\ immutable_memtables \in Seq(MemTable)
         /\ memtable \in MemTable
         /\ sequence_number \in Nat
         /\ \A k \in Key : memtable[k] \in Entry /\ memtable[k].seq \in Nat
         /\ \A i \in DOMAIN immutable_memtables, k \in Key :
              /\ immutable_memtables[i][k] \in Entry
              /\ immutable_memtables[i][k].seq \in Nat
BY DEF ControlInv, TypeOK, MemTable, Entry

\* A new entry has the highest sequence number of all.
LEMMA WriteEntryMem == IndInv /\ WriteEntry => MemInv'
<1> SUFFICES ASSUME IndInv, WriteEntry PROVE MemInv'
  OBVIOUS
<1>1. ControlInv /\ MemInv
  BY DEF IndInv
<1>2. Head(batch).key \in Key
  <2>1. batch \in Seq(Op) /\ batch # << >>
    BY <1>1 DEF WriteEntry, ControlInv, TypeOK
  <2>2. Head(batch) \in Op
    BY <2>1
  <2> QED BY <2>2 DEF Op
<1>3. /\ \A k \in Key \ {Head(batch).key} : memtable'[k] = memtable[k]
      /\ memtable'[Head(batch).key].seq = sequence_number
  BY <1>1, <1>2, MemTypes DEF WriteEntry, MemTable
<1>4. /\ immutable_memtables' = immutable_memtables
      /\ levels' = levels
      /\ pc' = pc
      /\ sequence_number' = sequence_number + 1
  BY DEF WriteEntry
<1>5. MemOrdered'
  <2>1. \A i \in DOMAIN immutable_memtables : Newer(memtable', immutable_memtables[i])
    BY <1>1, <1>3, MemTypes DEF MemInv, MemOrdered, SeqBound, Newer
  <2> QED BY <1>1, <1>4, <2>1 DEF MemInv, MemOrdered
<1>6. MemAboveLevels'
  <2>1. \A l \in Level : \A t \in levels[l] : Newer(memtable', t.ents)
    BY <1>1, <1>3, MemTypes, LevelsBefore DEF MemInv, MemAboveLevels, SeqBound, Newer
  <2> QED BY <1>1, <1>4, <2>1 DEF MemInv, MemAboveLevels, Flushed
<1>7. FlushedReadable'
  BY <1>1, <1>4 DEF MemInv, FlushedReadable, LevelFind, Visible
<1>8. SeqBound'
  BY <1>1, <1>3, <1>4, MemTypes, LevelsBefore DEF MemInv, SeqBound
<1> QED BY <1>5, <1>6, <1>7, <1>8 DEF MemInv

\* Rotating the memtable to the back of the deque keeps the memtables in order.
LEMMA WriteEndMem == IndInv /\ WriteEnd => MemInv'
<1> SUFFICES ASSUME IndInv, WriteEnd PROVE MemInv'
  OBVIOUS
<1>1. ControlInv /\ MemInv
  BY DEF IndInv
<1>2. levels' = levels /\ pc' = pc /\ sequence_number' = sequence_number
  BY DEF WriteEnd
<1>3. CASE UNCHANGED memVars
  BY <1>1, <1>2, <1>3, MemFrame
<1>4. CASE /\ immutable_memtables' = Append(immutable_memtables, memtable)
           /\ memtable' = EmptyTable
  <2> DEFINE n == Len(immutable_memtables)
  <2>1. /\ n \in Nat
        /\ DOMAIN immutable_memtables = 1 .. n
        /\ DOMAIN immutable_memtables' = 1 .. n + 1
        /\ \A i \in 1 .. n : immutable_memtables'[i] = immutable_memtables[i]
        /\ immutable_memtables'[n + 1] = memtable
    BY <1>1, <1>4, MemTypes, AppendProperties, LenProperties
  <2> HIDE DEF n
  <2>2. \A k \in Key : memtable'[k] = Absent /\ ~Present(memtable'[k])
    BY <1>4, EntryFacts DEF EmptyTable
  <2>3. pc["bg"] = "pop" => 1 \in 1 .. n
    BY <1>1, <2>1 DEF ControlInv, FlushOK, TypeOK, n
  <2>4. MemOrdered'
    BY <1>1, <2>1, <2>2 DEF MemInv, MemOrdered, Newer
  <2>5. MemAboveLevels'
    BY <1>1, <1>2, <2>1, <2>2, <2>3 DEF MemInv, MemAboveLevels, Newer, Flushed
  <2>6. FlushedReadable'
    BY <1>1, <1>2, <2>1, <2>3 DEF MemInv, FlushedReadable, LevelFind, Visible
  <2>7. SeqBound'
    <3>1. \A k \in Key : memtable'[k].seq < sequence_number
      BY <1>1, <2>2 DEF Absent, ControlInv, TypeOK
    <3> QED BY <1>1, <1>2, <2>1, <3>1 DEF MemInv, SeqBound
  <2> QED BY <2>4, <2>5, <2>6, <2>7 DEF MemInv
<1> QED BY <1>3, <1>4 DEF WriteEnd

\* Popping the flushed memtable keeps the memtables in order.
LEMMA FlushPopMem == IndInv /\ FlushPop => MemInv'
<1> SUFFICES ASSUME IndInv, FlushPop PROVE MemInv'
  OBVIOUS
<1>1. ControlInv /\ MemInv
  BY DEF IndInv
<1>2. /\ levels' = levels /\ sequence_number' = sequence_number
      /\ memtable' = memtable /\ pc'["bg"] = "check"
  BY <1>1 DEF FlushPop, Goto, writeVars, ControlInv, TypeOK, Thread
<1> DEFINE n == Len(immutable_memtables)
<1>3. /\ n \in Nat \ {0}
      /\ DOMAIN immutable_memtables = 1 .. n
      /\ DOMAIN immutable_memtables' = 1 .. n - 1
      /\ \A i \in 1 .. n - 1 : immutable_memtables'[i] = immutable_memtables[i + 1]
  BY <1>1 DEF FlushPop, ControlInv, FlushOK, TypeOK
<1> HIDE DEF n
<1>4. MemOrdered'
  <2>1. \A i \in 1 .. n - 1 : i + 1 \in DOMAIN immutable_memtables
    BY <1>3
  <2>2. ASSUME NEW i \in 1 .. n - 1, NEW j \in 1 .. n - 1, i > j
        PROVE  Newer(immutable_memtables'[i], immutable_memtables'[j])
    <3>1. i + 1 > j + 1
      BY <1>3, <2>2
    <3> QED BY <1>1, <1>3, <2>1, <3>1 DEF MemInv, MemOrdered
  <2> QED BY <1>1, <1>2, <1>3, <2>1, <2>2 DEF MemInv, MemOrdered
<1>5. MemAboveLevels'
  <2>1. ASSUME NEW i \in 1 .. n - 1
        PROVE  i + 1 \in DOMAIN immutable_memtables /\ ~Flushed(i + 1)
    BY <1>3, <2>1 DEF Flushed
  <2>2. ASSUME NEW l \in Level, NEW t \in levels[l], NEW i \in 1 .. n - 1
        PROVE  Newer(immutable_memtables'[i], t.ents)
    <3>1. Newer(immutable_memtables[i + 1], t.ents)
      BY <1>1, <2>1, <2>2 DEF MemInv, MemAboveLevels
    <3> QED BY <1>3, <2>2, <3>1
  <2>3. ASSUME NEW l \in Level, NEW t \in levels[l]
        PROVE  Newer(memtable, t.ents)
    BY <1>1, <2>3 DEF MemInv, MemAboveLevels
  <2> QED BY <1>2, <1>3, <2>2, <2>3 DEF MemAboveLevels
<1>6. FlushedReadable'
  BY <1>2 DEF FlushedReadable
<1>7. SeqBound'
  BY <1>1, <1>2, <1>3 DEF MemInv, SeqBound
<1> QED BY <1>4, <1>5, <1>6, <1>7 DEF MemInv

\* Installing the front memtable's table makes every entry of it readable.
LEMMA FlushInstallMem == IndInv /\ SerialNext /\ FlushInstall => MemInv'
<1> SUFFICES ASSUME IndInv, SerialNext, FlushInstall PROVE MemInv'
  OBVIOUS
<1>1. ControlInv /\ MemInv
  BY DEF IndInv
<1>2. /\ memtable' = memtable /\ immutable_memtables' = immutable_memtables
      /\ sequence_number' = sequence_number
      /\ pc["bg"] = "install" /\ pc'["bg"] = "pop"
  BY <1>1 DEF FlushInstall, Goto, memVars, writeVars, ControlInv, TypeOK, Thread
<1>3. PICK new \in Table :
           /\ new.ents = immutable_memtables[1]
           /\ levels' = [levels EXCEPT ![0] = @ \cup {new}]
  BY FlushInstallLevels
<1>4. \A l \in Level : \A t \in levels'[l] : t \in levels[l] \/ t = new
  BY <1>3, LevelsBefore
<1>5. 1 \in DOMAIN immutable_memtables
      /\ \A i \in DOMAIN immutable_memtables : i # 1 => i > 1
  BY <1>1, <1>2 DEF ControlInv, FlushOK, TypeOK
<1>6. MemOrdered'
  BY <1>1, <1>2 DEF MemInv, MemOrdered
<1>7. MemAboveLevels'
  <2> SUFFICES ASSUME NEW l \in Level, NEW t \in levels'[l]
               PROVE  /\ Newer(memtable, t.ents)
                      /\ \A i \in DOMAIN immutable_memtables :
                           i # 1 => Newer(immutable_memtables[i], t.ents)
    BY <1>2 DEF MemAboveLevels, Flushed
  <2>1. CASE t = new
    BY <1>1, <1>3, <1>5, <2>1 DEF MemInv, MemOrdered
  <2>2. CASE t \in levels[l]
    BY <1>1, <2>2 DEF MemInv, MemAboveLevels, Flushed
  <2> QED BY <1>4, <2>1, <2>2
<1>8. FlushedReadable'
  <2> SUFFICES ASSUME NEW k \in Key, Present(immutable_memtables[1][k])
               PROVE  /\ Visible(LevelFind(k))' = Visible(immutable_memtables[1][k])
                      /\ \A l \in Level : \A t \in levels'[l] :
                           t.ents[k].seq <= immutable_memtables[1][k].seq
    BY <1>2 DEF FlushedReadable, Visible
  <2>1. LevelFind(k)' = immutable_memtables[1][k]
    BY FlushInstallFind
  <2>2. ~Flushed(1)
    BY <1>2 DEF Flushed
  <2>3. \A l \in Level : \A t \in levels[l] :
          t.ents[k].seq <= immutable_memtables[1][k].seq
    BY <1>1, <1>5, <2>2, MemTypes, LevelsBefore DEF MemInv, MemAboveLevels, Newer, Present
  <2> QED BY <1>1, <1>3, <1>4, <1>5, <2>1, <2>3, MemTypes DEF Visible
<1>9. SeqBound'
  BY <1>1, <1>2, <1>3, <1>4, <1>5 DEF MemInv, SeqBound
<1> QED BY <1>6, <1>7, <1>8, <1>9 DEF MemInv

\* A compaction keeps the levels below the memtables, and a flushed memtable
\* readable.
LEMMA CompactInstallMem ==
  ASSUME IndInv, SerialNext, NEW c \in Thread, CompactInstall(c)
  PROVE  MemInv'
<1>1. ControlInv /\ MemInv
  BY DEF IndInv
<1>2. /\ memtable' = memtable /\ immutable_memtables' = immutable_memtables
      /\ sequence_number' = sequence_number
      /\ pc'["bg"] = "pop" <=> pc["bg"] = "pop"
  BY <1>1 DEF CompactInstall, Goto, memVars, writeVars, ControlInv, TypeOK, Thread
<1>3. ASSUME NEW l \in Level, NEW t \in levels'[l], NEW k \in Key
      PROVE  /\ t.ents[k].seq \in Nat
             /\ Present(t.ents[k]) =>
                  \E m \in Level : \E u \in levels[m] : t.ents[k] = u.ents[k]
  BY LevelsAfter, CompactInstallVersions DEF Table, MemTable, Entry
<1>4. MemOrdered'
  BY <1>1, <1>2 DEF MemInv, MemOrdered
<1>5. MemAboveLevels'
  BY <1>1, <1>2, <1>3 DEF MemInv, MemAboveLevels, Newer, Flushed
<1>6. FlushedReadable'
  <2> SUFFICES ASSUME pc["bg"] = "pop", NEW k \in Key, Present(immutable_memtables[1][k])
               PROVE  /\ Visible(LevelFind(k))' = Visible(immutable_memtables[1][k])
                      /\ \A l \in Level : \A t \in levels'[l] :
                           t.ents[k].seq <= immutable_memtables[1][k].seq
    BY <1>2 DEF FlushedReadable, Visible
  <2>1. Visible(LevelFind(k))' = Visible(LevelFind(k))
    BY CompactInstallFind
  <2>2. 1 \in DOMAIN immutable_memtables
    BY <1>1 DEF ControlInv, FlushOK, TypeOK
  <2> QED BY <1>1, <1>3, <2>1, <2>2, MemTypes DEF MemInv, FlushedReadable, Present
<1>7. SeqBound'
  <2>1. ASSUME NEW l \in Level, NEW t \in levels'[l], NEW k \in Key
        PROVE  t.ents[k].seq < sequence_number
    <3>1. CASE Present(t.ents[k])
      BY <1>1, <1>3, <3>1 DEF MemInv, SeqBound
    <3>2. CASE ~Present(t.ents[k])
      BY <1>1, <1>3, <3>2 DEF Present, ControlInv, TypeOK
    <3> QED BY <3>1, <3>2
  <2> QED BY <1>1, <1>2, <2>1 DEF MemInv, SeqBound
<1> QED BY <1>4, <1>5, <1>6, <1>7 DEF MemInv

\* Every step keeps the memtables in order and above the levels.
LEMMA NextMem ==
  ASSUME IndInv, [SerialNext]_vars
  PROVE  MemInv'
<1>1. ControlInv /\ MemInv
  BY DEF IndInv
<1>2. CASE \/ UNCHANGED vars
           \/ WriteBegin
           \/ WriteError
           \/ \E r \in Reader : GetSST(r) \/ \E k \in Key : GetMem(r, k)
  <2>1. /\ UNCHANGED <<memVars, levels, pc>>
        /\ sequence_number' \in {sequence_number, sequence_number + 1}
    BY <1>2 DEF vars, WriteBegin, WriteError, GetSST, GetMem, writeVars
  <2> QED BY <1>1, <2>1, MemFrame
<1>3. CASE FlushPick \/ FlushAlloc \/ CompactRange
  <2>1. /\ UNCHANGED <<memVars, levels, sequence_number>>
        /\ pc'["bg"] = "pop" <=> pc["bg"] = "pop"
    BY <1>1, <1>3 DEF FlushPick, FlushAlloc, CompactRange, Goto, writeVars, ControlInv,
                      TypeOK, Thread
  <2> QED BY <1>1, <2>1, MemFrame
<1>4. ASSUME NEW c \in Thread,
             \/ CheckLevel(c) \/ CompactPick(c) \/ CompactOverlap(c)
             \/ CompactDrop(c) \/ CompactAdd(c) \/ CompactError(c)
      PROVE  MemInv'
  <2>1. UNCHANGED <<memVars, levels, sequence_number>>
    BY <1>4 DEF CheckLevel, CompactPick, CompactOverlap, CompactDrop, CompactAdd,
                CompactError, writeVars
  <2>2. pc'["bg"] = "pop" <=> pc["bg"] = "pop"
    <3>1. pc \in [Thread -> {"idle", "alloc", "install", "pop", "check", "pick",
                             "overlap", "merge"}]
      BY <1>1 DEF ControlInv, TypeOK
    <3> QED BY <1>4, <3>1 DEF CheckLevel, CompactPick, CompactOverlap, CompactDrop,
                              CompactAdd, CompactError, Goto, Thread
  <2> QED BY <1>1, <2>1, <2>2, MemFrame
<1> QED BY <1>2, <1>3, <1>4, WriteEntryMem, WriteEndMem, FlushPopMem, FlushInstallMem,
           CompactInstallMem
        DEF SerialNext, Next, Write, Get, Flush, Compact

-----------------------------------------------------------------------------
(* The compaction in progress. *)

CompactOK(c) == InputsOK(c) /\ MergeOK(c) /\ OutputsOK(c)

\* Steps that leave c's locals and the levels alone.
CompactLocals(c) == <<pc[c], lvl[c], inputs_lvl[c], inputs_next[c], todo[c],
                      current_writer[c], new_sstables[c]>>
\* A step that changes neither the levels nor c's locals preserves CompactOK(c).
LEMMA CompactFrame ==
  ASSUME NEW c \in Thread, CompactOK(c),
         levels' = levels, UNCHANGED CompactLocals(c)
  PROVE  CompactOK(c)'
<1> USE DEF CompactLocals
<1>1. InputsOK(c)'
  BY DEF CompactOK, InputsOK, Compacting
<1>2. MergeOK(c)'
  <2>1. Outputs(c)' = Outputs(c) /\ Inputs(c)' = Inputs(c)
    BY DEF Outputs, Inputs
  <2>2. \A k : Versions(c, k)' = Versions(c, k)
    BY <2>1 DEF Versions
  <2>3. \A k, e : IsWinner(c, k, e)' <=> IsWinner(c, k, e)
    BY <2>2 DEF IsWinner
  <2>4. \A k : (Kept(c, k)' <=> Kept(c, k)) /\ (Dropped(c, k)' <=> Dropped(c, k))
    BY <2>1, <2>2, <2>3 DEF Kept, Dropped, ExistsDeeper
  <2> QED BY <2>1, <2>2, <2>3, <2>4 DEF CompactOK, MergeOK
<1>3. OutputsOK(c)'
  BY DEF CompactOK, OutputsOK, Outputs
<1> QED BY <1>1, <1>2, <1>3 DEF CompactOK

\* Outside CompactLevel there is nothing to show.
LEMMA NotCompacting ==
  ASSUME NEW c \in Thread, ~Compacting(c)
  PROVE  CompactOK(c)
BY DEF CompactOK, InputsOK, MergeOK, OutputsOK, Compacting

\* Capturing the level establishes InputsOK.
LEMMA CompactPickOK ==
  ASSUME IndInv, NEW c \in Thread, CompactPick(c)
  PROVE  CompactOK(c)'
<1>1. pc'[c] \in {"check", "overlap"}
  BY DEF CompactPick, Goto, IndInv, ControlInv, TypeOK
<1>2. InputsOK(c)'
  BY <1>1 DEF CompactPick, Goto, InputsOK, Compacting, IndInv, ControlInv, TypeOK
<1>3. MergeOK(c)' /\ OutputsOK(c)'
  BY <1>1 DEF MergeOK, OutputsOK
<1> QED BY <1>2, <1>3 DEF CompactOK

\* Capturing the overlapping tables starts a merge that has produced nothing.
LEMMA CompactOverlapOK ==
  ASSUME IndInv, NEW c \in Thread, CompactOverlap(c)
  PROVE  CompactOK(c)'
<1>1. /\ pc[c] = "overlap" /\ pc'[c] = "merge"
      /\ lvl' = lvl /\ levels' = levels /\ inputs_lvl' = inputs_lvl
      /\ inputs_next'[c] = {t \in levels[lvl[c] + 1] : Overlaps(t, inputs_lvl[c])}
      /\ todo'[c] = KeysOf(Inputs(c)')
      /\ new_sstables' = new_sstables /\ current_writer' = current_writer
  BY DEF CompactOverlap, Goto, IndInv, ControlInv, TypeOK, Inputs
<1>2. Outputs(c)' = {} /\ current_writer'[c].id = 0
  BY <1>1 DEF Outputs, IndInv, ControlInv, LocalsOK, NoWriter
<1>3. InputsOK(c)'
  BY <1>1 DEF InputsOK, Compacting, IndInv, CompactInv
<1>4. MergeOK(c)'
  BY <1>1, <1>2 DEF MergeOK
<1>5. OutputsOK(c)'
  BY <1>1, <1>2 DEF OutputsOK
<1> QED BY <1>3, <1>4, <1>5 DEF CompactOK

\* The inputs hold versions, and the newest of a key is one entry.
LEMMA WinnerUnique ==
  ASSUME IndInv, NEW c \in Thread, pc[c] = "merge", NEW k \in KeysOf(Inputs(c)),
         NEW e \in Versions(c, k), NEW f \in Versions(c, k),
         IsWinner(c, k, e), IsWinner(c, k, f)
  PROVE  e = f /\ Present(e) /\ e \in Entry
<1>1. lvl[c] \in Level /\ lvl[c] + 1 \in Level /\ lvl[c] \in Nat
  BY NextLevel DEF IndInv, ControlInv, LvlOK, TypeOK
<1>2. Inputs(c) \subseteq levels[lvl[c]] \cup levels[lvl[c] + 1]
  BY DEF Inputs, IndInv, CompactInv, InputsOK, Compacting
<1>3. PICK s \in Inputs(c) : e = s.ents[k]
  BY DEF Versions
<1>4. PICK t \in Inputs(c) : f = t.ents[k]
  BY DEF Versions
<1>5. PICK u \in Inputs(c) : Present(u.ents[k])
  BY DEF KeysOf
<1>6. k \in Key
  BY DEF KeysOf
<1>7. /\ s.ents[k] \in Entry /\ s.ents[k].seq \in Nat
      /\ t.ents[k] \in Entry /\ t.ents[k].seq \in Nat
      /\ u.ents[k] \in Entry /\ u.ents[k].seq \in Nat
  BY <1>1, <1>2, <1>6, LevelsBefore
<1>8. e.seq = f.seq /\ u.ents[k].seq <= e.seq
  BY <1>3, <1>4, <1>7 DEF IsWinner, Versions
<1>9. Present(e)
  BY <1>3, <1>5, <1>7, <1>8 DEF Present
<1>10. \E l \in Level, m \in Level : s \in levels[l] /\ t \in levels[m]
  BY <1>1, <1>2
<1>11. s = t
  BY <1>3, <1>4, <1>6, <1>8, <1>9, <1>10, LevelsBefore, VersionUnique
<1> QED BY <1>3, <1>4, <1>7, <1>9, <1>11

\* A deletion without deeper versions may be dropped.
LEMMA CompactDropOK ==
  ASSUME IndInv, NEW c \in Thread, CompactDrop(c)
  PROVE  CompactOK(c)'
<1>1. PICK k \in todo[c] : \E e \in Versions(c, k) :
        /\ IsMinKey(c, k) /\ IsWinner(c, k, e) /\ Drop(c, k, e)
        /\ todo' = [todo EXCEPT ![c] = @ \ {k}]
  BY DEF CompactDrop
<1>2. PICK e \in Versions(c, k) :
        /\ IsMinKey(c, k) /\ IsWinner(c, k, e) /\ Drop(c, k, e)
        /\ todo' = [todo EXCEPT ![c] = @ \ {k}]
  BY <1>1
<1>3. /\ pc[c] = "merge" /\ pc' = pc /\ lvl' = lvl /\ levels' = levels
      /\ inputs_lvl' = inputs_lvl /\ inputs_next' = inputs_next
      /\ new_sstables' = new_sstables /\ current_writer' = current_writer
      /\ todo'[c] = todo[c] \ {k}
  BY <1>2 DEF CompactDrop, IndInv, ControlInv, TypeOK
<1>4. CompactOK(c)
  BY DEF IndInv, CompactInv, CompactOK
<1>5. Outputs(c)' = Outputs(c) /\ Inputs(c)' = Inputs(c)
  BY <1>3 DEF Outputs, Inputs
<1>6. \A j : Versions(c, j)' = Versions(c, j)
  BY <1>5 DEF Versions
<1>7. \A j, f : IsWinner(c, j, f)' <=> IsWinner(c, j, f)
  BY <1>6 DEF IsWinner
<1>8. \A j : (Kept(c, j)' <=> Kept(c, j)) /\ (Dropped(c, j)' <=> Dropped(c, j))
  BY <1>3, <1>5, <1>6, <1>7 DEF Kept, Dropped, ExistsDeeper
<1>9. k \in KeysOf(Inputs(c)) /\ k \in Key /\ k \in Nat
  BY <1>3, <1>4, KeyAssumption DEF CompactOK, MergeOK, KeysOf
<1>10. Dropped(c, k)
  <2>1. \A w \in Outputs(c) : ~Present(w.ents[k])
    <3> SUFFICES ASSUME NEW w \in Outputs(c), Present(w.ents[k]) PROVE FALSE
      OBVIOUS
    <3>1. w.largest < k /\ k <= w.largest
      BY <1>3, <1>4, <1>9 DEF CompactOK, MergeOK, OutputsOK, WellFormed, IsRange
    <3>2. w.largest \in Nat
      BY <1>3, <1>4, KeyAssumption DEF CompactOK, OutputsOK, WellFormed
    <3> QED BY <1>9, <3>1, <3>2
  <2>2. \A f \in Versions(c, k) : IsWinner(c, k, f) => f.type = "kDeletion"
    BY <1>2, <1>3, <1>9, WinnerUnique DEF Drop
  <2> QED BY <1>2, <2>1, <2>2 DEF Dropped, Drop
<1>11. MergeOK(c)'
  BY <1>3, <1>4, <1>5, <1>6, <1>7, <1>8, <1>10 DEF CompactOK, MergeOK
<1>12. InputsOK(c)'
  BY <1>3, <1>4 DEF CompactOK, InputsOK, Compacting
<1>13. OutputsOK(c)'
  BY <1>3, <1>4, <1>5 DEF CompactOK, OutputsOK
<1> QED BY <1>11, <1>12, <1>13 DEF CompactOK

\* Adding the winner keeps the outputs apart and extends one of them.
LEMMA CompactAddOK ==
  ASSUME IndInv, NEW c \in Thread, CompactAdd(c)
  PROVE  CompactOK(c)' /\ \E w \in Table : /\ Outputs(c)' = new_sstables[c] \cup {w}
                                           /\ \/ w.id = next_sstable_id
                                              \/ \E x \in Outputs(c) : w.id = x.id
<1>1. PICK k \in todo[c] : \E e \in Versions(c, k) : AddStep(c, k, e)
  BY DEF CompactAdd, AddStep
<1>2. PICK e \in Versions(c, k) : AddStep(c, k, e)
  BY <1>1
<1>3. /\ pc[c] = "merge" /\ pc' = pc /\ lvl' = lvl /\ levels' = levels
      /\ inputs_lvl' = inputs_lvl /\ inputs_next' = inputs_next
      /\ todo'[c] = todo[c] \ {k}
  BY <1>2 DEF CompactAdd, AddStep, IndInv, ControlInv, TypeOK
<1>4. CompactOK(c) /\ TypeOK
  BY DEF IndInv, CompactInv, CompactOK, ControlInv
<1>5. k \in KeysOf(Inputs(c)) /\ k \in Key /\ k \in Nat
  BY <1>3, <1>4, KeyAssumption DEF CompactOK, MergeOK, KeysOf
<1>6. e \in Entry /\ Present(e) /\ IsWinner(c, k, e)
  BY <1>2, <1>3, <1>5, WinnerUnique DEF AddStep
<1> DEFINE cw == current_writer[c]
           w == Add(cw, k, e)
<1>7. cw \in Table /\ (cw.id # 0 => cw \in Outputs(c))
  BY <1>4 DEF TypeOK, Outputs
<1>8. /\ w \in Table
      /\ w.largest = k
      /\ w.ents[k] = e
      /\ \A j \in Key \ {k} : w.ents[j] = IF cw.id = 0 THEN Absent ELSE cw.ents[j]
      /\ w.id = IF cw.id = 0 THEN next_sstable_id ELSE cw.id
      /\ w.smallest = IF cw.id = 0 THEN k ELSE cw.smallest
  <2>1. CASE cw.id = 0
    BY <1>4, <1>5, <1>6, <2>1, EntryFacts DEF Add, TypeOK, Table, MemTable, EmptyTable
  <2>2. CASE cw.id # 0
    BY <1>4, <1>5, <1>6, <1>7, <2>2 DEF Add, Table, MemTable
  <2> QED BY <2>1, <2>2
<1>9. w.id # 0 /\ NoWriter.id = 0
  BY <1>4, <1>8 DEF TypeOK, NoWriter
<1>10. \/ new_sstables'[c] = new_sstables[c] \cup {w} /\ current_writer'[c] = NoWriter
       \/ new_sstables'[c] = new_sstables[c] /\ current_writer'[c] = w
  BY <1>2, <1>4 DEF AddStep, TypeOK
<1> HIDE DEF w, cw
<1>11. Outputs(c)' = new_sstables[c] \cup {w}
  BY <1>9, <1>10 DEF Outputs
<1>12. /\ \A x \in new_sstables[c] : x \in Outputs(c)
       /\ \A x \in Outputs(c) : x \in new_sstables[c] \/ (x = cw /\ cw.id # 0)
  BY DEF Outputs, cw
<1>13. \A x \in Outputs(c) : /\ x.largest < k /\ x.largest \in Nat
                             /\ x.smallest \in Nat /\ x.smallest <= x.largest
                             /\ WellFormed(x)
  BY <1>3, <1>4, KeyAssumption DEF CompactOK, MergeOK, OutputsOK, WellFormed, IsRange
<1>14. WellFormed(w)
  <2>1. CASE cw.id = 0
    BY <1>5, <1>6, <1>8, <2>1, EntryFacts, KeyAssumption DEF WellFormed, IsRange
  <2>2. CASE cw.id # 0
    <3>1. /\ cw.smallest \in Key /\ cw.smallest # k
          /\ cw.smallest <= k
          /\ IsRange(cw.ents, cw.smallest, cw.largest)
          /\ cw.largest < k /\ cw.largest \in Nat
      BY <1>5, <1>7, <1>13, <2>2 DEF WellFormed
    <3>2. \A j \in Key : Present(w.ents[j]) => cw.smallest <= j /\ j <= k
      <4> SUFFICES ASSUME NEW j \in Key, Present(w.ents[j])
                   PROVE  cw.smallest <= j /\ j <= k
        OBVIOUS
      <4>1. j \in Nat
        BY KeyAssumption
      <4>2. CASE j = k
        BY <1>5, <3>1, <4>2
      <4>3. CASE j # k
        <5>1. cw.smallest <= j /\ j <= cw.largest
          BY <1>8, <2>2, <3>1, <4>3 DEF IsRange
        <5> QED BY <1>5, <3>1, <4>1, <5>1
      <4> QED BY <4>2, <4>3
    <3> QED BY <1>5, <1>6, <1>8, <2>2, <3>1, <3>2 DEF WellFormed, IsRange
  <2> QED BY <2>1, <2>2
<1>15. ASSUME NEW x \in new_sstables[c]
       PROVE  x.id # w.id /\ x.largest < w.smallest
  <2>1. CASE cw.id = 0
    <3>1. x.id < next_sstable_id /\ x.id \in Nat /\ next_sstable_id \in Nat
      BY <1>4 DEF IndInv, ControlInv, IdsBelowNext, TypeOK, Table
    <3> QED BY <1>8, <1>12, <1>13, <2>1, <3>1
  <2>2. CASE cw.id # 0
    <3>1. x.largest < cw.smallest
      BY <1>3, <1>4, <2>2 DEF CompactOK, OutputsOK, cw
    <3>2. x # cw
      BY <1>7, <1>13, <2>2, <3>1
    <3>3. x.id # cw.id
      BY <1>3, <1>4, <1>7, <1>12, <2>2, <3>2 DEF CompactOK, OutputsOK
    <3> QED BY <1>8, <2>2, <3>1, <3>3
  <2> QED BY <2>1, <2>2
<1>16. \A l \in Level : \A t \in levels[l] : w.id # t.id
  <2>1. CASE cw.id = 0
    BY <1>8, <2>1, LevelsBefore DEF Table
  <2>2. CASE cw.id # 0
    BY <1>3, <1>4, <1>7, <1>8, <2>2 DEF CompactOK, OutputsOK
  <2> QED BY <2>1, <2>2
<1>17. OutputsOK(c)'
  <2>1. \A x \in Outputs(c)' : /\ WellFormed(x)
                                /\ x.id # 0
                                /\ \A l \in Level : \A t \in levels[l] : x.id # t.id
    BY <1>3, <1>4, <1>9, <1>11, <1>12, <1>14, <1>16 DEF CompactOK, OutputsOK
  <2>2. \A x, y \in Outputs(c)' : x # y => x.id # y.id /\ Apart(x, y)
    BY <1>3, <1>4, <1>11, <1>12, <1>15 DEF CompactOK, OutputsOK, Apart
  <2>3. current_writer'[c].id # 0 =>
          \A x \in new_sstables'[c] : x.largest < current_writer'[c].smallest
    BY <1>9, <1>10, <1>15
  <2> QED BY <1>3, <2>1, <2>2, <2>3 DEF OutputsOK
<1>18. Inputs(c)' = Inputs(c)
  BY <1>3 DEF Inputs
<1>19. \A j : Versions(c, j)' = Versions(c, j)
  BY <1>18 DEF Versions
<1>20. \A j, f : IsWinner(c, j, f)' <=> IsWinner(c, j, f)
  BY <1>19 DEF IsWinner
<1>21. MergeOK(c)'
  <2>1. \A j \in KeysOf(Inputs(c)) \ todo'[c] : Kept(c, j)' \/ Dropped(c, j)'
    <3> SUFFICES ASSUME NEW j \in KeysOf(Inputs(c)) \ todo'[c]
                 PROVE  Kept(c, j)' \/ Dropped(c, j)'
      OBVIOUS
    <3>1. j \in Key
      BY DEF KeysOf
    <3>2. CASE j = k
      BY <1>6, <1>8, <1>11, <1>20, <3>2 DEF Kept
    <3>3. CASE j # k /\ Kept(c, j)
      <4>1. PICK x \in Outputs(c) : IsWinner(c, j, x.ents[j])
        BY <3>3 DEF Kept
      <4>2. CASE x \in new_sstables[c]
        BY <1>11, <1>20, <4>1, <4>2 DEF Kept
      <4>3. CASE x = cw /\ cw.id # 0
        BY <1>8, <1>11, <1>20, <3>1, <3>3, <4>1, <4>3 DEF Kept
      <4> QED BY <1>12, <4>2, <4>3
    <3>4. CASE j # k /\ Dropped(c, j)
      <4>1. \A x \in Outputs(c)' : ~Present(x.ents[j])
        BY <1>7, <1>8, <1>11, <1>12, <3>1, <3>4, EntryFacts DEF Dropped
      <4> QED BY <1>3, <1>19, <1>20, <3>4, <4>1 DEF Dropped, ExistsDeeper
    <3> QED BY <1>3, <1>4, <3>2, <3>3, <3>4 DEF CompactOK, MergeOK
  <2>2. \A x \in Outputs(c)', j \in Key :
          Present(x.ents[j]) => x.ents[j] \in Versions(c, j) /\ IsWinner(c, j, x.ents[j])
    <3> SUFFICES ASSUME NEW x \in Outputs(c)', NEW j \in Key, Present(x.ents[j])
                 PROVE  x.ents[j] \in Versions(c, j) /\ IsWinner(c, j, x.ents[j])
      OBVIOUS
    <3>1. CASE x \in new_sstables[c]
      BY <1>3, <1>4, <1>12, <3>1 DEF CompactOK, MergeOK
    <3>2. CASE x = w /\ j = k
      BY <1>6, <1>8, <3>2
    <3>3. CASE x = w /\ j # k
      BY <1>3, <1>4, <1>7, <1>8, <3>3, EntryFacts DEF CompactOK, MergeOK
    <3> QED BY <1>11, <3>1, <3>2, <3>3
  <2>3. \A x \in Outputs(c)', j \in todo'[c] : x.largest < j
    <3>1. \A j \in todo'[c] : k < j
      <4>1. \A j \in todo[c] : j \in Nat /\ k <= j
        BY <1>2, <1>4, KeyAssumption DEF AddStep, IsMinKey, TypeOK
      <4> QED BY <1>3, <1>5, <4>1
    <3> QED BY <1>3, <1>4, <1>8, <1>11, <1>12, <3>1 DEF CompactOK, MergeOK
  <2> QED BY <1>3, <1>4, <1>18, <1>19, <1>20, <2>1, <2>2, <2>3 DEF CompactOK, MergeOK
<1>22. InputsOK(c)'
  BY <1>3, <1>4 DEF CompactOK, InputsOK, Compacting
<1> QED BY <1>7, <1>8, <1>11, <1>17, <1>21, <1>22 DEF CompactOK

\* A flush next to a compaction adds one table to level 0, newer than any input.
LEMMA FlushInstallCompact ==
  ASSUME IndInv, FlushInstall, NEW c \in Thread
  PROVE  CompactOK(c)'
<1>1. CASE c = "bg"
  <2>1. ~Compacting(c)'
    BY <1>1 DEF FlushInstall, Goto, Compacting, IndInv, ControlInv, TypeOK, Thread
  <2> QED BY <2>1, NotCompacting DEF CompactOK, InputsOK, MergeOK, OutputsOK, Compacting
<1>2. CASE c = "user"
  <2>1. PICK new \in Table :
           /\ new.id = current_writer["bg"].id
           /\ levels' = [levels EXCEPT ![0] = @ \cup {new}]
    BY FlushInstallLevels
  <2>2. UNCHANGED CompactLocals(c)
    BY <1>2 DEF FlushInstall, Goto, CompactLocals, compVars, IndInv, ControlInv, TypeOK, Thread
  <2>3. /\ CompactOK(c) /\ FlushIdNewest /\ pc["bg"] = "install"
    BY DEF FlushInstall, IndInv, CompactInv, CompactOK
  <2>4. /\ levels'[0] = levels[0] \cup {new}
        /\ \A l \in Level \ {0} : levels'[l] = levels[l]
    BY <2>1, LevelsBefore, LevelFacts
  <2>5. Compacting(c) => lvl[c] \in Level /\ lvl[c] + 1 \in Level \ {0} /\ lvl[c] \in Nat
    BY NextLevel DEF IndInv, ControlInv, LvlOK, TypeOK, Compacting
  <2>6. InputsOK(c)'
    <3> SUFFICES ASSUME Compacting(c)'
                 PROVE  InputsOK(c)'
      BY DEF InputsOK
    <3>1. Compacting(c)
      BY <2>2 DEF Compacting, CompactLocals
    <3>2. levels[lvl[c]] \subseteq levels'[lvl[c]]
          /\ levels'[lvl[c] + 1] = levels[lvl[c] + 1]
      BY <2>4, <2>5, <3>1
    <3>3. \A t \in levels'[lvl[c]] \ inputs_lvl[c] :
            lvl[c] = 0 /\ \A u \in inputs_lvl[c] : t.id > u.id
      <4> SUFFICES ASSUME NEW t \in levels'[lvl[c]] \ inputs_lvl[c]
                   PROVE  lvl[c] = 0 /\ \A u \in inputs_lvl[c] : t.id > u.id
        OBVIOUS
      <4>1. CASE t \in levels[lvl[c]]
        BY <2>3, <3>1, <4>1 DEF CompactOK, InputsOK
      <4>2. CASE t = new /\ lvl[c] = 0
        <5>1. inputs_lvl[c] \subseteq levels[0]
          BY <2>3, <3>1, <4>2 DEF CompactOK, InputsOK
        <5>2. \A u \in levels[0] : u.id < new.id /\ u.id \in Nat /\ new.id \in Nat
          BY <2>1, <2>3, LevelsBefore, LevelFacts DEF FlushIdNewest, Table
        <5> QED BY <4>2, <5>1, <5>2
      <4> QED BY <2>4, <2>5, <3>1, <4>1, <4>2
    <3> QED BY <2>2, <2>3, <3>1, <3>2, <3>3 DEF CompactOK, InputsOK, CompactLocals
  <2>7. Outputs(c)' = Outputs(c) /\ Inputs(c)' = Inputs(c)
    BY <2>2 DEF Outputs, Inputs, CompactLocals
  <2>8. \A k : Versions(c, k)' = Versions(c, k)
    BY <2>7 DEF Versions
  <2>9. \A k, e : IsWinner(c, k, e)' <=> IsWinner(c, k, e)
    BY <2>8 DEF IsWinner
  <2>10. ASSUME pc[c] = "merge", NEW k
         PROVE  ExistsDeeper(lvl[c], k)' <=> ExistsDeeper(lvl[c], k)
    <3>1. lvl[c] \in Nat /\ lvl'[c] = lvl[c]
      BY <2>2, <2>5, <2>10 DEF Compacting, CompactLocals
    <3>2. \A d \in lvl[c] + 2 .. MaxLevels - 1 : levels'[d] = levels[d]
      BY <2>4, <3>1, LevelsAssumption DEF Level
    <3> QED BY <3>1, <3>2 DEF ExistsDeeper
  <2>11. MergeOK(c)'
    <3>1. ASSUME pc[c] = "merge"
          PROVE  \A k : (Kept(c, k)' <=> Kept(c, k)) /\ (Dropped(c, k)' <=> Dropped(c, k))
      BY <3>1, <2>2, <2>7, <2>8, <2>9, <2>10 DEF Kept, Dropped, CompactLocals
    <3> QED BY <2>2, <2>3, <2>7, <2>8, <2>9, <3>1 DEF CompactOK, MergeOK, CompactLocals
  <2>12. OutputsOK(c)'
    <3>1. \A w \in Outputs(c) : w.id # new.id
      BY <1>2, <2>1, <2>3 DEF FlushIdNewest
    <3>2. \A l \in Level : \A t \in levels'[l] : t \in levels[l] \/ t = new
      BY <2>4
    <3> QED BY <2>2, <2>3, <2>7, <3>1, <3>2 DEF CompactOK, OutputsOK, CompactLocals
  <2> QED BY <2>6, <2>11, <2>12 DEF CompactOK
<1> QED BY <1>1, <1>2 DEF Thread

\* Every step preserves what a compaction in progress relies on.
LEMMA NextCompactOK ==
  ASSUME IndInv, [SerialNext]_vars, NEW c \in Thread
  PROVE  CompactOK(c)'
<1>1. CASE ~Compacting(c)'
  BY <1>1 DEF CompactOK, InputsOK, MergeOK, OutputsOK, Compacting
<1>2. CASE Compacting(c)'
  <2>1. TypeOK /\ CompactOK(c)
    BY DEF IndInv, ControlInv, CompactInv, CompactOK
  <2>2. CASE UNCHANGED vars \/ Write \/ Get
    <3>1. levels' = levels /\ UNCHANGED CompactLocals(c)
      BY <2>2 DEF vars, Write, Get, WriteBegin, WriteEntry, WriteError, WriteEnd, GetMem,
                  GetSST, compVars, CompactLocals
    <3> QED BY <2>1, <3>1, CompactFrame
  <2>3. CASE FlushPick \/ FlushAlloc \/ FlushPop
    <3>1. c # "bg"
      BY <1>2, <2>1, <2>3 DEF FlushPick, FlushAlloc, FlushPop, Goto, Compacting, TypeOK
    <3>2. levels' = levels /\ UNCHANGED CompactLocals(c)
      BY <2>1, <2>3, <3>1 DEF FlushPick, FlushAlloc, FlushPop, Goto, compVars, CompactLocals,
                              TypeOK, Thread
    <3> QED BY <2>1, <3>2, CompactFrame
  <2>4. CASE CompactRange
    <3>1. c # "user"
      BY <1>2, <2>1, <2>4 DEF CompactRange, Goto, Compacting, TypeOK
    <3>2. levels' = levels /\ UNCHANGED CompactLocals(c)
      BY <2>1, <2>4, <3>1 DEF CompactRange, Goto, compVars, CompactLocals, TypeOK, Thread
    <3> QED BY <2>1, <3>2, CompactFrame
  <2>5. ASSUME NEW d \in Thread, d # c,
               \/ CheckLevel(d) \/ CompactPick(d) \/ CompactOverlap(d) \/ CompactDrop(d)
               \/ CompactAdd(d) \/ CompactError(d)
        PROVE  CompactOK(c)'
    <3>1. levels' = levels
      BY <2>5 DEF CheckLevel, CompactPick, CompactOverlap, CompactDrop, CompactAdd,
                  CompactError
    <3>2. CASE CheckLevel(d) \/ CompactPick(d) \/ CompactOverlap(d)
      <4>1. UNCHANGED CompactLocals(c)
        BY <2>1, <2>5, <3>2 DEF CheckLevel, CompactPick, CompactOverlap, Goto, compVars,
                                CompactLocals, TypeOK
      <4> QED BY <2>1, <3>1, <4>1, CompactFrame
    <3>3. CASE CompactDrop(d) \/ CompactError(d)
      <4>1. UNCHANGED CompactLocals(c)
        BY <2>1, <2>5, <3>3 DEF CompactDrop, CompactError, CompactReturn, Goto, compVars,
                                CompactLocals, TypeOK
      <4> QED BY <2>1, <3>1, <4>1, CompactFrame
    <3>4. CASE CompactAdd(d)
      <4>1. UNCHANGED <<pc, lvl, inputs_lvl, inputs_next>>
        BY <3>4 DEF CompactAdd
      <4>2. /\ todo'[c] = todo[c]
            /\ new_sstables'[c] = new_sstables[c]
            /\ current_writer'[c] = current_writer[c]
        BY <2>1, <2>5, <3>4 DEF CompactAdd, TypeOK
      <4>3. UNCHANGED CompactLocals(c)
        BY <4>1, <4>2 DEF CompactLocals
      <4> QED BY <2>1, <3>1, <4>3, CompactFrame
    <3> QED BY <2>5, <3>2, <3>3, <3>4
  <2>6. ASSUME CheckLevel(c) \/ CompactError(c) \/ CompactInstall(c)
        PROVE  FALSE
    BY <1>2, <2>1, <2>6 DEF CheckLevel, CompactError, CompactInstall, Goto, Compacting, TypeOK
  <2>7. ASSUME NEW d \in Thread, d # c, CompactInstall(d)
        PROVE  FALSE
    <3>1. Compacting(d) /\ Compacting(c)
      BY <1>2, <2>1, <2>7 DEF CompactInstall, Goto, Compacting, TypeOK
    <3> QED BY <2>7, <3>1 DEF IndInv, OneCompactor
  <2> QED BY <2>2, <2>3, <2>4, <2>5, <2>6, <2>7, FlushInstallCompact, CompactPickOK,
             CompactOverlapOK, CompactDropOK, CompactAddOK
          DEF SerialNext, Next, Flush, Compact
<1> QED BY <1>1, <1>2

\* Between the two sections of FlushMemTable its id stays the newest.
LEMMA NextFlushId ==
  ASSUME IndInv, [SerialNext]_vars
  PROVE  FlushIdNewest'
<1> SUFFICES ASSUME pc'["bg"] = "install" PROVE FlushIdNewest'
  BY DEF FlushIdNewest
<1>1. TypeOK /\ IdsBelowNext /\ FlushIdNewest
  BY DEF IndInv, ControlInv, CompactInv
<1>2. CASE FlushAlloc
  <2>1. /\ current_writer'["bg"].id = next_sstable_id
        /\ levels' = levels /\ Outputs("user")' = Outputs("user")
    BY <1>1, <1>2 DEF FlushAlloc, compVars, Outputs, TypeOK, Thread, Table
  <2>2. \A t \in Outputs("user") : t.id < next_sstable_id /\ t.id \in Nat
    BY <1>1 DEF IdsBelowNext, Outputs, TypeOK, Thread, Table
  <2>3. \A l \in Level : \A t \in levels[l] : t.id < next_sstable_id /\ t.id \in Nat
    BY <1>1 DEF IdsBelowNext, TypeOK, Table
  <2> QED BY <1>1, <2>1, <2>2, <2>3, LevelFacts DEF FlushIdNewest, TypeOK
<1>3. ASSUME pc["bg"] = "install", levels' = levels,
             UNCHANGED <<current_writer["bg"], current_writer["user"], new_sstables["user"]>>
      PROVE  FlushIdNewest'
  BY <1>1, <1>3 DEF FlushIdNewest, Outputs
<1>4. CASE UNCHANGED vars \/ Write \/ Get
  <2>1. UNCHANGED <<levels, pc, current_writer, new_sstables>>
    BY <1>4 DEF vars, Write, Get, WriteBegin, WriteEntry, WriteError, WriteEnd, GetMem,
                GetSST, compVars
  <2> QED BY <1>3, <2>1
<1>5. CASE FlushPick \/ FlushInstall \/ FlushPop
  BY <1>1, <1>5 DEF FlushPick, FlushInstall, FlushPop, Goto, TypeOK, Thread
<1>6. CASE CompactRange
  BY <1>1, <1>3, <1>6 DEF CompactRange, Goto, TypeOK, Thread, compVars
<1>7. ASSUME \/ CheckLevel("bg") \/ CompactPick("bg") \/ CompactOverlap("bg") \/ CompactDrop("bg")
             \/ CompactAdd("bg") \/ CompactError("bg") \/ CompactInstall("bg")
      PROVE  FALSE
  BY <1>1, <1>7 DEF CheckLevel, CompactPick, CompactOverlap, CompactDrop, CompactAdd,
                    CompactError, CompactInstall, Goto, TypeOK, Thread
<1>8. CASE CheckLevel("user") \/ CompactPick("user") \/ CompactOverlap("user") \/ CompactDrop("user")
  BY <1>1, <1>3, <1>8 DEF CheckLevel, CompactPick, CompactOverlap, CompactDrop, Goto,
                          compVars, TypeOK, Thread
<1>9. CASE CompactAdd("user")
  <2>1. /\ pc["bg"] = "install" /\ levels' = levels
        /\ current_writer'["bg"] = current_writer["bg"]
    BY <1>1, <1>9 DEF CompactAdd, TypeOK, Thread
  <2>2. PICK w \in Table :
          /\ Outputs("user")' = new_sstables["user"] \cup {w}
          /\ w.id = next_sstable_id \/ \E x \in Outputs("user") : w.id = x.id
    BY <1>9, CompactAddOK DEF Thread
  <2>3. current_writer["bg"].id < next_sstable_id /\ current_writer["bg"].id \in Nat
    BY <1>1 DEF IdsBelowNext, TypeOK, Thread, Table
  <2>4. \A x \in Outputs("user")' : x.id # current_writer["bg"].id
    BY <1>1, <2>1, <2>2, <2>3 DEF FlushIdNewest, Outputs, TypeOK
  <2> QED BY <1>1, <2>1, <2>4 DEF FlushIdNewest
<1>10. CASE CompactInstall("user")
  <2>1. /\ pc["bg"] = "install"
        /\ current_writer'["bg"] = current_writer["bg"]
        /\ Outputs("user")' = {}
    BY <1>1, <1>10 DEF CompactInstall, CompactReturn, Goto, Outputs, TypeOK, Thread, NoWriter
  <2>2. /\ levels'[0] \subseteq levels[0]
        /\ \A l \in Level : levels'[l] \subseteq levels[l] \cup Outputs("user")
    BY <1>10, CompactInstallLevels, LevelFacts DEF Thread
  <2> QED BY <1>1, <2>1, <2>2 DEF FlushIdNewest
<1>11. CASE CompactError("user")
  <2>1. /\ pc["bg"] = "install" /\ levels' = levels
        /\ current_writer'["bg"] = current_writer["bg"]
        /\ Outputs("user")' = {}
    BY <1>1, <1>11 DEF CompactError, CompactReturn, Goto, Outputs, TypeOK, Thread, NoWriter
  <2> QED BY <1>1, <2>1 DEF FlushIdNewest
<1> QED BY <1>2, <1>4, <1>5, <1>6, <1>7, <1>8, <1>9, <1>10, <1>11
        DEF SerialNext, Next, Flush, Compact, Thread

-----------------------------------------------------------------------------
(* Gets. *)

\* Flushes and compactions leave the readers, the writer and the memtable alone.
Background == Flush \/ CompactRange \/ Compact

\* Flushes and compactions change no reader, and at most pop the deque.
LEMMA BackgroundFrame ==
  ASSUME IndInv, Background
  PROVE  /\ UNCHANGED <<rpc, rkey, rres, seen, memtable, writing, sequence_number>>
         /\ \A i \in DOMAIN immutable_memtables' :
              \E j \in DOMAIN immutable_memtables :
                immutable_memtables'[i] = immutable_memtables[j]
<1>1. UNCHANGED <<rpc, rkey, rres, seen, memtable, writing, sequence_number>>
  BY DEF Background, Flush, Compact, FlushPick, FlushAlloc, FlushInstall, FlushPop,
         CompactRange, CheckLevel, CompactPick, CompactOverlap, CompactDrop, CompactAdd,
         CompactInstall, CompactError, memVars, writeVars, readVars
<1>2. CASE FlushPop
  <2>1. immutable_memtables \in Seq(MemTable) /\ immutable_memtables # << >>
    BY <1>2 DEF FlushPop, IndInv, ControlInv, FlushOK, TypeOK
  <2>2. immutable_memtables' = Tail(immutable_memtables)
    BY <1>2 DEF FlushPop
  <2>3. \A i \in DOMAIN immutable_memtables' :
          /\ i + 1 \in DOMAIN immutable_memtables
          /\ immutable_memtables'[i] = immutable_memtables[i + 1]
    BY <2>1, <2>2
  <2> QED BY <1>1, <2>3
<1>3. CASE ~FlushPop
  <2>1. immutable_memtables' = immutable_memtables
    BY <1>3 DEF Background, Flush, Compact, FlushPick, FlushAlloc, FlushInstall,
                CompactRange, CheckLevel, CompactPick, CompactOverlap, CompactDrop,
                CompactAdd, CompactInstall, CompactError, memVars
  <2> QED BY <1>1, <2>1
<1> QED BY <1>2, <1>3

\* Releasing memtable_mutex_ adds what the batch wrote to what a Get may return.
LEMMA PublishReads ==
  ASSUME IndInv, Publish, levels' = levels,
         \/ UNCHANGED memVars
         \/ /\ immutable_memtables' = Append(immutable_memtables, memtable)
            /\ memtable' = EmptyTable
  PROVE  ReadsInv'
<1>1. ControlInv /\ ReadsInv
  BY DEF IndInv
<1>2. /\ rpc' = rpc /\ rkey' = rkey /\ rres' = rres
      /\ \A r \in Reader : seen'[r] = IF rpc[r] = "sst"
                                       THEN seen[r] \cup {Visible(Lookup(rkey[r]))}
                                       ELSE seen[r]
  BY DEF Publish
<1>3. GetReturnsCurrent'
  BY <1>1, <1>2 DEF ReadsInv, GetReturnsCurrent, Visible
<1>4. ASSUME NEW r \in Reader, rpc[r] = "sst"
      PROVE  /\ Visible(LevelFind(rkey[r]))' \in seen'[r]
             /\ \A i \in DOMAIN immutable_memtables' :
                  Present(immutable_memtables'[i][rkey[r]])
                    => Visible(immutable_memtables'[i][rkey[r]]) \in seen'[r]
             /\ Present(memtable'[rkey[r]]) => Visible(memtable'[rkey[r]]) \in seen'[r]
  <2>1. rkey[r] \in Key
    BY <1>1 DEF ControlInv, TypeOK
  <2>2. /\ Visible(LevelFind(rkey[r])) \in seen[r]
        /\ \A i \in DOMAIN immutable_memtables :
             Present(immutable_memtables[i][rkey[r]])
               => Visible(immutable_memtables[i][rkey[r]]) \in seen[r]
    BY <1>1, <1>4 DEF ReadsInv, ReadersOK
  <2>3. Present(memtable[rkey[r]]) => Visible(memtable[rkey[r]]) \in seen'[r]
    <3>1. Present(memtable[rkey[r]]) => Lookup(rkey[r]) = memtable[rkey[r]]
      BY <1>1, <2>1, MemTypes, SearchMemFinds DEF Lookup, MemFind
    <3> QED BY <1>2, <1>4, <3>1
  <2>4. Visible(LevelFind(rkey[r]))' \in seen'[r]
    BY <1>2, <1>4, <2>2 DEF LevelFind, Visible
  <2>5. CASE UNCHANGED memVars
    BY <1>2, <1>4, <2>2, <2>3, <2>4, <2>5 DEF memVars
  <2>6. CASE /\ immutable_memtables' = Append(immutable_memtables, memtable)
             /\ memtable' = EmptyTable
    <3>1. /\ \A i \in DOMAIN immutable_memtables' :
               \/ immutable_memtables'[i] = memtable
               \/ i \in DOMAIN immutable_memtables
                  /\ immutable_memtables'[i] = immutable_memtables[i]
      BY <1>1, <2>6, MemTypes, AppendProperties, LenProperties
    <3>2. ~Present(memtable'[rkey[r]])
      BY <2>1, <2>6, EntryFacts DEF EmptyTable
    <3> QED BY <1>2, <1>4, <2>2, <2>3, <2>4, <3>1, <3>2
  <2> QED BY <2>5, <2>6
<1>5. ReadersOK'
  BY <1>2, <1>4 DEF ReadersOK, Visible, LevelFind
<1> QED BY <1>3, <1>5 DEF ReadsInv

\* Every step keeps what a Get in progress can still find among the versions its
\* key had during the call.
LEMMA NextReads ==
  ASSUME IndInv, [SerialNext]_vars
  PROVE  ReadsInv'
<1>1. ControlInv /\ TypeOK /\ ReadsInv /\ ReadersOK /\ GetReturnsCurrent
  BY DEF IndInv, ControlInv, ReadsInv
<1>2. CASE UNCHANGED vars
  BY <1>1, <1>2 DEF vars, memVars, writeVars, readVars, ReadsInv, ReadersOK,
                    GetReturnsCurrent, Visible, LevelFind
<1>3. CASE WriteBegin
  BY <1>1, <1>3 DEF WriteBegin, memVars, readVars, ReadsInv, ReadersOK,
                    GetReturnsCurrent, Visible, LevelFind
<1>4. CASE WriteEntry
  BY <1>1, <1>4 DEF WriteEntry, memVars, readVars, ReadsInv, ReadersOK,
                    GetReturnsCurrent, Visible, LevelFind
<1>5. CASE WriteError
  BY <1>5, PublishReads DEF WriteError
<1>6. CASE WriteEnd
  BY <1>6, PublishReads DEF WriteEnd
<1>7. ASSUME NEW q \in Reader, NEW k \in Key, GetMem(q, k)
      PROVE  ReadsInv'
  <2>1. /\ UNCHANGED <<memtable, immutable_memtables, levels, writing>>
        /\ ~writing /\ rpc[q] = "idle"
        /\ rkey'[q] = k /\ seen'[q] = {Visible(Lookup(k))}
        /\ \A r \in Reader \ {q} : /\ rkey'[r] = rkey[r] /\ seen'[r] = seen[r]
                                   /\ rpc'[r] = rpc[r] /\ rres'[r] = rres[r]
    BY <1>1, <1>7 DEF GetMem, memVars, writeVars, TypeOK
  <2>2. CASE /\ Present(MemFind(k))
             /\ rres' = [rres EXCEPT ![q] = MemFind(k)]
             /\ rpc' = rpc
    <3>1. GetReturnsCurrent'
      BY <1>1, <2>1, <2>2 DEF GetReturnsCurrent, Lookup, Visible, TypeOK
    <3>2. ReadersOK'
      BY <1>1, <2>1, <2>2 DEF ReadersOK, Visible, LevelFind
    <3> QED BY <3>1, <3>2 DEF ReadsInv
  <2>3. CASE /\ ~Present(MemFind(k))
             /\ rpc' = [rpc EXCEPT ![q] = "sst"]
             /\ rres' = rres
    <3>1. GetReturnsCurrent'
      BY <1>1, <2>1, <2>3 DEF GetReturnsCurrent, Visible, TypeOK
    <3>2. /\ ~Present(memtable[k])
          /\ \A i \in DOMAIN immutable_memtables : ~Present(immutable_memtables[i][k])
      <4>1. ~Present(memtable[k])
        BY <1>1, <2>3, MemTypes, SearchMemFinds DEF MemFind
      <4> QED BY <1>1, <2>3, <4>1, MemTypes, SearchMemFinds DEF MemFind
    <3>3. Visible(LevelFind(k)) \in seen'[q]
      BY <2>1, <2>3 DEF Lookup
    <3>4. ReadersOK'
      BY <1>1, <2>1, <2>3, <3>2, <3>3 DEF ReadersOK, Visible, LevelFind, TypeOK
    <3> QED BY <3>1, <3>4 DEF ReadsInv
  <2> QED BY <1>7, <2>2, <2>3 DEF GetMem
<1>8. ASSUME NEW q \in Reader, GetSST(q)
      PROVE  ReadsInv'
  <2>1. /\ UNCHANGED <<memtable, immutable_memtables, levels, writing, rkey, seen>>
        /\ rpc[q] = "sst" /\ rpc'[q] = "idle"
        /\ rres'[q] = LevelFind(rkey[q])
        /\ \A r \in Reader \ {q} : rpc'[r] = rpc[r] /\ rres'[r] = rres[r]
    BY <1>1, <1>8 DEF GetSST, memVars, writeVars, TypeOK
  <2>2. GetReturnsCurrent'
    BY <1>1, <2>1 DEF GetReturnsCurrent, ReadersOK, Visible
  <2>3. ReadersOK'
    BY <1>1, <2>1 DEF ReadersOK, Visible, LevelFind
  <2> QED BY <2>2, <2>3 DEF ReadsInv
<1>9. CASE Background
  <2>1. /\ UNCHANGED <<rpc, rkey, rres, seen, memtable, writing>>
        /\ \A i \in DOMAIN immutable_memtables' :
              \E j \in DOMAIN immutable_memtables :
                immutable_memtables'[i] = immutable_memtables[j]
    BY <1>9, BackgroundFrame
  <2>2. GetReturnsCurrent'
    BY <1>1, <2>1 DEF GetReturnsCurrent, Visible
  <2>3. ASSUME NEW r \in Reader, rpc[r] = "sst"
        PROVE  Visible(LevelFind(rkey[r]))' \in seen[r]
    <3>1. rkey[r] \in Key /\ rkey'[r] = rkey[r]
      BY <1>1, <2>1 DEF TypeOK
    <3>2. CASE /\ FlushInstall
               /\ Present(immutable_memtables[1][rkey[r]])
               /\ SearchLevels(levels', rkey[r]) = immutable_memtables[1][rkey[r]]
      <4>1. 1 \in DOMAIN immutable_memtables
        BY <1>1, <3>2 DEF FlushInstall, ControlInv, FlushOK, TypeOK
      <4> QED BY <1>1, <2>3, <3>1, <3>2, <4>1 DEF ReadersOK, LevelFind, Visible
    <3>3. CASE Visible(SearchLevels(levels', rkey[r])) = Visible(SearchLevels(levels, rkey[r]))
      BY <1>1, <2>3, <3>1, <3>3 DEF ReadersOK, LevelFind, Visible
    <3> QED BY <3>1, <3>2, <3>3, LevelFindChange DEF LevelFind, Visible
  <2>4. ReadersOK'
    BY <1>1, <2>1, <2>3 DEF ReadersOK, Visible, LevelFind
  <2> QED BY <2>2, <2>4 DEF ReadsInv
<1> QED BY <1>2, <1>3, <1>4, <1>5, <1>6, <1>7, <1>8, <1>9
        DEF SerialNext, Next, Write, Get, Background

-----------------------------------------------------------------------------
(* The invariant, and the safety properties it implies. *)

\* A new database satisfies the invariant: every table is empty and no thread
\* is inside a flush, a compaction or a Get.
LEMMA InitInd == Init => IndInv
<1> SUFFICES ASSUME Init PROVE IndInv
  OBVIOUS
<1>1. ControlInv
  BY InitControl
<1>2. \A c \in Thread : pc[c] = "idle" /\ ~Compacting(c)
  BY DEF Init, Compacting
<1>3. OneCompactor
  BY <1>2 DEF OneCompactor
<1>4. \A l \in Level : levels[l] = {}
  BY DEF Init
<1>5. TablesInv
  BY <1>4, LevelFacts DEF TablesInv, TablesOK, TablesWellFormed, IdsUnique, LevelsOrdered,
                          Disjoint
<1>6. /\ DOMAIN immutable_memtables = {}
      /\ sequence_number = 2
      /\ \A k \in Key : memtable[k] = Absent
  BY DEF Init, EmptyTable
<1>7. pc["bg"] = "idle"
  BY <1>2 DEF Thread
<1>8. MemInv
  <2>1. MemOrdered
    BY <1>6 DEF MemOrdered
  <2>2. MemAboveLevels /\ FlushedReadable
    BY <1>4, <1>7 DEF MemAboveLevels, FlushedReadable
  <2>3. SeqBound
    BY <1>4, <1>6 DEF SeqBound, Absent
  <2> QED BY <2>1, <2>2, <2>3 DEF MemInv
<1>9. CompactInv
  BY <1>2, <1>7 DEF CompactInv, FlushIdNewest, InputsOK, MergeOK, OutputsOK
<1>10. ReadsInv
  BY EntryFacts DEF Init, ReadsInv, ReadersOK, GetReturnsCurrent
<1> QED BY <1>1, <1>3, <1>5, <1>8, <1>9, <1>10 DEF IndInv

\* Every step of every thread preserves the invariant.
LEMMA NextInd == IndInv /\ [SerialNext]_vars => IndInv'
<1> SUFFICES ASSUME IndInv, [SerialNext]_vars PROVE IndInv'
  OBVIOUS
<1>1. ControlInv'
  BY NextControl DEF IndInv, SerialNext
<1>2. OneCompactor'
  <2>1. CASE UNCHANGED vars
    BY <2>1 DEF vars, IndInv, OneCompactor, Compacting
  <2> QED BY <2>1 DEF SerialNext
<1>3. CompactInv'
  BY NextFlushId, NextCompactOK DEF CompactInv, CompactOK
<1> QED BY <1>1, <1>2, <1>3, NextTables, NextMem, NextReads DEF IndInv

\* With one compactor at a time IndInv holds in every reachable state, for all
\* sets of keys and readers and all limits.
THEOREM Invariance == SerialSpec => []IndInv
BY InitInd, NextInd, PTL DEF SerialSpec

\* The first hit of the search is the newest version stored anywhere.
LEMMA LookupNewest == IndInv => ReadsNewest
<1> SUFFICES ASSUME IndInv, NEW k \in Key, NEW e \in Stored(k)
             PROVE  e.seq <= Lookup(k).seq
  BY DEF ReadsNewest
<1>1. /\ memtable \in MemTable /\ immutable_memtables \in Seq(MemTable)
      /\ memtable[k] \in Entry
      /\ \A i \in DOMAIN immutable_memtables : immutable_memtables[i][k] \in Entry
      /\ MemFind(k) \in Entry /\ LevelFind(k) \in Entry
  BY MemTypes, FindTypes DEF IndInv, MemTable
<1>2. \/ e = memtable[k]
      \/ \E i \in DOMAIN immutable_memtables : e = immutable_memtables[i][k]
      \/ \E l \in Level : \E t \in levels[l] : e = t.ents[k]
  BY DEF Stored
<1>3. e \in Entry /\ e.seq \in Nat
  BY <1>1, <1>2, LevelsBefore, EntryFacts
<1>4. \A x \in Entry : x.seq \in Nat /\ (~Present(x) => x.seq = 0)
  BY EntryFacts
<1>5. CASE ~Present(e)
  <2>1. Lookup(k).seq \in Nat
    BY <1>1, <1>4 DEF Lookup
  <2> QED BY <1>3, <1>4, <1>5, <2>1
<1>6. CASE Present(e) /\ Present(memtable[k])
  <2>1. Lookup(k) = memtable[k]
    BY <1>1, <1>6, SearchMemFinds DEF Lookup, MemFind
  <2>2. e.seq <= memtable[k].seq
    BY <1>1, <1>2, <1>3, <1>4, <1>6
       DEF IndInv, MemInv, MemOrdered, MemAboveLevels, Newer
  <2> QED BY <2>1, <2>2
<1>7. CASE /\ Present(e) /\ ~Present(memtable[k])
           /\ \E i \in DOMAIN immutable_memtables : Present(immutable_memtables[i][k])
  <2>1. PICK i \in DOMAIN immutable_memtables :
          /\ Present(immutable_memtables[i][k])
          /\ MemFind(k) = immutable_memtables[i][k]
          /\ \A j \in DOMAIN immutable_memtables :
               Present(immutable_memtables[j][k]) => j <= i
    BY <1>1, <1>7, SearchMemFinds DEF MemFind
  <2>2. Lookup(k) = immutable_memtables[i][k]
    BY <2>1 DEF Lookup
  <2>3. CASE \E j \in DOMAIN immutable_memtables : e = immutable_memtables[j][k]
    <3>1. PICK j \in DOMAIN immutable_memtables : e = immutable_memtables[j][k]
      BY <2>3
    <3>2. j = i \/ i > j
      BY <1>1, <1>7, <2>1, <3>1
    <3>3. i > j => immutable_memtables[i][k].seq > e.seq
      BY <1>7, <2>1, <3>1 DEF IndInv, MemInv, MemOrdered, Newer
    <3> QED BY <1>1, <1>3, <1>4, <2>2, <3>1, <3>2, <3>3
  <2>4. CASE \E l \in Level : \E t \in levels[l] : e = t.ents[k]
    <3>1. CASE Flushed(i)
      BY <2>1, <2>2, <2>4, <3>1 DEF Flushed, IndInv, MemInv, FlushedReadable
    <3>2. CASE ~Flushed(i)
      <4>1. immutable_memtables[i][k].seq > e.seq
        BY <1>7, <2>1, <2>4, <3>2 DEF IndInv, MemInv, MemAboveLevels, Newer
      <4> QED BY <1>1, <1>3, <1>4, <2>2, <4>1
    <3> QED BY <3>1, <3>2
  <2> QED BY <1>2, <1>7, <2>3, <2>4
<1>8. CASE /\ Present(e) /\ ~Present(memtable[k])
           /\ \A i \in DOMAIN immutable_memtables : ~Present(immutable_memtables[i][k])
  <2>1. MemFind(k) = Absent
    BY <1>1, <1>8, SearchMemFinds DEF MemFind
  <2>2. Lookup(k) = LevelFind(k)
    BY <2>1, EntryFacts DEF Lookup
  <2>3. \E l \in Level : \E t \in levels[l] : e = t.ents[k]
    BY <1>2, <1>8
  <2> QED BY <2>2, <2>3, LevelsBefore, SearchLevelsNewest DEF LevelFind
<1> QED BY <1>5, <1>6, <1>7, <1>8

\* ReadsNewest holds in every reachable state: Get need not compare sequence
\* numbers (db_impl.cpp:264-306).
THEOREM ReadsAreNewest == SerialSpec => []ReadsNewest
BY Invariance, LookupNewest, PTL

\* LevelsDisjoint holds in every reachable state: at most one table of a level
\* below 0 can hold a key (db_impl.cpp:292-306).
THEOREM LevelsAreDisjoint == SerialSpec => []LevelsDisjoint
<1>1. IndInv => LevelsDisjoint
  BY DEF IndInv, TablesInv, TablesOK, Disjoint, LevelsDisjoint
<1> QED BY <1>1, Invariance, PTL

\* GetReturnsCurrent holds in every reachable state, however many steps of other
\* threads come between the two sections of Get (db_impl.cpp:266-278, 282-307).
THEOREM GetsAreCurrent == SerialSpec => []GetReturnsCurrent
<1>1. IndInv => GetReturnsCurrent
  BY DEF IndInv, ReadsInv
<1> QED BY <1>1, Invariance, PTL
=============================================================================
