------------------------- MODULE LSMSearch_proofs -------------------------
(***************************************************************************)
(* What the searches of Get return, for any memtables and any tables: the  *)
(* facts about SearchMem and SearchLevels that LSMTree_proofs rests on.    *)
(***************************************************************************)
EXTENDS LSMTreeInv, TLAPS, WellFoundedInduction

\* A nonempty set of naturals has a least element, which MinOf picks.
LEMMA MinOfLeast ==
  ASSUME NEW S, S \subseteq Nat, S # {}
  PROVE  MinOf(S) \in S /\ \A y \in S : MinOf(S) <= y
<1>1. PICK x \in S : \A y \in S : ~(<<y, x>> \in OpToRel(<, Nat))
  BY NatLessThanWellFounded, WFMin
<1>2. \A y \in S : ~(y < x)
  BY <1>1 DEF OpToRel
<1>3. \A y \in S : x <= y
  BY <1>2
<1> QED BY <1>3 DEF MinOf

\* A nonempty bounded set of naturals has a greatest element, MaxOf.
LEMMA MaxOfGreatest ==
  ASSUME NEW n \in Nat, NEW S, S \subseteq 0 .. n, S # {}
  PROVE  MaxOf(S) \in S /\ \A y \in S : y <= MaxOf(S)
<1> DEFINE T == {n - x : x \in S}
<1>1. T \subseteq Nat
  BY SMT
<1>2. \A y \in S : n - y \in T
  BY Zenon
<1>3. T # {}
  BY <1>2
<1>4. MinOf(T) \in T /\ \A z \in T : MinOf(T) <= z
  BY <1>1, <1>3, MinOfLeast
<1>5. PICK x \in S : MinOf(T) = n - x
  BY <1>4
<1> HIDE DEF T
<1>6. \A y \in S : n - x <= n - y
  BY <1>2, <1>4, <1>5
<1>7. \A y \in S : y <= x
  BY <1>6
<1> QED BY <1>7 DEF MaxOf

-----------------------------------------------------------------------------
(* Absent is an entry, and the only facts about entries that are needed. *)

\* Absent is the entry with sequence number 0, and reads as not found.
LEMMA EntryFacts ==
  /\ Absent \in Entry
  /\ ~Present(Absent)
  /\ Visible(Absent) = 0
  /\ \A e \in Entry : /\ e.seq \in Nat
                      /\ Present(e) \in BOOLEAN
                      /\ ~Present(e) <=> e.seq = 0
                      /\ Visible(e) \in Nat
  /\ EmptyTable \in MemTable
BY DEF Absent, Entry, Present, Visible, ValueType, MemTable, EmptyTable

\* The memtable search finds a version if there is one, and the newest when
\* newer memtables shadow older ones.
LEMMA SearchMemFinds ==
  ASSUME NEW mem \in MemTable, NEW imm \in Seq(MemTable), NEW k \in Key
  PROVE  /\ SearchMem(mem, imm, k) \in Entry
         /\ Present(mem[k]) => SearchMem(mem, imm, k) = mem[k]
         /\ ~Present(mem[k]) /\ (\E i \in DOMAIN imm : Present(imm[i][k])) =>
              \E i \in DOMAIN imm :
                /\ Present(imm[i][k])
                /\ SearchMem(mem, imm, k) = imm[i][k]
                /\ \A j \in DOMAIN imm : Present(imm[j][k]) => j <= i
         /\ ~Present(mem[k]) /\ (\A i \in DOMAIN imm : ~Present(imm[i][k])) =>
              SearchMem(mem, imm, k) = Absent
<1> DEFINE H == MemHits(imm, k)
<1>1. H \subseteq 0 .. Len(imm) /\ Len(imm) \in Nat
  BY DEF MemHits
<1>2. CASE H # {}
  <2>1. MaxOf(H) \in H /\ \A y \in H : y <= MaxOf(H)
    <3> HIDE DEF H
    <3> QED BY <1>1, <1>2, MaxOfGreatest
  <2>2. mem[k] \in Entry /\ \A i \in DOMAIN imm : imm[i][k] \in Entry
    BY DEF MemTable
  <2> QED BY <1>2, <2>1, <2>2 DEF SearchMem, MemHits
<1>3. CASE H = {}
  <2>1. mem[k] \in Entry
    BY DEF MemTable
  <2> QED BY <1>3, <2>1, EntryFacts DEF SearchMem, MemHits
<1> QED BY <1>2, <1>3

\* Level 0 is searched from its highest id, deeper levels from the left.
LEMMA NewestHighest ==
  ASSUME NEW S, S \subseteq Table, S # {}, NEW n \in Nat,
         \A t \in S : t.id < n
  PROVE  Newest(S) \in S /\ \A u \in S : u.id <= Newest(S).id
<1> DEFINE I == {t.id : t \in S}
<1>1. I \subseteq 0 .. n /\ I # {}
  BY DEF Table
<1>2. MaxOf(I) \in I /\ \A y \in I : y <= MaxOf(I)
  <2> HIDE DEF I
  <2> QED BY <1>1, MaxOfGreatest
<1>3. PICK t \in S : t.id = MaxOf(I)
  BY <1>2
<1>4. \A u \in S : u.id <= t.id
  BY <1>2, <1>3
<1> QED BY <1>4 DEF Newest

\* A set of tables has one with the least smallest key, First.
LEMMA FirstLeftmost ==
  ASSUME NEW S, S \subseteq Table, S # {}
  PROVE  First(S) \in S
<1> DEFINE I == {t.smallest : t \in S}
<1>1. I \subseteq Nat /\ I # {}
  BY DEF Table
<1>2. MinOf(I) \in I /\ \A y \in I : MinOf(I) <= y
  <2> HIDE DEF I
  <2> QED BY <1>1, MinOfLeast
<1>3. PICK t \in S : t.smallest = MinOf(I)
  BY <1>2
<1>4. \A u \in S : t.smallest <= u.smallest
  BY <1>2, <1>3
<1> QED BY <1>4 DEF First

\* Level 0 exists, and levels are naturals.
LEMMA LevelFacts == 0 \in Level /\ Level \subseteq Nat
BY LevelsAssumption DEF Level

\* The level search finds a version when it finds anything, wherever the
\* versions are.
LEMMA SearchLevelsFinds ==
  ASSUME NEW L \in [Level -> SUBSET Table], NEW n \in Nat,
         \A l \in Level : \A t \in L[l] : t.id < n,
         NEW k \in Key
  PROVE  /\ SearchLevels(L, k) \in Entry
         /\ \/ SearchLevels(L, k) = Absent
            \/ \E l \in Level : \E t \in L[l] :
                 Present(t.ents[k]) /\ SearchLevels(L, k) = t.ents[k]
<1>1. \A l \in Level : \A t \in L[l] : t.ents[k] \in Entry
  BY DEF Table, MemTable
<1>2. CASE L0Hits(L, k) # {}
  <2>1. /\ L0Hits(L, k) \subseteq Table
        /\ \A t \in L0Hits(L, k) : t.id < n
    BY LevelFacts DEF L0Hits
  <2>2. Newest(L0Hits(L, k)) \in L0Hits(L, k)
    BY <1>2, <2>1, NewestHighest
  <2> QED BY <1>1, <1>2, <2>2, LevelFacts DEF SearchLevels, L0Hits
<1>3. CASE L0Hits(L, k) = {} /\ DeepHits(L, k) # {}
  <2> DEFINE d == MinOf(DeepHits(L, k))
  <2>1. DeepHits(L, k) \subseteq Nat
    BY LevelFacts DEF DeepHits
  <2>2. d \in DeepHits(L, k)
    BY <1>3, <2>1, MinOfLeast
  <2> HIDE DEF d
  <2>3. d \in Level /\ LevelHits(L, d, k) # {}
    BY <2>2 DEF DeepHits
  <2>4. LevelHits(L, d, k) \subseteq Table
    BY <2>3 DEF LevelHits
  <2>5. First(LevelHits(L, d, k)) \in LevelHits(L, d, k)
    BY <2>3, <2>4, FirstLeftmost
  <2>6. SearchLevels(L, k) = First(LevelHits(L, d, k)).ents[k]
    BY <1>3 DEF SearchLevels, d
  <2> QED BY <1>1, <2>3, <2>5, <2>6 DEF LevelHits, Has
<1>4. CASE L0Hits(L, k) = {} /\ DeepHits(L, k) = {}
  BY <1>4, EntryFacts DEF SearchLevels
<1> QED BY <1>2, <1>3, <1>4

\* When the levels are in order the first hit is the newest version.
LEMMA SearchLevelsNewest ==
  ASSUME NEW L \in [Level -> SUBSET Table], NEW n \in Nat,
         \A l \in Level : \A t \in L[l] : t.id < n,
         TablesOK(L),
         NEW k \in Key
  PROVE  \A l \in Level : \A t \in L[l] :
           t.ents[k].seq <= SearchLevels(L, k).seq
<1> SUFFICES ASSUME NEW l \in Level, NEW t \in L[l], Present(t.ents[k])
             PROVE  t.ents[k].seq <= SearchLevels(L, k).seq
  <2>1. \A m \in Level : \A u \in L[m] : u.ents[k] \in Entry
    BY DEF Table, MemTable
  <2>2. SearchLevels(L, k).seq \in Nat
    BY SearchLevelsFinds DEF Entry
  <2> QED BY <2>1, <2>2 DEF Entry, Present
<1>1. \A m \in Level : \A u \in L[m] : u \in Table /\ u.ents[k] \in Entry
                                      /\ u.ents[k].seq \in Nat
  BY DEF Table, MemTable, Entry
<1>2. \A m \in Level : \A u \in L[m] : Present(u.ents[k]) => Has(u, k)
  BY DEF TablesOK, TablesWellFormed, WellFormed, IsRange, Has, Covers
<1>3. CASE L0Hits(L, k) # {}
  <2> DEFINE u == Newest(L0Hits(L, k))
  <2>1. /\ L0Hits(L, k) \subseteq Table
        /\ \A x \in L0Hits(L, k) : x.id < n
    BY LevelFacts DEF L0Hits
  <2>2. u \in L0Hits(L, k) /\ \A x \in L0Hits(L, k) : x.id <= u.id
    BY <1>3, <2>1, NewestHighest
  <2>3. SearchLevels(L, k) = u.ents[k]
    BY <1>3 DEF SearchLevels
  <2> HIDE DEF u
  <2>4. u \in L[0] /\ Present(u.ents[k])
    BY <2>2 DEF L0Hits
  <2>5. CASE l = 0
    <3>1. t \in L0Hits(L, k)
      BY <2>5 DEF L0Hits
    <3>2. t.id = u.id \/ t.id < u.id
      BY <2>2, <3>1, <2>1 DEF Table
    <3>3. CASE t.id = u.id
      BY <3>3, <2>5, <2>4, <2>3, <1>1, LevelFacts DEF TablesOK, IdsUnique
    <3>4. CASE t.id < u.id
      <4>1. Newer(u.ents, t.ents)
        BY <3>4, <2>5, <2>4 DEF TablesOK, LevelsOrdered
      <4> QED BY <4>1, <2>3, <2>4, <1>1, LevelFacts DEF Newer
    <3> QED BY <3>2, <3>3, <3>4
  <2>6. CASE l # 0
    <3>1. 0 < l
      BY <2>6, LevelFacts
    <3>2. Newer(u.ents, t.ents)
      BY <3>1, <2>4, LevelFacts DEF TablesOK, LevelsOrdered
    <3> QED BY <3>2, <2>3, <2>4, <1>1, LevelFacts DEF Newer
  <2> QED BY <2>5, <2>6
<1>4. CASE L0Hits(L, k) = {}
  <2>1. l # 0
    BY <1>4 DEF L0Hits
  <2>2. l \in DeepHits(L, k)
    BY <2>1, <1>2 DEF DeepHits, LevelHits
  <2> DEFINE d == MinOf(DeepHits(L, k))
  <2>3. DeepHits(L, k) \subseteq Nat
    BY LevelFacts DEF DeepHits
  <2>4. d \in DeepHits(L, k) /\ d <= l
    BY <2>2, <2>3, MinOfLeast
  <2>5. SearchLevels(L, k) = First(LevelHits(L, d, k)).ents[k]
    BY <1>4, <2>2 DEF SearchLevels
  <2> HIDE DEF d
  <2> DEFINE u == First(LevelHits(L, d, k))
  <2>6. d \in Level /\ d # 0 /\ LevelHits(L, d, k) # {}
    BY <2>4 DEF DeepHits
  <2>7. LevelHits(L, d, k) \subseteq Table
    BY <2>6 DEF LevelHits
  <2>8. u \in LevelHits(L, d, k)
    BY <2>6, <2>7, FirstLeftmost
  <2> HIDE DEF u
  <2>9. u \in L[d] /\ Has(u, k)
    BY <2>8 DEF LevelHits
  <2>10. CASE d = l
    <3>1. ~Apart(t, u)
      BY <2>9, <1>1, <1>2, <2>10, KeyAssumption DEF Has, Covers, Apart, Table
    <3>2. t = u
      BY <3>1, <2>6, <2>9, <2>10 DEF TablesOK, Disjoint
    <3> QED BY <3>2, <2>5, <1>1 DEF u
  <2>11. CASE d # l
    <3>1. d < l
      BY <2>11, <2>4, <2>6, LevelFacts
    <3>2. Newer(u.ents, t.ents)
      BY <3>1, <2>6, <2>9 DEF TablesOK, LevelsOrdered
    <3> QED BY <3>2, <2>5, <2>6, <2>9, <1>1 DEF Newer, Has, u
  <2> QED BY <2>10, <2>11
<1> QED BY <1>3, <1>4

\* Two tables with the same version of a key hold the same entry for it.
LEMMA VersionUnique ==
  ASSUME NEW L \in [Level -> SUBSET Table], TablesOK(L), NEW k \in Key,
         NEW l \in Level, NEW m \in Level, NEW t \in L[l], NEW u \in L[m],
         Present(t.ents[k]), t.ents[k].seq = u.ents[k].seq
  PROVE  t = u
<1>1. /\ t \in Table /\ u \in Table
      /\ t.ents[k].seq \in Nat /\ u.ents[k].seq \in Nat
      /\ l \in Nat /\ m \in Nat
  BY LevelFacts DEF Table, MemTable, Entry
<1>2. Present(u.ents[k])
  BY DEF Present
<1>3. ~(l < m) /\ ~(m < l)
  BY <1>1, <1>2 DEF TablesOK, LevelsOrdered, Newer
<1>4. l = m
  BY <1>1, <1>3
<1>5. CASE l = 0
  <2>1. ~(t.id > u.id) /\ ~(u.id > t.id)
    BY <1>1, <1>2, <1>4, <1>5 DEF TablesOK, LevelsOrdered, Newer
  <2>2. t.id = u.id
    BY <1>1, <2>1 DEF Table
  <2> QED BY <2>2 DEF TablesOK, IdsUnique
<1>6. CASE l # 0
  <2>1. ~Apart(t, u)
    BY <1>1, <1>2, <1>4, KeyAssumption
       DEF TablesOK, TablesWellFormed, WellFormed, IsRange, Apart, Table
  <2> QED BY <2>1, <1>4, <1>6 DEF TablesOK, Disjoint
<1> QED BY <1>5, <1>6

\* The newest version stored in the levels is what the search returns.
LEMMA SearchLevelsIs ==
  ASSUME NEW L \in [Level -> SUBSET Table], NEW n \in Nat,
         \A l \in Level : \A t \in L[l] : t.id < n,
         TablesOK(L),
         NEW k \in Key, NEW m \in Level, NEW u \in L[m], Present(u.ents[k]),
         \A l \in Level : \A t \in L[l] : t.ents[k].seq <= u.ents[k].seq
  PROVE  SearchLevels(L, k) = u.ents[k]
<1>1. u.ents[k].seq <= SearchLevels(L, k).seq /\ u.ents[k].seq \in Nat
  BY SearchLevelsNewest DEF Table, MemTable, Entry
<1>2. SearchLevels(L, k) # Absent
  BY <1>1 DEF Present, Absent
<1>3a. PICK l \in Level : \E t \in L[l] :
         Present(t.ents[k]) /\ SearchLevels(L, k) = t.ents[k]
  BY <1>2, SearchLevelsFinds
<1>3. PICK t \in L[l] : Present(t.ents[k]) /\ SearchLevels(L, k) = t.ents[k]
  BY <1>3a
<1>4. t.ents[k].seq \in Nat
  BY DEF Table, MemTable, Entry
<1>5. t.ents[k].seq = u.ents[k].seq
  BY <1>1, <1>3, <1>4
<1>6. t = u
  BY <1>3, <1>5, VersionUnique
<1> QED BY <1>3, <1>6

\* The level search finds nothing when no table has the key.
LEMMA SearchLevelsNothing ==
  ASSUME NEW L \in [Level -> SUBSET Table], NEW n \in Nat,
         \A l \in Level : \A t \in L[l] : t.id < n,
         NEW k \in Key,
         \A l \in Level : \A t \in L[l] : ~Present(t.ents[k])
  PROVE  SearchLevels(L, k) = Absent
BY SearchLevelsFinds
=============================================================================
