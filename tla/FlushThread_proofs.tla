------------------------- MODULE FlushThread_proofs -------------------------
(***************************************************************************)
(* Every memtable is flushed, once, in the order of its number, for any    *)
(* memtable limit and any number of rotations, with WAL files that may or  *)
(* may not be created, and a destructor that is called at any moment.      *)
(***************************************************************************)
EXTENDS FlushThread, SequenceTheorems, TLAPS

\* What stands in the properties is unfolded for the provers.
LEMMA InElements ==
  ASSUME NEW s, NEW i \in DOMAIN s
  PROVE  s[i] \in Elements(s)
BY DEF Elements

\* The properties follow from the order of the memtables.
LEMMA InOrderSuffices ==
  ASSUME TypeOK, ControlInv, InOrder
  PROVE  NothingLost /\ FlushedOnce
<1>1. NothingLost
  <2> SUFFICES ASSUME NEW m \in 1 .. memtable - 1
               PROVE  m \in Elements(immutable_memtables) \cup Elements(flushed)
    BY DEF NothingLost
  <2>1. Len(flushed) \in Nat /\ Len(immutable_memtables) \in Nat
    BY DEF TypeOK
  <2>2. CASE m <= Len(flushed)
    <3>1. m \in DOMAIN flushed /\ flushed[m] = m
      BY <2>1, <2>2 DEF InOrder, TypeOK
    <3> QED BY <3>1, InElements
  <2>3. CASE m > Len(flushed)
    <3>1. Popped \in Int /\ Popped <= Len(flushed)
      BY <2>1 DEF Popped
    <3>2. /\ m - Popped \in DOMAIN immutable_memtables
          /\ immutable_memtables[m - Popped] = m
      BY <2>1, <2>3, <3>1 DEF InOrder, TypeOK
    <3> QED BY <3>2, InElements
  <2> QED BY <2>1, <2>2, <2>3
<1>2. FlushedOnce
  BY DEF FlushedOnce, InOrder
<1> QED BY <1>1, <1>2

LEMMA InvImplies == IndInv => TypeOK /\ NothingLost /\ FlushedOnce /\ ClosedIsFlushed
BY InOrderSuffices DEF IndInv, ClosedIsFlushed

\* A new database.
LEMMA InitInv == Init => IndInv
<1> SUFFICES ASSUME Init PROVE IndInv
  OBVIOUS
<1>1. TypeOK
  <2>1. 1 \in Number /\ ~(0 >= MemLimit)
    BY MemLimitAssumption, BoundsAssumption DEF Number
  <2>2. << >> \in Seq(Number)
    OBVIOUS
  <2> QED BY <2>1, <2>2 DEF Init, TypeOK
<1>2. ControlInv
  BY DEF Init, ControlInv
<1>3. InOrder
  BY DEF Init, InOrder, Popped
<1> QED BY <1>1, <1>2, <1>3 DEF IndInv, Init

\* The writers: only Rotate touches the deque, and only while the destructor has
\* not been called.
LEMMA WriterInv == IndInv /\ Writer => IndInv'
<1> SUFFICES ASSUME IndInv, Writer PROVE IndInv'
  OBVIOUS
<1> USE DEF IndInv
<1>1. CASE WriteEntry
  <2>1. TypeOK'
    BY <1>1 DEF WriteEntry, TypeOK
  <2>2. ControlInv' /\ InOrder'
    BY <1>1 DEF WriteEntry, ControlInv, InOrder, Popped
  <2> QED BY <1>1, <2>1, <2>2 DEF WriteEntry
<1>1a. CASE WriteError \/ WriteEnd
  <2>1. TypeOK'
    BY <1>1a, MemLimitAssumption DEF WriteError, WriteEnd, ShouldFlush, TypeOK
  <2>2. ControlInv' /\ InOrder'
    BY <1>1a DEF WriteError, WriteEnd, ControlInv, InOrder, Popped
  <2> QED BY <1>1a, <2>1, <2>2 DEF WriteError, WriteEnd, ControlInv
<1>2. CASE Rotate
  <2>1. memtable \in Number /\ memtable + 1 \in Number
    BY <1>2, BoundsAssumption DEF Rotate, TypeOK, Number
  <2>1a. 0 \in Nat /\ ~(0 >= MemLimit)
    BY MemLimitAssumption
  <2>1b. Append(immutable_memtables, memtable) \in Seq(Number)
    BY <2>1 DEF TypeOK
  <2>2. TypeOK'
    BY <1>2, <2>1, <2>1a, <2>1b DEF Rotate, TypeOK
  <2>3. ControlInv'
    BY <1>2 DEF Rotate, ControlInv, TypeOK
  <2>4. InOrder'
    <3> DEFINE q == Len(immutable_memtables)
    <3>1. /\ immutable_memtables' = Append(immutable_memtables, memtable)
          /\ Popped' = Popped /\ flushed' = flushed /\ memtable' = memtable + 1
      BY <1>2 DEF Rotate, Popped
    <3>2. /\ q \in Nat /\ Len(immutable_memtables') = q + 1
          /\ DOMAIN immutable_memtables = 1 .. q
          /\ DOMAIN immutable_memtables' = 1 .. q + 1
          /\ \A i \in 1 .. q : immutable_memtables'[i] = immutable_memtables[i]
          /\ immutable_memtables'[q + 1] = memtable
      BY <3>1, <2>1 DEF TypeOK
    <3>3. Popped \in Int
      BY DEF Popped, TypeOK
    <3> HIDE DEF q
    <3> QED BY <3>1, <3>2, <3>3, <1>2 DEF InOrder, Rotate, q
  <2> QED BY <1>2, <2>2, <2>3, <2>4 DEF Rotate
<1>3. CASE CreateWAL
  <2>1. TypeOK' /\ ControlInv'
    BY <1>3 DEF CreateWAL, TypeOK, ControlInv
  <2>2. InOrder'
    BY <1>3 DEF CreateWAL, InOrder, Popped, ControlInv
  <2> QED BY <1>3, <2>1, <2>2 DEF CreateWAL, ControlInv
<1>4. CASE CreateWALFails
  <2>1. TypeOK' /\ ControlInv'
    BY <1>4 DEF CreateWALFails, TypeOK, ControlInv
  <2>2. InOrder'
    BY <1>4 DEF CreateWALFails, InOrder, Popped, ControlInv
  <2> QED BY <1>4, <2>1, <2>2 DEF CreateWALFails, ControlInv
<1>5. CASE Notify
  <2>1. TypeOK' /\ ControlInv'
    BY <1>5 DEF Notify, Wake, TypeOK, ControlInv
  <2>2. InOrder'
    BY <1>5 DEF Notify, Wake, InOrder, Popped, ControlInv
  <2> QED BY <1>5, <2>1, <2>2 DEF Notify, ControlInv
<1> QED BY <1>1, <1>1a, <1>2, <1>3, <1>4, <1>5 DEF Writer

\* The flush thread: what it picks is still at the front when it pops.
LEMMA BackgroundInv == IndInv /\ (Background \/ SpuriousWakeup) => IndInv'
<1> SUFFICES ASSUME IndInv, Background \/ SpuriousWakeup PROVE IndInv'
  OBVIOUS
<1> USE DEF IndInv
<1>1. CASE Loop
  <2>1. TypeOK' /\ ControlInv'
    BY <1>1 DEF Loop, TypeOK, ControlInv
  <2>2. InOrder'
    BY <1>1 DEF Loop, InOrder, Popped, ControlInv
  <2> QED BY <1>1, <2>1, <2>2 DEF Loop, ControlInv
<1>2. CASE Test
  <2>1. TypeOK' /\ ControlInv'
    BY <1>2 DEF Test, Ready, TypeOK, ControlInv
  <2>2. InOrder'
    BY <1>2 DEF Test, InOrder, Popped, ControlInv
  <2> QED BY <1>2, <2>1, <2>2 DEF Test, ControlInv
<1>3. CASE Sleep \/ SpuriousWakeup
  <2>1. TypeOK' /\ ControlInv'
    BY <1>3 DEF Sleep, SpuriousWakeup, TypeOK, ControlInv
  <2>2. InOrder'
    BY <1>3 DEF Sleep, SpuriousWakeup, InOrder, Popped, ControlInv
  <2> QED BY <1>3, <2>1, <2>2 DEF Sleep, SpuriousWakeup, ControlInv
<1>4. CASE Pick
  <2>1. immutable_memtables[1] \in Number
    BY <1>4 DEF Pick, TypeOK, ControlInv
  <2>2. TypeOK' /\ ControlInv'
    BY <1>4, <2>1 DEF Pick, Front, TypeOK, ControlInv
  <2>3. InOrder'
    BY <1>4 DEF Pick, InOrder, Popped, ControlInv
  <2> QED BY <1>4, <2>2, <2>3 DEF Pick, ControlInv
<1>5. CASE Flush
  <2>1. to_flush = Len(flushed) + 1 /\ to_flush \in Number
    BY <1>5 DEF Flush, TypeOK, ControlInv, InOrder, Popped
  <2>2. TypeOK' /\ ControlInv'
    BY <1>5, <2>1 DEF Flush, TypeOK, ControlInv
  <2>3. InOrder'
    BY <1>5, <2>1 DEF Flush, InOrder, Popped, ControlInv, TypeOK
  <2> QED BY <1>5, <2>2, <2>3 DEF Flush, ControlInv
<1>6. CASE Pop
  <2>1a. Tail(immutable_memtables) \in Seq(Number)
    BY <1>6 DEF Pop, TypeOK, ControlInv
  <2>1. TypeOK' /\ ControlInv'
    BY <1>6, <2>1a DEF Pop, TypeOK, ControlInv
  <2>2. InOrder'
    <3> DEFINE q == Len(immutable_memtables)
    <3>1. /\ Popped \in Int /\ Popped' = Popped + 1
          /\ memtable' = memtable /\ flushed' = flushed
      BY <1>6 DEF Pop, Popped, TypeOK
    <3>2. /\ q \in Nat \ {0} /\ DOMAIN immutable_memtables = 1 .. q
          /\ Len(immutable_memtables') = q - 1
          /\ DOMAIN immutable_memtables' = 1 .. q - 1
          /\ \A i \in 1 .. q - 1 : immutable_memtables'[i] = immutable_memtables[i + 1]
      BY <1>6 DEF Pop, TypeOK, ControlInv
    <3>3. dpc # "closed"
      BY <1>6 DEF Pop, ControlInv
    <3> HIDE DEF q
    <3> QED BY <3>1, <3>2, <3>3 DEF InOrder, q
  <2> QED BY <1>6, <2>1, <2>2 DEF Pop, ControlInv
<1> QED BY <1>1, <1>2, <1>3, <1>4, <1>5, <1>6 DEF Background

\* FlushRemaining: the deque goes on where the flush thread has stopped, and the
\* active memtable, which is flushed first, is in neither of them.
LEMMA ClosingInv ==
  ASSUME IndInv, FlushRemaining
  PROVE  (NothingLost /\ FlushedOnce /\ ClosedIsFlushed)' /\ flushed' \in Seq(Number)
<1> USE DEF IndInv
<1> DEFINE active == IF count > 0 THEN <<memtable>> ELSE << >>
           rest == active \o immutable_memtables
           d == Len(flushed)
           a == Len(active)
           q == Len(immutable_memtables)
<1>1. /\ dpc # "closed" /\ InOrder /\ Popped = d
      /\ flushed' = flushed \o rest
      /\ UNCHANGED <<memtable, count, immutable_memtables>>
  BY DEF FlushRemaining, Remaining, ControlInv, Popped
<1>2. /\ active \in Seq(Number) /\ d \in Nat /\ q \in Nat /\ a \in 0 .. 1
      /\ count > 0 => a = 1
      /\ a = 1 => active[1] = memtable
  BY DEF TypeOK
<1>3. /\ d = Len(flushed) /\ DOMAIN flushed = 1 .. d /\ flushed \in Seq(Number)
      /\ q = Len(immutable_memtables) /\ DOMAIN immutable_memtables = 1 .. q
      /\ immutable_memtables \in Seq(Number) /\ a = Len(active)
  BY DEF TypeOK
<1> HIDE DEF active, d, a, q
<1>4. /\ rest \in Seq(Number)
      /\ Len(rest) = a + q
      /\ \A i \in 1 .. a + q :
           rest[i] = IF i <= a THEN active[i] ELSE immutable_memtables[i - a]
  BY <1>2, <1>3, ConcatProperties
<1> HIDE DEF rest
<1>5. /\ flushed \o rest \in Seq(Number)
      /\ Len(flushed \o rest) = d + (a + q)
      /\ \A i \in 1 .. d + (a + q) :
           (flushed \o rest)[i] = IF i <= d THEN flushed[i] ELSE rest[i - d]
  <2>0. flushed \in Seq(Number) /\ rest \in Seq(Number)
    BY <1>3, <1>4
  <2>1. /\ flushed \o rest \in Seq(Number)
        /\ Len(flushed \o rest) = Len(flushed) + Len(rest)
        /\ \A i \in 1 .. Len(flushed) + Len(rest) : (flushed \o rest)[i] =
             IF i <= Len(flushed) THEN flushed[i] ELSE rest[i - Len(flushed)]
    BY <2>0, ConcatProperties
  <2> QED BY <2>1, <1>3, <1>4, Zenon
<1>6. /\ flushed' \in Seq(Number)
      /\ DOMAIN flushed' = 1 .. d + a + q
      /\ \A i \in 1 .. d : flushed'[i] = i
      /\ a = 1 => flushed'[d + 1] = memtable
      /\ \A i \in 1 .. q : flushed'[d + a + i] = d + i
  <2>1. flushed' \in Seq(Number) /\ Len(flushed') = d + a + q
    BY <1>1, <1>2, <1>5
  <2>2. DOMAIN flushed' = 1 .. d + a + q
    BY <2>1, LenProperties
  <2>3. ASSUME NEW i \in 1 .. d
        PROVE  flushed'[i] = i
    <3>1. (flushed \o rest)[i] = flushed[i]
      BY <1>2, <1>5
    <3>2. flushed[i] = i
      BY <1>1, <1>3 DEF InOrder
    <3> QED BY <1>1, <3>1, <3>2
  <2>4. ASSUME a = 1
        PROVE  flushed'[d + 1] = memtable
    <3>1. (flushed \o rest)[d + 1] = rest[1]
      BY <2>4, <1>2, <1>5
    <3>2. rest[1] = active[1]
      BY <2>4, <1>2, <1>4
    <3> QED BY <1>1, <1>2, <2>4, <3>1, <3>2
  <2>5. ASSUME NEW i \in 1 .. q
        PROVE  flushed'[d + a + i] = d + i
    <3>1. (flushed \o rest)[d + a + i] = rest[a + i]
      BY <1>2, <1>5
    <3>2. rest[a + i] = immutable_memtables[i]
      BY <1>2, <1>4
    <3>3. immutable_memtables[i] = d + i
      BY <1>1, <1>3 DEF InOrder
    <3> QED BY <1>1, <3>1, <3>2, <3>3
  <2> QED BY <2>1, <2>2, <2>3, <2>4, <2>5
<1>9. memtable = d + q + 1
  BY <1>1, <1>3 DEF InOrder
<1>10. FlushedOnce'
  <2> SUFFICES ASSUME NEW i \in 1 .. d + a + q, NEW j \in 1 .. d + a + q,
                      flushed'[i] = flushed'[j]
               PROVE  i = j
    BY <1>6 DEF FlushedOnce
  <2>1. \A h \in 1 .. d + a + q : \/ h <= d /\ flushed'[h] = h
                                  \/ h = d + 1 /\ a = 1 /\ flushed'[h] = d + q + 1
                                  \/ h > d + a /\ flushed'[h] = h - a
    <3> TAKE h \in 1 .. d + a + q
    <3>1. CASE h <= d
      BY <3>1, <1>2, <1>6
    <3>2. CASE h > d /\ h <= d + a
      BY <3>2, <1>2, <1>6, <1>9
    <3>3. CASE h > d + a
      <4>1. h - (d + a) \in 1 .. q /\ h = d + a + (h - (d + a))
        BY <3>3, <1>2
      <4>2. flushed'[h] = d + (h - (d + a))
        BY <4>1, <1>6
      <4> QED BY <4>2, <3>3, <1>2
    <3> QED BY <3>1, <3>2, <3>3, <1>2
  <2> QED BY <2>1, <1>2
<1>11. \A m \in 1 .. memtable - 1 : m \in Elements(flushed')
  <2> TAKE m \in 1 .. memtable - 1
  <2>1. CASE m <= d
    <3>1. m \in DOMAIN flushed' /\ flushed'[m] = m
      BY <2>1, <1>2, <1>6
    <3> QED BY <3>1 DEF Elements
  <2>2. CASE m > d
    <3>1. m - d \in 1 .. q
      BY <2>2, <1>2, <1>9
    <3>2. flushed'[d + a + (m - d)] = d + (m - d)
      BY <3>1, <1>6
    <3>3. d + (m - d) = m /\ d + a + (m - d) \in DOMAIN flushed'
      BY <3>1, <1>2, <1>6
    <3> QED BY <3>2, <3>3 DEF Elements
  <2> QED BY <2>1, <2>2, <1>2
<1>12. count > 0 => memtable \in Elements(flushed')
  <2> HAVE count > 0
  <2>1. d + 1 \in DOMAIN flushed' /\ flushed'[d + 1] = memtable
    BY <1>2, <1>6
  <2> QED BY <2>1 DEF Elements
<1>13. NothingLost'
  BY <1>1, <1>11 DEF NothingLost
<1>14. ClosedIsFlushed'
  <2> SUFFICES ASSUME NEW m \in 1 .. memtable, m < memtable \/ count > 0
               PROVE  m \in Elements(flushed')
    BY <1>1 DEF ClosedIsFlushed
  <2>1. CASE m < memtable
    BY <2>1, <1>11, <1>9, <1>2
  <2>2. CASE m = memtable
    BY <2>2, <1>12
  <2> QED BY <2>1, <2>2, <1>9, <1>2
<1> QED BY <1>6, <1>10, <1>13, <1>14

\* The destructor.
LEMMA DestructorInv == IndInv /\ Destructor => IndInv'
<1> SUFFICES ASSUME IndInv, Destructor PROVE IndInv'
  OBVIOUS
<1>1. CASE Close
  <2>1. TypeOK' /\ ControlInv'
    BY <1>1 DEF IndInv, Close, TypeOK, ControlInv
  <2>2. InOrder'
    BY <1>1 DEF IndInv, Close, InOrder, Popped
  <2> QED BY <1>1, <2>1, <2>2 DEF IndInv, Close
<1>2. CASE NotifyAll
  <2>1. TypeOK' /\ ControlInv'
    BY <1>2 DEF IndInv, NotifyAll, Wake, TypeOK, ControlInv
  <2>2. InOrder'
    BY <1>2 DEF IndInv, NotifyAll, Wake, InOrder, Popped
  <2> QED BY <1>2, <2>1, <2>2 DEF IndInv, NotifyAll
<1>3. CASE Join
  <2>1. TypeOK' /\ ControlInv'
    BY <1>3 DEF IndInv, Join, Joinable, TypeOK, ControlInv
  <2>2. InOrder'
    BY <1>3 DEF IndInv, Join, InOrder, Popped
  <2> QED BY <1>3, <2>1, <2>2 DEF IndInv, Join
<1>4. CASE FlushRemaining
  <2>1. (NothingLost /\ FlushedOnce /\ ClosedIsFlushed)' /\ flushed' \in Seq(Number)
    BY <1>4, ClosingInv
  <2>2. TypeOK'
    BY <1>4, <2>1 DEF IndInv, FlushRemaining, TypeOK
  <2>3. ControlInv'
    BY <1>4 DEF IndInv, FlushRemaining, ControlInv
  <2> QED BY <1>4, <2>1, <2>2, <2>3 DEF IndInv, FlushRemaining
<1> QED BY <1>1, <1>2, <1>3, <1>4 DEF Destructor

\* The order of the memtables is kept by every step.
THEOREM FlushOrder == Spec => []IndInv
<1>1. IndInv /\ UNCHANGED vars => IndInv'
  BY DEF vars, IndInv, TypeOK, ControlInv, InOrder, Popped, NothingLost,
         FlushedOnce, ClosedIsFlushed
<1>2. IndInv /\ [Next]_vars => IndInv'
  BY <1>1, WriterInv, BackgroundInv, DestructorInv DEF Next
<1> QED BY InitInv, <1>2, PTL DEF Spec

\* Types of the flush thread's state, for any memtable limit and any number of failing
\* writes; a memtable is at its limit only on the way to MaybeScheduleFlush
\* (db_impl.cpp:257), or after a call that never got there (db_impl.cpp:236, 240, 246,
\* 855).
THEOREM FlushTypeCorrect == Spec => []TypeOK
BY FlushOrder, InvImplies, PTL

\* A memtable that writers have rotated out is in the deque or was flushed:
\* pop_front (db_impl.cpp:360) never removes another one.
THEOREM NothingIsLost == Spec => []NothingLost
BY FlushOrder, InvImplies, PTL

\* FlushMemTable is never given the same memtable by the flush thread and again by
\* the destructor (db_impl.cpp:44-51).
THEOREM NothingFlushedTwice == Spec => []FlushedOnce
BY FlushOrder, InvImplies, PTL

\* When the destructor has returned, every memtable with entries was flushed.
THEOREM ClosedHasFlushed == Spec => []ClosedIsFlushed
BY FlushOrder, InvImplies, PTL
=============================================================================
