---------------------------- MODULE MemTableFlush ----------------------------
(***************************************************************************)
(* From the tree of a memtable to a table file and back: MemTable          *)
(* (src/memtable.cpp) on top of AVLTree, FlushMemTable (src/db_impl.cpp)   *)
(* which walks through the tree and hands its entries to SSTableWriter,    *)
(* and the readers of the file.  AVLTree::Remove, which no memtable calls, *)
(* is here as another way to come by a tree.                               *)
(***************************************************************************)
EXTENDS AVLTree, SSTable

VARIABLES
  root,       \* root_
  size,       \* size_
  stack,      \* the iterator of GetSortedEntries
  mpc,        \* "fill", "flush" or "flushed"
  contents    \* history: what was put last under each key, 0 for nothing

memVars == <<root, size, stack, mpc, contents>>
vars == <<memVars, tableVars>>

Init ==
  /\ root = nullptr
  /\ size = 0
  /\ stack = << >>
  /\ mpc = "fill"
  /\ contents = [k \in Key |-> 0]
  /\ TableInit

-----------------------------------------------------------------------------
(* MemTable. *)

\* Put, Delete: the tree has the new entry, in place of the old one if any.
\* memory_usage_, which ShouldFlush goes by, is a number of keys in LSMTree.
Put(k, v) ==
  LET after == Insert(root, k, v)
  IN  /\ mpc = "fill"
      /\ root' = after.node
      /\ size' = IF after.inserted THEN size + 1 ELSE size
      /\ contents' = [contents EXCEPT ![k] = v]
      /\ UNCHANGED <<stack, mpc, tableVars>>

RemoveKey(k) ==
  LET after == Remove(root, k)
  IN  /\ mpc = "fill"
      /\ root' = after.node
      /\ size' = IF after.found THEN size - 1 ELSE size
      /\ contents' = [contents EXCEPT ![k] = 0]
      /\ UNCHANGED <<stack, mpc, tableVars>>

-----------------------------------------------------------------------------
(* FlushMemTable. *)

\* A memtable with Count() == 0 is not flushed.
FlushBegin ==
  /\ mpc = "fill" /\ size > 0
  /\ stack' = PushLeft(<< >>, root)
  /\ mpc' = "flush"
  /\ UNCHANGED <<root, size, contents, tableVars>>

FlushAdd ==
  /\ mpc = "flush" /\ stack # << >>
  /\ Add(Head(stack).key, Head(stack).value)
  /\ stack' = Advance(stack)
  /\ UNCHANGED <<root, size, mpc, contents>>

\* The table is finished and the memtable goes.
FlushEnd ==
  /\ mpc = "flush" /\ stack = << >>
  /\ Finish
  /\ root' = nullptr
  /\ size' = 0
  /\ mpc' = "flushed"
  /\ UNCHANGED <<stack, contents>>

-----------------------------------------------------------------------------
Fill == \E k \in Key : RemoveKey(k) \/ \E v \in Version[k] : Put(k, v)
Flush == FlushBegin \/ FlushAdd \/ FlushEnd
Use == Readers /\ UNCHANGED memVars

Next == Fill \/ Flush \/ Use
Spec == Init /\ [][Next]_vars

\* A thread that is in a Get or in a call of the iterator goes on; OneCall leaves
\* one such thread at a time.
Fairness == WF_vars(ReadStep /\ UNCHANGED memVars)

SerialSpec == Init /\ [][Next /\ OneCall']_vars /\ Fairness

-----------------------------------------------------------------------------
(* Properties. *)

TypeOK ==
  /\ TableTypeOK
  /\ size \in 0 .. Cardinality(Key)
  /\ mpc \in {"fill", "flush", "flushed"}
  /\ \A k \in Key : contents[k] \in Version[k] \cup {0}

\* The tree stays ordered, balanced and right about its heights through every
\* rotation of Insert and Remove (avl_tree.h:191-276); it holds what was put last
\* under each key, and size_, which decides whether a memtable is flushed at all,
\* is the number of its keys.
TreeHoldsContents ==
  mpc # "flushed" =>
    /\ IsAVLTree(root)
    /\ size = Cardinality(Nodes(root))
    /\ \A k \in Key : IF contents[k] = 0
                        THEN Find(root, k) = nullptr
                        ELSE /\ Find(root, k) # nullptr
                             /\ Find(root, k).value = contents[k]

\* The table holds what the memtable held.
TableHoldsContents ==
  table # None =>
    Entries = {OK(k, contents[k]) : k \in {j \in Key : contents[j] # 0}}

\* The flush uses the writer as it is meant to be used, with keys in ascending
\* order (memtable.cpp:122-136, db_impl.cpp:405-409), and what the readers do is
\* what SSTable says.
UsesTable == SerialTableSpec
=============================================================================
