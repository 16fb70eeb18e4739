-------------------------- MODULE TrieSync_proofs --------------------------
(***************************************************************************)
(* Proofs about the trie synchronisation scheduler: the type invariant and *)
(* that Missing never hands out a hash twice within one scheduler, for     *)
(* every finite trie, root, batch sizes and number of restarts.            *)
(***************************************************************************)
EXTENDS TrieSync, FiniteSetTheorems, TLAPS

(* Counting a set of nodes gives a natural number: the missing_children   *)
(* counters and the decrements of propagate_commit are numbers.           *)
LEMMA CardNat ==
  ASSUME NEW T \in SUBSET Node
  PROVE  Cardinality(T) \in Nat
BY NodeAssumption, FS_Subset, FS_CardinalityType

(* The initial scheduler of new(root, store) is well typed.               *)
LEMMA TypeInit == Init => TypeOK
BY RootAssumption, CrashAssumption
   DEF Init, TypeOK, NewPending, IsPrefixClosed

(* Every step of the sync loop and every restart keeps the types.         *)
LEMMA TypeStep == TypeOK /\ [Next]_vars => TypeOK'
<1> SUFFICES ASSUME TypeOK, [Next]_vars PROVE TypeOK'
  OBVIOUS
<1>1. CASE \E max \in BatchSizes : Missing(max)
  BY <1>1 DEF Missing, TypeOK
<1>2. CASE \E h \in Node : Process(h)
  <2>1. PICK h \in Node : Process(h)
    BY <1>2
  <2>2. Kids(h) \subseteq Node /\ Fresh(h) \subseteq Node
    BY ChildAssumption DEF Kids, Fresh
  <2>3. Cardinality(Kids(h)) \in Nat
    BY <2>2, CardNat
  <2>4. parents' \in [Node -> SUBSET Node]
    BY <2>1 DEF Process, AddParent, TypeOK
  <2>5. depth' \in [Node -> Nat] /\ missing' \in [Node -> Int]
    BY <2>1, <2>3 DEF Process, TypeOK
  <2>6. pending' \subseteq Node /\ queue' \subseteq Node
    BY <2>1, <2>2 DEF Process, Schedule, TypeOK
  <2>7. received' \subseteq Node /\ batch' \subseteq Node
    BY <2>1 DEF Process, TypeOK
  <2>8. QED
    BY <2>1, <2>4, <2>5, <2>6, <2>7 DEF Process, TypeOK
<1>3. CASE Commit
  <2>1. Cascade \subseteq received
    BY DEF Cascade
  <2>2. \A n \in Node : Decrement(n, batch \cup Cascade) \in Nat
    BY <2>1, CardNat DEF Decrement, TypeOK
  <2>3. \A n \in Node : (IF n \in received \ Cascade
                           THEN missing[n] - Decrement(n, batch \cup Cascade)
                           ELSE missing[n]) \in Int
    <3> SUFFICES ASSUME NEW n \in Node
                 PROVE  (IF n \in received \ Cascade
                           THEN missing[n] - Decrement(n, batch \cup Cascade)
                           ELSE missing[n]) \in Int
      OBVIOUS
    <3>1. Decrement(n, batch \cup Cascade) \in Nat /\ missing[n] \in Int
      BY <2>2 DEF TypeOK
    <3>2. QED
      BY <3>1
  <2>4. missing' \in [Node -> Int]
    BY <1>3, <2>3, Zenon DEF Commit
  <2>5. QED
    BY <1>3, <2>1, <2>4 DEF Commit, TypeOK
<1>4. CASE Restart
  BY <1>4, RootAssumption, CrashAssumption DEF Restart, NewPending, TypeOK
<1>5. CASE UNCHANGED vars
  BY <1>5 DEF vars, TypeOK
<1>6. QED
  BY <1>1, <1>2, <1>3, <1>4, <1>5 DEF Next

(* The scheduler's variables keep their types through any run of the sync *)
(* loop and any crash and restart.                                          *)
THEOREM TypeCorrect == Spec => []TypeOK
BY TypeInit, TypeStep, PTL DEF Spec

-----------------------------------------------------------------------------
(* The inductive invariant behind NoDuplicateRequest. It is not inductive  *)
(* alone: Process queues the fresh children of a node, and they must not   *)
(* have been emitted already. Every emitted hash stays in the table or in  *)
(* the store (it leaves pending only for received or batch, and those only *)
(* for the store), while fresh children are outside both; and the queue   *)
(* only holds pending hashes, so the processed hash is not queued.         *)
IInv ==
  /\ TypeOK
  /\ queue \subseteq pending
  /\ emitted \cap queue = {}
  /\ emitted \subseteq Table \cup store

(* A new scheduler satisfies the invariant: it has emitted nothing.       *)
LEMMA IInvInit == Init => IInv
BY TypeInit DEF Init, IInv, Table

(* Missing, Process, Commit and Restart preserve the invariant.            *)
LEMMA IInvStep == IInv /\ [Next]_vars => IInv'
<1> SUFFICES ASSUME IInv, [Next]_vars PROVE IInv'
  OBVIOUS
<1>0. TypeOK'
  BY TypeStep DEF IInv
<1>1. CASE \E max \in BatchSizes : Missing(max)
  BY <1>0, <1>1 DEF Missing, IInv, Table
<1>2. CASE \E h \in Node : Process(h)
  <2>1. PICK h \in Node : Process(h)
    BY <1>2
  <2>2. h \notin queue
    BY <2>1 DEF Process, IInv
  <2>3. Fresh(h) \cap (Table \cup store) = {}
    BY DEF Fresh, Kids
  <2>4. h \in received' \cup batch'
    BY <2>1 DEF Process
  <2>5. QED
    BY <1>0, <2>1, <2>2, <2>3, <2>4 DEF Process, Schedule, IInv, Table
<1>3. CASE Commit
  BY <1>0, <1>3 DEF Commit, IInv, Table
<1>4. CASE Restart
  BY <1>0, <1>4 DEF Restart, IInv
<1>5. CASE UNCHANGED vars
  BY <1>0, <1>5 DEF vars, IInv, Table
<1>6. QED
  BY <1>1, <1>2, <1>3, <1>4, <1>5 DEF Next

(* P2: no hash is handed out by Missing twice by one scheduler, however    *)
(* children are shared between parents and results are processed, for     *)
(* every trie.                                                              *)
THEOREM NoDuplicateRequestHolds == Spec => []NoDuplicateRequest
<1>1. IInv => NoDuplicateRequest
  BY DEF IInv, NoDuplicateRequest
<1>2. QED
  BY <1>1, IInvInit, IInvStep, PTL DEF Spec

-----------------------------------------------------------------------------
(* The inductive invariant behind PrefixClosed and MissingCounts. Commit  *)
(* flushes batch and the cascade; a batch entry had every child stored    *)
(* when it was processed, and a cascade entry has as many flushed         *)
(* children listing it as a parent as it has children missing from the   *)
(* store. For that count to mean "every missing child is flushed", the    *)
(* counters must be exact, every missing child of a received entry must  *)
(* list it as a parent, parents may only be listed by their own children, *)
(* and nothing in the table may already be stored.                        *)
PInv ==
  /\ IInv
  /\ PrefixClosed
  /\ MissingCounts
  /\ store \cap Table = {}
  /\ pending \cap (received \cup batch) = {}
  /\ received \cap batch = {}
  /\ \A n \in batch : Child[n] \subseteq store
  /\ \A n \in received : \A c \in Child[n] \ store : n \in parents[c]
  /\ \A c \in Node : \A n \in parents[c] : c \in Child[n]

(* The flushed children of a received entry that list it as a parent are *)
(* exactly its flushed children missing from the store, and there are no  *)
(* more of them than its missing_children counter says.                   *)
LEMMA DecrementCounts ==
  ASSUME PInv, NEW n \in received, NEW W \in SUBSET Node, W \cap store = {}
  PROVE  /\ {c \in W : n \in parents[c]} = (Child[n] \ store) \cap W
         /\ IsFiniteSet(Child[n] \ store)
         /\ Decrement(n, W) = Cardinality((Child[n] \ store) \cap W)
         /\ Decrement(n, W) <= missing[n]
<1>1. {c \in W : n \in parents[c]} = (Child[n] \ store) \cap W
  BY DEF PInv
<1>2. IsFiniteSet(Child[n] \ store) /\ Child[n] \ store \in SUBSET Node
  BY NodeAssumption, ChildAssumption, FS_Subset DEF PInv, IInv, TypeOK
<1>3. Cardinality((Child[n] \ store) \cap W) <= Cardinality(Child[n] \ store)
  BY <1>2, FS_Subset
<1>4. QED
  BY <1>1, <1>2, <1>3 DEF Decrement, PInv, MissingCounts

(* The entries whose counter the flush of batch and S would bring to zero *)
(* or below: the operator whose fixed points commit's cascade looks for.  *)
PreCascade(S) == {n \in received : missing[n] <= Decrement(n, batch \cup S)}

(* Nothing in batch or received is stored.                                 *)
LEMMA FlushedUnstored ==
  ASSUME PInv, NEW S \in SUBSET received
  PROVE  /\ batch \cup S \in SUBSET Node
         /\ (batch \cup S) \cap store = {}
BY DEF PInv, IInv, TypeOK, Table

(* Flushing more nodes never raises a counter's remainder: PreCascade is  *)
(* monotone.                                                               *)
LEMMA PreCascadeMonotone ==
  ASSUME PInv, NEW S \in SUBSET received, NEW T \in SUBSET received, S \subseteq T
  PROVE  PreCascade(S) \subseteq PreCascade(T)
<1> SUFFICES ASSUME NEW n \in PreCascade(S) PROVE n \in PreCascade(T)
  BY DEF PreCascade
<1>1. n \in received /\ missing[n] <= Decrement(n, batch \cup S)
  BY DEF PreCascade
<1>2. IsFiniteSet({c \in batch \cup T : n \in parents[c]})
      /\ {c \in batch \cup S : n \in parents[c]}
           \subseteq {c \in batch \cup T : n \in parents[c]}
  BY FlushedUnstored, NodeAssumption, FS_Subset
<1>3. Decrement(n, batch \cup S) <= Decrement(n, batch \cup T)
  BY <1>2, FS_Subset DEF Decrement
<1>4. Decrement(n, batch \cup S) \in Nat /\ Decrement(n, batch \cup T) \in Nat
      /\ missing[n] \in Int
  <2>1. {c \in batch \cup S : n \in parents[c]} \in SUBSET Node
        /\ {c \in batch \cup T : n \in parents[c]} \in SUBSET Node
    BY FlushedUnstored
  <2>2. n \in Node
    BY <1>1 DEF PInv, IInv, TypeOK
  <2>3. QED
    BY <2>1, <2>2, CardNat DEF Decrement, PInv, IInv, TypeOK
<1>5. QED
  BY <1>1, <1>3, <1>4 DEF PreCascade

(* Within received, a fixed point of PreCascade is a cascade: a counter  *)
(* never drops below zero, so reaching zero is the same as passing it.   *)
LEMMA PreCascadeFixed ==
  ASSUME PInv, NEW S \in SUBSET received, S = PreCascade(S)
  PROVE  IsCascade(S)
<1>1. \A n \in received : Decrement(n, batch \cup S) <= missing[n]
        /\ Decrement(n, batch \cup S) \in Nat /\ missing[n] \in Int
  BY FlushedUnstored, DecrementCounts, CardNat DEF Decrement, PInv, IInv, TypeOK
<1>2. QED
  BY <1>1 DEF IsCascade, PreCascade

(* Commit's cascade exists: the intersection of all the sets that         *)
(* PreCascade maps into themselves is a fixed point (Knaster-Tarski).    *)
LEMMA CascadeExists ==
  ASSUME PInv
  PROVE  \E S \in SUBSET received : IsCascade(S)
<1> DEFINE Closed == {S \in SUBSET received : PreCascade(S) \subseteq S}
           L == {n \in received : \A S \in Closed : n \in S}
<1>1. L \in SUBSET received /\ \A S \in Closed : L \subseteq S
  OBVIOUS
<1>2. PreCascade(L) \subseteq L
  <2> SUFFICES ASSUME NEW S \in Closed PROVE PreCascade(L) \subseteq S
    BY DEF PreCascade
  <2>1. PreCascade(L) \subseteq PreCascade(S)
    BY <1>1, PreCascadeMonotone
  <2>2. QED
    BY <2>1
<1>3. PreCascade(L) \in SUBSET received
  BY DEF PreCascade
<1>4. PreCascade(PreCascade(L)) \subseteq PreCascade(L)
  BY <1>1, <1>2, <1>3, PreCascadeMonotone
<1>5. L \subseteq PreCascade(L)
  BY <1>3, <1>4
<1>6. QED
  BY <1>1, <1>2, <1>5, PreCascadeFixed

(* The cascade Commit flushes is one of the received entries and is a    *)
(* fixed point of the propagation.                                         *)
LEMMA CascadeFixed ==
  ASSUME PInv
  PROVE  Cascade \subseteq received /\ IsCascade(Cascade)
<1>1. PICK S0 \in SUBSET received :
        S0 = CHOOSE S \in SUBSET received : IsCascade(S)
  OBVIOUS
<1>2. IsCascade(S0) /\ S0 \subseteq received
  BY <1>1, CascadeExists
<1>3. Cascade = S0
  BY <1>1, <1>2 DEF Cascade
<1>4. QED
  BY <1>2, <1>3

(* Every child of a cascade entry is stored or flushed with it.           *)
LEMMA CascadeChildren ==
  ASSUME PInv, NEW n \in Cascade
  PROVE  Child[n] \subseteq store \cup batch \cup Cascade
<1>1. Cascade \subseteq received /\ IsCascade(Cascade)
  BY CascadeFixed
<1>2. n \in received /\ missing[n] = Decrement(n, batch \cup Cascade)
  BY <1>1 DEF IsCascade
<1>3. /\ IsFiniteSet(Child[n] \ store)
      /\ Decrement(n, batch \cup Cascade)
           = Cardinality((Child[n] \ store) \cap (batch \cup Cascade))
      /\ missing[n] = Cardinality(Child[n] \ store)
  BY <1>1, <1>2, FlushedUnstored, DecrementCounts DEF PInv, MissingCounts
<1>4. (Child[n] \ store) \cap (batch \cup Cascade) = Child[n] \ store
  BY <1>2, <1>3, FS_Subset
<1>5. QED
  BY <1>4

(* The counter of an entry left in received after Commit, less what the  *)
(* flush takes off, counts its children still missing from the store.    *)
LEMMA CommitCounts ==
  ASSUME PInv, NEW n \in received \ Cascade
  PROVE  missing[n] - Decrement(n, batch \cup Cascade)
           = Cardinality(Child[n] \ (store \cup batch \cup Cascade))
<1> DEFINE M == Child[n] \ store
           W == batch \cup Cascade
<1>1. Cascade \subseteq received
  BY CascadeFixed
<1>2. /\ IsFiniteSet(M)
      /\ Decrement(n, W) = Cardinality(M \cap W)
      /\ missing[n] = Cardinality(M)
  BY <1>1, FlushedUnstored, DecrementCounts DEF PInv, MissingCounts
<1>3. Cardinality(M \ W) = Cardinality(M) - Cardinality(M \cap W)
  BY <1>2, FS_Difference
<1>4. M \ W = Child[n] \ (store \cup batch \cup Cascade)
  OBVIOUS
<1>5. QED
  BY <1>2, <1>3, <1>4

(* A new scheduler over a prefix-closed store satisfies the invariant.    *)
LEMMA PInvInit == Init => PInv
<1> SUFFICES ASSUME Init PROVE PInv
  OBVIOUS
<1>1. IInv
  BY IInvInit
<1>2. store \cap Table = {}
  BY DEF Init, NewPending, Table
<1>3. QED
  BY <1>1, <1>2 DEF Init, PInv, PrefixClosed, MissingCounts, IsPrefixClosed

(* Process of a result keeps the invariant: the processed entry's counter *)
(* is set to its unstored children, and each of them lists it as parent.  *)
LEMMA PInvProcess ==
  ASSUME PInv, NEW h \in Node, Process(h)
  PROVE  PInv'
<1>1. IInv'
  BY IInvStep DEF Next, PInv
<1>2. h \in pending /\ h \notin received \cup batch /\ h \notin store
  BY DEF Process, PInv, Table
<1>3. Fresh(h) \cap (Table \cup store) = {} /\ Kids(h) = Child[h] \ store
  BY DEF Fresh, Kids
<1>4. UNCHANGED store
  BY DEF Process
<1>5. MissingCounts'
  <2> SUFFICES ASSUME NEW n \in received' PROVE missing'[n] = Cardinality(Child[n] \ store)
    BY <1>4 DEF MissingCounts
  <2>1. CASE n = h
    BY <2>1, <1>3 DEF Process, PInv, IInv, TypeOK
  <2>2. CASE n # h
    BY <2>2 DEF Process, PInv, MissingCounts
  <2>3. QED
    BY <2>1, <2>2
<1>6. store' \cap Table' = {} /\ pending' \cap (received' \cup batch') = {}
      /\ received' \cap batch' = {}
  BY <1>2, <1>3, <1>4 DEF Process, PInv, Table
<1>7. \A n \in batch' : Child[n] \subseteq store'
  BY <1>3, <1>4 DEF Process, PInv
<1>8. \A n \in received' : \A c \in Child[n] \ store' : n \in parents'[c]
  <2> SUFFICES ASSUME NEW n \in received', NEW c \in Child[n] \ store
               PROVE  n \in parents'[c]
    BY <1>4
  <2>1. received' \subseteq received \cup {h} /\ received \subseteq Node
    BY DEF Process, PInv, IInv, TypeOK
  <2>2. c \in Node
    BY <2>1, ChildAssumption
  <2>3. parents'[c] = IF c \in Kids(h) THEN parents[c] \cup {h} ELSE parents[c]
    BY <2>2 DEF Process, AddParent
  <2>4. CASE n = h
    BY <1>3, <2>3, <2>4
  <2>5. CASE n # h
    BY <2>1, <2>3, <2>5 DEF PInv
  <2>6. QED
    BY <2>4, <2>5
<1>9. \A c \in Node : \A n \in parents'[c] : c \in Child[n]
  BY DEF Process, AddParent, Kids, PInv
<1>10. QED
  BY <1>1, <1>4, <1>5, <1>6, <1>7, <1>8, <1>9 DEF PInv, PrefixClosed

(* Commit keeps the invariant: every flushed node has its children stored *)
(* or flushed with it, and the counters left behind lose exactly the      *)
(* flushed children.                                                       *)
LEMMA PInvCommit ==
  ASSUME PInv, Commit
  PROVE  PInv'
<1> DEFINE W == batch \cup Cascade
<1>1. IInv'
  BY IInvStep DEF Next, PInv
<1>2. Cascade \subseteq received
  BY CascadeFixed
<1>3. store' = store \cup W /\ received' = received \ Cascade /\ batch' = {}
      /\ UNCHANGED <<pending, parents>>
  BY DEF Commit
<1>4. PrefixClosed'
  <2> SUFFICES ASSUME NEW n \in store' PROVE Child[n] \subseteq store'
    BY DEF PrefixClosed, IsPrefixClosed
  <2>1. CASE n \in store
    BY <1>3, <2>1 DEF PInv, PrefixClosed, IsPrefixClosed
  <2>2. CASE n \in batch
    BY <1>3, <2>2 DEF PInv
  <2>3. CASE n \in Cascade
    BY <1>3, <2>3, CascadeChildren
  <2>4. QED
    BY <1>3, <2>1, <2>2, <2>3
<1>5. MissingCounts'
  <2> SUFFICES ASSUME NEW n \in received'
               PROVE  missing'[n] = Cardinality(Child[n] \ store')
    BY DEF MissingCounts
  <2>1. n \in received \ Cascade /\ n \in Node
    BY <1>3 DEF PInv, IInv, TypeOK
  <2>2. missing'[n] = missing[n] - Decrement(n, W)
    BY <2>1 DEF Commit
  <2>3. QED
    BY <1>3, <2>1, <2>2, CommitCounts
<1>6. store' \cap Table' = {} /\ pending' \cap (received' \cup batch') = {}
      /\ received' \cap batch' = {}
  BY <1>2, <1>3 DEF PInv, Table
<1>7. \A n \in received' : \A c \in Child[n] \ store' : n \in parents'[c]
  BY <1>3 DEF PInv
<1>8. QED
  BY <1>1, <1>3, <1>4, <1>5, <1>6, <1>7 DEF PInv

(* Missing, Process, Commit and Restart preserve the invariant.            *)
LEMMA PInvStep == PInv /\ [Next]_vars => PInv'
<1> SUFFICES ASSUME PInv, [Next]_vars PROVE PInv'
  OBVIOUS
<1>1. IInv'
  BY IInvStep DEF PInv
<1>2. CASE \E max \in BatchSizes : Missing(max)
  BY <1>1, <1>2 DEF Missing, PInv, PrefixClosed, MissingCounts, Table
<1>3. CASE \E h \in Node : Process(h)
  BY <1>3, PInvProcess
<1>4. CASE Commit
  BY <1>4, PInvCommit
<1>5. CASE Restart
  BY <1>1, <1>5 DEF Restart, NewPending, PInv, PrefixClosed, MissingCounts, Table
<1>6. CASE UNCHANGED vars
  BY <1>1, <1>6 DEF vars, PInv, PrefixClosed, MissingCounts, Table
<1>7. QED
  BY <1>2, <1>3, <1>4, <1>5, <1>6 DEF Next

(* P3: the destination store is closed under the child relation at every *)
(* moment, for every finite trie (shared children and cycles included),  *)
(* every batch size and every crash that drops the unflushed batch:       *)
(* commit's cascade flushes a node only with all its children.            *)
THEOREM PrefixClosedHolds == Spec => []PrefixClosed
<1>1. PInv => PrefixClosed
  BY DEF PInv
<1>2. QED
  BY <1>1, PInvInit, PInvStep, PTL DEF Spec

(* Invariant 2: the missing_children counter of every received entry is  *)
(* the number of its children not yet in the store, through every order  *)
(* of results, every commit's cascade and every restart.                 *)
THEOREM MissingCountsHolds == Spec => []MissingCounts
<1>1. PInv => MissingCounts
  BY DEF PInv
<1>2. QED
  BY <1>1, PInvInit, PInvStep, PTL DEF Spec

-----------------------------------------------------------------------------
(* The refinement of TrieStore. Its invariant adds to PInv that the table *)
(* holds only nodes of the trie under the root: the root is, and a fresh  *)
(* entry is a child of a table entry.                                     *)
RInv == PInv /\ Table \subseteq TS!Reach

(* The nodes under the root include the root and every child of theirs.  *)
LEMMA ReachClosed ==
  /\ Root \in TS!Reach
  /\ \A n \in TS!Reach : Child[n] \subseteq TS!Reach
<1>1. Root \in TS!Reach
  BY RootAssumption DEF TS!Reach
<1>2. ASSUME NEW n \in TS!Reach, NEW c \in Child[n] PROVE c \in TS!Reach
  <2>1. n \in Node /\ c \in Node
    BY ChildAssumption DEF TS!Reach
  <2>2. QED
    BY <2>1 DEF TS!Reach, TS!IsPrefixClosed
<1>3. QED
  BY <1>1, <1>2

(* A new scheduler's table is at most the root.                           *)
LEMMA RInvInit == Init => RInv
BY PInvInit, ReachClosed DEF Init, NewPending, RInv, Table

(* Every step keeps the table under the root.                             *)
LEMMA RInvStep == RInv /\ [Next]_vars => RInv'
<1> SUFFICES ASSUME RInv, [Next]_vars PROVE RInv'
  OBVIOUS
<1>1. PInv'
  BY PInvStep DEF RInv
<1>2. CASE \E h \in Node : Process(h)
  <2>1. PICK h \in Node : Process(h)
    BY <1>2
  <2>2. h \in TS!Reach
    BY <2>1 DEF Process, RInv, Table
  <2>3. Fresh(h) \subseteq TS!Reach
    BY <2>2, ReachClosed DEF Fresh, Kids
  <2>4. Table' \subseteq Table \cup Fresh(h)
    BY <2>1 DEF Process, Table
  <2>5. QED
    BY <1>1, <2>3, <2>4 DEF RInv
<1>3. CASE \/ \E max \in BatchSizes : Missing(max)
           \/ Commit \/ Restart \/ UNCHANGED vars
  <2>1. Table' \subseteq Table \/ Table' \subseteq {Root}
    BY <1>3 DEF Missing, Commit, Restart, NewPending, vars, Table
  <2>2. QED
    BY <1>1, <2>1, ReachClosed DEF RInv
<1>4. QED
  BY <1>2, <1>3 DEF Next

(* Each step of the scheduler is a write of TrieStore or leaves the store *)
(* alone: Commit writes batch and its cascade, table entries under the   *)
(* root, and the store it leaves is closed.                               *)
LEMMA RefineStep == RInv /\ RInv' /\ [Next]_vars => [TS!Next]_store
<1> SUFFICES ASSUME RInv, RInv', [Next]_vars PROVE [TS!Next]_store
  OBVIOUS
<1>1. CASE Commit
  <2> DEFINE W == batch \cup Cascade
  <2>1. Cascade \subseteq received
    BY CascadeFixed DEF RInv
  <2>2. W \in SUBSET TS!Reach
    BY <2>1 DEF RInv, Table
  <2>3. store' = store \cup W
    BY <1>1 DEF Commit
  <2>4. TS!IsPrefixClosed(store \cup W)
    BY <2>3 DEF RInv, PInv, PrefixClosed, IsPrefixClosed, TS!IsPrefixClosed
  <2>5. QED
    BY <2>2, <2>3, <2>4 DEF TS!Next, TS!Write
<1>2. CASE ~Commit
  BY <1>2 DEF Next, Missing, Process, Restart, vars
<1>3. QED
  BY <1>1, <1>2

(* The scheduler implements the abstract store: whatever the results'     *)
(* order, batch sizes and crashes, the destination only gains nodes of   *)
(* the trie under the root, and every commit leaves it closed under the  *)
(* child relation, for every finite trie.                                 *)
THEOREM ImplementsTrieStoreHolds == Spec => ImplementsTrieStore
<1>1. Init => TS!Init
  BY DEF Init, TS!Init, IsPrefixClosed, TS!IsPrefixClosed
<1>2. QED
  BY <1>1, RInvInit, RInvStep, RefineStep, PTL
     DEF Spec, ImplementsTrieStore, TS!Spec

=============================================================================
