------------------------------ MODULE TrieSync ------------------------------
(***************************************************************************)
(* The trie synchronisation scheduler (trie.TrieSync, driven by the tests  *)
(* of trie/sync_test.go; its source is not part of this snapshot and it is *)
(* modelled from the specification): it rebuilds a Merkle-Patricia trie   *)
(* into a destination store from its root hash, fetching node bytes on     *)
(* demand.                                                                 *)
(*                                                                         *)
(* A node is a hash; Child[n] is the set of hashed children that decoding  *)
(* n yields (inline children expanded). The pending table of the           *)
(* specification is split by state: pending (no bytes yet), received       *)
(* (bytes, some child not yet stored) and batch (bytes, every child        *)
(* satisfied, awaiting flush). queue holds the pending hashes not yet      *)
(* handed out by Missing.                                                  *)
(***************************************************************************)
EXTENDS Integers, FiniteSets

CONSTANTS
  Node,        \* node hashes of the source trie
  Root,        \* the sync root
  Child,       \* Child[n]: hashed children of node n
  BatchSizes,  \* arguments the caller passes to Missing(max)
  MaxCrashes   \* bound: restarts of the syncing process

ASSUME NodeAssumption == IsFiniteSet(Node)
ASSUME RootAssumption == Root \in Node
ASSUME ChildAssumption == Child \in [Node -> SUBSET Node]
ASSUME BatchAssumption == BatchSizes \subseteq Nat
ASSUME CrashAssumption == MaxCrashes \in Nat

VARIABLES
  store,     \* hashes durably written to the destination store
  pending,   \* hashes in the table whose bytes are not yet received
  queue,     \* pending hashes Missing has not yet emitted
  received,  \* hashes with bytes received and a child still missing
  batch,     \* hashes ready to be written by the next Commit
  parents,   \* parents[n]: table entries waiting for n
  missing,   \* missing[n]: missing_children of a received entry
  depth,     \* depth[n]: distance from the root, the Missing priority
  emitted,   \* hashes Missing has handed to the caller to fetch
  crashes    \* restarts so far

vars == <<store, pending, queue, received, batch, parents, missing, depth,
          emitted, crashes>>

(* Entries of the specification's pending table.                           *)
Table == pending \cup received \cup batch

TypeOK ==
  /\ store \subseteq Node
  /\ pending \subseteq Node
  /\ queue \subseteq Node
  /\ received \subseteq Node
  /\ batch \subseteq Node
  /\ parents \in [Node -> SUBSET Node]
  /\ missing \in [Node -> Int]
  /\ depth \in [Node -> Nat]
  /\ emitted \subseteq Node
  /\ crashes \in 0 .. MaxCrashes

(* A set of stored nodes closed under the child relation: what a           *)
(* destination may hold before a sync starts.                              *)
IsPrefixClosed(S) == \A n \in S : Child[n] \subseteq S

(* new(root, store): the scheduler's requests on construction. A root     *)
(* that is already stored means the sync is complete (AlreadySynced).      *)
NewPending(s) == IF Root \in s THEN {} ELSE {Root}

Init ==
  /\ store \in {S \in SUBSET Node : IsPrefixClosed(S)}
  /\ pending = NewPending(store)
  /\ queue = pending
  /\ received = {}
  /\ batch = {}
  /\ parents = [n \in Node |-> {}]
  /\ missing = [n \in Node |-> 0]
  /\ depth = [n \in Node |-> 0]
  /\ emitted = {}
  /\ crashes = 0

-----------------------------------------------------------------------------
(* missing(max): up to max queued hashes, shallowest first (max = 0: all).  *)
Missing(max) ==
  /\ queue # {}
  /\ \E out \in SUBSET queue :
       /\ Cardinality(out) = IF max = 0 \/ max >= Cardinality(queue)
                               THEN Cardinality(queue) ELSE max
       /\ \A e \in out, q \in queue \ out : depth[e] <= depth[q]
       /\ queue' = queue \ out
       /\ emitted' = emitted \cup out
  /\ UNCHANGED <<store, pending, received, batch, parents, missing, depth, crashes>>

(* Mutant: missing_children also counting children already in the store. *)
KidsCountingStored(h) == Child[h]

(* The children of h that insert is called for: those not yet stored.    *)
Kids(h) == Child[h] \ store

(* Mutant: insert looking only at entries still without bytes.            *)
FreshIgnoringReceived(h) == Kids(h) \ pending

(* The children insert adds as new entries, marked for emission: those    *)
(* not already in the pending table.                                       *)
Fresh(h) == Kids(h) \ Table

(* Mutant: a new entry put in the table but never marked for emission.   *)
ScheduleDropped(h) == queue

(* A new entry is marked for emission: pushed on the Missing queue.       *)
Schedule(h) == queue \cup Fresh(h)

(* insert(c, h) unions h into the parents of every child it is called for. *)
AddParent(h) == [n \in Node |-> IF n \in Kids(h) THEN parents[n] \cup {h}
                                                 ELSE parents[n]]

(* process of one verified result for a requested hash h: satisfy(h) and   *)
(* insert(c, h) for each child c that is not yet stored. A child already   *)
(* in the table gains h as a parent and keeps its smaller depth; any other *)
(* child is added and queued. missing_children of h is the number of such  *)
(* children; with none, h goes to batch. A result whose hash is not        *)
(* pending, or whose bytes fail to verify or decode, changes nothing.      *)
Process(h) ==
  /\ h \in pending \cap emitted
  /\ pending' = (pending \ {h}) \cup Fresh(h)
  /\ queue' = Schedule(h)
  /\ parents' = AddParent(h)
  /\ depth' = [n \in Node |->
                 IF n \in Fresh(h) THEN depth[h] + 1
                 ELSE IF n \in Kids(h) /\ depth[h] + 1 < depth[n] THEN depth[h] + 1
                 ELSE depth[n]]
  /\ missing' = [missing EXCEPT ![h] = Cardinality(Kids(h))]
  /\ \/ /\ Kids(h) = {}
        /\ batch' = batch \cup {h}
        /\ UNCHANGED received
     \/ /\ Kids(h) # {}
        /\ received' = received \cup {h}
        /\ UNCHANGED batch
  /\ UNCHANGED <<store, emitted, crashes>>

(* The decrement a received entry n gets when the nodes of W are flushed:  *)
(* one per flushed node that lists n as a parent (propagate_commit).       *)
Decrement(n, W) == Cardinality({c \in W : n \in parents[c]})

(* Mutant: a parent flushed when one child is still outstanding.          *)
IsCascadeEarly(S) ==
  S = {n \in received : missing[n] <= Decrement(n, batch \cup S) + 1}

(* The fixed point of commit's propagation: the received entries whose     *)
(* missing_children reach zero once batch and they themselves are flushed. *)
IsCascade(S) == S = {n \in received : missing[n] = Decrement(n, batch \cup S)}

Cascade == {n \in received : n \in CHOOSE S \in SUBSET received : IsCascade(S)}

(* commit(store): one atomic write of batch, then propagate_commit to the  *)
(* parents of every flushed node, repeated until no entry reaches zero;    *)
(* all of it lands in the same write.                                      *)
Commit ==
  /\ batch # {}
  /\ LET flushed == batch \cup Cascade
     IN  /\ store' = store \cup flushed
         /\ received' = received \ Cascade
         /\ missing' = [n \in Node |-> IF n \in received \ Cascade
                                         THEN missing[n] - Decrement(n, flushed)
                                         ELSE missing[n]]
  /\ batch' = {}
  /\ UNCHANGED <<pending, queue, parents, depth, emitted, crashes>>

(* The syncing process dies and starts again from the same root: the       *)
(* in-memory scheduler and its unflushed batch are lost, the store stays. *)
Restart ==
  /\ crashes < MaxCrashes
  /\ crashes' = crashes + 1
  /\ pending' = NewPending(store)
  /\ queue' = NewPending(store)
  /\ received' = {}
  /\ batch' = {}
  /\ parents' = [n \in Node |-> {}]
  /\ missing' = [n \in Node |-> 0]
  /\ depth' = [n \in Node |-> 0]
  /\ emitted' = {}
  /\ UNCHANGED store

Next ==
  \/ \E max \in BatchSizes : Missing(max)
  \/ \E h \in Node : Process(h)
  \/ Commit
  \/ Restart

(* The sync loop of the tests keeps calling missing, fetches every hash it *)
(* got, processes the results and commits after each round.               *)
Fairness ==
  /\ WF_vars(\E max \in BatchSizes : Missing(max))
  /\ \A h \in Node : WF_vars(Process(h))
  /\ WF_vars(Commit)

Spec == Init /\ [][Next]_vars /\ Fairness

-----------------------------------------------------------------------------
(* P3, prefix closure: at every moment, every node in the destination      *)
(* store has all of its children in the store, across crashes that drop   *)
(* the unflushed batch. This is what commit's fixed-point cascade and the  *)
(* missing_children counters must jointly guarantee.                       *)
PrefixClosed == IsPrefixClosed(store)

(* P2, no duplicate request: a hash that Missing still has to hand out was *)
(* not handed out before by the same scheduler, though children are       *)
(* reached along several parents and results arrive in any order.          *)
NoDuplicateRequest == emitted \cap queue = {}

(* Invariant 2 of the specification: the missing_children counter of a    *)
(* received entry equals the number of its children not yet in the store. *)
MissingCounts ==
  \A n \in received : missing[n] = Cardinality(Child[n] \ store)

(* The scheduler implements the abstract store of TrieStore: the store   *)
(* only gains nodes of the trie under the root, in writes that each keep *)
(* it closed under the child relation.                                    *)
TS == INSTANCE TrieStore

(* Every behaviour of the scheduler, crashes included, is a behaviour of  *)
(* the abstract store: commit writes only trie nodes, all at once, and    *)
(* never a node without its subtree.                                      *)
ImplementsTrieStore == TS!Spec

(* P1, completeness: the sync loop ends with the root, and by prefix       *)
(* closure the whole trie, in the store.                                   *)
Completes == <>(Root \in store)

=============================================================================
