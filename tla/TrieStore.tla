----------------------------- MODULE TrieStore -----------------------------
(***************************************************************************)
(* What trie synchronisation promises the destination store, without the  *)
(* scheduler that implements it: the store only gains nodes of the trie   *)
(* under the sync root, and every write leaves it closed under the child  *)
(* relation, so that a reader (or a restart) never finds a stored node    *)
(* whose subtree is incomplete.                                            *)
(***************************************************************************)
CONSTANTS
  Node,    \* node hashes
  Root,    \* the sync root
  Child    \* Child[n]: hashed children of node n

VARIABLE store   \* hashes in the destination store

(* A set of nodes closed under the child relation.                         *)
IsPrefixClosed(S) == \A n \in S : Child[n] \subseteq S

(* The nodes of the trie under Root: the least set that holds Root and is *)
(* closed under the child relation.                                        *)
Reach == {n \in Node : \A S \in SUBSET Node :
                          Root \in S /\ IsPrefixClosed(S) => n \in S}

(* Whatever the destination held before, as long as it is closed.          *)
Init == store \in {S \in SUBSET Node : IsPrefixClosed(S)}

(* One atomic write of nodes of the trie that keeps the store closed.     *)
Write(S) ==
  /\ IsPrefixClosed(store \cup S)
  /\ store' = store \cup S

Next == \E S \in SUBSET Reach : Write(S)

Spec == Init /\ [][Next]_store

=============================================================================
