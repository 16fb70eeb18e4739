----------------------------- MODULE MC_TrieSync -----------------------------
(* Model-checking instance of TrieSync: a six-node trie whose node 4 is    *)
(* shared by two parents (a shared subtree), with a two-level chain below  *)
(* it, as in the deduplication scenario of the specification.              *)
EXTENDS TrieSync

MC_Node == 1 .. 6
MC_Child == [n \in MC_Node |->
               CASE n = 1 -> {2, 3}
                 [] n = 2 -> {4}
                 [] n = 3 -> {4, 5}
                 [] n = 4 -> {6}
                 [] OTHER -> {}]
=============================================================================
