---------------------------- MODULE GenesisStore ----------------------------
(***************************************************************************)
(* What genesis setup promises a node across its starts, without the      *)
(* database writes that implement it: the database holds at most one      *)
(* genesis, written once, the one requested when it was written (or the   *)
(* default one); a node runs only when a genesis is stored and it is the  *)
(* one the node was started with, if one was given.                       *)
(***************************************************************************)
CONSTANTS
  Genesis,   \* genesis specifications a user may supply
  Default,   \* the genesis written when none is supplied
  GHash,     \* GHash[g]: the hash of g's block
  Nil        \* no genesis argument, and no stored genesis

VARIABLES
  stored,    \* hash of the stored genesis, or Nil
  running,   \* the node is running
  wanted     \* the genesis the node was last started with, or Nil

vars == <<stored, running, wanted>>

Init ==
  /\ stored = Nil
  /\ running = FALSE
  /\ wanted = Nil

(* The node is started with genesis a (or none).                           *)
Request(a) ==
  /\ ~running
  /\ wanted' = a
  /\ UNCHANGED <<stored, running>>

(* The genesis is written, once, into an empty database.                   *)
WriteGenesis ==
  /\ stored = Nil
  /\ stored' = GHash[IF wanted = Nil THEN Default ELSE wanted]
  /\ UNCHANGED <<running, wanted>>

(* The node runs on the stored genesis, if it is the requested one.        *)
Run ==
  /\ ~running
  /\ stored # Nil
  /\ wanted = Nil \/ GHash[wanted] = stored
  /\ running' = TRUE
  /\ UNCHANGED <<stored, wanted>>

(* The node stops, cleanly or not.                                          *)
Halt ==
  /\ running
  /\ running' = FALSE
  /\ UNCHANGED <<stored, wanted>>

Next == (\E a \in Genesis \cup {Nil} : Request(a)) \/ WriteGenesis \/ Run \/ Halt

Spec == Init /\ [][Next]_vars

=============================================================================
