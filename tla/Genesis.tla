------------------------------ MODULE Genesis ------------------------------
(***************************************************************************)
(* Genesis setup of core/genesis.go across node restarts: each start calls *)
(* SetupGenesisBlock(db, genesis) with the genesis the user supplied, or   *)
(* nil; on an empty database it commits the genesis (Genesis.Commit: ten   *)
(* writes in order, any of which may fail), otherwise it checks the stored *)
(* genesis and chain config and may rewrite the config. The process may    *)
(* crash at any moment; the database keeps what was written.               *)
(*                                                                         *)
(* A genesis is a model value with a hash, a config and a block number; a *)
(* config is a model value; the blocks a running node imports only move    *)
(* the head header's number.                                               *)
(***************************************************************************)
EXTENDS Naturals, Sequences

CONSTANTS
  Genesis,      \* genesis specifications a user may supply
  Default,      \* DefaultGenesisBlock(), whose hash is MainnetGenesisHash
  GHash,        \* GHash[g]: hash of g's block (ToBlock().Hash())
  GConfig,      \* GConfig[g]: g.Config, or NoConfig
  GNumber,      \* GNumber[g]: g.Number
  Config,       \* chain configurations
  NoConfig,     \* a nil Config
  ForkAt,       \* first block whose rules differ between two configs
  CanFail,      \* database writes may fail
  Nil,          \* the nil genesis argument, and a missing database entry
  MaxStarts, MaxCrashes, MaxHeight   \* bounds

Hash == {GHash[g] : g \in Genesis}

ASSUME GenesisAssumption ==
  /\ Default \in Genesis
  /\ GHash \in [Genesis -> Hash]
  /\ GConfig \in [Genesis -> Config \cup {NoConfig}]
  /\ GNumber \in [Genesis -> Nat]
  /\ GConfig[Default] \in Config /\ GNumber[Default] = 0
  /\ Nil \notin Genesis \cup Hash \cup Config \cup Nat
ASSUME BoundAssumption ==
  /\ ForkAt \in Nat /\ CanFail \in BOOLEAN
  /\ {MaxStarts, MaxCrashes, MaxHeight} \subseteq Nat

MainnetHash == GHash[Default]
DposChainConfig == GConfig[Default]

(* What a database write may return: success, or also an error.           *)
Outcome == IF CanFail THEN BOOLEAN ELSE {TRUE}

(* The writes of Genesis.Commit, in order (lines 265-300); "check" is the *)
(* block-number check between the first two.                               *)
Writes == <<"dpos", "check", "state", "td", "block", "receipts", "canon",
            "headBlock", "headHeader", "config">>

VARIABLES
  canon,     \* GetCanonicalHash(db, 0), or Nil
  headNum,   \* number of the block GetHeadHeaderHash(db) names, or Nil
  cfg,       \* cfg[h]: the chain config stored for hash h, or Nil
  dpos,      \* hashes whose genesis DposContext has been written
  pc,        \* "down", "setup", "commit", "running"
  arg,       \* the genesis argument of the current start
  step,      \* the next write of Commit
  ret,       \* hash the last successful setup returned
  exit,      \* how the process last ended: "none", "clean", "error", "crash", "panic"
  starts, crashes

vars == <<canon, headNum, cfg, dpos, pc, arg, step, ret, exit, starts, crashes>>

TypeOK ==
  /\ canon \in Hash \cup {Nil}
  /\ headNum \in 0 .. MaxHeight \cup {Nil}
  /\ cfg \in [Hash -> Config \cup {Nil}]
  /\ dpos \subseteq Hash
  /\ pc \in {"down", "setup", "commit", "running"}
  /\ arg \in Genesis \cup {Nil}
  /\ step \in 1 .. Len(Writes)
  /\ ret \in Hash \cup {Nil}
  /\ exit \in {"none", "clean", "error", "crash", "panic"}
  /\ starts \in 0 .. MaxStarts /\ crashes \in 0 .. MaxCrashes

(* An empty database.                                                      *)
Init ==
  /\ canon = Nil /\ headNum = Nil /\ cfg = [h \in Hash |-> Nil] /\ dpos = {}
  /\ pc = "down" /\ arg = Nil /\ step = 1 /\ ret = Nil /\ exit = "none"
  /\ starts = 0 /\ crashes = 0

-----------------------------------------------------------------------------
(* The node starts and calls SetupGenesisBlock with genesis a.              *)
Start(a) ==
  /\ pc = "down"
  /\ starts < MaxStarts
  /\ pc' = "setup" /\ arg' = a /\ starts' = starts + 1
  /\ UNCHANGED <<canon, headNum, cfg, dpos, step, ret, exit, crashes>>

(* The genesis Commit writes: the argument, or the default one.           *)
Committed == IF arg = Nil THEN Default ELSE arg

(* genesis.configOrDefault(stored) (lines 210-217).                        *)
NewCfg == IF arg = Nil THEN DposChainConfig ELSE GConfig[arg]

(* storedcfg.CheckCompatible(newcfg, height) fails with a RewindTo below   *)
(* the fork: two configs differ from block ForkAt on.                      *)
Incompatible(old, new, height) == old # new /\ height >= ForkAt

(* A setup returns: success starts the node, an error stops it.            *)
Return(ok, h) ==
  /\ pc' = IF ok THEN "running" ELSE "down"
  /\ ret' = IF ok THEN h ELSE ret
  /\ exit' = IF ok THEN exit ELSE "error"

(* Mutant: the commit branch taken whatever the database holds.           *)
NeedsCommitAlways == TRUE

(* stored == common.Hash{}: no canonical genesis yet (lines 158-159).           *)
NeedsCommit == canon = Nil

(* Mutant: the genesis argument not compared with the stored genesis.     *)
MismatchIgnored == FALSE

(* A supplied genesis whose block hash is not the stored one (171-177).    *)
Mismatch == arg # Nil /\ GHash[arg] # canon

(* Mutant: the missing config reported, not written.                       *)
RepairConfigSkipped ==
  /\ Return(TRUE, canon)
  /\ UNCHANGED cfg

(* ErrChainConfigNotFound: WriteChainConfig(db, stored, newcfg) (180-189). *)
RepairConfig ==
  \E ok \in Outcome :
    /\ cfg' = IF ok THEN [cfg EXCEPT ![canon] = NewCfg] ELSE cfg
    /\ Return(ok, canon)

(* SetupGenesisBlock without the body of Commit (lines 152-207).           *)
SetupGenesis ==
  /\ pc = "setup"
  /\ \/ /\ arg # Nil /\ GConfig[arg] = NoConfig
        /\ Return(FALSE, Nil) /\ UNCHANGED <<cfg, step>>
     \/ /\ ~(arg # Nil /\ GConfig[arg] = NoConfig)
        /\ NeedsCommit
        /\ pc' = "commit" /\ step' = 1
        /\ UNCHANGED <<cfg, ret, exit>>
     \/ /\ ~(arg # Nil /\ GConfig[arg] = NoConfig) /\ ~NeedsCommit
        /\ UNCHANGED step
        /\ IF Mismatch THEN Return(FALSE, Nil) /\ UNCHANGED cfg
           ELSE IF cfg[canon] = Nil THEN RepairConfig
           ELSE IF arg = Nil /\ canon # MainnetHash THEN Return(TRUE, canon) /\ UNCHANGED cfg
           ELSE IF headNum = Nil THEN Return(FALSE, Nil) /\ UNCHANGED cfg
           ELSE IF Incompatible(cfg[canon], NewCfg, headNum) /\ headNum # 0 /\ ForkAt - 1 # 0
             THEN Return(FALSE, Nil) /\ UNCHANGED cfg
           ELSE \E ok \in Outcome :
                  /\ cfg' = IF ok THEN [cfg EXCEPT ![canon] = NewCfg] ELSE cfg
                  /\ Return(ok, canon)
  /\ UNCHANGED <<canon, headNum, dpos, arg, starts, crashes>>

(* The next step of Genesis.Commit (lines 265-301) and, when it fails, the *)
(* return of SetupGenesisBlock (line 167): a nil block's Hash() is a nil   *)
(* dereference unless only the final WriteChainConfig failed.             *)
CommitStep ==
  /\ pc = "commit"
  /\ LET w == Writes[step]
         h == GHash[Committed]
         last == step = Len(Writes)
     IN  \/ /\ w = "check" /\ GNumber[Committed] # 0
            /\ pc' = "down" /\ exit' = "panic"
            /\ UNCHANGED <<canon, headNum, cfg, dpos, step, ret>>
         \/ /\ w # "check" /\ CanFail
            /\ pc' = "down" /\ exit' = IF last THEN "error" ELSE "panic"
            /\ UNCHANGED <<canon, headNum, cfg, dpos, step, ret>>
         \/ /\ w # "check" \/ GNumber[Committed] = 0
            /\ dpos' = IF w = "dpos" THEN dpos \cup {h} ELSE dpos
            /\ canon' = IF w = "canon" THEN h ELSE canon
            /\ headNum' = IF w = "headHeader" THEN GNumber[Committed] ELSE headNum
            /\ cfg' = IF last THEN [cfg EXCEPT ![h] = GConfig[Committed]] ELSE cfg
            /\ IF last THEN Return(TRUE, h) /\ UNCHANGED step
                       ELSE step' = step + 1 /\ UNCHANGED <<pc, ret, exit>>
  /\ UNCHANGED <<arg, starts, crashes>>

(* The running node imports a block on top of its head header.             *)
Import ==
  /\ pc = "running"
  /\ headNum # Nil /\ headNum < MaxHeight
  /\ headNum' = headNum + 1
  /\ UNCHANGED <<canon, cfg, dpos, pc, arg, step, ret, exit, starts, crashes>>

(* The node shuts down cleanly.                                            *)
Shutdown ==
  /\ pc = "running"
  /\ pc' = "down" /\ exit' = "clean"
  /\ UNCHANGED <<canon, headNum, cfg, dpos, arg, step, ret, starts, crashes>>

(* The process dies; the database keeps every completed write.             *)
Crash ==
  /\ pc # "down"
  /\ crashes < MaxCrashes
  /\ pc' = "down" /\ exit' = "crash" /\ crashes' = crashes + 1
  /\ UNCHANGED <<canon, headNum, cfg, dpos, arg, step, ret, starts>>

Next ==
  \/ \E a \in Genesis \cup {Nil} : Start(a)
  \/ SetupGenesis \/ CommitStep \/ Import \/ Shutdown \/ Crash

Spec == Init /\ [][Next]_vars

-----------------------------------------------------------------------------
(* Once a genesis is canonical it is never replaced: no later start, with  *)
(* any genesis argument, after any crash, commits another genesis over it. *)
GenesisStable == [][canon # Nil => canon' = canon]_vars

(* A running node runs on the genesis it was given: SetupGenesisBlock only *)
(* succeeds when the stored genesis is the supplied one (or none was       *)
(* supplied), and it reports the stored hash.                              *)
RunsOnRequestedGenesis ==
  pc = "running" => /\ ret = canon
                    /\ arg = Nil \/ GHash[arg] = canon

(* A running node has a chain config stored for its genesis, even when a   *)
(* crash interrupted the Commit that wrote the genesis.                    *)
ConfigPresentWhenRunning == pc = "running" => cfg[canon] # Nil

(* The refinement mapping to the promise of GenesisStore: the stored       *)
(* genesis is the canonical hash of block 0, the node runs when the setup *)
(* returned success, and the requested genesis is the current argument.  *)
GS == INSTANCE GenesisStore WITH stored <- canon, running <- (pc = "running"), wanted <- arg

(* Genesis setup, with its ten writes, failed writes, crashes and restarts, *)
(* implements a write-once genesis that a node runs on only when it is the *)
(* requested one.                                                           *)
ImplementsGenesisStore == GS!Spec

(* SetupGenesisBlock never panics: a genesis it cannot commit is reported  *)
(* as an error.                                                             *)
NoPanic == exit # "panic"

=============================================================================
