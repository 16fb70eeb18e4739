--------------------------- MODULE Genesis_proofs ---------------------------
(***************************************************************************)
(* Proofs about genesis setup across restarts (core/genesis.go): a         *)
(* canonical genesis is never replaced, and a running node runs on the     *)
(* genesis it asked for with a chain config stored for it, for every set   *)
(* of genesis specifications, configs, fork height and bounds, with or     *)
(* without failing writes and crashes.                                     *)
(***************************************************************************)
EXTENDS Genesis, TLAPS

(* The positions of the writes of Genesis.Commit the invariants speak of. *)
LEMMA WritesFacts ==
  ASSUME NEW s \in 1 .. Len(Writes)
  PROVE  /\ Len(Writes) = 10
         /\ Writes[s] = "check" <=> s = 2
         /\ Writes[s] = "canon" <=> s = 7
         /\ Writes[s] = "headHeader" <=> s = 9
BY DEF Writes

(* The inductive invariant. A Commit in progress writes a genesis that has *)
(* a config; it writes the canonical hash at its seventh write, so before  *)
(* that the database has no canonical genesis and after it the hash is    *)
(* the committed genesis's; past the number check the genesis is numbered  *)
(* 0. A running node has a canonical genesis. The two running invariants   *)
(* the runs check complete it.                                             *)
IInv ==
  /\ TypeOK
  /\ pc = "commit" =>
       /\ GConfig[Committed] \in Config
       /\ step <= 7 => canon = Nil
       /\ step >= 8 => canon = GHash[Committed]
       /\ step >= 3 => GNumber[Committed] = 0
  /\ pc = "running" => canon # Nil
  /\ RunsOnRequestedGenesis
  /\ ConfigPresentWhenRunning

(* Facts on the constants the steps use.                                   *)
LEMMA HashFacts ==
  /\ \A g \in Genesis : GHash[g] \in Hash
  /\ Nil \notin Hash /\ Nil \notin Config
  /\ Default \in Genesis /\ MainnetHash \in Hash
  /\ DposChainConfig \in Config
BY GenesisAssumption DEF Hash, MainnetHash, DposChainConfig

(* An empty database satisfies the invariant.                              *)
LEMMA IInvInit == Init => IInv
<1> SUFFICES ASSUME Init PROVE IInv
  OBVIOUS
<1>1. Len(Writes) = 10
  BY DEF Writes
<1>2. TypeOK
  BY <1>1, BoundAssumption DEF Init, TypeOK
<1>3. QED
  BY <1>2 DEF Init, IInv, RunsOnRequestedGenesis, ConfigPresentWhenRunning

(* A start enters setup and changes no database entry.                     *)
LEMMA StartStep ==
  ASSUME IInv, NEW a \in Genesis \cup {Nil}, Start(a)
  PROVE  IInv'
<1>1. starts' \in 0 .. MaxStarts
  BY BoundAssumption DEF Start, IInv, TypeOK
<1>2. QED
  BY <1>1, Zenon DEF IInv, TypeOK, Start, RunsOnRequestedGenesis,
     ConfigPresentWhenRunning

(* The running node's steps and a crash keep the invariant: the canonical  *)
(* hash, the configs and the returned hash are untouched.                  *)
LEMMA RunningSteps ==
  ASSUME IInv, Import \/ Shutdown \/ Crash
  PROVE  IInv'
<1>1. CASE Import
  <2>1. headNum' \in 0 .. MaxHeight
    BY <1>1, BoundAssumption DEF Import, IInv, TypeOK
  <2>2. QED
    BY <1>1, <2>1, Zenon DEF IInv, TypeOK, Import, RunsOnRequestedGenesis,
       ConfigPresentWhenRunning
<1>2. CASE Shutdown
  BY <1>2, Zenon DEF IInv, TypeOK, Shutdown, RunsOnRequestedGenesis,
     ConfigPresentWhenRunning
<1>3. CASE Crash
  <2>1. crashes' \in 0 .. MaxCrashes
    BY <1>3, BoundAssumption DEF Crash, IInv, TypeOK
  <2>2. QED
    BY <1>3, <2>1, Zenon DEF IInv, TypeOK, Crash, RunsOnRequestedGenesis,
       ConfigPresentWhenRunning
<1>4. QED
  BY <1>1, <1>2, <1>3

(* Past the nil-config check, the config setup would write and the one a  *)
(* Commit would write are configs.                                          *)
LEMMA ConfigOfArg ==
  ASSUME IInv, ~(arg # Nil /\ GConfig[arg] = NoConfig)
  PROVE  NewCfg \in Config /\ GConfig[Committed] \in Config /\ Committed \in Genesis
BY GenesisAssumption DEF IInv, TypeOK, NewCfg, Committed, DposChainConfig

(* SetupGenesisBlock on a database that holds a genesis: every return that *)
(* starts the node follows the hash comparison and leaves a config stored *)
(* for the genesis.                                                         *)
LEMMA SetupStored ==
  ASSUME IInv, pc = "setup",
         ~(arg # Nil /\ GConfig[arg] = NoConfig), ~NeedsCommit,
         UNCHANGED step,
         IF Mismatch THEN Return(FALSE, Nil) /\ UNCHANGED cfg
         ELSE IF cfg[canon] = Nil THEN RepairConfig
         ELSE IF arg = Nil /\ canon # MainnetHash THEN Return(TRUE, canon) /\ UNCHANGED cfg
         ELSE IF headNum = Nil THEN Return(FALSE, Nil) /\ UNCHANGED cfg
         ELSE IF Incompatible(cfg[canon], NewCfg, headNum) /\ headNum # 0 /\ ForkAt - 1 # 0
           THEN Return(FALSE, Nil) /\ UNCHANGED cfg
         ELSE \E ok \in Outcome :
                /\ cfg' = IF ok THEN [cfg EXCEPT ![canon] = NewCfg] ELSE cfg
                /\ Return(ok, canon),
         UNCHANGED <<canon, headNum, dpos, arg, starts, crashes>>
  PROVE  IInv'
<1>1. canon \in Hash /\ NewCfg \in Config
  BY ConfigOfArg DEF IInv, TypeOK, NeedsCommit
<1>2. [cfg EXCEPT ![canon] = NewCfg] \in [Hash -> Config \cup {Nil}]
  BY <1>1 DEF IInv, TypeOK
<1> DEFINE Fail == pc' = "down" /\ ret' = ret /\ exit' = "error" /\ cfg' = cfg
<1> DEFINE Run(c) == pc' = "running" /\ ret' = canon /\ exit' = exit /\ cfg' = c
<1>3. Fail => IInv'
  BY HashFacts DEF IInv, TypeOK, RunsOnRequestedGenesis, ConfigPresentWhenRunning
<1>4. ASSUME NEW c \in [Hash -> Config \cup {Nil}], c[canon] # Nil, ~Mismatch, Run(c)
      PROVE  IInv'
  BY <1>1, <1>4 DEF IInv, TypeOK, RunsOnRequestedGenesis, ConfigPresentWhenRunning,
     Mismatch, NeedsCommit
<1>5. CASE Mismatch
  BY <1>3, <1>5 DEF Return
<1>6. CASE ~Mismatch /\ cfg[canon] = Nil
  <2>1. PICK ok \in Outcome : /\ cfg' = IF ok THEN [cfg EXCEPT ![canon] = NewCfg] ELSE cfg
                              /\ Return(ok, canon)
    BY <1>6 DEF RepairConfig
  <2>2. CASE ok
    <3>1. Run([cfg EXCEPT ![canon] = NewCfg])
      BY <2>1, <2>2 DEF Return
    <3>2. [cfg EXCEPT ![canon] = NewCfg][canon] # Nil
      BY <1>1, HashFacts DEF IInv, TypeOK
    <3>3. QED
      BY <1>2, <1>4, <1>6, <3>1, <3>2
  <2>3. CASE ~ok
    BY <1>3, <2>1, <2>3 DEF Return
  <2>4. QED
    BY <2>2, <2>3
<1>7. CASE ~Mismatch /\ cfg[canon] # Nil /\ arg = Nil /\ canon # MainnetHash
  BY <1>4, <1>7 DEF Return, IInv, TypeOK
<1>8. CASE ~Mismatch /\ cfg[canon] # Nil /\ ~(arg = Nil /\ canon # MainnetHash)
           /\ headNum = Nil
  BY <1>3, <1>8 DEF Return
<1>9. CASE ~Mismatch /\ cfg[canon] # Nil /\ ~(arg = Nil /\ canon # MainnetHash)
           /\ headNum # Nil
           /\ Incompatible(cfg[canon], NewCfg, headNum) /\ headNum # 0 /\ ForkAt - 1 # 0
  BY <1>3, <1>9 DEF Return
<1>10. CASE ~Mismatch /\ cfg[canon] # Nil /\ ~(arg = Nil /\ canon # MainnetHash)
            /\ headNum # Nil
            /\ ~(Incompatible(cfg[canon], NewCfg, headNum) /\ headNum # 0 /\ ForkAt - 1 # 0)
  <2>1. PICK ok \in Outcome : /\ cfg' = IF ok THEN [cfg EXCEPT ![canon] = NewCfg] ELSE cfg
                              /\ Return(ok, canon)
    BY <1>10
  <2>2. CASE ok
    <3>1. Run([cfg EXCEPT ![canon] = NewCfg])
      BY <2>1, <2>2 DEF Return
    <3>2. [cfg EXCEPT ![canon] = NewCfg][canon] # Nil
      BY <1>1, HashFacts DEF IInv, TypeOK
    <3>3. QED
      BY <1>2, <1>4, <1>10, <3>1, <3>2
  <2>3. CASE ~ok
    BY <1>3, <2>1, <2>3 DEF Return
  <2>4. QED
    BY <2>2, <2>3
<1>11. QED
  BY <1>5, <1>6, <1>7, <1>8, <1>9, <1>10

(* A step of Genesis.Commit. Before the seventh write there is no          *)
(* canonical genesis, so no write replaces one; the last write stores the *)
(* committed genesis's config and starts the node on the hash the seventh  *)
(* write made canonical; a write that fails stops the process.             *)
LEMMA CommitStepInv ==
  ASSUME IInv, CommitStep
  PROVE  IInv'
<1>0. pc = "commit"
  BY DEF CommitStep
<1> DEFINE w == Writes[step]
<1> DEFINE h == GHash[Committed]
<1> DEFINE last == step = Len(Writes)
<1>1. /\ step \in 1 .. 10 /\ Len(Writes) = 10
      /\ w = "check" <=> step = 2
      /\ w = "canon" <=> step = 7
      /\ w = "headHeader" <=> step = 9
  BY WritesFacts DEF IInv, TypeOK
<1>2. /\ pc = "commit"
      /\ GConfig[Committed] \in Config /\ Committed \in Genesis /\ h \in Hash
      /\ step <= 7 => canon = Nil
      /\ step >= 8 => canon = h
      /\ step >= 3 => GNumber[Committed] = 0
  BY GenesisAssumption, HashFacts DEF CommitStep, IInv, Committed, TypeOK
<1>3. UNCHANGED <<arg, starts, crashes>> /\ Committed' = Committed
  BY DEF CommitStep, Committed
<1>4. CASE /\ w = "check" /\ GNumber[Committed] # 0
           /\ pc' = "down" /\ exit' = "panic"
           /\ UNCHANGED <<canon, headNum, cfg, dpos, step, ret>>
  BY <1>3, <1>4, Zenon DEF IInv, TypeOK, RunsOnRequestedGenesis, ConfigPresentWhenRunning
<1>5. CASE /\ w # "check" /\ CanFail
           /\ pc' = "down" /\ exit' = IF last THEN "error" ELSE "panic"
           /\ UNCHANGED <<canon, headNum, cfg, dpos, step, ret>>
  BY <1>3, <1>5, Zenon DEF IInv, TypeOK, RunsOnRequestedGenesis, ConfigPresentWhenRunning
<1> DEFINE Write ==
      /\ w # "check" \/ GNumber[Committed] = 0
      /\ dpos' = IF w = "dpos" THEN dpos \cup {h} ELSE dpos
      /\ canon' = IF w = "canon" THEN h ELSE canon
      /\ headNum' = IF w = "headHeader" THEN GNumber[Committed] ELSE headNum
      /\ cfg' = IF last THEN [cfg EXCEPT ![h] = GConfig[Committed]] ELSE cfg
      /\ IF last THEN Return(TRUE, h) /\ UNCHANGED step
                 ELSE step' = step + 1 /\ UNCHANGED <<pc, ret, exit>>
<1>6. CASE Write
  <2>1. /\ dpos' \subseteq Hash
        /\ canon' \in Hash \cup {Nil}
        /\ headNum' \in 0 .. MaxHeight \cup {Nil}
        /\ cfg' \in [Hash -> Config \cup {Nil}]
    BY <1>1, <1>2, <1>6, BoundAssumption DEF IInv, TypeOK
  <2>2. CASE last
    <3>1. /\ pc' = "running" /\ ret' = h /\ exit' = exit /\ step' = step
          /\ canon' = h /\ cfg'[h] = GConfig[Committed]
      BY <1>1, <1>2, <1>6, <2>2 DEF Return, IInv, TypeOK
    <3>2. arg = Nil \/ GHash[arg] = h
      BY DEF Committed
    <3>3. QED
      BY <1>2, <1>3, <2>1, <3>1, <3>2, HashFacts
         DEF IInv, TypeOK, RunsOnRequestedGenesis, ConfigPresentWhenRunning
  <2>6. CASE ~last
    <3>4. /\ step' = step + 1 /\ step' \in 1 .. Len(Writes)
          /\ UNCHANGED <<pc, ret, exit>>
      BY <1>1, <1>6, <2>6
    <3>5. /\ step' <= 7 => canon' = Nil
          /\ step' >= 8 => canon' = h
          /\ step' >= 3 => GNumber[Committed] = 0
      BY <1>1, <1>2, <1>6, <3>4
    <3>6. QED
      BY <1>2, <1>3, <2>1, <3>4, <3>5
         DEF IInv, TypeOK, RunsOnRequestedGenesis, ConfigPresentWhenRunning
  <2>3. QED
    BY <2>2, <2>6
<1>7. QED
  BY <1>4, <1>5, <1>6 DEF CommitStep

(* SetupGenesisBlock keeps the invariant: a nil config is refused, an      *)
(* empty database starts a Commit of a genesis that has a config, and a    *)
(* stored genesis is handled by SetupStored.                                *)
LEMMA SetupStep ==
  ASSUME IInv, SetupGenesis
  PROVE  IInv'
<1>1. CASE /\ arg # Nil /\ GConfig[arg] = NoConfig
           /\ Return(FALSE, Nil) /\ UNCHANGED <<cfg, step>>
  <2>1. pc' = "down" /\ ret' = ret /\ exit' = "error"
    BY <1>1 DEF Return
  <2>2. QED
    BY <1>1, <2>1, HashFacts DEF SetupGenesis, IInv, TypeOK,
       RunsOnRequestedGenesis, ConfigPresentWhenRunning
<1>2. CASE /\ ~(arg # Nil /\ GConfig[arg] = NoConfig)
           /\ NeedsCommit
           /\ pc' = "commit" /\ step' = 1
           /\ UNCHANGED <<cfg, ret, exit>>
  <2>1. GConfig[Committed] \in Config /\ Committed' = Committed
    BY <1>2, ConfigOfArg DEF SetupGenesis, Committed
  <2>2. 1 \in 1 .. Len(Writes)
    BY DEF Writes
  <2>3. QED
    BY <1>2, <2>1, <2>2 DEF SetupGenesis, IInv, TypeOK, NeedsCommit,
       RunsOnRequestedGenesis, ConfigPresentWhenRunning
<1>3. CASE /\ ~(arg # Nil /\ GConfig[arg] = NoConfig) /\ ~NeedsCommit
           /\ UNCHANGED step
           /\ IF Mismatch THEN Return(FALSE, Nil) /\ UNCHANGED cfg
              ELSE IF cfg[canon] = Nil THEN RepairConfig
              ELSE IF arg = Nil /\ canon # MainnetHash THEN Return(TRUE, canon) /\ UNCHANGED cfg
              ELSE IF headNum = Nil THEN Return(FALSE, Nil) /\ UNCHANGED cfg
              ELSE IF Incompatible(cfg[canon], NewCfg, headNum) /\ headNum # 0 /\ ForkAt - 1 # 0
                THEN Return(FALSE, Nil) /\ UNCHANGED cfg
              ELSE \E ok \in Outcome :
                     /\ cfg' = IF ok THEN [cfg EXCEPT ![canon] = NewCfg] ELSE cfg
                     /\ Return(ok, canon)
  BY <1>3, SetupStored DEF SetupGenesis
<1>4. QED
  BY <1>1, <1>2, <1>3 DEF SetupGenesis

(* Every step of the node, of its setup and of a crash keeps the           *)
(* invariant.                                                               *)
LEMMA IInvStep == IInv /\ [Next]_vars => IInv'
<1> SUFFICES ASSUME IInv, [Next]_vars PROVE IInv'
  OBVIOUS
<1>1. CASE \E a \in Genesis \cup {Nil} : Start(a)
  BY <1>1, StartStep
<1>2. CASE SetupGenesis
  BY <1>2, SetupStep
<1>3. CASE CommitStep
  BY <1>3, CommitStepInv
<1>4. CASE Import \/ Shutdown \/ Crash
  BY <1>4, RunningSteps
<1>5. CASE UNCHANGED vars
  BY <1>5, Zenon DEF vars, IInv, TypeOK, Committed, RunsOnRequestedGenesis,
     ConfigPresentWhenRunning
<1>6. QED
  BY <1>1, <1>2, <1>3, <1>4, <1>5 DEF Next

(* Only the seventh write of Commit changes the canonical hash, and the    *)
(* invariant puts it on a database that has none.                           *)
LEMMA CanonStep == IInv /\ [Next]_vars => (canon # Nil => canon' = canon)
<1> SUFFICES ASSUME IInv, [Next]_vars, canon # Nil PROVE canon' = canon
  OBVIOUS
<1>1. CASE CommitStep
  <2>1. step \in 1 .. Len(Writes) /\ (Writes[step] = "canon" <=> step = 7)
    BY WritesFacts DEF IInv, TypeOK
  <2>2. Writes[step] # "canon"
    BY <1>1, <2>1 DEF IInv, CommitStep
  <2>3. QED
    BY <1>1, <2>2 DEF CommitStep
<1>2. QED
  BY <1>1 DEF Next, Start, SetupGenesis, Import, Shutdown, Crash, vars

-----------------------------------------------------------------------------
(* A canonical genesis is never replaced: no restart, with any genesis    *)
(* argument, after any crash or failed write, commits another over it.    *)
THEOREM GenesisStableHolds == Spec => GenesisStable
<1>1. IInv /\ [Next]_vars => [canon # Nil => canon' = canon]_vars
  BY CanonStep
<1>2. QED
  BY <1>1, IInvInit, IInvStep, PTL DEF Spec, GenesisStable

(* A running node runs on the genesis it was given and reports it, for    *)
(* every sequence of starts, failed writes and crashes.                    *)
THEOREM RunsOnRequestedGenesisHolds == Spec => []RunsOnRequestedGenesis
<1>1. IInv => RunsOnRequestedGenesis
  BY DEF IInv
<1>2. QED
  BY <1>1, IInvInit, IInvStep, PTL DEF Spec

(* A running node has a chain config stored for its genesis, even after a *)
(* crash interrupted the Commit that wrote the genesis.                    *)
THEOREM ConfigPresentHolds == Spec => []ConfigPresentWhenRunning
<1>1. IInv => ConfigPresentWhenRunning
  BY DEF IInv
<1>2. QED
  BY <1>1, IInvInit, IInvStep, PTL DEF Spec


-----------------------------------------------------------------------------
(* A step that starts the node on an unchanged database and argument is a *)
(* Run of the abstract store: the invariant after it says the canonical   *)
(* hash exists and is the requested genesis's.                             *)
LEMMA StartsRunning ==
  ASSUME pc # "running", pc' = "running", canon' = canon, arg' = arg, IInv'
  PROVE  GS!Run
BY DEF IInv, RunsOnRequestedGenesis, GS!Run

(* A step that neither changes the canonical hash or the argument nor      *)
(* starts or stops the node is a stutter of the abstract store.            *)
LEMMA Stutters ==
  ASSUME canon' = canon, arg' = arg, (pc' = "running") = (pc = "running")
  PROVE  UNCHANGED GS!vars
BY DEF GS!vars

(* Every step of setup, Commit, the running node and crashes maps to a    *)
(* step of the abstract store or to a stutter.                             *)
LEMMA RefineStep == IInv /\ IInv' /\ [Next]_vars => [GS!Next]_GS!vars
<1> SUFFICES ASSUME IInv, IInv', [Next]_vars PROVE [GS!Next]_GS!vars
  OBVIOUS
<1>1. CASE \E a \in Genesis \cup {Nil} : Start(a)
  <2>1. PICK a \in Genesis \cup {Nil} : Start(a)
    BY <1>1
  <2>2. GS!Request(a)
    BY <2>1 DEF Start, GS!Request
  <2>3. QED
    BY <2>2 DEF GS!Next
<1>2. CASE SetupGenesis
  <2>1. canon' = canon /\ arg' = arg /\ pc = "setup"
    BY <1>2 DEF SetupGenesis
  <2>2. CASE pc' = "running"
    BY <2>1, <2>2, StartsRunning DEF GS!Next
  <2>3. CASE pc' # "running"
    BY <2>1, <2>3, Stutters
  <2>4. QED
    BY <2>2, <2>3
<1>3. CASE CommitStep
  <2>1. arg' = arg /\ pc = "commit"
    BY <1>3 DEF CommitStep
  <2>2. step \in 1 .. Len(Writes)
    BY DEF IInv, TypeOK
  <2>3. CASE canon' # canon
    <3>1. Writes[step] = "canon" /\ canon' = GHash[Committed]
      BY <1>3, <2>3 DEF CommitStep
    <3>2. step = 7 /\ step # Len(Writes)
      BY <2>2, <3>1, WritesFacts
    <3>3. pc' = pc
      BY <1>3, <2>3, <3>2 DEF CommitStep
    <3>4. canon = Nil
      BY <2>1, <3>2 DEF IInv
    <3>5. GS!WriteGenesis
      BY <2>1, <3>1, <3>3, <3>4 DEF GS!WriteGenesis, Committed
    <3>6. QED
      BY <3>5 DEF GS!Next
  <2>4. CASE canon' = canon /\ pc' = "running"
    BY <2>1, <2>4, StartsRunning DEF GS!Next
  <2>5. CASE canon' = canon /\ pc' # "running"
    BY <2>1, <2>5, Stutters
  <2>6. QED
    BY <2>3, <2>4, <2>5
<1>4. CASE Import
  BY <1>4, Stutters DEF Import
<1>5. CASE Shutdown \/ (Crash /\ pc = "running")
  <2>1. GS!Halt
    BY <1>5 DEF Shutdown, Crash, GS!Halt
  <2>2. QED
    BY <2>1 DEF GS!Next
<1>6. CASE Crash /\ pc # "running"
  BY <1>6, Stutters DEF Crash
<1>7. CASE UNCHANGED vars
  BY <1>7, Stutters DEF vars
<1>8. QED
  BY <1>1, <1>2, <1>3, <1>4, <1>5, <1>6, <1>7 DEF Next

(* Genesis setup implements GenesisStore: its initial state is an empty   *)
(* store with no node running, and every step of SetupGenesisBlock, of     *)
(* Commit's writes, of the running node and of a crash is a step of the   *)
(* write-once store or leaves it unchanged.                                 *)
THEOREM ImplementsGenesisStoreHolds == Spec => ImplementsGenesisStore
<1>1. Init => GS!Init
  BY DEF Init, GS!Init
<1>2. IInv /\ IInv' /\ [Next]_vars => [GS!Next]_GS!vars
  BY RefineStep
<1>3. QED
  BY <1>1, <1>2, IInvInit, IInvStep, PTL DEF Spec, ImplementsGenesisStore, GS!Spec

=============================================================================
