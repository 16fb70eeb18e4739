------------------------------- MODULE Sealer -------------------------------
(***************************************************************************)
(* The proof-of-work sealer of consensus/bgmash/sealer.go: Seal starts a   *)
(* group of mining goroutines (mine) that search for a nonce, waits on     *)
(* three channels (the caller's stop, the miners' unbuffered found, the    *)
(* engine's update), closes abort to end the round and joins the miners    *)
(* with a WaitGroup before it returns or restarts.                          *)
(*                                                                         *)
(* Data is abstracted: a sealed block is identified by the miner that     *)
(* found it; the nonce search itself is a nondeterministic success.         *)
(***************************************************************************)
EXTENDS Integers, FiniteSets

CONSTANTS
  NumCPU,          \* runtime.NumCPU()
  ThreadSettings,  \* values bgmash.threads may hold (SetThreads inputs)
  InitThreads,     \* bgmash.threads when the engine is created
  MaxCalls,        \* bound: number of Seal calls made by the caller
  MaxUpdates,      \* bound: number of thread-count changes
  NoBlock          \* model value: Seal's nil result

ASSUME NumCPUAssumption == NumCPU \in Nat \ {0}
ASSUME ThreadsAssumption == ThreadSettings \subseteq Int /\ InitThreads \in ThreadSettings
ASSUME BoundsAssumption == MaxCalls \in Nat /\ MaxUpdates \in Nat

(* Number of miner goroutines Seal starts for a threads setting           *)
(* (sealer.go 61-66): 0 means one per CPU, a negative value disables them. *)
MinerCount(t) == IF t = 0 THEN NumCPU ELSE IF t < 0 THEN 0 ELSE t

MaxThreads == LET counts == {MinerCount(t) : t \in ThreadSettings}
              IN  CHOOSE m \in counts : \A c \in counts : c <= m

(* Miner goroutine ids, the id argument of mine.                           *)
Miner == 0 .. MaxThreads - 1

VARIABLES
  fakeMode,    \* bgmash.fakeMode, fixed when the engine is created
  sealPc,      \* where the Seal goroutine is
  threads,     \* bgmash.threads
  want,        \* Seal's local copy of bgmash.threads
  randReady,   \* bgmash.rand != nil
  abort,       \* the current round's abort channel is closed
  minerPc,     \* where each miner goroutine of the current round is
  stopClosed,  \* the caller's stop channel is closed
  result,      \* Seal's local result: NoBlock or the miner whose block it got
  calls,       \* Seal calls made so far
  updates      \* SetThreads calls made so far

vars == <<fakeMode, sealPc, threads, want, randReady, abort, minerPc, stopClosed, result,
          calls, updates>>

SealPcs  == {"idle", "start", "spawn", "select", "join", "rejoin"}
MinerPcs == {"exited", "search", "found"}

TypeOK ==
  /\ fakeMode \in BOOLEAN
  /\ sealPc \in SealPcs
  /\ threads \in ThreadSettings
  /\ want \in ThreadSettings
  /\ randReady \in BOOLEAN
  /\ abort \in BOOLEAN
  /\ minerPc \in [Miner -> MinerPcs]
  /\ stopClosed \in BOOLEAN
  /\ result \in Miner \cup {NoBlock}
  /\ calls \in 0 .. MaxCalls
  /\ updates \in 0 .. MaxUpdates

AllExited == \A i \in Miner : minerPc[i] = "exited"

Init ==
  /\ fakeMode \in BOOLEAN
  /\ sealPc = "idle"
  /\ threads = InitThreads
  /\ want = InitThreads
  /\ randReady = FALSE
  /\ abort = TRUE
  /\ minerPc = [i \in Miner |-> "exited"]
  /\ stopClosed = FALSE
  /\ result = NoBlock
  /\ calls = 0
  /\ updates = 0

-----------------------------------------------------------------------------
(* The caller (the mining agent) invokes Seal with a fresh stop channel.   *)
Call ==
  /\ sealPc = "idle"
  /\ calls < MaxCalls
  /\ sealPc' = "start"
  /\ stopClosed' = FALSE
  /\ result' = NoBlock
  /\ calls' = calls + 1
  /\ UNCHANGED <<fakeMode, threads, want, randReady, abort, minerPc, updates>>

(* The caller closes stop: new work arrived or mining was stopped.        *)
CloseStop ==
  /\ sealPc # "idle"
  /\ ~stopClosed
  /\ stopClosed' = TRUE
  /\ UNCHANGED <<fakeMode, sealPc, threads, want, randReady, abort, minerPc, result, calls, updates>>

(* Seal in fake mode returns the block with a zero nonce at once.          *)
SealFake ==
  /\ sealPc = "start"
  /\ fakeMode
  /\ sealPc' = "idle"
  /\ UNCHANGED <<fakeMode, threads, want, randReady, abort, minerPc, stopClosed, result, calls, updates>>

(* Seal, lines 46-59: under the lock copy bgmash.threads and seed rand   *)
(* if it is nil (crypto/rand may fail: Seal unlocks and returns the        *)
(* error), then unlock.                                                    *)
SealLock ==
  /\ sealPc = "start"
  /\ ~fakeMode
  /\ \/ /\ ~randReady
        /\ sealPc' = "idle"
        /\ result' = NoBlock
        /\ UNCHANGED <<randReady, want>>
     \/ /\ randReady' = TRUE
        /\ want' = threads
        /\ sealPc' = "spawn"
        /\ UNCHANGED result
  /\ UNCHANGED <<fakeMode, threads, abort, minerPc, stopClosed, calls, updates>>

(* Seal, lines 46-47 and 60-75: fresh abort and found channels, the thread *)
(* count normalised, one mine goroutine per thread (pend.Add(1) each).     *)
SealSpawn ==
  /\ sealPc = "spawn"
  /\ abort' = FALSE
  /\ minerPc' = [i \in Miner |-> IF i < MinerCount(want) THEN "search" ELSE "exited"]
  /\ sealPc' = "select"
  /\ UNCHANGED <<fakeMode, threads, want, randReady, stopClosed, result, calls, updates>>

(* select, case <-stop: close(abort), then wait for the miners.            *)
SealStop ==
  /\ sealPc = "select"
  /\ stopClosed
  /\ abort' = TRUE
  /\ sealPc' = "join"
  /\ UNCHANGED <<fakeMode, threads, want, randReady, minerPc, stopClosed, result, calls, updates>>

(* select, case result = <-found, with the miner's send in mine (the       *)
(* channel is unbuffered): the miner returns, Seal keeps its block and     *)
(* closes abort.                                                           *)
SealFound(i) ==
  /\ sealPc = "select"
  /\ minerPc[i] = "found"
  /\ result' = i
  /\ minerPc' = [minerPc EXCEPT ![i] = "exited"]
  /\ abort' = TRUE
  /\ sealPc' = "join"
  /\ UNCHANGED <<fakeMode, threads, want, randReady, stopClosed, calls, updates>>

(* SetThreads changes bgmash.threads and signals bgmash.update; the send   *)
(* is received only by a Seal waiting in its select (case <-bgmash.update: *)
(* close(abort), wait, restart). At any other moment the signal is lost.  *)
SetThreads(t) ==
  /\ updates < MaxUpdates
  /\ threads' = t
  /\ updates' = updates + 1
  /\ \/ /\ sealPc = "select"
        /\ abort' = TRUE
        /\ sealPc' = "rejoin"
     \/ /\ sealPc # "select"
        /\ UNCHANGED <<abort, sealPc>>
  /\ UNCHANGED <<fakeMode, want, randReady, minerPc, stopClosed, result, calls>>

(* Mutant: the return without pend.Wait().                                 *)
SealJoinNoWait ==
  /\ sealPc = "join"
  /\ sealPc' = "idle"
  /\ UNCHANGED <<fakeMode, threads, want, randReady, abort, minerPc, stopClosed, result, calls, updates>>

(* pend.Wait() then return result (lines 90-92).                           *)
SealJoin ==
  /\ sealPc = "join"
  /\ AllExited
  /\ sealPc' = "idle"
  /\ UNCHANGED <<fakeMode, threads, want, randReady, abort, minerPc, stopClosed, result, calls, updates>>

(* pend.Wait() then the recursive call bgmash.Seal(chain, block, stop).    *)
SealRejoin ==
  /\ sealPc = "rejoin"
  /\ AllExited
  /\ sealPc' = "start"
  /\ UNCHANGED <<fakeMode, threads, want, randReady, abort, minerPc, stopClosed, result, calls, updates>>

(* mine: the outer select sees abort closed and returns.                   *)
MinerAbort(i) ==
  /\ minerPc[i] = "search"
  /\ abort
  /\ minerPc' = [minerPc EXCEPT ![i] = "exited"]
  /\ UNCHANGED <<fakeMode, sealPc, threads, want, randReady, abort, stopClosed, result, calls, updates>>

(* mine: abort is open, the default branch hashes a nonce that meets the   *)
(* target; the miner goes on to offer the sealed block on found.           *)
MinerFind(i) ==
  /\ minerPc[i] = "search"
  /\ ~abort
  /\ minerPc' = [minerPc EXCEPT ![i] = "found"]
  /\ UNCHANGED <<fakeMode, sealPc, threads, want, randReady, abort, stopClosed, result, calls, updates>>

(* Mutant: the inner select without its case <-abort (a bare send).       *)
MinerDiscardMissing(i) ==
  /\ FALSE
  /\ UNCHANGED vars

(* mine: the inner select takes case <-abort and discards the block.       *)
MinerDiscard(i) ==
  /\ minerPc[i] = "found"
  /\ abort
  /\ minerPc' = [minerPc EXCEPT ![i] = "exited"]
  /\ UNCHANGED <<fakeMode, sealPc, threads, want, randReady, abort, stopClosed, result, calls, updates>>

Next ==
  \/ Call
  \/ CloseStop
  \/ SealFake
  \/ SealLock
  \/ SealSpawn
  \/ SealStop
  \/ \E i \in Miner : SealFound(i)
  \/ \E t \in ThreadSettings : SetThreads(t)
  \/ SealJoin
  \/ SealRejoin
  \/ \E i \in Miner : MinerAbort(i) \/ MinerFind(i) \/ MinerDiscard(i)

(* The Seal goroutine and every miner goroutine are scheduled by the Go    *)
(* runtime; finding a nonce, the caller and SetThreads carry no fairness.  *)
Fairness ==
  /\ WF_vars(SealFake)
  /\ WF_vars(SealLock)
  /\ WF_vars(SealSpawn)
  /\ WF_vars(SealStop)
  /\ WF_vars(SealJoin)
  /\ WF_vars(SealRejoin)
  /\ \A i \in Miner : WF_vars(MinerAbort(i)) /\ WF_vars(MinerDiscard(i))

Spec == Init /\ [][Next]_vars /\ Fairness

-----------------------------------------------------------------------------
(* Seal never returns, and never restarts, while a miner goroutine of its  *)
(* round is still running: the pend.Wait() calls in Seal join every miner  *)
(* before result is returned or a new round is spawned.                    *)
JoinedWhenOutside ==
  sealPc \in {"idle", "start"} => AllExited

(* Once the caller has closed stop, the Seal call returns: every miner     *)
(* that found a block after abort was closed gives up its send on found,   *)
(* so pend.Wait() cannot block forever.                                    *)
ReturnsAfterStop ==
  (sealPc # "idle" /\ stopClosed) ~> (sealPc = "idle")

(* A thread-count change takes effect on the running Seal: the comment on  *)
(* the update case says Seal restarts when the count is changed on user    *)
(* request, so a Seal waiting in its select runs as many miners as the     *)
(* current bgmash.threads asks for.                                        *)
ThreadChangeTakesEffect ==
  sealPc = "select" => MinerCount(want) = MinerCount(threads)

=============================================================================
