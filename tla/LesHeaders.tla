----------------------------- MODULE LesHeaders -----------------------------
(***************************************************************************)
(* The GetBlockHeadersMsg handler of the light server (les/handler.go,     *)
(* handleMsg): a remote query names an origin (a hash, or a number when    *)
(* the hash is zero), an amount, a skip and a direction; the server checks *)
(* it against flow control and walks its chain, one header per iteration,  *)
(* in uint64 arithmetic, then sends what it collected.                     *)
(*                                                                         *)
(* uint64 is modelled as W-bit words. The chain is canonical blocks        *)
(* 0 .. Tip, whose hashes are their numbers, and one side block Side at   *)
(* height SideNum whose parent is canonical. Zero is common.Hash{}, Unk a  *)
(* hash the server does not know. The byte limit softResponseLimit never   *)
(* binds: MaxHeaderFetch * estHeaderRlpSize = 96000 < 2 MiB (lines 50-55).  *)
(***************************************************************************)
EXTENDS Integers, Sequences

CONSTANTS
  W,               \* bits of a uint64 word (64 in the code)
  Tip,             \* number of the canonical head block
  Side, SideNum,   \* the side block and its number
  Zero, Unk,       \* common.Hash{} and an unknown hash
  MaxHeaderFetch,  \* MaxHeaderFetch (192 in the code)
  Queries          \* queries a remote peer may send

Word == 2 ^ W
UInt == 0 .. Word - 1
Known == (0 .. Tip) \cup {Side}
Hash == Known \cup {Zero, Unk}
Query == [hash : Hash, number : UInt, skip : UInt, amount : UInt, reverse : BOOLEAN]

ASSUME WordAssumption == W \in Nat \ {0}
ASSUME ChainAssumption == Tip \in 1 .. Word - 1 /\ SideNum \in 1 .. Tip
ASSUME HashAssumption == Side \notin 0 .. Tip /\ Zero \notin Known \cup {Unk} /\ Unk \notin Known
ASSUME FetchAssumption == MaxHeaderFetch \in UInt
ASSUME QueriesAssumption == Queries \subseteq Query

NoQuery == [hash |-> Zero, number |-> 0, skip |-> 0, amount |-> 0, reverse |-> FALSE]

(* uint64 addition and subtraction wrap; int(x) reads the bits as signed.  *)
AddW(a, b) == (a + b) % Word
SubW(a, b) == (a - b) % Word
IntOf(x) == IF x < Word \div 2 THEN x ELSE x - Word

(* Header numbers and parent hashes of the chain.                           *)
Number(h) == IF h = Side THEN SideNum ELSE h
Parent(h) == IF h = Side THEN SideNum - 1 ELSE IF h = 0 THEN Zero ELSE h - 1

(* The j-th ancestor of a known block; past genesis the parent hash is     *)
(* Zero.                                                                    *)
Anc(h, j) == IF j = 0 THEN h ELSE IF j <= Number(h) THEN Number(h) - j ELSE Zero

VARIABLES
  pc,        \* "idle", "loop", "send", or "panic" (the process died)
  q,         \* the query being served, advanced by the walk
  hashMode,  \* query.Origin.Hash != (common.Hash{}) when the walk began
  headers,   \* the headers collected, as their hashes
  unknown,   \* the walk met a missing or non-canonical header
  asked,     \* the query last received and not rejected
  reply      \* the headers sent for it

vars == <<pc, q, hashMode, headers, unknown, asked, reply>>

TypeOK ==
  /\ pc \in {"idle", "loop", "send", "panic"}
  /\ q \in Query
  /\ hashMode \in BOOLEAN
  /\ headers \in Seq(Known)
  /\ unknown \in BOOLEAN
  /\ asked \in Query
  /\ reply \in Seq(Known)

Init ==
  /\ pc = "idle"
  /\ q = NoQuery
  /\ hashMode = FALSE
  /\ headers = << >>
  /\ unknown = FALSE
  /\ asked = NoQuery
  /\ reply = << >>

-----------------------------------------------------------------------------
(* A request arrives (lines 390-410): reject(query.Amount, MaxHeaderFetch) *)
(* refuses more than MaxHeaderFetch headers, and a request the peer's     *)
(* flow-control buffer cannot pay for yet (lines 335-350); the error drops *)
(* the peer and nothing is sent. Otherwise the walk starts with hashMode   *)
(* fixed for the whole walk.                                               *)
Receive(r) ==
  /\ pc = "idle"
  /\ \/ /\ r.amount > MaxHeaderFetch
        /\ asked' = NoQuery
        /\ UNCHANGED <<pc, q, hashMode, headers, unknown>>
     \/ /\ r.amount <= MaxHeaderFetch
        /\ pc' = "loop"
        /\ q' = r
        /\ hashMode' = (r.hash # Zero)
        /\ headers' = << >>
        /\ unknown' = FALSE
        /\ asked' = r
  /\ reply' = << >>

(* reject: the flow-control buffer holds less than the request's cost.    *)
FlowReject(r) ==
  /\ pc = "idle"
  /\ r.amount <= MaxHeaderFetch
  /\ asked' = NoQuery
  /\ reply' = << >>
  /\ UNCHANGED <<pc, q, hashMode, headers, unknown>>

(* The origin lookup: GetHeaderByHash or GetHeaderByNumber (lines 417-425). *)
Lookup == IF hashMode THEN IF q.hash \in Known THEN q.hash ELSE Unk
                      ELSE IF q.number <= Tip THEN q.number ELSE Unk

(* Hash mode, reverse (lines 432-442): int(Skip)+1 times, GetHeader(hash,  *)
(* number) and step to its parent; number-- wraps below genesis. Every     *)
(* step succeeds while the ancestor exists.                                *)
HashReverse(o) ==
  LET steps == IF IntOf(q.skip) + 1 > 0 THEN IntOf(q.skip) + 1 ELSE 0
  IN  \/ /\ steps <= Number(o) + 1
         /\ q' = [q EXCEPT !.hash = Anc(o, steps)]
         /\ UNCHANGED unknown
      \/ /\ steps > Number(o) + 1
         /\ q' = [q EXCEPT !.hash = Zero]
         /\ unknown' = TRUE

(* Hash mode, forward (lines 443-453): the canonical header at             *)
(* origin.Number+Skip+1, accepted when the Skip-th entry of                *)
(* GetBlockHashesFromHash(its hash, Skip+1), the list of its min(Skip+1,   *)
(* number) nearest ancestors, is the origin. An index past the list's end  *)
(* is a Go runtime panic.                                                  *)
HashForward(o) ==
  LET n    == AddW(Number(o), AddW(q.skip, 1))
      size == IF AddW(q.skip, 1) < n THEN AddW(q.skip, 1) ELSE n
  IN  \/ /\ n > Tip
         /\ unknown' = TRUE
         /\ UNCHANGED <<pc, q>>
      \/ /\ n <= Tip
         /\ q.skip < size
         /\ IF n - q.skip - 1 = q.hash THEN q' = [q EXCEPT !.hash = n] /\ UNCHANGED unknown
                                        ELSE unknown' = TRUE /\ UNCHANGED q
         /\ UNCHANGED pc
      \/ /\ n <= Tip
         /\ q.skip >= size
         /\ pc' = "panic"
         /\ UNCHANGED <<q, unknown>>

(* Mutant: the bound check of line 456 made strict.                        *)
NumberReverseStrict ==
  \/ q.number > AddW(q.skip, 1) /\ q' = [q EXCEPT !.number = SubW(q.number, AddW(q.skip, 1))]
                                /\ UNCHANGED unknown
  \/ q.number <= AddW(q.skip, 1) /\ unknown' = TRUE /\ UNCHANGED q

(* Number mode, reverse (lines 454-460): step back Skip+1 unless that     *)
(* would pass genesis.                                                     *)
NumberReverse ==
  \/ q.number >= AddW(q.skip, 1) /\ q' = [q EXCEPT !.number = SubW(q.number, AddW(q.skip, 1))]
                                 /\ UNCHANGED unknown
  \/ q.number < AddW(q.skip, 1) /\ unknown' = TRUE /\ UNCHANGED q

(* Number mode, forward (lines 462-464): step on by Skip+1, unchecked.     *)
NumberForward ==
  /\ q' = [q EXCEPT !.number = AddW(q.number, AddW(q.skip, 1))]
  /\ UNCHANGED unknown

(* One iteration of the loop of lines 415-466: stop at an unknown origin,  *)
(* otherwise collect it and advance the query.                              *)
Walk ==
  /\ pc = "loop"
  /\ ~unknown
  /\ Len(headers) < q.amount
  /\ LET o == Lookup
     IN  \/ /\ o = Unk
            /\ pc' = "send"
            /\ UNCHANGED <<q, headers, unknown>>
         \/ /\ o # Unk
            /\ headers' = Append(headers, o)
            /\ CASE q.hash # Zero /\ q.reverse  -> HashReverse(o) /\ UNCHANGED pc
                 [] q.hash # Zero /\ ~q.reverse -> HashForward(o)
                 [] q.hash = Zero /\ q.reverse  -> NumberReverse /\ UNCHANGED pc
                 [] q.hash = Zero /\ ~q.reverse -> NumberForward /\ UNCHANGED pc
  /\ UNCHANGED <<hashMode, asked, reply>>

(* The loop ends; RequestProcessed, SendBlockHeaders (lines 468-470).      *)
Send ==
  /\ \/ pc = "send"
     \/ pc = "loop" /\ (unknown \/ Len(headers) >= q.amount)
  /\ pc' = "idle"
  /\ reply' = headers
  /\ UNCHANGED <<q, hashMode, headers, unknown, asked>>

Next ==
  \/ \E r \in Queries : Receive(r) \/ FlowReject(r)
  \/ Walk
  \/ Send

Spec == Init /\ [][Next]_vars

-----------------------------------------------------------------------------
(* Whether the k-th header (from 0) a query asks for exists on the chain: *)
(* the origin, then every (Skip+1)-th block in the chosen direction, in    *)
(* mathematical integers; forward from a hash along the canonical chain.   *)
Wanted(r, k) ==
  LET d == k * (r.skip + 1)
  IN  IF r.hash # Zero
        THEN /\ r.hash \in Known
             /\ \/ k = 0
                \/ r.reverse /\ d <= Number(r.hash)
                \/ ~r.reverse /\ r.hash \in 0 .. Tip /\ r.hash + d <= Tip
        ELSE IF r.reverse THEN r.number <= Tip /\ r.number - d >= 0
                          ELSE r.number + d <= Tip

Target(r, k) ==
  LET d == k * (r.skip + 1)
  IN  IF r.hash # Zero
        THEN IF r.reverse THEN Anc(r.hash, d) ELSE IF k = 0 THEN r.hash ELSE r.hash + d
        ELSE IF r.reverse THEN r.number - d ELSE r.number + d

(* The answer the protocol asks for: the wanted headers up to the first   *)
(* that does not exist, at most Amount of them.                            *)
Answer(r) ==
  LET n == CHOOSE m \in 0 .. r.amount :
             /\ \A k \in 0 .. m - 1 : Wanted(r, k)
             /\ (m < r.amount => ~Wanted(r, m))
  IN  [k \in 1 .. n |-> Target(r, k - 1)]

(* The positions a query names fit in a uint64: origin + Amount*(Skip+1).  *)
NoWrap(r) ==
  LET base == IF r.hash = Zero THEN r.number ELSE IF r.hash \in Known THEN Number(r.hash) ELSE 0
  IN  base + r.amount * (r.skip + 1) < Word

(* Every reply to a query whose positions fit in a uint64 is the protocol's *)
(* answer: the headers at the origin and every Skip+1 blocks in the asked  *)
(* direction, in order, up to Amount or the end of the chain, as the four  *)
(* branches of handleMsg's walk, its canonical-ancestor check and its      *)
(* genesis bound compute it.                                               *)
HeadersAnswerQuery == pc = "idle" /\ NoWrap(asked) => reply = Answer(asked)

(* Serving a query never crashes the server: no index of handleMsg is out  *)
(* of range whatever a remote peer sends.                                  *)
NoPanic == pc # "panic"

=============================================================================
