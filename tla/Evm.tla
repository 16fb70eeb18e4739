-------------------------------- MODULE Evm --------------------------------
(***************************************************************************)
(* The chain-facing callbacks NewEVMContext gives the EVM (core/evm.go):   *)
(* CanTransfer and Transfer move value between accounts of the state, and  *)
(* GetHashFn answers BLOCKHASH by walking the ancestry of the block being  *)
(* executed through chain.GetHeader(hash, number).                        *)
(*                                                                         *)
(* The EVM checks CanTransfer before it calls Transfer for a value        *)
(* transfer; both run on the one goroutine executing the transaction.      *)
(* Headers are model values; a header's hash is the header itself and the  *)
(* parent of a genesis is ZeroHash. Numbers are W-bit uint64 values.       *)
(***************************************************************************)
EXTENDS Integers

CONSTANTS
  Account,     \* addresses
  Supply,      \* initial total of the balances
  Amount,      \* values a call may transfer
  Header,      \* headers the chain holds
  Parent,      \* Parent[h]: h.ParentHash
  Num,         \* Num[h]: h.Number
  ZeroHash,    \* common.Hash{}
  W            \* bits of a uint64

Word == 2 ^ W

ASSUME AccountAssumption == Account # {}
ASSUME SupplyAssumption == Supply \in Nat /\ Amount \subseteq Nat
ASSUME ChainAssumption ==
  /\ ZeroHash \notin Header
  /\ Parent \in [Header -> Header \cup {ZeroHash}]
  /\ Num \in [Header -> 0 .. Word - 1]
  /\ \A h \in Header : Parent[h] # ZeroHash => Num[Parent[h]] = Num[h] - 1
ASSUME WordAssumption == W \in Nat \ {0}

VARIABLES
  balance,   \* balance[a]: the state's balance of a
  ref,       \* the header whose EVM context is queried
  asked,     \* the number BLOCKHASH asked for
  answer     \* what GetHash returned

vars == <<balance, ref, asked, answer>>

TypeOK ==
  /\ balance \in [Account -> Int]
  /\ ref \in Header
  /\ asked \in 0 .. Word - 1
  /\ answer \in Header \cup {ZeroHash}

(* chain.GetHeader(hash, number): the header with that hash if its number *)
(* is the one given, else nil (ZeroHash).                                  *)
GetHeader(h, n) == IF h \in Header /\ Num[h] = n THEN h ELSE ZeroHash

(* Mutant: the walk starting at ref instead of at its parent.              *)
FirstOfRef(r) == r

(* The first header of the walk: chain.GetHeader(ref.ParentHash,          *)
(* ref.Number.Uint64()-1), whose number wraps below genesis.               *)
FirstOf(r) == GetHeader(Parent[r], (Num[r] - 1) % Word)

(* GetHashFn(ref, chain)(n) (lines 62-72): follow GetHeader(ParentHash,    *)
(* Number-1) from the first header until one numbered n, or nil.           *)
GetHashFn(r, n) ==
  LET walk[k \in 0 .. Word] ==
        IF k = 0 THEN FirstOf(r)
        ELSE LET h == walk[k - 1]
             IN  IF h = ZeroHash \/ Num[h] = n THEN h
                 ELSE GetHeader(Parent[h], (Num[h] - 1) % Word)
      last == walk[Word]
  IN  IF last # ZeroHash /\ Num[last] = n THEN last ELSE ZeroHash

(* Mutant: the balance check dropped.                                       *)
CanTransferAlways(addr, amount) == TRUE

(* CanTransfer (lines 76-78): db.GetBalance(addr).Cmp(amount) >= 0.        *)
CanTransfer(addr, amount) == balance[addr] >= amount

(* Mutant: the sender and recipient balances read before either is        *)
(* written, then both set.                                                 *)
TransferStaleRead(sender, recipient, amount) ==
  balance' = [balance EXCEPT ![sender] = balance[sender] - amount,
                             ![recipient] = balance[recipient] + amount]

(* Transfer (lines 81-84): SubBalance(sender), then AddBalance(recipient). *)
Transfer(sender, recipient, amount) ==
  LET debited == [balance EXCEPT ![sender] = @ - amount]
  IN  balance' = [debited EXCEPT ![recipient] = @ + amount]

(* The total of the balances b: the sum over the accounts, one at a time. *)
Total(b) ==
  LET sum[S \in SUBSET Account] ==
        IF S = {} THEN 0
        ELSE LET a == CHOOSE x \in S : TRUE IN b[a] + sum[S \ {a}]
  IN  sum[Account]

(* Balances whose total is Supply.                                         *)
Funded == {b \in [Account -> 0 .. Supply] : Total(b) = Supply}

Init ==
  /\ balance \in Funded
  /\ ref \in Header
  /\ asked = 0
  /\ answer = GetHashFn(ref, 0)

(* A value transfer of the EVM: refused when CanTransfer fails, else done. *)
ValueTransfer(sender, recipient, amount) ==
  /\ CanTransfer(sender, amount)
  /\ Transfer(sender, recipient, amount)
  /\ UNCHANGED <<ref, asked, answer>>

(* BLOCKHASH(n) in the context of header r.                                *)
BlockHash(r, n) ==
  /\ ref' = r
  /\ asked' = n
  /\ answer' = GetHashFn(r, n)
  /\ UNCHANGED balance

Next ==
  \/ \E s, r \in Account, v \in Amount : ValueTransfer(s, r, v)
  \/ \E r \in Header, n \in 0 .. Word - 1 : BlockHash(r, n)

Spec == Init /\ [][Next]_vars

-----------------------------------------------------------------------------
(* The ancestor of r numbered n, on r's own branch, if there is one below *)
(* r: what BLOCKHASH means for a block on any branch.                      *)
Ancestor(r, n) ==
  LET up[k \in 0 .. Word] == IF k = 0 THEN r
                             ELSE IF up[k - 1] = ZeroHash THEN ZeroHash ELSE Parent[up[k - 1]]
      hits == {k \in 1 .. Word : up[k] # ZeroHash /\ Num[up[k]] = n}
  IN  IF hits = {} THEN ZeroHash ELSE up[CHOOSE k \in hits : TRUE]

(* GetHash answers with the ancestor of the executing block that has the   *)
(* asked number, and ZeroHash for its own number, later numbers and        *)
(* numbers past genesis, though the walk's Number-1 wraps at genesis.      *)
GetHashIsAncestor == answer = Ancestor(ref, asked)

(* No balance ever goes negative: every debit was checked by CanTransfer.  *)
NoNegativeBalance == \A a \in Account : balance[a] >= 0

(* Value transfers neither create nor destroy value, self-transfers        *)
(* included.                                                                *)
SupplyConserved == Total(balance) = Supply

=============================================================================
