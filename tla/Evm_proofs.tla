----------------------------- MODULE Evm_proofs -----------------------------
(***************************************************************************)
(* Proofs about the value-transfer callbacks of the EVM context           *)
(* (core/evm.go): no balance goes negative, for every set of accounts,    *)
(* every initial funding and every amount.                                *)
(***************************************************************************)
EXTENDS Evm, TLAPS

(* The inductive invariant: balances are integers and none is negative.   *)
BInv ==
  /\ balance \in [Account -> Int]
  /\ NoNegativeBalance

(* Initial balances are drawn from 0 .. Supply.                            *)
LEMMA BInvInit == Init => BInv
BY DEF Init, Funded, BInv, NoNegativeBalance

(* A value transfer that passed CanTransfer leaves every balance          *)
(* non-negative: the debit is at most the sender's balance and the credit *)
(* adds a natural number, also when sender and recipient are the same.    *)
LEMMA TransferKeepsBalances ==
  ASSUME BInv, NEW s \in Account, NEW r \in Account, NEW v \in Amount,
         ValueTransfer(s, r, v)
  PROVE  BInv'
<1>1. v \in Nat /\ balance[s] >= v
  BY SupplyAssumption DEF ValueTransfer, CanTransfer
<1> DEFINE debited == [balance EXCEPT ![s] = @ - v]
<1>2. debited \in [Account -> Int] /\ \A a \in Account : debited[a] >= 0
  BY <1>1 DEF BInv, NoNegativeBalance
<1>3. balance' = [debited EXCEPT ![r] = @ + v]
  BY DEF ValueTransfer, Transfer
<1>4. QED
  BY <1>1, <1>2, <1>3 DEF BInv, NoNegativeBalance

(* Every step keeps the invariant; BLOCKHASH does not touch balances.     *)
LEMMA BInvStep == BInv /\ [Next]_vars => BInv'
<1> SUFFICES ASSUME BInv, [Next]_vars PROVE BInv'
  OBVIOUS
<1>1. CASE \E s, r \in Account, v \in Amount : ValueTransfer(s, r, v)
  BY <1>1, TransferKeepsBalances
<1>2. CASE \E r \in Header, n \in 0 .. Word - 1 : BlockHash(r, n)
  BY <1>2 DEF BlockHash, BInv, NoNegativeBalance
<1>3. CASE UNCHANGED vars
  BY <1>3 DEF vars, BInv, NoNegativeBalance
<1>4. QED
  BY <1>1, <1>2, <1>3 DEF Next

(* No balance ever goes negative: the EVM calls Transfer only after        *)
(* CanTransfer, and Transfer's debit-then-credit keeps a self-transfer's  *)
(* balance, whatever the accounts, funding and amounts.                   *)
THEOREM NoNegativeBalanceHolds == Spec => []NoNegativeBalance
<1>1. BInv => NoNegativeBalance
  BY DEF BInv
<1>2. QED
  BY <1>1, BInvInit, BInvStep, PTL DEF Spec

=============================================================================
