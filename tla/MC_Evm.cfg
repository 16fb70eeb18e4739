CONSTANTS
  a1 = a1
  a2 = a2
  g0 = g0
  c1 = c1
  c2 = c2
  c3 = c3
  s2 = s2
  zero = zero
  Account <- MC_Account
  Supply = 3
  Amount = {0, 1, 2, 3}
  Header <- MC_Header
  Parent <- MC_Parent
  Num <- MC_Num
  ZeroHash <- zero
  W = 3
SPECIFICATION Spec
INVARIANTS GetHashIsAncestor SupplyConserved
