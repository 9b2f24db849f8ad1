------------------------------- MODULE MCVault -------------------------------
(* Instances of the Vault for TLC; the .cfg files give the bounds.         *)
EXTENDS VaultRedeem, TLC
VaultSymmetry == Permutations(Call) \cup Permutations(Release) \cup Permutations(Op)
=============================================================================
