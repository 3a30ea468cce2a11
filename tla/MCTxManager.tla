----------------------------- MODULE MCTxManager -----------------------------
(***************************************************************************)
(* Instances of TxManager for TLC; vouchers are interchangeable.           *)
(***************************************************************************)
EXTENDS TxManager, TLC

Symmetry == Permutations(Vouchers)

==============================================================================
