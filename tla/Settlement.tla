----------------------------- MODULE Settlement -----------------------------
(***************************************************************************)
(* The VynxSettlement contract, as far as the repository calls it: an      *)
(* external component, known from its ABI in bindings/ and from            *)
(* docs/ARCHITECTURE.md.  An action that is not enabled is a call that     *)
(* reverts.                                                                *)
(***************************************************************************)
EXTENDS Signing

CONSTANTS
  RelayerSigner,  \* the account the contract was deployed with
  Nobody          \* what no account equals

ASSUME SignerAssumption == RelayerSigner # Nobody

VARIABLE escrows  \* escrows: from the identifiers on chain that were locked

IsOpen(id) == id \in DOMAIN escrows /\ ~escrows[id].isResolved

\* ECDSA.recover of OpenZeppelin, which accepts the recovery bytes 27 and 28.
Recover(digest, sig) ==
  IF sig.v \in {27, 28} /\ sig.over = digest THEN sig.by ELSE Nobody

CanClaim(id, solver, sig) ==
  /\ IsOpen(id)
  /\ Recover(ClaimDigest(id, solver), sig) = RelayerSigner

LockIntent(agent, id) ==
  /\ id \notin DOMAIN escrows
  /\ escrows' = [k \in DOMAIN escrows \cup {id} |->
       IF k = id THEN [agent |-> agent, isResolved |-> FALSE, paid |-> Nobody]
                 ELSE escrows[k]]

Resolve(id, payee) ==
  escrows' = [escrows EXCEPT ![id].isResolved = TRUE, ![id].paid = payee]

ClaimFunds(id, solver, sig) == CanClaim(id, solver, sig) /\ Resolve(id, solver)

\* Only after REFUND_TIMEOUT.
RefundIntent(id) == IsOpen(id) /\ Resolve(id, escrows[id].agent)

==============================================================================
