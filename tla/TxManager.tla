------------------------------ MODULE TxManager ------------------------------
(***************************************************************************)
(* The transaction manager (internal/txmanager): the Executor loop and the *)
(* in-memory NonceQueue, against the transaction pool of the L2 node.      *)
(*                                                                         *)
(* One goroutine takes vouchers from voucherCh one after the other.  For   *)
(* each it signs the claim, asks the node for a tip, reserves a nonce from *)
(* the counter and submits claimFunds with that nonce.  A failure that     *)
(* isNonceError recognises makes it re-read the pending nonce of the       *)
(* account; any other failure leaves the reserved nonce unused.  Success   *)
(* means that the node took the transaction, not that it was mined.        *)
(*                                                                         *)
(* The node is external: it is modelled from the calls of the executor,    *)
(* ClaimFunds and PendingNonceAt.  Its pool holds at most one transaction  *)
(* of the account for a nonce, mines them in nonce order, answers with the *)
(* first nonce that is neither mined nor in the pool when asked for the    *)
(* pending nonce, and rejects or replaces on a collision.  Others may send *)
(* from the same account: like the simulation driver, which may have the   *)
(* same key, they ask for the pending nonce and send later.                *)
(*                                                                         *)
(* An operator named Bad... is a deliberately wrong variant of the         *)
(* definition that follows it, used by no specification; it records a      *)
(* mistake in the code that a property would expose.                       *)
(***************************************************************************)
EXTENDS Integers, Sequences, FiniteSets

CONSTANTS
  Vouchers,      \* *core.Voucher values; each is published once
  TxFailBuf,     \* capacity of txFailedCh
  MaxNonce,      \* bound on the nonces of the account
  MaxExternal,   \* bound on the transactions others send from the account
  MaxFailures,   \* bound on ClaimFunds failures that are not nonce errors
  MaxCrashes,    \* bound on the restarts of the relayer
  External       \* the sender of those other transactions

ASSUME TxFailBufAssumption == TxFailBuf \in Nat \ {0}

ASSUME BoundsAssumption ==
  {MaxNonce, MaxExternal, MaxFailures, MaxCrashes} \subseteq Nat

ASSUME ExternalAssumption == External \notin Vouchers

VARIABLES
  stateNonce,    \* node: nonce of the account in the latest block
  pool,          \* node: transactions of the account waiting to be mined
  mined,         \* node: transactions of the account in the chain
  replaced,      \* node, history: transactions the relayer pushed out of the pool
  outbid,        \* node, history: transactions others pushed out of the pool
  external,      \* how many transactions others have sent
  read,          \* the nonces others have asked for and are about to use
  current,       \* NonceQueue.current
  pc,            \* where the executor goroutine is
  voucher,       \* execute: the voucher at hand
  nonce,         \* execute: the nonce reserved for it
  fetched,       \* Resync: the pending nonce the node answered
  voucherCh,     \* vouchers waiting for the executor
  txFailedCh,    \* failed vouchers waiting for drainTxFailed
  status,        \* history: what became of a voucher
  own,           \* history: nonces the node took from this process
  failures,      \* how many ClaimFunds failures were not nonce errors
  crashes        \* how often the relayer has gone down

nodeVars == <<stateNonce, pool, mined, replaced, outbid, external, read>>
execVars == <<current, pc, voucher, nonce, fetched>>
vars == <<stateNonce, pool, mined, replaced, outbid, external, read, current, pc,
          voucher, nonce, fetched, voucherCh, txFailedCh, status, own, failures, crashes>>

Nonces == 0..MaxNonce

\* A transaction of the account: its nonce and whose it is.
Tx == [nonce : Nat, by : Vouchers \cup {External}]

\* The executor: the process is down; it waits in the select of Run; it is
\* before, or past, the reservation of a nonce; it is in Resync before, or
\* after, the answer of the node; execute returned an error.
PCs == {"down", "idle", "prepare", "send", "resync", "store", "report"}

\* The types; the channel of failures never holds more than its capacity.
TypeOK ==
  /\ stateNonce \in Nat
  /\ pool \subseteq Tx /\ mined \subseteq Tx
  /\ replaced \subseteq Tx /\ outbid \subseteq Tx
  /\ external \in 0..MaxExternal /\ read \subseteq Nat
  /\ current \in Nat
  /\ pc \in PCs
  /\ voucher \in Vouchers \cup {External}
  /\ nonce \in Nat
  /\ fetched \in Nat
  /\ voucherCh \in Seq(Vouchers)
  /\ txFailedCh \in Seq(Vouchers) /\ Len(txFailedCh) <= TxFailBuf
  /\ status \in [Vouchers -> {"new", "queued", "submitted", "failed", "lost"}]
  /\ own \subseteq Nat
  /\ failures \in 0..MaxFailures
  /\ crashes \in 0..MaxCrashes

InPool(n) == \E t \in pool : t.nonce = n

\* What PendingNonceAt answers: the first nonce that is neither mined nor in
\* the pool, transactions beyond a gap not counting.
IsPendingNonce(n) ==
  /\ n >= stateNonce
  /\ ~InPool(n)
  /\ \A m \in stateNonce..(n - 1) : InPool(m)

\* A fresh account; NewNonceQueue has read its pending nonce.
Init ==
  /\ stateNonce = 0 /\ pool = {} /\ mined = {} /\ replaced = {} /\ outbid = {}
  /\ external = 0 /\ read = {}
  /\ current = 0 /\ pc = "idle" /\ voucher = External /\ nonce = 0 /\ fetched = 0
  /\ voucherCh = <<>> /\ txFailedCh = <<>>
  /\ status = [v \in Vouchers |-> "new"]
  /\ own = {}
  /\ failures = 0 /\ crashes = 0

------------------------------------------------------------------------------
(***************************************************************************)
(* The node.                                                               *)
(***************************************************************************)

\* The next transaction in nonce order is included in a block.
Mine ==
  /\ \E t \in pool : /\ t.nonce = stateNonce
                     /\ pool' = pool \ {t}
                     /\ mined' = mined \cup {t}
  /\ stateNonce' = stateNonce + 1
  /\ UNCHANGED <<replaced, outbid, external, read, execVars, voucherCh, txFailedCh,
                 status, own, failures, crashes>>

\* Another holder of the key asks for the pending nonce.
ExternalRead(n) ==
  /\ external + Cardinality(read) < MaxExternal
  /\ IsPendingNonce(n)
  /\ read' = read \cup {n}
  /\ UNCHANGED <<stateNonce, pool, mined, replaced, outbid, external, execVars, voucherCh,
                 txFailedCh, status, own, failures, crashes>>

\* It sends with the nonce it was given.  If that has been used in the meantime,
\* the transaction is refused, or outbids the one in the pool.
ExternalSend(n) ==
  /\ n \in read /\ external < MaxExternal
  /\ read' = read \ {n}
  /\ external' = external + 1
  /\ \/ /\ n >= stateNonce /\ ~InPool(n)
        /\ pool' = pool \cup {[nonce |-> n, by |-> External]}
        /\ UNCHANGED outbid
     \/ /\ n < stateNonce \/ InPool(n)
        /\ UNCHANGED <<pool, outbid>>
     \/ \E t \in pool : /\ t.nonce = n
                        /\ pool' = (pool \ {t}) \cup {[nonce |-> n, by |-> External]}
                        /\ outbid' = outbid \cup {t}
  /\ UNCHANGED <<stateNonce, mined, replaced, execVars, voucherCh, txFailedCh, status,
                 own, failures, crashes>>

------------------------------------------------------------------------------
(***************************************************************************)
(* The executor.                                                           *)
(***************************************************************************)

\* The auction engine publishes a voucher.
Publish(v) ==
  /\ pc # "down"
  /\ status[v] = "new"
  /\ voucherCh' = Append(voucherCh, v)
  /\ status' = [status EXCEPT ![v] = "queued"]
  /\ UNCHANGED <<nodeVars, execVars, txFailedCh, own, failures, crashes>>

\* Run: take the oldest voucher and enter execute.
TakeVoucher ==
  /\ pc = "idle"
  /\ voucherCh # <<>>
  /\ voucher' = Head(voucherCh)
  /\ voucherCh' = Tail(voucherCh)
  /\ pc' = "prepare"
  /\ UNCHANGED <<nodeVars, current, nonce, fetched, txFailedCh, status, own,
                 failures, crashes>>

\* execute: signing or SuggestGasTipCap fails, and no nonce has been reserved.
PrepareFails ==
  /\ pc = "prepare"
  /\ pc' = "report"
  /\ UNCHANGED <<nodeVars, current, voucher, nonce, fetched, voucherCh, txFailedCh,
                 status, own, failures, crashes>>

BadIncremented == current

\* NonceQueue.Next: the counter after the call.
Incremented == current + 1


\* NonceQueue.Next: the nonce it returns.
Reserved == current

\* execute: reserve a nonce.
ReserveNonce ==
  /\ pc = "prepare"
  /\ current \in Nonces
  /\ nonce' = Reserved
  /\ current' = Incremented
  /\ pc' = "send"
  /\ UNCHANGED <<nodeVars, voucher, fetched, voucherCh, txFailedCh, status, own,
                 failures, crashes>>

MyTx == [nonce |-> nonce, by |-> voucher]

\* The node puts the transaction at hand into its pool.
EnterPool ==
  /\ ~InPool(nonce)
  /\ nonce >= stateNonce
  /\ pool' = pool \cup {MyTx}
  /\ own' = own \cup {nonce}
  /\ UNCHANGED <<stateNonce, mined, replaced, outbid, external, read>>

\* ClaimFunds succeeds with a nonce that was free, behind a gap or not.
ClaimFunds ==
  /\ pc = "send"
  /\ EnterPool
  /\ status' = [status EXCEPT ![voucher] = "submitted"]
  /\ pc' = "idle"
  /\ UNCHANGED <<current, voucher, nonce, fetched, voucherCh, txFailedCh,
                 failures, crashes>>

\* ClaimFunds succeeds by outbidding a transaction with the same nonce.
ClaimFundsReplaces ==
  /\ pc = "send"
  /\ \E t \in pool : /\ t.nonce = nonce
                     /\ pool' = (pool \ {t}) \cup {MyTx}
                     /\ replaced' = replaced \cup {t}
  /\ own' = own \cup {nonce}
  /\ status' = [status EXCEPT ![voucher] = "submitted"]
  /\ pc' = "idle"
  /\ UNCHANGED <<stateNonce, mined, outbid, external, read, current, voucher, nonce,
                 fetched, voucherCh, txFailedCh, failures, crashes>>

\* ClaimFunds fails with an error isNonceError recognises: the nonce is used
\* up, or taken in the pool.
NonceRejected ==
  /\ pc = "send"
  /\ nonce < stateNonce \/ InPool(nonce)
  /\ pc' = "resync"
  /\ UNCHANGED <<nodeVars, current, voucher, nonce, fetched, voucherCh, txFailedCh,
                 status, own, failures, crashes>>

BadAfterFailure == "prepare"

\* execute gives up after any failure of ClaimFunds that is no nonce error.
AfterFailure == "report"

\* ClaimFunds fails otherwise: gas estimation reverts, the node refuses, or the
\* connection breaks, possibly after the node took the transaction.
ClaimFundsFails ==
  /\ pc = "send"
  /\ failures < MaxFailures
  /\ failures' = failures + 1
  /\ EnterPool \/ UNCHANGED <<nodeVars, own>>
  /\ pc' = AfterFailure
  /\ UNCHANGED <<current, voucher, nonce, fetched, voucherCh, txFailedCh, status,
                 crashes>>

BadAuthoritative(n) == n = stateNonce

\* The nonce that Resync and NewNonceQueue ask the node for.
Authoritative(n) == IsPendingNonce(n)

\* Resync: PendingNonceAt answers.
ResyncFetch(n) ==
  /\ pc = "resync"
  /\ Authoritative(n)
  /\ fetched' = n
  /\ pc' = "store"
  /\ UNCHANGED <<nodeVars, current, voucher, nonce, voucherCh, txFailedCh, status,
                 own, failures, crashes>>

\* Resync: PendingNonceAt fails, which execute only logs.
ResyncFails ==
  /\ pc = "resync"
  /\ pc' = "report"
  /\ UNCHANGED <<nodeVars, current, voucher, nonce, fetched, voucherCh, txFailedCh,
                 status, own, failures, crashes>>

\* Resync: the answer overwrites the counter.
ResyncStore ==
  /\ pc = "store"
  /\ current' = fetched
  /\ pc' = "report"
  /\ UNCHANGED <<nodeVars, voucher, nonce, fetched, voucherCh, txFailedCh, status,
                 own, failures, crashes>>

BadTxFailedChFull == FALSE

\* When the select statement of Run takes its default branch.
TxFailedChFull == Len(txFailedCh) >= TxFailBuf

\* Run: the failed intent is sent to txFailedCh.
PushFailed ==
  /\ ~TxFailedChFull
  /\ txFailedCh' = Append(txFailedCh, voucher)

BadDropFailed == FALSE

\* Run: the channel is full and the notification is dropped.
DropFailed ==
  /\ TxFailedChFull
  /\ UNCHANGED txFailedCh

\* Run: execute returned an error; notify without blocking.
Report ==
  /\ pc = "report"
  /\ PushFailed \/ DropFailed
  /\ status' = [status EXCEPT ![voucher] = "failed"]
  /\ pc' = "idle"
  /\ UNCHANGED <<nodeVars, current, voucher, nonce, fetched, voucherCh, own,
                 failures, crashes>>

\* drainTxFailed logs the oldest failure.
DrainTxFailed ==
  /\ pc # "down"
  /\ txFailedCh # <<>>
  /\ txFailedCh' = Tail(txFailedCh)
  /\ UNCHANGED <<nodeVars, execVars, voucherCh, status, own, failures, crashes>>

------------------------------------------------------------------------------
(***************************************************************************)
(* The process.  Everything it knows is in memory; the node keeps what it  *)
(* has taken.                                                              *)
(***************************************************************************)

\* The relayer stops, at any point of execute.
Crash ==
  /\ pc # "down"
  /\ crashes < MaxCrashes
  /\ crashes' = crashes + 1
  /\ pc' = "down"
  /\ voucherCh' = <<>> /\ txFailedCh' = <<>>
  /\ status' = [v \in Vouchers |->
                  IF status[v] = "queued" THEN "lost" ELSE status[v]]
  /\ UNCHANGED <<nodeVars, current, voucher, nonce, fetched, own, failures>>

\* NewNonceQueue: the relayer starts again and seeds the counter.
Boot(n) ==
  /\ pc = "down"
  /\ Authoritative(n)
  /\ current' = n
  /\ own' = {}
  /\ pc' = "idle"
  /\ UNCHANGED <<nodeVars, voucher, nonce, fetched, voucherCh, txFailedCh, status,
                 failures, crashes>>

Run ==
  \/ TakeVoucher
  \/ PrepareFails
  \/ ReserveNonce
  \/ ClaimFunds
  \/ ClaimFundsReplaces
  \/ NonceRejected
  \/ ClaimFundsFails
  \/ \E n \in Nonces : ResyncFetch(n)
  \/ ResyncFails
  \/ ResyncStore
  \/ Report

Next ==
  \/ Mine
  \/ \E n \in Nonces : ExternalRead(n) \/ ExternalSend(n)
  \/ \E v \in Vouchers : Publish(v)
  \/ Run
  \/ DrainTxFailed
  \/ Crash
  \/ \E n \in Nonces : Boot(n)

Spec == Init /\ [][Next]_vars

\* The executor goroutine is scheduled, every call it makes returns, and the
\* node mines what is next in nonce order.  Nobody has to drain txFailedCh.
FairSpec == Spec /\ WF_vars(Run) /\ WF_vars(Mine)

------------------------------------------------------------------------------
(***************************************************************************)
(* Correctness.                                                            *)
(***************************************************************************)

\* No restart has met a nonce that was left unused.
Orderly == crashes = 0 \/ failures = 0

\* The comment of Resync, nonce_queue.go:58, which calls a roll-back onto a pending
\* nonce "safe" in "the current single-executor design": while the process lives,
\* its counter is above every nonce the node took from it, so it never sends one
\* of its settlements over another.
CounterAboveOwn == \A n \in own : n < current

\* A settlement that was reported as submitted is on the node under its own nonce,
\* waiting or mined, unless somebody else's transaction outbid it.
SubmittedIsOnNode ==
  \A v \in Vouchers : status[v] = "submitted" =>
    \E t \in pool \cup mined \cup outbid : t.by = v

\* Resync and NewNonceQueue, which may set the counter back over nonces that were
\* skipped, never set it back onto one in use, until a gap and a restart have both
\* happened.
NoRollBackWhenOrderly == Orderly => CounterAboveOwn

\* Under the same condition, the relayer never replaces a settlement it submitted,
\* not even one of the process before a restart.
NoReplacementWhenOrderly == Orderly => SubmittedIsOnNode

\* No voucher is ever settled by two transactions, and none of a voucher that is
\* still waiting in voucherCh.
OneTxPerVoucher ==
  /\ \A s, t \in pool \cup mined \cup replaced \cup outbid :
       s.by = t.by /\ s.by # External => s = t
  /\ \A k \in 1..Len(voucherCh) : \A t \in pool \cup mined : t.by # voucherCh[k]

\* The nonce of a relayer that has the account for itself and has not been
\* restarted is never rejected, whatever calls fail and even if a transaction is
\* taken without the relayer hearing of it: drift needs interference.
DriftNeedsInterference ==
  pc \in {"resync", "store"} => external > 0 \/ crashes > 0

\* The executor gets through its vouchers: each one that is published ends as
\* submitted or failed, even if no failure is ever drained.
VouchersGetResolved ==
  \A v \in Vouchers :
    status[v] = "queued" ~> status[v] \in {"submitted", "failed", "lost"}

\* The transaction of v waits behind a nonce that nobody has used.
BehindGap(v) ==
  \E t \in pool : t.by = v /\ \E m \in stateNonce..(t.nonce - 1) : ~InPool(m)


\* README.md:5, the relayer "settles the winning bid on-chain": a settlement
\* that was submitted is eventually mined.
SubmittedGetsMined ==
  \A v \in Vouchers :
    status[v] = "submitted" ~> \E t \in mined : t.by = v

==============================================================================
