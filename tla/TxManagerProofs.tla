--------------------------- MODULE TxManagerProofs ---------------------------
(***************************************************************************)
(* Theorems about TxManager, for any number of vouchers, failed calls,     *)
(* lost answers and transactions of others on the account, and, at the     *)
(* end, about the gas buffer of OPStackClient.                             *)
(*                                                                         *)
(* Three arguments.  TrackInv follows a voucher: it is in voucherCh, in    *)
(* the hands of the executor, or done with, and only then does a           *)
(* transaction of it exist.  NonceInv is about a process that has not been *)
(* restarted: a nonce in the pool is one of its own, below the nonce at    *)
(* hand, or one of others, and others fill the pool without a gap.  Hence  *)
(* a rejected nonce lies below the pending nonce, and so does everything   *)
(* of its own: the counter that Resync stores is above them.  A nonce that *)
(* others were given stays without a gap before it, however late they use  *)
(* it (ReadsFilled).  GaplessInv                                           *)
(* is about restarts while no reserved nonce was left unused: the pool has *)
(* no gaps, so the pending nonce that a restart reads is above every       *)
(* settlement.  After a gap and a restart neither holds.                   *)
(***************************************************************************)
EXTENDS TxManager, OPStackClient, TLAPS

\* The executor has a voucher in its hands.
Busy == pc \in {"prepare", "send", "resync", "store", "report"}

OnceTx == pool \cup mined \cup replaced \cup outbid

\* The voucher at hand is one that is waiting for its verdict, and not in voucherCh.
HandInv ==
  Busy => /\ voucher \in Vouchers /\ status[voucher] = "queued"
          /\ \A k \in 1..Len(voucherCh) : voucherCh[k] # voucher

\* voucherCh holds vouchers that wait, each once.
QueueInv ==
  /\ \A k \in 1..Len(voucherCh) : status[voucherCh[k]] = "queued"
  /\ \A j, k \in 1..Len(voucherCh) : voucherCh[j] = voucherCh[k] => j = k

\* There is at most one transaction of a voucher, and none before its verdict but
\* the one whose answer was lost.
OnceInv ==
  /\ \A t \in OnceTx : t.by # External =>
       \/ status[t.by] \in {"submitted", "failed", "lost"}
       \/ pc = "report" /\ t.by = voucher
  /\ \A s, t \in OnceTx : s.by = t.by /\ s.by # External => s = t

TrackInv == HandInv /\ QueueInv /\ OnceInv

\* Most leaves are first-order; those that need more cite SMT.
USE ZenonT(60)

\* The types are kept: nonces stay natural numbers, whatever Resync stores, and
\* the channel of failures never exceeds its capacity.
LEMMA TypeStep == TypeOK /\ HandInv /\ [Next]_vars => TypeOK'
<1> SUFFICES ASSUME TypeOK, HandInv, [Next]_vars PROVE TypeOK'
  OBVIOUS
<1> USE DEF TypeOK, nodeVars, execVars
<1>1. CASE Mine BY <1>1, SMTT(60) DEF Mine
<1>2. ASSUME NEW n \in Nonces, ExternalSend(n) PROVE TypeOK'
  <2>1. [nonce |-> n, by |-> External] \in Tx BY BoundsAssumption, SMTT(60) DEF Tx, Nonces
  <2>2. external' \in 0..MaxExternal BY <1>2, BoundsAssumption, SMTT(60) DEF ExternalSend
  <2>3. pool' \subseteq Tx /\ outbid' \subseteq Tx BY <1>2, <2>1 DEF ExternalSend
  <2>4. QED BY <1>2, <2>2, <2>3 DEF ExternalSend
<1>3. ASSUME NEW v \in Vouchers, Publish(v) PROVE TypeOK'
  BY <1>3, SMTT(60) DEF Publish
<1>4. CASE TakeVoucher BY <1>4, SMTT(60) DEF TakeVoucher, PCs
<1>5. CASE PrepareFails \/ NonceRejected \/ ResyncFails \/ ResyncStore
  BY <1>5 DEF PrepareFails, NonceRejected, ResyncFails, ResyncStore, PCs
<1>6. CASE ReserveNonce
  BY <1>6, SMTT(60) DEF ReserveNonce, Reserved, Incremented, PCs
<1>7. MyTx \in Tx BY DEF MyTx, Tx
<1>8. CASE ClaimFunds
  BY <1>7, <1>8 DEF ClaimFunds, EnterPool, PCs
<1>9. CASE ClaimFundsReplaces
  BY <1>7, <1>9 DEF ClaimFundsReplaces, PCs
<1>10. CASE ClaimFundsFails
  <2>1. failures' \in 0..MaxFailures BY <1>10, BoundsAssumption, SMTT(60) DEF ClaimFundsFails
  <2>2. QED BY <1>7, <1>10, <2>1 DEF ClaimFundsFails, EnterPool, AfterFailure, PCs
<1>11. ASSUME NEW n \in Nonces, ResyncFetch(n) PROVE TypeOK'
  BY <1>11, BoundsAssumption, SMTT(60) DEF ResyncFetch, Nonces, PCs
<1>12. CASE Report
  <2>1. voucher \in Vouchers BY <1>12 DEF Report, HandInv, Busy
  <2>2. txFailedCh' \in Seq(Vouchers) /\ Len(txFailedCh') <= TxFailBuf
    <3>1. CASE PushFailed
      BY <2>1, <3>1, TxFailBufAssumption, SMTT(60) DEF PushFailed, TxFailedChFull
    <3>2. CASE DropFailed BY <3>2 DEF DropFailed
    <3>3. QED BY <1>12, <3>1, <3>2 DEF Report
  <2>3. QED BY <1>12, <2>2 DEF Report, PCs
<1>13. CASE DrainTxFailed
  BY <1>13, TxFailBufAssumption, SMTT(60) DEF DrainTxFailed
<1>14. CASE Crash
  <2>1. crashes' \in 0..MaxCrashes BY <1>14, BoundsAssumption, SMTT(60) DEF Crash
  <2>2. status' \in [Vouchers -> {"new", "queued", "submitted", "failed", "lost"}]
    BY <1>14 DEF Crash
  <2>3. QED BY <1>14, <2>1, <2>2, TxFailBufAssumption, SMTT(60) DEF Crash, PCs
<1>15. ASSUME NEW n \in Nonces, Boot(n) PROVE TypeOK'
  BY <1>15, BoundsAssumption, SMTT(60) DEF Boot, Nonces, PCs
<1>16. CASE UNCHANGED vars BY <1>16 DEF vars
<1>17. ASSUME NEW n \in Nonces, ExternalRead(n) PROVE TypeOK'
  <2>1. n \in Nat BY BoundsAssumption, SMTT(60) DEF Nonces
  <2>2. QED BY <1>17, <2>1 DEF ExternalRead
<1>18. QED
  BY <1>1, <1>2, <1>3, <1>4, <1>5, <1>6, <1>8, <1>9, <1>10, <1>11, <1>12, <1>13,
     <1>14, <1>15, <1>16, <1>17 DEF Next, Run

\* No step makes the executor take a voucher twice: what Publish appends is new,
\* and what TakeVoucher takes has left the channel.
LEMMA HandStep ==
  TypeOK /\ HandInv /\ QueueInv /\ [Next]_vars => HandInv' /\ QueueInv'
<1> SUFFICES ASSUME TypeOK, HandInv, QueueInv, [Next]_vars
             PROVE  HandInv' /\ QueueInv'
  OBVIOUS
<1> USE DEF HandInv, QueueInv, Busy, nodeVars, execVars
<1>1. CASE Mine BY <1>1 DEF Mine
<1>2. ASSUME NEW n \in Nonces, ExternalRead(n) \/ ExternalSend(n)
      PROVE  HandInv' /\ QueueInv'
  BY <1>2 DEF ExternalRead, ExternalSend
<1>3. ASSUME NEW v \in Vouchers, Publish(v) PROVE HandInv' /\ QueueInv'
  <2>1. /\ voucherCh' = Append(voucherCh, v)
        /\ status' = [status EXCEPT ![v] = "queued"] /\ status[v] = "new"
        /\ UNCHANGED <<pc, voucher>>
    BY <1>3 DEF Publish
  <2>2. /\ Len(voucherCh') = Len(voucherCh) + 1
        /\ \A k \in 1..Len(voucherCh) : voucherCh'[k] = voucherCh[k]
        /\ voucherCh'[Len(voucherCh) + 1] = v
    BY <2>1, SMTT(60) DEF TypeOK
  <2>3. Len(voucherCh) \in Nat /\ \A k \in 1..Len(voucherCh) : voucherCh[k] \in Vouchers
    BY SMTT(60) DEF TypeOK
  <2>4. \A k \in 1..Len(voucherCh) : voucherCh[k] # v
    BY <2>1
  <2>5. \A w \in Vouchers : status'[w] = IF w = v THEN "queued" ELSE status[w]
    BY <2>1 DEF TypeOK
  <2>6. QueueInv'
    BY <2>2, <2>3, <2>4, <2>5, SMTT(60)
  <2>7. HandInv'
    BY <2>1, <2>2, <2>3, <2>5, SMTT(60)
  <2>8. QED BY <2>6, <2>7
<1>4. CASE TakeVoucher
  <2>1. /\ voucherCh # <<>> /\ voucher' = Head(voucherCh)
        /\ voucherCh' = Tail(voucherCh) /\ UNCHANGED status
    BY <1>4 DEF TakeVoucher
  <2>2. /\ Len(voucherCh) \in Nat \ {0} /\ Len(voucherCh') = Len(voucherCh) - 1
        /\ voucher' = voucherCh[1] /\ voucher' \in Vouchers
        /\ \A k \in 1..Len(voucherCh') : voucherCh'[k] = voucherCh[k + 1]
    BY <2>1, SMTT(60) DEF TypeOK
  <2>3. QED BY <2>1, <2>2, SMTT(60)
<1>5. CASE PrepareFails \/ NonceRejected \/ ResyncFails \/ ResyncStore
  BY <1>5 DEF PrepareFails, NonceRejected, ResyncFails, ResyncStore
<1>6. CASE ReserveNonce
  BY <1>6 DEF ReserveNonce
<1>7. CASE ClaimFunds \/ ClaimFundsReplaces \/ Report
  <2>1. /\ pc' = "idle" /\ UNCHANGED voucherCh
        /\ voucher \in Vouchers
        /\ \A k \in 1..Len(voucherCh) : voucherCh[k] # voucher
        /\ \A w \in Vouchers : w # voucher => status'[w] = status[w]
    BY <1>7 DEF ClaimFunds, ClaimFundsReplaces, Report, TypeOK
  <2>2. \A k \in 1..Len(voucherCh) : voucherCh[k] \in Vouchers
    BY SMTT(60) DEF TypeOK
  <2>3. QED BY <2>1, <2>2
<1>8. CASE ClaimFundsFails
  BY <1>8 DEF ClaimFundsFails, AfterFailure
<1>9. ASSUME NEW n \in Nonces, ResyncFetch(n) PROVE HandInv' /\ QueueInv'
  BY <1>9 DEF ResyncFetch
<1>10. CASE DrainTxFailed
  BY <1>10 DEF DrainTxFailed
<1>11. CASE Crash
  BY <1>11, SMTT(60) DEF Crash
<1>12. ASSUME NEW n \in Nonces, Boot(n) PROVE HandInv' /\ QueueInv'
  BY <1>12 DEF Boot
<1>13. CASE UNCHANGED vars BY <1>13 DEF vars
<1>14. QED
  BY <1>1, <1>2, <1>3, <1>4, <1>5, <1>6, <1>7, <1>8, <1>9, <1>10, <1>11, <1>12,
     <1>13 DEF Next, Run

\* A step that sends nothing keeps the count of transactions, as long as verdicts
\* stay verdicts and a voucher whose answer was lost stays at hand or gets one.
LEMMA NothingSent ==
  ASSUME TypeOK, OnceInv,
         \A t \in OnceTx' : t \in OnceTx \/ t.by = External,
         \A v \in Vouchers : status[v] \in {"submitted", "failed", "lost"} =>
                               status'[v] \in {"submitted", "failed", "lost"},
         pc = "report" => \/ pc' = "report" /\ voucher' = voucher
                          \/ status'[voucher] \in {"submitted", "failed", "lost"}
  PROVE  OnceInv'
<1>1. \A t \in OnceTx' : t.by # External => t \in OnceTx /\ t.by \in Vouchers
  BY DEF TypeOK, OnceTx, Tx
<1>2. ASSUME NEW t \in OnceTx', t.by # External
      PROVE  \/ status'[t.by] \in {"submitted", "failed", "lost"}
             \/ pc' = "report" /\ t.by = voucher'
  BY <1>1, <1>2 DEF OnceInv
<1>3. ASSUME NEW s \in OnceTx', NEW t \in OnceTx', s.by = t.by, s.by # External
      PROVE  s = t
  BY <1>1, <1>3 DEF OnceInv
<1>4. QED BY <1>2, <1>3 DEF OnceInv

\* A step that sends the transaction at hand: none of its voucher exists yet.
LEMMA OneSent ==
  ASSUME TypeOK, HandInv, OnceInv, pc = "send",
         \A t \in OnceTx' : t \in OnceTx \/ t = MyTx,
         \/ status' = [status EXCEPT ![voucher] = "submitted"]
         \/ status' = status /\ pc' = "report" /\ voucher' = voucher
  PROVE  OnceInv'
<1>1. /\ voucher \in Vouchers /\ status[voucher] = "queued"
      /\ MyTx.by = voucher /\ voucher # External
  BY ExternalAssumption DEF HandInv, Busy, MyTx
<1>2. \A t \in OnceTx : t.by # voucher
  BY <1>1 DEF OnceInv
<1>3. \A t \in OnceTx : t.by # External => t.by \in Vouchers
  BY DEF TypeOK, OnceTx, Tx
<1>4. ASSUME NEW t \in OnceTx', t.by # External
      PROVE  \/ status'[t.by] \in {"submitted", "failed", "lost"}
             \/ pc' = "report" /\ t.by = voucher'
  <2>1. CASE t \in OnceTx
    BY <1>2, <1>3, <1>4, <2>1 DEF OnceInv, TypeOK
  <2>2. CASE t = MyTx
    BY <1>1, <2>2 DEF TypeOK
  <2>3. QED BY <2>1, <2>2
<1>5. ASSUME NEW s \in OnceTx', NEW t \in OnceTx', s.by = t.by, s.by # External
      PROVE  s = t
  BY <1>1, <1>2, <1>5 DEF OnceInv
<1>6. QED BY <1>4, <1>5 DEF OnceInv

\* Every step keeps the count of transactions of a voucher.
LEMMA OnceStep == TypeOK /\ HandInv /\ OnceInv /\ [Next]_vars => OnceInv'
<1> SUFFICES ASSUME TypeOK, HandInv, OnceInv, [Next]_vars PROVE OnceInv'
  OBVIOUS
<1> USE DEF nodeVars, execVars
<1>1. CASE Mine BY <1>1, NothingSent DEF Mine, OnceTx
<1>2. ASSUME NEW n \in Nonces, ExternalSend(n) PROVE OnceInv'
  <2>1. PICK x : x = [nonce |-> n, by |-> External] OBVIOUS
  <2>2. \A t \in OnceTx' : t \in OnceTx \/ t = x
    BY <1>2, <2>1 DEF ExternalSend, OnceTx
  <2>3. x.by = External BY <2>1
  <2>4. QED BY <1>2, <2>2, <2>3, NothingSent DEF ExternalSend
<1>3. ASSUME NEW v \in Vouchers, Publish(v) PROVE OnceInv'
  <2>1. /\ OnceTx' = OnceTx /\ UNCHANGED <<pc, voucher>>
        /\ \A w \in Vouchers : status[w] \in {"submitted", "failed", "lost"} =>
             status'[w] = status[w]
    BY <1>3 DEF Publish, OnceTx, TypeOK
  <2>2. QED BY <2>1, NothingSent
<1>4. CASE \/ TakeVoucher \/ PrepareFails \/ NonceRejected \/ ResyncFails
           \/ ResyncStore \/ ReserveNonce
  <2>1. OnceTx' = OnceTx /\ UNCHANGED status /\ pc # "report"
    BY <1>4 DEF TakeVoucher, PrepareFails, NonceRejected, ResyncFails, ResyncStore,
       ReserveNonce, OnceTx
  <2>2. QED BY <2>1, NothingSent
<1>5. CASE ClaimFunds
  <2>1. \A t \in OnceTx' : t \in OnceTx \/ t = MyTx
    BY <1>5 DEF ClaimFunds, EnterPool, OnceTx
  <2>2. QED BY <1>5, <2>1, OneSent DEF ClaimFunds
<1>6. CASE ClaimFundsReplaces
  <2>1. \A t \in OnceTx' : t \in OnceTx \/ t = MyTx
    BY <1>6 DEF ClaimFundsReplaces, OnceTx
  <2>2. QED BY <1>6, <2>1, OneSent DEF ClaimFundsReplaces
<1>7. CASE ClaimFundsFails
  <2>1. \A t \in OnceTx' : t \in OnceTx \/ t = MyTx
    BY <1>7 DEF ClaimFundsFails, EnterPool, OnceTx
  <2>2. QED BY <1>7, <2>1, OneSent DEF ClaimFundsFails, AfterFailure
<1>8. ASSUME NEW n \in Nonces, ResyncFetch(n) \/ Boot(n) PROVE OnceInv'
  <2>1. OnceTx' = OnceTx /\ UNCHANGED status /\ pc # "report"
    BY <1>8 DEF ResyncFetch, Boot, OnceTx
  <2>2. QED BY <2>1, NothingSent
<1>9. CASE Report
  <2>1. /\ OnceTx' = OnceTx /\ status' = [status EXCEPT ![voucher] = "failed"]
        /\ voucher \in Vouchers
    BY <1>9 DEF Report, OnceTx, HandInv, Busy
  <2>2. \A v \in Vouchers : status'[v] = IF v = voucher THEN "failed" ELSE status[v]
    BY <2>1 DEF TypeOK
  <2>3. QED BY <2>1, <2>2, NothingSent
<1>10. CASE DrainTxFailed \/ UNCHANGED vars
  <2>1. OnceTx' = OnceTx /\ UNCHANGED <<status, pc, voucher>>
    BY <1>10 DEF DrainTxFailed, vars, OnceTx
  <2>2. QED BY <2>1, NothingSent
<1>11. CASE Crash
  <2>1. /\ OnceTx' = OnceTx
        /\ \A v \in Vouchers :
             status'[v] = IF status[v] = "queued" THEN "lost" ELSE status[v]
        /\ pc = "report" => voucher \in Vouchers /\ status[voucher] = "queued"
    BY <1>11 DEF Crash, OnceTx, HandInv, Busy
  <2>2. QED BY <2>1, NothingSent
<1>12. ASSUME NEW n \in Nonces, ExternalRead(n) PROVE OnceInv'
  <2>1. OnceTx' = OnceTx /\ UNCHANGED <<status, pc, voucher>>
    BY <1>12 DEF ExternalRead, OnceTx
  <2>2. QED BY <2>1, NothingSent
<1>13. QED
  BY <1>1, <1>2, <1>3, <1>4, <1>5, <1>6, <1>7, <1>8, <1>9, <1>10, <1>11, <1>12
     DEF Next, Run

\* Types and the whereabouts of vouchers hold in every behaviour, with any
\* number of restarts.
LEMMA Tracked == Spec => [](TypeOK /\ TrackInv)
<1>1. Init => TypeOK /\ TrackInv
  <2>1. Init => TypeOK
    BY TxFailBufAssumption, BoundsAssumption, SMTT(60) DEF Init, TypeOK, PCs
  <2>2. Init => TrackInv
    BY SMTT(60) DEF Init, TrackInv, HandInv, QueueInv, OnceInv, OnceTx, Busy
  <2>3. QED BY <2>1, <2>2
<1>2. TypeOK /\ TrackInv /\ [Next]_vars => (TypeOK /\ TrackInv)'
  BY TypeStep, HandStep, OnceStep DEF TrackInv
<1>3. QED BY <1>1, <1>2, PTL DEF Spec

\* Restarts, lost answers and failed calls included, txFailedCh never holds more than
\* its capacity, voucherCh holds vouchers only, and the executor, its counter and the
\* account keep their types.
THEOREM TxManagerTypes == Spec => []TypeOK
  BY Tracked, PTL

\* execute never sends a second transaction for a voucher: not after a lost
\* answer, a resynchronisation or a restart, and however many calls fail.
THEOREM NoVoucherSettledTwice == Spec => []OneTxPerVoucher
<1>1. TypeOK /\ TrackInv => OneTxPerVoucher
  <2> SUFFICES ASSUME TypeOK, TrackInv PROVE OneTxPerVoucher
    OBVIOUS
  <2>1. ASSUME NEW k \in 1..Len(voucherCh), NEW t \in pool \cup mined
        PROVE  t.by # voucherCh[k]
    <3>1. voucherCh[k] \in Vouchers /\ voucherCh[k] # External
      BY ExternalAssumption, SMTT(60) DEF TypeOK
    <3>2. status[voucherCh[k]] = "queued"
      BY DEF TrackInv, QueueInv
    <3>3. pc = "report" => voucherCh[k] # voucher
      BY DEF TrackInv, HandInv, Busy
    <3>4. QED BY <3>1, <3>2, <3>3 DEF TrackInv, OnceInv, OnceTx
  <2>2. QED BY <2>1 DEF TrackInv, OnceInv, OnceTx, OneTxPerVoucher
<1>2. QED BY <1>1, Tracked, PTL

------------------------------------------------------------------------------
\* The pool holds every nonce from the account's up to, and without, n.
Filled(n) == \A m \in Nat : stateNonce <= m /\ m < n => InPool(m)

\* There is no gap before a nonce that others were given.
ReadsFilled == \A n \in read : Filled(n)

\* Nonces are used up from below or stay in the pool, whoever replaces whom.
LEMMA FilledStays ==
  ASSUME TypeOK, [Next]_vars, NEW n \in Nat, Filled(n)
  PROVE  Filled(n)'
<1> USE DEF nodeVars, execVars
<1>1. CASE Mine
  <2>1. PICK t \in pool : t.nonce = stateNonce /\ pool' = pool \ {t}
    BY <1>1 DEF Mine
  <2>2. stateNonce' = stateNonce + 1 BY <1>1 DEF Mine
  <2>3. ASSUME NEW m \in Nat, stateNonce + 1 <= m, m < n PROVE InPool(m)'
    <3>1. stateNonce <= m BY <2>3, SMTT(60) DEF TypeOK
    <3>2. PICK s \in pool : s.nonce = m BY <2>3, <3>1 DEF Filled, InPool
    <3>3. s # t BY <2>1, <2>3, <3>2, SMTT(60) DEF TypeOK
    <3>4. QED BY <2>1, <3>2, <3>3 DEF InPool
  <2>4. QED BY <2>2, <2>3 DEF Filled
<1>2. ASSUME UNCHANGED stateNonce, \A t \in pool : \E s \in pool' : s.nonce = t.nonce
      PROVE  Filled(n)'
  BY <1>2 DEF Filled, InPool
<1>3. ASSUME NEW k \in Nonces, ExternalSend(k) PROVE Filled(n)'
  <2>1. PICK x : x = [nonce |-> k, by |-> External] OBVIOUS
  <2>2. x.nonce = k BY <2>1
  <2>3. /\ UNCHANGED stateNonce
        /\ \/ pool' = pool \cup {x}
           \/ pool' = pool
           \/ \E t \in pool : t.nonce = k /\ pool' = (pool \ {t}) \cup {x}
    BY <1>3, <2>1 DEF ExternalSend
  <2>4. \A t \in pool : \E s \in pool' : s.nonce = t.nonce BY <2>2, <2>3
  <2>5. QED BY <1>2, <2>3, <2>4
<1>4. CASE ClaimFundsReplaces
  <2>1. MyTx.nonce = nonce BY DEF MyTx
  <2>2. /\ UNCHANGED stateNonce
        /\ \E t \in pool : t.nonce = nonce /\ pool' = (pool \ {t}) \cup {MyTx}
    BY <1>4 DEF ClaimFundsReplaces
  <2>3. \A t \in pool : \E s \in pool' : s.nonce = t.nonce BY <2>1, <2>2
  <2>4. QED BY <1>2, <2>2, <2>3
<1>5. CASE ClaimFunds \/ ClaimFundsFails
  BY <1>2, <1>5 DEF ClaimFunds, ClaimFundsFails, EnterPool
<1>6. CASE \/ \E v \in Vouchers : Publish(v)
           \/ \E k \in Nonces : ExternalRead(k) \/ ResyncFetch(k) \/ Boot(k)
           \/ TakeVoucher \/ PrepareFails \/ ReserveNonce \/ NonceRejected
           \/ ResyncFails \/ ResyncStore \/ Report \/ DrainTxFailed \/ Crash
           \/ UNCHANGED vars
  <2>1. UNCHANGED <<stateNonce, pool>>
    BY <1>6 DEF Publish, ExternalRead, ResyncFetch, Boot, TakeVoucher, PrepareFails,
       ReserveNonce, NonceRejected, ResyncFails, ResyncStore, Report, DrainTxFailed,
       Crash, vars
  <2>2. QED BY <1>2, <2>1
<1>7. QED BY <1>1, <1>3, <1>4, <1>5, <1>6 DEF Next, Run

\* What others read is the pending nonce, and it stays without a gap before it.
LEMMA ReadsStep == TypeOK /\ ReadsFilled /\ [Next]_vars => ReadsFilled'
<1> SUFFICES ASSUME TypeOK, ReadsFilled, [Next]_vars, NEW n \in read' PROVE Filled(n)'
  BY DEF ReadsFilled
<1>1. CASE n \in read
  <2>1. n \in Nat /\ Filled(n) BY <1>1 DEF TypeOK, ReadsFilled
  <2>2. QED BY <2>1, FilledStays
<1>2. CASE n \notin read
  <2>1. ExternalRead(n) /\ n \in Nonces
    BY <1>2 DEF Next, Run, vars, nodeVars, execVars, Mine, ExternalRead, ExternalSend,
       Publish, TakeVoucher, PrepareFails, ReserveNonce, ClaimFunds, EnterPool,
       ClaimFundsReplaces, NonceRejected, ClaimFundsFails, ResyncFetch, ResyncFails,
       ResyncStore, Report, DrainTxFailed, Crash, Boot
  <2>2. n \in Nat BY <2>1, BoundsAssumption, SMTT(60) DEF Nonces
  <2>3. \A m \in stateNonce..(n - 1) : InPool(m) BY <2>1 DEF ExternalRead, IsPendingNonce
  <2>4. Filled(n) BY <2>2, <2>3, SMTT(60) DEF Filled, TypeOK
  <2>5. QED BY <2>2, <2>4, FilledStays
<1>3. QED BY <1>1, <1>2

------------------------------------------------------------------------------
\* The pool holds every nonce from the account's up to n.
Reached(n) == \A m \in Nat : stateNonce <= m /\ m <= n => InPool(m)

\* No two transactions of the pool have the same nonce.
PoolUnique == \A s, t \in pool : s.nonce = t.nonce => s = t

\* A transaction of the pool is one of this process, or of others and without a
\* gap before it.
PoolExplained ==
  \A t \in pool :
    /\ stateNonce <= t.nonce
    /\ t.nonce \in own \/ (t.by = External /\ external > 0 /\ Reached(t.nonce))

\* The reserved nonce is above all that the node took from this process; once it
\* was rejected the pool reaches it, and what Resync fetched lies beyond.
ReservedFresh ==
  /\ pc \in {"send", "resync", "store"} =>
       nonce < current /\ \A n \in own : n < nonce
  /\ pc = "resync" => Reached(nonce)
  /\ pc = "store" => nonce < fetched

\* Without others on the account the node is never ahead of the counter.
Undisturbed ==
  external = 0 => /\ stateNonce <= current
                  /\ pc = "send" => stateNonce <= nonce
                  /\ pc \notin {"resync", "store"}

NonceInv ==
  /\ pc # "down"
  /\ CounterAboveOwn
  /\ PoolUnique
  /\ PoolExplained
  /\ ReservedFresh
  /\ Undisturbed

\* What NonceInv says of the node only.
PoolInv == PoolUnique /\ PoolExplained

\* Mining the next transaction shortens what the pool reaches from the left.
LEMMA MineReach ==
  ASSUME TypeOK, PoolInv, Mine, NEW n \in Nat, Reached(n)
  PROVE  Reached(n)'
<1>1. PICK t \in pool : t.nonce = stateNonce /\ pool' = pool \ {t}
  BY DEF Mine
<1>2. stateNonce' = stateNonce + 1 BY DEF Mine
<1>3. ASSUME NEW m \in Nat, stateNonce + 1 <= m, m <= n PROVE InPool(m)'
  <2>1. PICK s \in pool : s.nonce = m
    BY <1>3, SMTT(60) DEF Reached, InPool, TypeOK
  <2>2. s # t BY <1>1, <1>3, <2>1, SMTT(60) DEF TypeOK
  <2>3. QED BY <1>1, <2>1, <2>2 DEF InPool
<1>4. QED BY <1>2, <1>3 DEF Reached

\* A node that gains a transaction, or exchanges one for another with the same
\* nonce, reaches as far as before.
LEMMA GrowReach ==
  ASSUME UNCHANGED stateNonce, \A t \in pool : \E s \in pool' : s.nonce = t.nonce,
         NEW n \in Nat, Reached(n)
  PROVE  Reached(n)'
  BY DEF Reached, InPool

\* The node keeps its invariant when it mines.
LEMMA MineKeeps == TypeOK /\ NonceInv /\ Mine => NonceInv'
<1> SUFFICES ASSUME TypeOK, NonceInv, Mine PROVE NonceInv'
  OBVIOUS
<1>1. PICK t \in pool : t.nonce = stateNonce /\ pool' = pool \ {t}
  BY DEF Mine
<1>2. /\ stateNonce' = stateNonce + 1
      /\ UNCHANGED <<external, current, pc, voucher, nonce, fetched, own>>
  BY DEF Mine, execVars
<1>3. stateNonce \in Nat /\ nonce \in Nat /\ current \in Nat /\ \A s \in pool : s.nonce \in Nat
  BY DEF TypeOK, Tx
<1>4. PoolInv BY DEF NonceInv, PoolInv
<1>5. PoolUnique' BY <1>1 DEF NonceInv, PoolUnique
<1>6. PoolExplained'
  <2> SUFFICES ASSUME NEW s \in pool'
               PROVE  /\ stateNonce' <= s.nonce
                      /\ \/ s.nonce \in own
                         \/ s.by = External /\ external > 0 /\ Reached(s.nonce)'
    BY <1>2 DEF PoolExplained, Reached, InPool
  <2>1. s \in pool /\ s # t BY <1>1
  <2>2. s.nonce # stateNonce BY <1>1, <2>1 DEF NonceInv, PoolUnique
  <2>3. stateNonce' <= s.nonce BY <1>2, <1>3, <2>1, <2>2, SMTT(60) DEF NonceInv, PoolExplained
  <2>4. Reached(s.nonce) => Reached(s.nonce)'
    <3>1. \A n \in Nat : Reached(n) => Reached(n)' BY <1>4, MineReach
    <3>2. QED BY <1>3, <2>1, <3>1
  <2>5. QED BY <2>1, <2>3, <2>4 DEF NonceInv, PoolExplained
<1>7. ReservedFresh'
  <2>1. Reached(nonce) => \A m \in Nat : stateNonce' <= m /\ m <= nonce => InPool(m)'
    BY <1>3, <1>4, MineReach DEF Reached
  <2>2. QED BY <1>2, <2>1 DEF NonceInv, ReservedFresh, Reached
<1>8. Undisturbed'
  <2>1. external = 0 => stateNonce \in own
    BY <1>1, SMTT(60) DEF NonceInv, PoolExplained
  <2>2. external = 0 => stateNonce < current /\ (pc = "send" => stateNonce < nonce)
    BY <2>1 DEF NonceInv, CounterAboveOwn, ReservedFresh
  <2>3. QED BY <1>2, <1>3, <2>2, SMTT(60) DEF NonceInv, Undisturbed
<1>9. QED BY <1>2, <1>5, <1>6, <1>7, <1>8 DEF NonceInv, CounterAboveOwn

\* Others send with a nonce they were given, which leaves no gap, whether it is
\* still free or not.
LEMMA ExternalKeeps ==
  ASSUME TypeOK, NonceInv, ReadsFilled, NEW n \in Nat, ExternalSend(n)
  PROVE  NonceInv'
<1> DEFINE x == [nonce |-> n, by |-> External]
<1>0. x.nonce = n /\ x.by = External OBVIOUS
<1>1. /\ external' = external + 1 /\ n \in read
      /\ UNCHANGED <<stateNonce, current, pc, nonce, fetched, own>>
      /\ \/ n >= stateNonce /\ ~InPool(n) /\ pool' = pool \cup {x}
         \/ pool' = pool
         \/ \E t \in pool : t.nonce = n /\ pool' = (pool \ {t}) \cup {x}
  BY DEF ExternalSend, execVars
<1> HIDE DEF x
<1>2. Filled(n) BY <1>1 DEF ReadsFilled
<1>3. /\ stateNonce \in Nat /\ nonce \in Nat /\ external \in Nat
      /\ \A s \in pool : s.nonce \in Nat
  BY BoundsAssumption, SMTT(60) DEF TypeOK, Tx
<1>4. \A t \in pool : \E s \in pool' : s.nonce = t.nonce
  BY <1>0, <1>1
<1>5. \A m \in Nat : Reached(m) => Reached(m)'
  BY <1>1, <1>4, GrowReach
<1>6. x \in pool' => stateNonce <= n /\ Reached(n)'
  <2> SUFFICES ASSUME x \in pool' PROVE stateNonce <= n /\ Reached(n)'
    OBVIOUS
  <2>1. stateNonce <= n
    <3>1. CASE n >= stateNonce BY <1>3, <3>1
    <3>2. CASE \E t \in pool : t.nonce = n
      BY <3>2 DEF NonceInv, PoolExplained
    <3>3. QED BY <1>0, <1>1, <3>1, <3>2
  <2>2. ASSUME NEW m \in Nat, stateNonce <= m, m <= n PROVE InPool(m)'
    <3>1. CASE m = n
      BY <1>0, <3>1 DEF InPool
    <3>2. CASE m # n
      <4>1. m < n BY <2>2, <3>2, SMTT(60)
      <4>2. InPool(m) BY <1>2, <2>2, <4>1 DEF Filled
      <4>3. QED BY <1>4, <4>2 DEF InPool
    <3>3. QED BY <3>1, <3>2
  <2>3. QED BY <1>1, <2>1, <2>2 DEF Reached
<1>7. PoolUnique'
  BY <1>0, <1>1 DEF NonceInv, PoolUnique, InPool
<1>8. PoolExplained'
  <2> SUFFICES ASSUME NEW s \in pool'
               PROVE  /\ stateNonce <= s.nonce
                      /\ \/ s.nonce \in own
                         \/ s.by = External /\ external' > 0 /\ Reached(s.nonce)'
    BY <1>1 DEF PoolExplained, Reached, InPool
  <2>1. external' > 0 BY <1>1, <1>3, SMTT(60)
  <2>2. CASE s \in pool
    BY <1>3, <1>5, <2>1, <2>2 DEF NonceInv, PoolExplained
  <2>3. CASE s = x
    BY <1>0, <1>6, <2>1, <2>3
  <2>4. QED BY <1>1, <2>2, <2>3
<1>9. ReservedFresh'
  <2>1. Reached(nonce) => \A m \in Nat : stateNonce' <= m /\ m <= nonce => InPool(m)'
    BY <1>3, <1>5 DEF Reached
  <2>2. QED BY <1>1, <2>1 DEF NonceInv, ReservedFresh, Reached
<1>10. Undisturbed' BY <1>1, <1>3, SMTT(60) DEF Undisturbed
<1>11. QED BY <1>1, <1>7, <1>8, <1>9, <1>10 DEF NonceInv, CounterAboveOwn

\* The node takes the transaction at hand, into a free place of the pool or in
\* the place of one with the same nonce, which is never one of this process.
LEMMA TakenKeeps ==
  ASSUME TypeOK, NonceInv, pc = "send",
         stateNonce <= nonce,
         NEW S \in SUBSET pool,
         \A t \in pool : t.nonce = nonce <=> t \in S,
         pool' = (pool \ S) \cup {MyTx},
         own' = own \cup {nonce},
         pc' \in {"idle", "report"},
         UNCHANGED <<stateNonce, external, current, nonce, fetched>>
  PROVE  NonceInv'
<1>1. /\ stateNonce \in Nat /\ nonce \in Nat /\ \A s \in pool : s.nonce \in Nat
      /\ MyTx.nonce = nonce
  BY DEF TypeOK, Tx, MyTx
<1>2. \A t \in pool : \E s \in pool' : s.nonce = t.nonce
  <2> TAKE t \in pool
  <2>1. CASE t.nonce = nonce
    <3>1. MyTx \in pool' OBVIOUS
    <3>2. QED BY <1>1, <2>1, <3>1
  <2>2. CASE t.nonce # nonce
    <3>1. t \in pool' BY <2>2
    <3>2. QED BY <3>1
  <2>3. QED BY <2>1, <2>2
<1>3. \A m \in Nat : Reached(m) => Reached(m)'
  BY <1>2, GrowReach
<1>4. PoolUnique'
  BY <1>1 DEF NonceInv, PoolUnique
<1>5. PoolExplained'
  <2> SUFFICES ASSUME NEW s \in pool'
               PROVE  /\ stateNonce <= s.nonce
                      /\ \/ s.nonce \in own'
                         \/ s.by = External /\ external > 0 /\ Reached(s.nonce)'
    BY DEF PoolExplained, Reached, InPool
  <2>1. CASE s \in pool
    BY <1>1, <1>3, <2>1 DEF NonceInv, PoolExplained
  <2>2. CASE s = MyTx
    BY <1>1, <2>2
  <2>3. QED BY <2>1, <2>2
<1>6. CounterAboveOwn' BY DEF NonceInv, CounterAboveOwn, ReservedFresh
<1>7. ReservedFresh' BY DEF ReservedFresh
<1>8. Undisturbed' BY DEF NonceInv, Undisturbed
<1>9. QED BY <1>4, <1>5, <1>6, <1>7, <1>8 DEF NonceInv

\* A step of the executor that leaves the node alone only has to keep the facts
\* about its own counter.
LEMMA ExecutorKeeps ==
  ASSUME NonceInv, UNCHANGED <<stateNonce, pool, external, own>>,
         pc' # "down", CounterAboveOwn', ReservedFresh', Undisturbed'
  PROVE  NonceInv'
  BY DEF NonceInv, PoolUnique, PoolExplained, Reached, InPool

\* A rejected nonce is reached by the pool: what stands in its place is not of
\* this process.
LEMMA RejectedIsReached ==
  ASSUME TypeOK, NonceInv, NonceRejected
  PROVE  Reached(nonce) /\ external > 0
<1>1. pc = "send" /\ (nonce < stateNonce \/ InPool(nonce))
  BY DEF NonceRejected
<1>2. stateNonce \in Nat /\ nonce \in Nat /\ external \in Nat
  BY BoundsAssumption, SMTT(60) DEF TypeOK
<1>3. nonce \notin own
  BY <1>1, <1>2, SMTT(60) DEF NonceInv, ReservedFresh
<1>4. CASE nonce < stateNonce
  <2>1. Reached(nonce) BY <1>2, <1>4, SMTT(60) DEF Reached
  <2>2. external # 0 BY <1>1, <1>2, <1>4, SMTT(60) DEF NonceInv, Undisturbed
  <2>3. QED BY <1>2, <2>1, <2>2, SMTT(60)
<1>5. CASE InPool(nonce)
  BY <1>3, <1>5 DEF InPool, NonceInv, PoolExplained
<1>6. QED BY <1>1, <1>4, <1>5

\* Every step of a relayer that does not restart keeps the invariant.
LEMMA NonceStep ==
  ASSUME crashes' = 0, TypeOK, ReadsFilled, NonceInv, [Next]_vars
  PROVE  NonceInv'
<1> USE DEF nodeVars, execVars
<1>0. /\ stateNonce \in Nat /\ current \in Nat /\ nonce \in Nat /\ fetched \in Nat
      /\ external \in Nat /\ own \subseteq Nat
  BY BoundsAssumption, SMTT(60) DEF TypeOK
<1>1. CASE Mine BY <1>1, MineKeeps
<1>2. ASSUME NEW n \in Nonces, ExternalSend(n) PROVE NonceInv'
  <2>1. n \in Nat BY BoundsAssumption, SMTT(60) DEF Nonces
  <2>2. QED BY <1>2, <2>1, ExternalKeeps
<1>3. CASE \/ \E v \in Vouchers : Publish(v)
           \/ \E n \in Nonces : ExternalRead(n)
           \/ DrainTxFailed
           \/ UNCHANGED vars
  <2>1. UNCHANGED <<stateNonce, pool, external, own, pc, current, nonce, fetched>>
    BY <1>3 DEF Publish, ExternalRead, DrainTxFailed, vars
  <2>2. QED
    BY <2>1, ExecutorKeeps DEF NonceInv, CounterAboveOwn, ReservedFresh, Undisturbed,
       Reached, InPool
<1>4. CASE TakeVoucher \/ PrepareFails \/ ResyncFails \/ Report
  <2>1. /\ UNCHANGED <<stateNonce, pool, external, own, current, nonce, fetched>>
        /\ pc' \in {"prepare", "report", "idle"}
    BY <1>4 DEF TakeVoucher, PrepareFails, ResyncFails, Report
  <2>2. QED
    BY <2>1, ExecutorKeeps DEF NonceInv, CounterAboveOwn, ReservedFresh, Undisturbed
<1>5. CASE ReserveNonce
  <2>1. /\ UNCHANGED <<stateNonce, pool, external, own>>
        /\ pc' = "send" /\ nonce' = current /\ current' = current + 1
    BY <1>5 DEF ReserveNonce, Reserved, Incremented
  <2>2. CounterAboveOwn' BY <1>0, <2>1, SMTT(60) DEF NonceInv, CounterAboveOwn
  <2>3. ReservedFresh' BY <1>0, <2>1, SMTT(60) DEF NonceInv, CounterAboveOwn, ReservedFresh
  <2>4. Undisturbed' BY <1>0, <2>1, SMTT(60) DEF NonceInv, Undisturbed
  <2>5. QED BY <2>1, <2>2, <2>3, <2>4, ExecutorKeeps
<1>6. ASSUME EnterPool, pc = "send", pc' \in {"idle", "report"},
             UNCHANGED <<current, nonce, fetched>>
      PROVE  NonceInv'
  <2>1. PICK S \in SUBSET pool : S = {}
    OBVIOUS
  <2>2. /\ \A t \in pool : t.nonce # nonce
        /\ stateNonce <= nonce
        /\ pool' = (pool \ S) \cup {MyTx}
        /\ own' = own \cup {nonce} /\ UNCHANGED <<stateNonce, external>>
    BY <1>0, <1>6, <2>1 DEF EnterPool, InPool
  <2>3. \A t \in pool : t.nonce = nonce <=> t \in S BY <2>1, <2>2
  <2>4. QED BY <1>6, <2>2, <2>3, TakenKeeps
<1>7. CASE ClaimFunds BY <1>6, <1>7 DEF ClaimFunds
<1>8. CASE ClaimFundsReplaces
  <2>1. PICK t \in pool : t.nonce = nonce /\ pool' = (pool \ {t}) \cup {MyTx}
    BY <1>8 DEF ClaimFundsReplaces
  <2>2. /\ pc = "send" /\ pc' = "idle" /\ own' = own \cup {nonce}
        /\ UNCHANGED <<stateNonce, external, current, nonce, fetched>>
    BY <1>8 DEF ClaimFundsReplaces
  <2>3. stateNonce <= nonce BY <2>1 DEF NonceInv, PoolExplained
  <2>4. \A s \in pool : s.nonce = nonce <=> s \in {t}
    BY <2>1 DEF NonceInv, PoolUnique
  <2>5. QED BY <2>1, <2>2, <2>3, <2>4, TakenKeeps
<1>9. CASE NonceRejected
  <2>1. Reached(nonce) /\ external > 0 BY <1>9, RejectedIsReached
  <2>2. /\ UNCHANGED <<stateNonce, pool, external, own, current, nonce, fetched>>
        /\ pc = "send" /\ pc' = "resync"
    BY <1>9 DEF NonceRejected
  <2>3. ReservedFresh' BY <2>1, <2>2 DEF NonceInv, ReservedFresh, Reached, InPool
  <2>4. Undisturbed' BY <1>0, <2>1, <2>2, SMTT(60) DEF Undisturbed
  <2>5. QED BY <2>2, <2>3, <2>4, ExecutorKeeps DEF NonceInv, CounterAboveOwn
<1>10. CASE ClaimFundsFails
  <2>1. pc = "send" /\ pc' = "report" /\ UNCHANGED <<current, nonce, fetched>>
    BY <1>10 DEF ClaimFundsFails, AfterFailure
  <2>2. CASE EnterPool BY <1>6, <2>1, <2>2
  <2>3. CASE UNCHANGED <<nodeVars, own>>
    BY <2>1, <2>3, ExecutorKeeps DEF NonceInv, CounterAboveOwn, ReservedFresh,
       Undisturbed
  <2>4. QED BY <1>10, <2>2, <2>3 DEF ClaimFundsFails
<1>11. ASSUME NEW n \in Nonces, ResyncFetch(n) PROVE NonceInv'
  <2>1. /\ UNCHANGED <<stateNonce, pool, external, own, current, nonce>>
        /\ pc = "resync" /\ pc' = "store" /\ fetched' = n
        /\ n >= stateNonce /\ ~InPool(n) /\ n \in Nat
    BY <1>11, BoundsAssumption, SMTT(60) DEF ResyncFetch, Authoritative, IsPendingNonce, Nonces
  <2>2. nonce < n
    BY <1>0, <2>1, SMTT(60) DEF NonceInv, ReservedFresh, Reached
  <2>3. ReservedFresh' BY <2>1, <2>2 DEF NonceInv, ReservedFresh
  <2>4. Undisturbed' BY <2>1 DEF NonceInv, Undisturbed
  <2>5. QED BY <2>1, <2>3, <2>4, ExecutorKeeps DEF NonceInv, CounterAboveOwn
<1>12. CASE ResyncStore
  <2>1. /\ UNCHANGED <<stateNonce, pool, external, own, nonce>>
        /\ pc = "store" /\ pc' = "report" /\ current' = fetched
    BY <1>12 DEF ResyncStore
  <2>2. CounterAboveOwn'
    BY <1>0, <2>1, SMTT(60) DEF NonceInv, ReservedFresh, CounterAboveOwn
  <2>3. ReservedFresh' BY <2>1 DEF ReservedFresh
  <2>4. Undisturbed' BY <2>1 DEF NonceInv, Undisturbed
  <2>5. QED BY <2>1, <2>2, <2>3, <2>4, ExecutorKeeps
<1>13. ~Crash BY BoundsAssumption, SMTT(60) DEF Crash, TypeOK
<1>14. \A n \in Nonces : ~Boot(n) BY DEF Boot, NonceInv
<1>15. QED
  BY <1>1, <1>2, <1>3, <1>4, <1>5, <1>7, <1>8, <1>9, <1>10, <1>11, <1>12, <1>13,
     <1>14 DEF Next, Run

\* A transaction that has the nonce at hand is none of the relayer's.
OnlyOthersCollide ==
  pc = "send" => \A t \in pool : t.nonce = nonce => t.by = External

\* What the node has taken and the relayer has not replaced.
OnNode == pool \cup mined \cup outbid

\* A submitted settlement stays on the node: the transaction that ClaimFunds
\* replaces is never one of the relayer.
LEMMA SubmittedStays ==
  ASSUME TypeOK, HandInv, OnlyOthersCollide, SubmittedIsOnNode, [Next]_vars
  PROVE  SubmittedIsOnNode'
<1> USE DEF nodeVars, execVars
<1>1. ASSUME \A t \in OnNode : t.by = External \/ t \in OnNode',
             \A v \in Vouchers : status'[v] = "submitted" => status[v] = "submitted"
      PROVE  SubmittedIsOnNode'
  BY <1>1, ExternalAssumption DEF SubmittedIsOnNode, OnNode
<1>2. ASSUME \A t \in OnNode : t.by = External \/ t \in OnNode',
             MyTx \in pool', voucher \in Vouchers,
             status' = [status EXCEPT ![voucher] = "submitted"]
      PROVE  SubmittedIsOnNode'
  <2>1. ASSUME NEW v \in Vouchers, status'[v] = "submitted"
        PROVE  \E t \in OnNode' : t.by = v
    <3>1. CASE v = voucher
      <4>1. MyTx \in OnNode' /\ MyTx.by = v BY <1>2, <3>1 DEF MyTx, OnNode
      <4>2. QED BY <4>1
    <3>2. CASE v # voucher
      <4>1. status[v] = "submitted" BY <1>2, <2>1, <3>2 DEF TypeOK
      <4>2. PICK t \in OnNode : t.by = v
        BY <4>1 DEF SubmittedIsOnNode, OnNode
      <4>3. t \in OnNode' BY <1>2, <4>2, ExternalAssumption
      <4>4. QED BY <4>2, <4>3
    <3>3. QED BY <3>1, <3>2
  <2>2. QED BY <2>1 DEF SubmittedIsOnNode, OnNode
<1>3. CASE Mine
  BY <1>1, <1>3 DEF Mine, OnNode
<1>4. ASSUME NEW n \in Nonces, ExternalSend(n) PROVE SubmittedIsOnNode'
  BY <1>1, <1>4 DEF ExternalSend, OnNode
<1>5. CASE ClaimFunds
  BY <1>2, <1>5 DEF ClaimFunds, EnterPool, HandInv, Busy, OnNode
<1>6. CASE ClaimFundsReplaces
  <2>1. PICK t \in pool : t.nonce = nonce /\ pool' = (pool \ {t}) \cup {MyTx}
    BY <1>6 DEF ClaimFundsReplaces
  <2>3. t.by = External
    BY <1>6, <2>1 DEF ClaimFundsReplaces, OnlyOthersCollide
  <2>4. \A s \in OnNode : s.by = External \/ s \in OnNode'
    BY <1>6, <2>1, <2>3 DEF ClaimFundsReplaces, OnNode
  <2>5. QED BY <1>2, <1>6, <2>1, <2>4 DEF ClaimFundsReplaces, HandInv, Busy
<1>7. CASE ClaimFundsFails
  BY <1>1, <1>7 DEF ClaimFundsFails, EnterPool, OnNode
<1>8. ASSUME UNCHANGED <<pool, mined, outbid>>,
             \A v \in Vouchers : status'[v] = "submitted" => status[v] = "submitted"
      PROVE  SubmittedIsOnNode'
  BY <1>1, <1>8 DEF OnNode
<1>9. CASE \/ TakeVoucher \/ PrepareFails \/ ReserveNonce \/ NonceRejected
           \/ \E n \in Nonces : ExternalRead(n) \/ ResyncFetch(n) \/ Boot(n)
           \/ ResyncFails \/ ResyncStore \/ DrainTxFailed \/ UNCHANGED vars
  BY <1>8, <1>9 DEF TakeVoucher, PrepareFails, ReserveNonce, NonceRejected,
     ExternalRead, ResyncFetch, Boot, ResyncFails, ResyncStore, DrainTxFailed, vars
<1>10. CASE (\E v \in Vouchers : Publish(v)) \/ Report \/ Crash
  BY <1>8, <1>10 DEF Publish, Report, Crash, TypeOK
<1>11. QED
  BY <1>3, <1>4, <1>5, <1>6, <1>7, <1>9, <1>10 DEF Next, Run

------------------------------------------------------------------------------
\* The relayer's transactions of the pool, of whatever process, are below n.
SettledBelow(n) == \A t \in pool : t.by # External => t.nonce < n

\* The pool has no gaps.
PoolGapless ==
  PoolUnique /\ \A t \in pool : stateNonce <= t.nonce /\ Filled(t.nonce)

\* While no reserved nonce was left unused: the pool has no gaps, the counter is
\* above all settlements and, except while a nonce is on its way to the node, not
\* beyond the pending nonce; so what a restart reads is above them as well.
GaplessInv ==
  /\ PoolGapless
  /\ CounterAboveOwn
  /\ pc # "down" => SettledBelow(current)
  /\ pc \notin {"down", "send"} => Filled(current)
  /\ pc \in {"send", "resync", "store"} =>
       /\ current = nonce + 1
       /\ Filled(nonce)
       /\ SettledBelow(nonce)
       /\ \A n \in own : n < nonce
  /\ pc = "store" => nonce < fetched /\ Filled(fetched)

\* Mining shortens the filled part from the left and leaves a gapless pool.
LEMMA MineFilled ==
  ASSUME TypeOK, PoolGapless, Mine
  PROVE  PoolGapless' /\ \A n \in Nat : Filled(n) => Filled(n)'
<1>1. PICK t \in pool : t.nonce = stateNonce /\ pool' = pool \ {t}
  BY DEF Mine
<1>2. stateNonce' = stateNonce + 1 BY DEF Mine
<1>3. ASSUME NEW n \in Nat, Filled(n) PROVE Filled(n)'
  BY <1>3, FilledStays DEF Next
<1>4. ASSUME NEW s \in pool' PROVE stateNonce' <= s.nonce /\ Filled(s.nonce)'
  <2>1. s \in pool /\ s # t BY <1>1, <1>4
  <2>2. s.nonce \in Nat BY <2>1 DEF TypeOK, Tx
  <2>3. s.nonce # stateNonce /\ stateNonce <= s.nonce /\ Filled(s.nonce)
    BY <1>1, <2>1 DEF PoolGapless, PoolUnique
  <2>4. stateNonce' <= s.nonce BY <1>2, <2>2, <2>3, SMTT(60) DEF TypeOK
  <2>5. QED BY <1>3, <2>2, <2>3, <2>4
<1>5. PoolUnique' BY <1>1 DEF PoolGapless, PoolUnique
<1>6. QED BY <1>3, <1>4, <1>5 DEF PoolGapless

\* A transaction that enters at the end of the filled part, or takes the place of
\* the one that has its nonce, leaves a gapless pool that is filled as far as before.
LEMMA SendFilled ==
  ASSUME TypeOK, PoolGapless, NEW x \in Tx, stateNonce <= x.nonce, Filled(x.nonce),
         NEW S \in SUBSET pool, \A t \in pool : t.nonce = x.nonce <=> t \in S,
         pool' = (pool \ S) \cup {x}, UNCHANGED stateNonce
  PROVE  PoolGapless' /\ \A n \in Nat : Filled(n) => Filled(n)'
<1>1. \A m : InPool(m) => InPool(m)' BY DEF InPool
<1>2. \A n : Filled(n) => Filled(n)' BY <1>1 DEF Filled
<1>3. PoolUnique' BY DEF PoolGapless, PoolUnique
<1>4. ASSUME NEW s \in pool' PROVE stateNonce' <= s.nonce /\ Filled(s.nonce)'
  BY <1>2, <1>4 DEF PoolGapless
<1>5. QED BY <1>2, <1>3, <1>4 DEF PoolGapless

\* What PendingNonceAt answers is the end of the filled part, above all of a
\* gapless pool.
LEMMA PendingIsEnd ==
  ASSUME TypeOK, PoolGapless, NEW n \in Nonces, IsPendingNonce(n)
  PROVE  /\ n \in Nat /\ stateNonce <= n /\ Filled(n) /\ ~InPool(n)
         /\ \A t \in pool : t.nonce < n
         /\ \A m \in Nat : Filled(m) => m <= n
<1>1. n \in Nat /\ stateNonce \in Nat /\ stateNonce <= n /\ ~InPool(n)
  BY BoundsAssumption, SMTT(60) DEF IsPendingNonce, Nonces, TypeOK
<1>2. Filled(n) BY <1>1, SMTT(60) DEF IsPendingNonce, Filled
<1>3. ASSUME NEW m \in Nat, Filled(m) PROVE m <= n
  <2>1. CASE n < m BY <1>1, <1>3, <2>1 DEF Filled
  <2>2. QED BY <1>1, <2>1, SMTT(60)
<1>4. ASSUME NEW t \in pool PROVE t.nonce < n
  <2>1. t.nonce \in Nat BY DEF TypeOK, Tx
  <2>2. t.nonce <= n BY <1>3, <2>1 DEF PoolGapless
  <2>3. t.nonce # n BY <1>1 DEF InPool
  <2>4. QED BY <1>1, <2>1, <2>2, <2>3, SMTT(60)
<1>5. QED BY <1>1, <1>2, <1>3, <1>4

\* The executor's part of the invariant survives what the node does by itself.
LEMMA NodeKeeps ==
  ASSUME TypeOK, GaplessInv, UNCHANGED <<current, pc, nonce, fetched, own>>,
         PoolGapless', \A n \in Nat : Filled(n) => Filled(n)',
         \A n \in Nat : SettledBelow(n) => SettledBelow(n)'
  PROVE  GaplessInv'
<1>1. PICK c \in Nat : c = current BY DEF TypeOK
<1>2. PICK k \in Nat : k = nonce BY DEF TypeOK
<1>3. PICK f \in Nat : f = fetched BY DEF TypeOK
<1>4. c = current' /\ k = nonce' /\ f = fetched' BY <1>1, <1>2, <1>3
<1>5. Filled(c) => Filled(c)' OBVIOUS
<1>6. Filled(k) => Filled(k)' OBVIOUS
<1>7. Filled(f) => Filled(f)' OBVIOUS
<1>8. SettledBelow(c) => SettledBelow(c)' OBVIOUS
<1>9. SettledBelow(k) => SettledBelow(k)' OBVIOUS
<1>10. Filled(current) => Filled(current)' BY <1>1, <1>4, <1>5 DEF Filled
<1>11. Filled(nonce) => Filled(nonce)' BY <1>2, <1>4, <1>6 DEF Filled
<1>12. Filled(fetched) => Filled(fetched)' BY <1>3, <1>4, <1>7 DEF Filled
<1>13. SettledBelow(current) => SettledBelow(current)'
  BY <1>1, <1>4, <1>8 DEF SettledBelow
<1>14. SettledBelow(nonce) => SettledBelow(nonce)'
  BY <1>2, <1>4, <1>9 DEF SettledBelow
<1>15. QED
  BY <1>10, <1>11, <1>12, <1>13, <1>14 DEF GaplessInv, CounterAboveOwn

\* Every step keeps the invariant as long as no nonce is left unused, restarts
\* included.
LEMMA GaplessStep ==
  ASSUME failures' = 0, TypeOK, HandInv, ReadsFilled, GaplessInv, [Next]_vars
  PROVE  GaplessInv'
<1> USE DEF nodeVars, execVars
<1>0. /\ stateNonce \in Nat /\ current \in Nat /\ nonce \in Nat /\ fetched \in Nat
      /\ own \subseteq Nat /\ current + 1 \in Nat
  BY SMTT(60) DEF TypeOK
<1>1. CASE Mine
  <2>1. PoolGapless' /\ \A n \in Nat : Filled(n) => Filled(n)'
    BY <1>1, MineFilled DEF GaplessInv
  <2>2. pool' \subseteq pool /\ UNCHANGED <<current, pc, nonce, fetched, own>>
    BY <1>1 DEF Mine
  <2>3. \A n \in Nat : SettledBelow(n) => SettledBelow(n)' BY <2>2 DEF SettledBelow
  <2>4. QED BY <2>1, <2>2, <2>3, NodeKeeps
<1>2. ASSUME NEW n \in Nonces, ExternalSend(n) PROVE GaplessInv'
  <2> DEFINE x == [nonce |-> n, by |-> External]
  <2>1. n \in Nat /\ Filled(n)
    BY <1>2 DEF ExternalSend, ReadsFilled, TypeOK
  <2>2. x \in Tx /\ x.nonce = n /\ x.by = External BY <2>1 DEF Tx
  <2>3. /\ UNCHANGED <<stateNonce, current, pc, nonce, fetched, own>>
        /\ \/ n >= stateNonce /\ ~InPool(n) /\ pool' = pool \cup {x}
           \/ pool' = pool
           \/ \E t \in pool : t.nonce = n /\ pool' = (pool \ {t}) \cup {x}
    BY <1>2 DEF ExternalSend
  <2> HIDE DEF x
  <2>4. ASSUME NEW S \in SUBSET pool, stateNonce <= n,
               \A t \in pool : t.nonce = n <=> t \in S, pool' = (pool \ S) \cup {x}
        PROVE  GaplessInv'
    <3>1. /\ stateNonce <= x.nonce /\ Filled(x.nonce)
          /\ \A t \in pool : t.nonce = x.nonce <=> t \in S
      BY <2>1, <2>2, <2>4
    <3>2. PoolGapless' /\ \A m \in Nat : Filled(m) => Filled(m)'
      BY <2>2, <2>3, <2>4, <3>1, SendFilled DEF GaplessInv
    <3>3. \A m \in Nat : SettledBelow(m) => SettledBelow(m)'
      BY <2>2, <2>4 DEF SettledBelow
    <3>4. QED BY <2>3, <3>2, <3>3, NodeKeeps
  <2>5. CASE n >= stateNonce /\ ~InPool(n) /\ pool' = pool \cup {x}
    <3>1. PICK S \in SUBSET pool : S = {} OBVIOUS
    <3>2. \A t \in pool : t.nonce = n <=> t \in S BY <2>5, <3>1 DEF InPool
    <3>3. pool' = (pool \ S) \cup {x} /\ stateNonce <= n BY <1>0, <2>5, <3>1
    <3>4. QED BY <2>4, <3>2, <3>3
  <2>6. CASE pool' = pool
    BY <2>3, <2>6 DEF GaplessInv, CounterAboveOwn, PoolGapless, PoolUnique, SettledBelow,
       Filled, InPool
  <2>7. ASSUME NEW t \in pool, t.nonce = n, pool' = (pool \ {t}) \cup {x} PROVE GaplessInv'
    <3>1. stateNonce <= n BY <2>7 DEF GaplessInv, PoolGapless
    <3>2. \A s \in pool : s.nonce = n <=> s \in {t}
      BY <2>7 DEF GaplessInv, PoolGapless, PoolUnique
    <3>3. QED BY <2>4, <2>7, <3>1, <3>2
  <2>8. QED BY <2>3, <2>5, <2>6, <2>7
<1>3. CASE \/ \E v \in Vouchers : Publish(v)
           \/ \E n \in Nonces : ExternalRead(n)
           \/ DrainTxFailed
           \/ UNCHANGED vars
  <2>1. UNCHANGED <<stateNonce, pool, own, pc, current, nonce, fetched>>
    BY <1>3 DEF Publish, ExternalRead, DrainTxFailed, vars
  <2>2. QED
    BY <2>1 DEF GaplessInv, CounterAboveOwn, PoolGapless, PoolUnique, SettledBelow,
       Filled, InPool
<1>4. CASE TakeVoucher \/ PrepareFails \/ ResyncFails \/ Report \/ Crash
  <2>1. /\ UNCHANGED <<stateNonce, pool, own, current, nonce, fetched>>
        /\ pc \in {"idle", "prepare", "resync", "report"} \/ pc' = "down"
        /\ pc' \in {"prepare", "report", "idle", "down"}
    BY <1>4 DEF TakeVoucher, PrepareFails, ResyncFails, Report, Crash
  <2>2. QED
    BY <2>1 DEF GaplessInv, CounterAboveOwn, PoolGapless, PoolUnique, SettledBelow,
       Filled, InPool
<1>5. CASE ReserveNonce
  <2>1. /\ UNCHANGED <<stateNonce, pool, own>>
        /\ pc = "prepare" /\ pc' = "send" /\ nonce' = current /\ current' = current + 1
    BY <1>5 DEF ReserveNonce, Reserved, Incremented
  <2>2. Filled(nonce)' /\ SettledBelow(nonce)' /\ \A n \in own' : n < nonce'
    BY <2>1 DEF GaplessInv, CounterAboveOwn, Filled, SettledBelow, InPool
  <2>3. CounterAboveOwn' BY <1>0, <2>1, SMTT(60) DEF GaplessInv, CounterAboveOwn
  <2>4. PoolGapless'
    BY <2>1 DEF GaplessInv, PoolGapless, PoolUnique, Filled, InPool
  <2>5. ASSUME NEW t \in pool', t.by # External PROVE t.nonce < current'
    <3>1. t.nonce < current BY <2>1, <2>5 DEF GaplessInv, SettledBelow
    <3>2. t.nonce \in Nat BY <2>1 DEF TypeOK, Tx
    <3>3. QED BY <1>0, <2>1, <3>1, <3>2, SMTT(60)
  <2>6. current' = nonce' + 1 BY <2>1
  <2>7. QED BY <2>1, <2>2, <2>3, <2>4, <2>5, <2>6 DEF GaplessInv, SettledBelow
<1>6. ASSUME pc = "send", pc' = "idle", NEW S \in SUBSET pool, stateNonce <= nonce,
             \A t \in pool : t.nonce = nonce <=> t \in S,
             pool' = (pool \ S) \cup {MyTx}, own' = own \cup {nonce},
             UNCHANGED <<stateNonce, current, nonce, fetched>>
      PROVE  GaplessInv'
  <2>1. MyTx \in Tx /\ MyTx.nonce = nonce
    BY <1>0 DEF MyTx, Tx, TypeOK
  <2>2. /\ current = nonce + 1 /\ Filled(nonce) /\ SettledBelow(nonce)
        /\ \A n \in own : n < nonce
    BY <1>6 DEF GaplessInv
  <2>3. PoolGapless'
    <3>1. PICK x \in Tx : x = MyTx BY <2>1
    <3>2. /\ stateNonce <= x.nonce /\ Filled(x.nonce) /\ pool' = (pool \ S) \cup {x}
          /\ \A t \in pool : t.nonce = x.nonce <=> t \in S
      BY <1>6, <2>1, <2>2, <3>1
    <3>3. QED BY <1>6, <3>2, SendFilled DEF GaplessInv
  <2>4. CounterAboveOwn'
    BY <1>0, <1>6, <2>2, SMTT(60) DEF CounterAboveOwn
  <2>5. ASSUME NEW t \in pool', t.by # External PROVE t.nonce < current'
    <3>1. t.nonce \in Nat BY <1>6, <2>1 DEF TypeOK, Tx
    <3>2. t.nonce < nonce \/ t.nonce = nonce
      BY <1>6, <2>1, <2>2, <2>5 DEF SettledBelow
    <3>3. QED BY <1>0, <1>6, <2>2, <3>1, <3>2, SMTT(60)
  <2>6. ASSUME NEW m \in Nat, stateNonce' <= m, m < current' PROVE InPool(m)'
    <3>1. m = nonce \/ (m < nonce /\ stateNonce <= m)
      BY <1>0, <1>6, <2>2, <2>6, SMTT(60)
    <3>2. CASE m = nonce
      BY <1>6, <2>1, <3>2 DEF InPool
    <3>3. CASE m < nonce /\ stateNonce <= m
      <4>1. PICK s \in pool : s.nonce = m BY <2>2, <3>3 DEF Filled, InPool
      <4>2. s.nonce # nonce BY <1>0, <3>3, <4>1, SMTT(60)
      <4>3. s \in pool' BY <1>6, <4>2
      <4>4. QED BY <4>1, <4>3 DEF InPool
    <3>4. QED BY <3>1, <3>2, <3>3
  <2>7. QED
    BY <1>6, <2>3, <2>4, <2>5, <2>6 DEF GaplessInv, Filled, SettledBelow
<1>7. CASE ClaimFunds
  <2>1. PICK S \in SUBSET pool : S = {} OBVIOUS
  <2>2. /\ \A t \in pool : t.nonce = nonce <=> t \in S
        /\ stateNonce <= nonce
        /\ pool' = (pool \ S) \cup {MyTx} /\ own' = own \cup {nonce}
        /\ pc = "send" /\ pc' = "idle"
        /\ UNCHANGED <<stateNonce, current, nonce, fetched>>
    BY <1>0, <1>7, <2>1 DEF ClaimFunds, EnterPool, InPool
  <2>3. QED BY <1>6, <2>2
<1>8. CASE ClaimFundsReplaces
  <2>1. PICK t \in pool : t.nonce = nonce /\ pool' = (pool \ {t}) \cup {MyTx}
    BY <1>8 DEF ClaimFundsReplaces
  <2>2. /\ pc = "send" /\ pc' = "idle" /\ own' = own \cup {nonce}
        /\ UNCHANGED <<stateNonce, current, nonce, fetched>>
    BY <1>8 DEF ClaimFundsReplaces
  <2>3. stateNonce <= nonce BY <2>1 DEF GaplessInv, PoolGapless
  <2>4. \A s \in pool : s.nonce = nonce <=> s \in {t}
    BY <2>1 DEF GaplessInv, PoolGapless, PoolUnique
  <2>5. QED BY <1>6, <2>1, <2>2, <2>3, <2>4
<1>9. CASE NonceRejected
  <2>1. /\ UNCHANGED <<stateNonce, pool, own, current, nonce, fetched>>
        /\ pc = "send" /\ pc' = "resync" /\ (nonce < stateNonce \/ InPool(nonce))
    BY <1>9 DEF NonceRejected
  <2>2. current = nonce + 1 /\ Filled(nonce) BY <2>1 DEF GaplessInv
  <2>3. ASSUME NEW m \in Nat, stateNonce <= m, m < current PROVE InPool(m)
    <3>1. (m < nonce /\ stateNonce <= m) \/ (m = nonce /\ ~(nonce < stateNonce))
      BY <1>0, <2>2, <2>3, SMTT(60)
    <3>2. QED BY <2>1, <2>2, <3>1 DEF Filled
  <2>4. QED
    BY <2>1, <2>3 DEF GaplessInv, CounterAboveOwn, PoolGapless, PoolUnique,
       SettledBelow, Filled, InPool
<1>10. ~ClaimFundsFails
  BY SMTT(60) DEF ClaimFundsFails, TypeOK
<1>11. ASSUME NEW n \in Nonces, ResyncFetch(n) PROVE GaplessInv'
  <2>1. /\ UNCHANGED <<stateNonce, pool, own, current, nonce>>
        /\ pc = "resync" /\ pc' = "store" /\ fetched' = n
    BY <1>11 DEF ResyncFetch
  <2>2. n \in Nat /\ Filled(n) /\ \A m \in Nat : Filled(m) => m <= n
    BY <1>11, PendingIsEnd DEF ResyncFetch, Authoritative, GaplessInv
  <2>3. current = nonce + 1 /\ current <= n
    BY <1>0, <2>1, <2>2 DEF GaplessInv
  <2>4. nonce < n BY <1>0, <2>2, <2>3, SMTT(60)
  <2>5. QED
    BY <2>1, <2>2, <2>4 DEF GaplessInv, CounterAboveOwn, PoolGapless, PoolUnique,
       SettledBelow, Filled, InPool
<1>12. CASE ResyncStore
  <2>1. /\ UNCHANGED <<stateNonce, pool, own, nonce, fetched>>
        /\ pc = "store" /\ pc' = "report" /\ current' = fetched
    BY <1>12 DEF ResyncStore
  <2>2. nonce < fetched /\ Filled(fetched) /\ SettledBelow(nonce) BY <2>1 DEF GaplessInv
  <2>3. CounterAboveOwn'
    BY <1>0, <2>1, SMTT(60) DEF GaplessInv, CounterAboveOwn
  <2>4. ASSUME NEW t \in pool, t.by # External PROVE t.nonce < fetched
    <3>1. t.nonce \in Nat /\ t.nonce < nonce BY <2>2, <2>4 DEF SettledBelow, TypeOK, Tx
    <3>2. QED BY <1>0, <2>2, <3>1, SMTT(60)
  <2>5. QED
    BY <2>1, <2>2, <2>3, <2>4 DEF GaplessInv, PoolGapless, PoolUnique,
       SettledBelow, Filled, InPool
<1>13. ASSUME NEW n \in Nonces, Boot(n) PROVE GaplessInv'
  <2>1. /\ UNCHANGED <<stateNonce, pool, nonce, fetched>>
        /\ pc' = "idle" /\ current' = n /\ own' = {}
    BY <1>13 DEF Boot
  <2>2. Filled(n) /\ \A t \in pool : t.nonce < n
    BY <1>13, PendingIsEnd DEF Boot, Authoritative, GaplessInv
  <2>3. QED
    BY <2>1, <2>2 DEF GaplessInv, CounterAboveOwn, PoolGapless, PoolUnique,
       SettledBelow, Filled, InPool
<1>14. QED
  BY <1>1, <1>2, <1>3, <1>4, <1>5, <1>7, <1>8, <1>9, <1>10, <1>11, <1>12, <1>13
     DEF Next, Run

------------------------------------------------------------------------------
\* One of the two arguments holds while no restart has met a gap.
OrderlyInv ==
  /\ ReadsFilled
  /\ crashes = 0 => NonceInv
  /\ failures = 0 => GaplessInv
  /\ Orderly => SubmittedIsOnNode

\* What is orderly now was orderly before.
LEMMA CountersGrow ==
  ASSUME TypeOK, [Next]_vars
  PROVE  /\ crashes' = 0 => crashes = 0
         /\ failures' = 0 => failures = 0
<1> USE DEF nodeVars, execVars
<1>1. CASE Crash
  BY <1>1, BoundsAssumption, SMTT(60) DEF Crash, TypeOK
<1>2. CASE ClaimFundsFails
  BY <1>2, BoundsAssumption, SMTT(60) DEF ClaimFundsFails, TypeOK
<1>3. ASSUME ~Crash, ~ClaimFundsFails PROVE UNCHANGED <<crashes, failures>>
  BY <1>3 DEF Next, Run, vars, Mine, ExternalRead, ExternalSend, Publish, TakeVoucher,
     PrepareFails, ReserveNonce, ClaimFunds, ClaimFundsReplaces, NonceRejected, ResyncFetch,
     ResyncFails, ResyncStore, Report, DrainTxFailed, Boot
<1>4. QED BY <1>1, <1>2, <1>3

\* Both invariants leave only foreign transactions to collide with.
LEMMA Collisions ==
  ASSUME TypeOK, NonceInv \/ GaplessInv
  PROVE  OnlyOthersCollide
<1> SUFFICES ASSUME pc = "send", NEW t \in pool, t.nonce = nonce PROVE t.by = External
  BY DEF OnlyOthersCollide
<1>1. nonce \in Nat /\ own \subseteq Nat BY DEF TypeOK
<1>2. ~(nonce < nonce) BY <1>1, SMTT(60)
<1>3. CASE NonceInv
  BY <1>2, <1>3 DEF NonceInv, ReservedFresh, PoolExplained
<1>4. CASE GaplessInv
  BY <1>2, <1>4 DEF GaplessInv, SettledBelow
<1>5. QED BY <1>3, <1>4

\* The two arguments together, for any number of failures and restarts.
LEMMA OrderlyInvariant == Spec => []OrderlyInv
<1>1. Init => OrderlyInv
  <2> SUFFICES ASSUME Init PROVE OrderlyInv
    OBVIOUS
  <2>1. NonceInv
    BY SMTT(60) DEF Init, NonceInv, CounterAboveOwn, PoolUnique, PoolExplained,
       ReservedFresh, Undisturbed
  <2>2. GaplessInv
    BY SMTT(60) DEF Init, GaplessInv, CounterAboveOwn, PoolGapless, PoolUnique,
       SettledBelow, Filled
  <2>3. SubmittedIsOnNode BY DEF Init, SubmittedIsOnNode
  <2>4. QED BY <2>1, <2>2, <2>3 DEF OrderlyInv, Init, ReadsFilled
<1>2. TypeOK /\ TrackInv /\ OrderlyInv /\ [Next]_vars => OrderlyInv'
  <2> SUFFICES ASSUME TypeOK, TrackInv, OrderlyInv, [Next]_vars PROVE OrderlyInv'
    OBVIOUS
  <2>1. HandInv BY DEF TrackInv
  <2>2. crashes' = 0 => NonceInv'
    BY CountersGrow, NonceStep DEF OrderlyInv
  <2>3. failures' = 0 => GaplessInv'
    BY <2>1, CountersGrow, GaplessStep DEF OrderlyInv
  <2>4. ASSUME Orderly' PROVE SubmittedIsOnNode'
    <3>1. Orderly BY <2>4, CountersGrow DEF Orderly
    <3>2. OnlyOthersCollide BY <3>1, Collisions DEF Orderly, OrderlyInv
    <3>3. SubmittedIsOnNode BY <3>1 DEF OrderlyInv
    <3>4. QED BY <2>1, <3>2, <3>3, SubmittedStays
  <2>5. ReadsFilled' BY ReadsStep DEF OrderlyInv
  <2>6. QED BY <2>2, <2>3, <2>4, <2>5 DEF OrderlyInv
<1>3. QED BY <1>1, <1>2, Tracked, PTL DEF Spec

\* Resync never sets the counter back onto a nonce the node took from this
\* process: its comment's "safe" holds for any number of failed calls, lost
\* answers and foreign transactions until the first restart, and for any number of
\* restarts until the first nonce is left unused.  After both it may fail.
THEOREM CounterNeverRollsBack == Spec => []NoRollBackWhenOrderly
<1>1. OrderlyInv => NoRollBackWhenOrderly
  BY DEF OrderlyInv, Orderly, NonceInv, GaplessInv, NoRollBackWhenOrderly
<1>2. QED BY <1>1, OrderlyInvariant, PTL

\* A settlement that execute reported as submitted stays on the node, waiting or
\* mined, or was outbid by somebody else, under the same condition: neither a later
\* settlement nor one of a restarted relayer replaces it.
THEOREM SubmittedNeverReplaced == Spec => []NoReplacementWhenOrderly
<1>1. OrderlyInv => NoReplacementWhenOrderly
  BY DEF OrderlyInv, NoReplacementWhenOrderly
<1>2. QED BY <1>1, OrderlyInvariant, PTL

\* execute has to resynchronise only if somebody else uses the account or the
\* relayer was restarted: failed calls and lost answers alone never make a nonce
\* collide.
THEOREM NoDriftWithoutInterference == Spec => []DriftNeedsInterference
<1>1. TypeOK /\ OrderlyInv => DriftNeedsInterference
  <2> SUFFICES ASSUME TypeOK, OrderlyInv PROVE DriftNeedsInterference
    OBVIOUS
  <2>1. crashes = 0 \/ crashes > 0
    BY BoundsAssumption, SMTT(60) DEF TypeOK
  <2>2. ASSUME NonceInv PROVE DriftNeedsInterference
    BY <2>2, BoundsAssumption, SMTT(60) DEF TypeOK, NonceInv, Undisturbed,
       DriftNeedsInterference
  <2>3. QED BY <2>1, <2>2 DEF OrderlyInv, DriftNeedsInterference
<1>2. QED BY <1>1, OrderlyInvariant, Tracked, PTL

------------------------------------------------------------------------------
\* EstimateGasWithBuffer: the limit is never below the raw estimate, exceeds it by
\* at most a tenth, and is above it from an estimate of 10 on, which is where the
\* buffer of gasOverheadFactor begins.
THEOREM BufferBounds ==
  ASSUME NEW raw \in 0..(MaxExactGas - 1)
  PROVE  /\ WithBuffer(raw) >= raw
         /\ 10 * WithBuffer(raw) <= 11 * raw
         /\ raw >= 10 => WithBuffer(raw) > raw
<1>1. raw \in Nat
  BY SMT DEF MaxExactGas
<1> QED
  BY <1>1, SMT DEF WithBuffer

\* EstimateGasWithBuffer: a larger estimate never gets a smaller limit.
THEOREM BufferMonotone ==
  ASSUME NEW r \in Nat, NEW s \in Nat, r <= s
  PROVE  WithBuffer(r) <= WithBuffer(s)
  BY SMT DEF WithBuffer

==============================================================================
