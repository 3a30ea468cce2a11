------------------------- MODULE AuctionEngineProofs -------------------------
(***************************************************************************)
(* Proofs about AuctionEngine, for every choice of its constants.          *)
(***************************************************************************)
EXTENDS AuctionEngine, SequenceTheorems, TLAPS

(***************************************************************************)
(* A goroutine that runs has an intent, one that scans has an entry, one   *)
(* that emits has a winner, a submitted bid has contents, and a call about *)
(* to append has an entry.  TypeOK is inductive only together with these   *)
(* facts, which say that no nil pointer is dereferenced.                   *)
(***************************************************************************)
NoNilDereference ==
  /\ \A e \in Entries :
       /\ pc[e] # "free" => intent[e] \in Intents
       /\ pc[e] \in {"located", "scan"} => found[e] \in Entries
       /\ pc[e] = "emit" => winner[e] \in Bids
  /\ \A b \in Bids :
       /\ call[b] # "idle" => bid[b] \in BidForms
       /\ call[b] = "located" => target[b] \in Entries

TypeInv == TypeOK /\ NoNilDereference

\* Most leaves are first-order; those that need more cite SMT.
USE ZenonT(60)

\* NewEngine establishes the types.
LEMMA TypeInvInit == Init => TypeInv
BY SMTT(60) DEF Init, TypeInv, TypeOK, NoNilDereference, PCs, Outcomes

\* Every step of the engine keeps the types and the non-nil facts.
LEMMA TypeInvStep == TypeInv /\ [Next]_vars => TypeInv'
<1> SUFFICES ASSUME TypeInv, [Next]_vars PROVE TypeInv'
  OBVIOUS
<1> USE NilAssumption DEF TypeInv, TypeOK, NoNilDereference, auctionVars, bidVars
<1>1. ASSUME NEW e \in Entries, NEW in \in Intents, StartAuction(e, in)
      PROVE  TypeInv'
  BY <1>1, IntentsAssumption DEF StartAuction, PCs
<1>2. ASSUME NEW e \in Entries, TimerFires(e) PROVE TypeInv'
  BY <1>2 DEF TimerFires, PCs
<1>3. ASSUME NEW e \in Entries, LookupEntry(e) PROVE TypeInv'
  <2>1. auctions[intent[e].ID] \in Entries \cup {Nil}
    BY <1>3, IntentsAssumption DEF LookupEntry
  <2> QED
    BY <1>3, <2>1 DEF LookupEntry, PCs, Outcomes
<1>4. ASSUME NEW e \in Entries, LockEntry(e) PROVE TypeInv'
  BY <1>4 DEF LockEntry, PCs
<1>5. ASSUME NEW e \in Entries, ScanBid(e) PROVE TypeInv'
  <2>1. bids[found[e]][idx[e] + 1] \in Bids
    BY <1>5, SMTT(60) DEF ScanBid, HasNext
  <2> QED
    BY <1>5, <2>1, SMTT(60) DEF ScanBid, Choose
<1>6. ASSUME NEW e \in Entries, ScanEnds(e) PROVE TypeInv'
  BY <1>6 DEF ScanEnds, NoWinner, PCs, Outcomes
<1>7. ASSUME NEW e \in Entries, EmitVoucher(e) PROVE TypeInv'
  <2>1. VoucherOf(e) \in Voucher
    BY <1>7 DEF EmitVoucher, VoucherOf, Voucher
  <2>2. voucherCh' \in Seq(Voucher)
    <3>1. CASE voucherCh' = Append(voucherCh, VoucherOf(e))
      BY <2>1, <3>1, AppendProperties
    <3>2. CASE UNCHANGED voucherCh
      BY <3>2
    <3> QED
      BY <1>7, <3>1, <3>2 DEF EmitVoucher
  <2>3. /\ pc' = [pc EXCEPT ![e] = "cleanup"]
        /\ \E o \in {"emitted", "dropped"} : outcome' = [outcome EXCEPT ![e] = o]
    BY <1>7 DEF EmitVoucher
  <2>4. outcome' \in [Entries -> Outcomes]
    BY <2>3 DEF Outcomes
  <2> QED
    BY <1>7, <2>2, <2>3, <2>4, SMTT(60) DEF EmitVoucher, PCs
<1>8. ASSUME NEW e \in Entries, Cleanup(e) PROVE TypeInv'
  BY <1>8 DEF Cleanup, CleanupDue, PCs
<1>9. ASSUME NEW b \in Bids, NEW f \in BidForms, SubmitBid(b, f) PROVE TypeInv'
  <2>1. auctions[f.IntentID] \in Entries \cup {Nil}
    BY BidFormsAssumption
  <2>2. CASE call' = [call EXCEPT ![b] = "rejected"] /\ UNCHANGED target
    BY <1>9, <2>2, SMTT(60) DEF SubmitBid
  <2>3. CASE /\ auctions[f.IntentID] # Nil
             /\ call' = [call EXCEPT ![b] = "located"]
             /\ target' = [target EXCEPT ![b] = auctions[f.IntentID]]
    BY <1>9, <2>1, <2>3 DEF SubmitBid
  <2> QED
    BY <1>9, <2>2, <2>3 DEF SubmitBid
<1>10. ASSUME NEW b \in Bids, AppendBid(b) PROVE TypeInv'
  BY <1>10, SMTT(60) DEF AppendBid
<1>11. CASE ReceiveVoucher
  BY <1>11, SMTT(60) DEF ReceiveVoucher
<1>12. CASE UNCHANGED vars
  BY <1>12 DEF vars
<1> QED
  BY <1>1, <1>2, <1>3, <1>4, <1>5, <1>6, <1>7, <1>8, <1>9, <1>10, <1>11, <1>12
     DEF Next, RunAuction

\* The variables keep their types under every operation of the engine, and no
\* operation dereferences a nil pointer.
THEOREM TypeCorrect == Spec => []TypeOK
<1>1. TypeInv => TypeOK
  BY DEF TypeInv
<1> QED
  BY TypeInvInit, TypeInvStep, <1>1, PTL DEF Spec

------------------------------------------------------------------------------
\* The types and the non-nil facts hold throughout.
LEMMA TypeInvAlways == Spec => []TypeInv
BY TypeInvInit, TypeInvStep, PTL DEF Spec

\* NewEngine starts with an empty map and no goroutine.
LEMMA RegistryInit == Init => RegistryMatchesGoroutines
BY NilAssumption, SMTT(60) DEF Init, RegistryMatchesGoroutines, Running

\* StartAuction adds the entry of the goroutine it starts, Cleanup deletes the
\* entry of the goroutine that ends, and nothing else touches the map.
LEMMA RegistryStep ==
  TypeInv /\ RegistryMatchesGoroutines /\ [Next]_vars
    => RegistryMatchesGoroutines'
<1> SUFFICES ASSUME TypeInv, RegistryMatchesGoroutines, [Next]_vars,
                    NEW i \in IntentIDs, NEW x \in Entries
             PROVE  auctions'[i] = x <=> pc'[x] \in Running /\ intent'[x].ID = i
  BY DEF RegistryMatchesGoroutines
<1>0. auctions[i] = x <=> pc[x] \in Running /\ intent[x].ID = i
  BY DEF RegistryMatchesGoroutines
<1> USE DEF TypeInv, TypeOK, NoNilDereference, Running, PCs
<1>1. ASSUME NEW e \in Entries, NEW in \in Intents, StartAuction(e, in)
      PROVE  auctions'[i] = x <=> pc'[x] \in Running /\ intent'[x].ID = i
  <2>1. in.ID \in IntentIDs
    BY IntentsAssumption
  <2>2. CASE i = in.ID
    <3>1. ~(pc[x] \in Running /\ intent[x].ID = i)
      BY <1>0, <1>1, <2>2, NilAssumption DEF StartAuction, IsActive
    <3> QED
      BY <1>1, <2>1, <2>2, <3>1 DEF StartAuction
  <2>3. CASE i # in.ID
    BY <1>0, <1>1, <2>1, <2>3 DEF StartAuction
  <2> QED
    BY <2>2, <2>3
<1>2. ASSUME NEW e \in Entries,
             TimerFires(e) \/ LookupEntry(e) \/ LockEntry(e) \/ ScanBid(e)
               \/ ScanEnds(e) \/ EmitVoucher(e)
      PROVE  auctions'[i] = x <=> pc'[x] \in Running /\ intent'[x].ID = i
  <2>1. UNCHANGED <<auctions, intent>>
    BY <1>2 DEF TimerFires, LookupEntry, LockEntry, ScanBid, ScanEnds, EmitVoucher
  <2>2. pc'[x] \in Running <=> pc[x] \in Running
    BY <1>2, SMTT(60) DEF TimerFires, LookupEntry, LockEntry, ScanBid, ScanEnds, EmitVoucher
  <2> QED
    BY <1>0, <2>1, <2>2
<1>3. ASSUME NEW e \in Entries, Cleanup(e)
      PROVE  auctions'[i] = x <=> pc'[x] \in Running /\ intent'[x].ID = i
  <2>1. pc[e] \in Running /\ intent[e].ID \in IntentIDs
    BY <1>3, IntentsAssumption DEF Cleanup, CleanupDue
  <2>2. auctions[intent[e].ID] = e
    BY <2>1 DEF RegistryMatchesGoroutines
  <2>3. CASE i = intent[e].ID
    BY <1>0, <1>3, <2>1, <2>2, <2>3, NilAssumption DEF Cleanup
  <2>4. CASE i # intent[e].ID
    BY <1>0, <1>3, <2>1, <2>4 DEF Cleanup
  <2> QED
    BY <2>3, <2>4
<1>4. CASE UNCHANGED <<auctions, intent, pc>>
  BY <1>0, <1>4
<1>5. ASSUME NEW b \in Bids, NEW f \in BidForms, SubmitBid(b, f)
      PROVE  UNCHANGED <<auctions, intent, pc>>
  BY <1>5 DEF SubmitBid, auctionVars
<1>6. ASSUME NEW b \in Bids, AppendBid(b) PROVE UNCHANGED <<auctions, intent, pc>>
  BY <1>6 DEF AppendBid, auctionVars
<1>7. CASE ReceiveVoucher
  BY <1>4, <1>7 DEF ReceiveVoucher, auctionVars
<1>8. CASE UNCHANGED vars
  BY <1>4, <1>8 DEF vars
<1> QED
  BY <1>1, <1>2, <1>3, <1>4, <1>5, <1>6, <1>7, <1>8 DEF Next, RunAuction

\* At any time an identifier maps to an entry exactly while that entry's
\* goroutine has not finished Cleanup, for any number of identifiers, auctions
\* and concurrent bids.
THEOREM RegistryCorrect == Spec => []RegistryMatchesGoroutines
BY RegistryInit, RegistryStep, TypeInvAlways, PTL DEF Spec

------------------------------------------------------------------------------
(***************************************************************************)
(* The bids.  A call that holds an entry pointer holds a well-formed bid   *)
(* for the intent of that entry, and no pointer leads to an entry that has *)
(* not been started; so a slice is empty until its auction starts.         *)
(***************************************************************************)
CallsAimRight ==
  /\ \A e \in Entries : pc[e] = "free" => bids[e] = <<>>
  /\ \A b \in Bids : call[b] = "located" =>
       /\ pc[target[b]] # "free"
       /\ bid[b].IntentID = intent[target[b]].ID
       /\ bid[b].AmountOut # Nil /\ bid[b].GasPrice # Nil

BidInv == BidsInTheirAuction /\ CallsAimRight

\* There are no bids and no calls at first.
LEMMA BidInvInit == Init => BidInv
BY SMTT(60) DEF Init, BidInv, BidsInTheirAuction, CallsAimRight

\* Steps that leave bids and calls alone keep BidInv, provided an entry that
\* has started keeps its intent.
LEMMA BidInvFrame ==
  ASSUME TypeInv, BidInv, UNCHANGED <<bids, bid, call, target>>,
         \A e \in Entries :
           pc[e] # "free" => pc'[e] # "free" /\ intent'[e] = intent[e]
  PROVE  BidInv'
<1> USE DEF TypeInv, TypeOK, NoNilDereference
<1>1. CallsAimRight'
  BY DEF BidInv, CallsAimRight
<1>2. ASSUME NEW e \in Entries, NEW k \in 1..Len(bids[e])
      PROVE  pc[e] # "free"
  BY <1>2, SMTT(60) DEF BidInv, CallsAimRight
<1>3. BidsInTheirAuction'
  BY <1>2, SMTT(60) DEF BidInv, BidsInTheirAuction
<1> QED
  BY <1>1, <1>3 DEF BidInv

\* SubmitBid aims at the entry of the identifier of the bid, and the append goes
\* where the call aimed.
LEMMA BidInvStep ==
  TypeInv /\ RegistryMatchesGoroutines /\ BidInv /\ [Next]_vars => BidInv'
<1> SUFFICES ASSUME TypeInv, RegistryMatchesGoroutines, BidInv, [Next]_vars
             PROVE  BidInv'
  OBVIOUS
<1>1. ASSUME NEW e \in Entries, NEW in \in Intents, StartAuction(e, in)
      PROVE  BidInv'
  <2>1. \A x \in Entries : pc[x] # "free" => pc'[x] # "free" /\ intent'[x] = intent[x]
    BY <1>1 DEF StartAuction, TypeInv, TypeOK
  <2> QED
    BY <1>1, <2>1, BidInvFrame DEF StartAuction, bidVars
<1>2. ASSUME NEW e \in Entries, RunAuction(e) PROVE BidInv'
  <2>1. \A x \in Entries : pc[x] # "free" => pc'[x] # "free" /\ intent'[x] = intent[x]
    BY <1>2 DEF RunAuction, TimerFires, LookupEntry, LockEntry, ScanBid, ScanEnds,
                EmitVoucher, Cleanup, TypeInv, TypeOK
  <2>2. UNCHANGED <<bids, bid, call, target>>
    BY <1>2 DEF RunAuction, TimerFires, LookupEntry, LockEntry, ScanBid, ScanEnds,
                EmitVoucher, Cleanup, bidVars
  <2> QED
    BY <2>1, <2>2, BidInvFrame
<1>3. ASSUME NEW b \in Bids, NEW f \in BidForms, SubmitBid(b, f) PROVE BidInv'
  <2>1. UNCHANGED <<intent, pc, bids>>
    BY <1>3 DEF SubmitBid, auctionVars
  <2>2. BidsInTheirAuction'
    <3> SUFFICES ASSUME NEW e \in Entries, NEW k \in 1..Len(bids[e])
                 PROVE  LET c == bids[e][k]
                        IN  /\ call'[c] = "accepted" /\ target'[c] = e
                            /\ bid'[c].IntentID = intent[e].ID
                            /\ bid'[c].AmountOut # Nil /\ bid'[c].GasPrice # Nil
                            /\ \A j \in 1..Len(bids[e]) : bids[e][j] = c => j = k
      BY <2>1, SMTT(60) DEF BidsInTheirAuction
    <3>1. bids[e][k] \in Bids /\ bids[e][k] # b
      BY <1>3, SMTT(60) DEF SubmitBid, BidInv, BidsInTheirAuction, TypeInv, TypeOK
    <3>2. /\ call'[bids[e][k]] = call[bids[e][k]]
          /\ target'[bids[e][k]] = target[bids[e][k]]
          /\ bid'[bids[e][k]] = bid[bids[e][k]]
      BY <1>3, <3>1 DEF SubmitBid, TypeInv, TypeOK
    <3>3. /\ call[bids[e][k]] = "accepted" /\ target[bids[e][k]] = e
          /\ bid[bids[e][k]].IntentID = intent[e].ID
          /\ bid[bids[e][k]].AmountOut # Nil /\ bid[bids[e][k]].GasPrice # Nil
          /\ \A j \in 1..Len(bids[e]) : bids[e][j] = bids[e][k] => j = k
      BY DEF BidInv, BidsInTheirAuction
    <3> QED
      BY <3>2, <3>3
  <2>3. CallsAimRight'
    <3> SUFFICES ASSUME NEW c \in Bids, call'[c] = "located"
                 PROVE  /\ pc[target'[c]] # "free"
                        /\ bid'[c].IntentID = intent[target'[c]].ID
                        /\ bid'[c].AmountOut # Nil /\ bid'[c].GasPrice # Nil
      BY <2>1 DEF CallsAimRight, BidInv
    <3>1. CASE c = b
      <4>1. /\ target'[c] = auctions[f.IntentID] /\ bid'[c] = f
            /\ HasValues(f) /\ auctions[f.IntentID] # Nil
        BY <1>3, <3>1 DEF SubmitBid, TypeInv, TypeOK
      <4>2. f.IntentID \in IntentIDs
        BY BidFormsAssumption
      <4>3. auctions[f.IntentID] \in Entries
        BY <4>1, <4>2 DEF TypeInv, TypeOK
      <4>4. /\ pc[auctions[f.IntentID]] \in Running
            /\ intent[auctions[f.IntentID]].ID = f.IntentID
        BY <4>2, <4>3 DEF RegistryMatchesGoroutines
      <4> QED
        BY <4>1, <4>4 DEF Running, HasValues
    <3>2. CASE c # b
      <4>1. call'[c] = call[c] /\ target'[c] = target[c] /\ bid'[c] = bid[c]
        BY <1>3, <3>2 DEF SubmitBid, TypeInv, TypeOK
      <4> QED
        BY <4>1 DEF BidInv, CallsAimRight
    <3> QED
      BY <3>1, <3>2
  <2> QED
    BY <2>2, <2>3 DEF BidInv
<1>4. ASSUME NEW b \in Bids, AppendBid(b) PROVE BidInv'
  <2> DEFINE t == target[b]
  <2>1. /\ t \in Entries /\ pc[t] # "free" /\ bids[t] \in Seq(Bids)
        /\ bid[b].IntentID = intent[t].ID
        /\ bid[b].AmountOut # Nil /\ bid[b].GasPrice # Nil
    BY <1>4 DEF AppendBid, BidInv, CallsAimRight, TypeInv, TypeOK, NoNilDereference
  <2>2. /\ bids' = [bids EXCEPT ![t] = Append(bids[t], b)]
        /\ call' = [call EXCEPT ![b] = "accepted"]
        /\ UNCHANGED <<intent, pc, bid, target>>
    BY <1>4 DEF AppendBid, auctionVars
  <2>3. CallsAimRight'
    BY <2>1, <2>2 DEF BidInv, CallsAimRight, TypeInv, TypeOK
  <2>4. ASSUME NEW e \in Entries, NEW k \in 1..Len(bids[e])
        PROVE  /\ bids[e][k] \in Bids \ {b} /\ call'[bids[e][k]] = "accepted"
               /\ target[bids[e][k]] = e
               /\ bid[bids[e][k]].IntentID = intent[e].ID
               /\ bid[bids[e][k]].AmountOut # Nil /\ bid[bids[e][k]].GasPrice # Nil
               /\ \A j \in 1..Len(bids[e]) : bids[e][j] = bids[e][k] => j = k
    <3>1. /\ call[bids[e][k]] = "accepted" /\ target[bids[e][k]] = e
          /\ bid[bids[e][k]].IntentID = intent[e].ID
          /\ bid[bids[e][k]].AmountOut # Nil /\ bid[bids[e][k]].GasPrice # Nil
          /\ \A j \in 1..Len(bids[e]) : bids[e][j] = bids[e][k] => j = k
      BY <2>4 DEF BidInv, BidsInTheirAuction
    <3>2. bids[e][k] \in Bids
      BY <2>4, SMTT(60) DEF TypeInv, TypeOK
    <3>3. bids[e][k] # b
      BY <1>4, <3>1 DEF AppendBid
    <3>4. call'[bids[e][k]] = "accepted"
      BY <2>2, <3>1, <3>2 DEF TypeInv, TypeOK
    <3> QED
      BY <3>1, <3>2, <3>3, <3>4
  <2>5. ASSUME NEW e \in Entries, NEW k \in 1..Len(bids'[e])
        PROVE  LET c == bids'[e][k]
               IN  /\ call'[c] = "accepted" /\ target[c] = e
                   /\ bid[c].IntentID = intent[e].ID
                   /\ bid[c].AmountOut # Nil /\ bid[c].GasPrice # Nil
                   /\ \A j \in 1..Len(bids'[e]) : bids'[e][j] = c => j = k
    <3>1. CASE e # t
      <4>1. bids'[e] = bids[e]
        BY <2>2, <3>1 DEF TypeInv, TypeOK
      <4> QED
        BY <4>1, <2>4, <2>5, SMTT(60)
    <3>2. CASE e = t
      <4>1. bids'[e] = Append(bids[e], b)
        BY <2>1, <2>2, <3>2 DEF TypeInv, TypeOK
      <4>2. /\ Len(bids'[e]) = Len(bids[e]) + 1
            /\ bids'[e][Len(bids[e]) + 1] = b
            /\ \A j \in 1..Len(bids[e]) : bids'[e][j] = bids[e][j]
            /\ Len(bids[e]) \in Nat
        BY <4>1, <2>1, <3>2, AppendProperties, LenProperties, SMTT(60)
      <4>3. CASE k = Len(bids[e]) + 1
        <5>1. \A j \in 1..Len(bids'[e]) : bids'[e][j] = b => j = k
          BY <2>4, <4>2, <4>3, SMTT(60)
        <5>2. call'[b] = "accepted" /\ bids'[e][k] = b
          BY <2>2, <4>2, <4>3 DEF TypeInv, TypeOK
        <5> QED
          BY <2>1, <3>2, <5>1, <5>2
      <4>4. CASE k \in 1..Len(bids[e])
        <5>1. bids'[e][k] = bids[e][k] /\ bids[e][k] # b
          BY <2>4, <4>2, <4>4
        <5>2. \A j \in 1..Len(bids'[e]) : bids'[e][j] = bids[e][k] => j = k
          BY <2>4, <4>2, <4>4, <5>1, SMTT(60)
        <5> QED
          BY <2>4, <4>4, <5>1, <5>2, SMTT(60)
      <4> QED
        BY <2>5, <4>2, <4>3, <4>4, SMTT(60)
    <3> QED
      BY <3>1, <3>2
  <2>6. BidsInTheirAuction'
    <3> SUFFICES ASSUME NEW e \in Entries, NEW k \in 1..Len(bids'[e])
                 PROVE  LET c == bids'[e][k]
                        IN  /\ call'[c] = "accepted" /\ target'[c] = e
                            /\ bid'[c].IntentID = intent'[e].ID
                            /\ bid'[c].AmountOut # Nil /\ bid'[c].GasPrice # Nil
                            /\ \A j \in 1..Len(bids'[e]) : bids'[e][j] = c => j = k
      BY DEF BidsInTheirAuction
    <3>1. target' = target /\ bid' = bid /\ intent' = intent
      BY <2>2
    <3> QED
      BY <2>5, <3>1
  <2> QED
    BY <2>3, <2>6 DEF BidInv
<1>5. CASE ReceiveVoucher
  BY <1>5, BidInvFrame DEF ReceiveVoucher, auctionVars, bidVars
<1>6. CASE UNCHANGED vars
  BY <1>6, BidInvFrame DEF vars
<1> QED
  BY <1>1, <1>2, <1>3, <1>4, <1>5, <1>6 DEF Next

\* The facts about types, map and bids hold throughout.
LEMMA BidInvAlways == Spec => [](TypeInv /\ RegistryMatchesGoroutines /\ BidInv)
BY TypeInvInit, TypeInvStep, RegistryInit, RegistryStep, BidInvInit, BidInvStep, PTL
   DEF Spec

\* A bid only ever lies in the slice of an auction for its own intent, once and
\* with the values selectWinner needs, whatever happens between the lookup and
\* the append of submitBidLocked.
THEOREM BidsStayInTheirAuction == Spec => []BidsInTheirAuction
<1>1. BidInv => BidsInTheirAuction
  BY DEF BidInv
<1> QED
  BY BidInvAlways, <1>1, PTL

==============================================================================
