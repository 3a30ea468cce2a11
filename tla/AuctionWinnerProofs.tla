------------------------ MODULE AuctionWinnerProofs ------------------------
(***************************************************************************)
(* Proofs that the auction engine picks the right winner, for every choice *)
(* of its constants, on top of the facts about types, map and bids of      *)
(* AuctionEngineProofs.                                                    *)
(***************************************************************************)
EXTENDS AuctionEngineProofs

(***************************************************************************)
(* The scan.  ChosenSoFar is the loop invariant of selectWinner; it holds  *)
(* for every entry at all times, because bids appended later lie beyond    *)
(* idx.  InTimeScanned says where the bids that were in time are.          *)
(***************************************************************************)
ChosenSoFar(e) ==
  /\ idx[e] <= Len(bids[e])
  /\ IF winner[e] = Nil THEN idx[e] = 0 ELSE FirstBest(winner[e], bids[e], idx[e])

ScanInv ==
  \A e \in Entries :
    /\ pc[e] \in {"free", "timer", "expired", "located"} =>
         idx[e] = 0 /\ winner[e] = Nil
    /\ pc[e] \in {"located", "scan"} => found[e] = e
    /\ ChosenSoFar(e)

InTimeScanned ==
  \A b \in inTime :
    /\ call[b] = "accepted"
    /\ target[b] \in Entries
    /\ \E k \in 1..Len(bids[target[b]]) :
         /\ bids[target[b]][k] = b
         /\ Decided(target[b]) => k <= idx[target[b]]

IndInv ==
  TypeInv /\ RegistryMatchesGoroutines /\ BidInv /\ ScanInv /\ InTimeScanned

\* Most leaves are first-order; those that need more cite SMT.
USE ZenonT(60)

\* No goroutine has scanned anything at first.
LEMMA ScanInvInit == Init => ScanInv /\ InTimeScanned
BY SMTT(60) DEF Init, ScanInv, InTimeScanned, ChosenSoFar

\* Facts about the order of offers with integer fields.
LEMMA OutranksOrder ==
  ASSUME NEW f, NEW g, NEW h,
         f.AmountOut \in Int, f.GasPrice \in Int, g.AmountOut \in Int,
         g.GasPrice \in Int, h.AmountOut \in Int, h.GasPrice \in Int
  PROVE  /\ ~Outranks(f, f)
         /\ Outranks(f, g) => ~Outranks(g, f)
         /\ Outranks(f, g) /\ ~Outranks(h, g) => Outranks(f, h)
BY SMTT(60) DEF Outranks

\* The scan of e stays where it is, and the bids of e and their contents stay.
KeepsScanned(e) ==
  /\ idx'[e] = idx[e] /\ winner'[e] = winner[e]
  /\ Len(bids'[e]) \in Nat /\ Len(bids'[e]) >= Len(bids[e])
  /\ \A k \in 1..Len(bids[e]) :
       bids'[e][k] = bids[e][k] /\ bid'[bids[e][k]] = bid[bids[e][k]]

\* A step that keeps what an entry has scanned, and the contents of the scanned
\* bids, keeps the loop invariant.
LEMMA ChosenFrame ==
  ASSUME TypeInv, NEW e \in Entries, ChosenSoFar(e), KeepsScanned(e)
  PROVE  ChosenSoFar(e)'
<1> USE DEF KeepsScanned
<1>1. idx[e] \in Nat /\ Len(bids[e]) \in Nat
  BY LenProperties DEF TypeInv, TypeOK
<1>2. CASE winner[e] = Nil
  BY <1>1, <1>2, SMTT(60) DEF ChosenSoFar
<1>3. CASE winner[e] # Nil
  <2>1. PICK k \in 1..idx[e] :
          /\ bids[e][k] = winner[e]
          /\ \A j \in 1..idx[e] : ~Outranks(bid[bids[e][j]], bid[winner[e]])
          /\ \A j \in 1..(k - 1) : Outranks(bid[winner[e]], bid[bids[e][j]])
    BY <1>3 DEF ChosenSoFar, FirstBest
  <2>2. idx[e] <= Len(bids[e])
    BY DEF ChosenSoFar
  <2>3. bid'[winner[e]] = bid[winner[e]]
    BY <1>1, <2>1, <2>2, SMTT(60)
  <2>4. \A j \in 1..idx[e] :
          bids'[e][j] = bids[e][j] /\ bid'[bids'[e][j]] = bid[bids[e][j]]
    BY <1>1, <2>2, SMTT(60)
  <2>5. /\ bids'[e][k] = winner[e]
        /\ \A j \in 1..idx[e] : ~Outranks(bid'[bids'[e][j]], bid'[winner[e]])
        /\ \A j \in 1..(k - 1) : Outranks(bid'[winner[e]], bid'[bids'[e][j]])
    BY <1>1, <2>1, <2>3, <2>4, SMTT(60)
  <2>6. FirstBest(winner[e], bids[e], idx[e])'
    BY <2>5, SMTT(60) DEF FirstBest, Outranks
  <2> QED
    BY <1>1, <1>3, <2>2, <2>6, SMTT(60) DEF ChosenSoFar
<1> QED
  BY <1>2, <1>3

\* One iteration of the loop of selectWinner keeps the loop invariant.
LEMMA ScanBidChooses ==
  ASSUME TypeInv, BidInv, ScanInv, NEW e \in Entries, ScanBid(e)
  PROVE  ChosenSoFar(e)'
<1> DEFINE n == idx[e]
           w == winner[e]
           b == bids[e][n + 1]
<1>1. found[e] = e /\ ChosenSoFar(e)
  BY DEF ScanInv, ScanBid
<1>2. /\ n \in Nat /\ Len(bids[e]) \in Nat /\ n < Len(bids[e])
      /\ bids \in [Entries -> Seq(Bids)]
      /\ w \in Bids \cup {Nil}
  BY <1>1, LenProperties DEF TypeInv, TypeOK, ScanBid, HasNext
<1>3. /\ idx'[e] = n + 1 /\ winner'[e] = Choose(w, b)
      /\ UNCHANGED <<bids, bid>>
  BY <1>1 DEF ScanBid, TypeInv, TypeOK, bidVars
<1>4. \A k \in 1..Len(bids[e]) :
        /\ bids[e][k] \in Bids
        /\ bid[bids[e][k]].AmountOut \in Int /\ bid[bids[e][k]].GasPrice \in Int
  <2> SUFFICES ASSUME NEW k \in 1..Len(bids[e])
               PROVE  /\ bids[e][k] \in Bids
                      /\ bid[bids[e][k]].AmountOut \in Int
                      /\ bid[bids[e][k]].GasPrice \in Int
    OBVIOUS
  <2>1. bids[e][k] \in Bids
    BY <1>2, SMTT(60)
  <2>3. call[bids[e][k]] = "accepted"
    BY DEF BidInv, BidsInTheirAuction
  <2>4. bid[bids[e][k]].AmountOut # Nil /\ bid[bids[e][k]].GasPrice # Nil
    BY DEF BidInv, BidsInTheirAuction
  <2>5. bid[bids[e][k]] \in BidForms
    BY <2>1, <2>3 DEF TypeInv, NoNilDereference
  <2> QED
    BY <2>1, <2>4, <2>5, BidFormsAssumption
<1>5. b \in Bids
  BY <1>2, <1>4, SMTT(60)
<1>6. CASE w = Nil
  <2>1. n = 0 /\ winner'[e] = b
    BY <1>1, <1>3, <1>6 DEF ChosenSoFar, Choose
  <2>2. ~Outranks(bid[b], bid[b])
    BY <1>2, <1>4, OutranksOrder, SMTT(60)
  <2>3. FirstBest(winner[e], bids[e], idx[e])'
    <3> SUFFICES \E k \in 1..(n + 1) :
                   /\ bids[e][k] = b
                   /\ \A j \in 1..(n + 1) : ~Outranks(bid[bids[e][j]], bid[b])
                   /\ \A j \in 1..(k - 1) : Outranks(bid[b], bid[bids[e][j]])
      BY <1>3, <2>1, SMTT(60) DEF FirstBest, Outranks
    <3> QED
      BY <2>1, <2>2, SMTT(60)
  <2> QED
    BY <1>2, <1>3, <1>5, <2>1, <2>3, NilAssumption, SMTT(60) DEF ChosenSoFar
<1>7. CASE w # Nil
  <2>1. PICK k \in 1..n :
          /\ bids[e][k] = w
          /\ \A j \in 1..n : ~Outranks(bid[bids[e][j]], bid[w])
          /\ \A j \in 1..(k - 1) : Outranks(bid[w], bid[bids[e][j]])
    BY <1>1, <1>7 DEF ChosenSoFar, FirstBest
  <2>2. CASE Outranks(bid[b], bid[w])
    <3>1. winner'[e] = b
      BY <1>3, <2>2 DEF Choose, Beats, Outranks
    <3>2. \A j \in 1..n : Outranks(bid[b], bid[bids[e][j]])
      <4> SUFFICES ASSUME NEW j \in 1..n PROVE Outranks(bid[b], bid[bids[e][j]])
        OBVIOUS
      <4>1. j \in 1..Len(bids[e]) /\ k \in 1..Len(bids[e]) /\ n + 1 \in 1..Len(bids[e])
        BY <1>2, SMTT(60)
      <4>2. /\ bid[b].AmountOut \in Int /\ bid[b].GasPrice \in Int
            /\ bid[w].AmountOut \in Int /\ bid[w].GasPrice \in Int
            /\ bid[bids[e][j]].AmountOut \in Int /\ bid[bids[e][j]].GasPrice \in Int
        BY <1>4, <2>1, <4>1
      <4>3. ~Outranks(bid[bids[e][j]], bid[w])
        BY <2>1
      <4> QED
        BY <2>2, <4>2, <4>3, OutranksOrder
    <3>3. \A j \in 1..(n + 1) : ~Outranks(bid[bids[e][j]], bid[b])
      <4> SUFFICES ASSUME NEW j \in 1..(n + 1)
                   PROVE  ~Outranks(bid[bids[e][j]], bid[b])
        OBVIOUS
      <4>1. j \in 1..Len(bids[e]) /\ n + 1 \in 1..Len(bids[e])
        BY <1>2, SMTT(60)
      <4>2. /\ bid[b].AmountOut \in Int /\ bid[b].GasPrice \in Int
            /\ bid[bids[e][j]].AmountOut \in Int /\ bid[bids[e][j]].GasPrice \in Int
        BY <1>4, <4>1
      <4>3. CASE j = n + 1
        BY <4>2, <4>3, SMTT(60) DEF Outranks
      <4>4. CASE j \in 1..n
        <5>1. Outranks(bid[b], bid[bids[e][j]])
          BY <3>2, <4>4
        <5> QED
          BY <4>2, <5>1, SMTT(60) DEF Outranks
      <4> QED
        BY <1>2, <4>3, <4>4, SMTT(60)
    <3>4. FirstBest(winner[e], bids[e], idx[e])'
      <4> SUFFICES \E m \in 1..(n + 1) :
                     /\ bids[e][m] = b
                     /\ \A j \in 1..(n + 1) : ~Outranks(bid[bids[e][j]], bid[b])
                     /\ \A j \in 1..(m - 1) : Outranks(bid[b], bid[bids[e][j]])
        BY <1>3, <3>1 DEF FirstBest, Outranks
      <4>1. n + 1 \in 1..(n + 1) /\ (n + 1) - 1 = n
        BY <1>2, SMTT(60)
      <4> QED
        BY <3>2, <3>3, <4>1
    <3> QED
      BY <1>2, <1>3, <1>5, <3>1, <3>4, NilAssumption, SMTT(60) DEF ChosenSoFar
  <2>3. CASE ~Outranks(bid[b], bid[w])
    <3>1. winner'[e] = w
      BY <1>3, <1>7, <2>3 DEF Choose, Beats, Outranks
    <3>2. \A j \in 1..(n + 1) : ~Outranks(bid[bids[e][j]], bid[w])
      BY <1>2, <2>1, <2>3, SMTT(60)
    <3>3. FirstBest(winner[e], bids[e], idx[e])'
      <4> SUFFICES \E m \in 1..(n + 1) :
                     /\ bids[e][m] = w
                     /\ \A j \in 1..(n + 1) : ~Outranks(bid[bids[e][j]], bid[w])
                     /\ \A j \in 1..(m - 1) : Outranks(bid[w], bid[bids[e][j]])
        BY <1>3, <3>1 DEF FirstBest, Outranks
      <4>1. k \in 1..(n + 1)
        BY <1>2, SMTT(60)
      <4> QED
        BY <2>1, <3>2, <4>1
    <3> QED
      BY <1>2, <1>3, <1>7, <3>1, <3>3, SMTT(60) DEF ChosenSoFar
  <2> QED
    BY <2>2, <2>3
<1> QED
  BY <1>6, <1>7

\* A step that touches neither the goroutines nor the bids keeps both.
LEMMA ScanFrame ==
  ASSUME TypeInv, ScanInv, InTimeScanned,
         UNCHANGED <<pc, found, idx, winner, bids, bid, call, target, inTime>>
  PROVE  (ScanInv /\ InTimeScanned)'
<1>1. ScanInv'
  BY DEF ScanInv, ChosenSoFar, FirstBest, Outranks
<1>2. InTimeScanned'
  BY DEF InTimeScanned, Decided
<1> QED
  BY <1>1, <1>2

\* The goroutine of e moves to p and scans nothing; it decides the auction only
\* when everything is scanned.
Moves(e, p) ==
  /\ pc' = [pc EXCEPT ![e] = p]
  /\ UNCHANGED <<idx, winner, bids, bid, call, target, inTime>>
  /\ \A x \in Entries : x # e => found'[x] = found[x]
  /\ p \in {"free", "timer", "expired", "located"} =>
       pc[e] \in {"free", "timer", "expired", "located"}
  /\ p \in {"located", "scan"} => found'[e] = e
  /\ p \in {"emit", "cleanup", "done"} => Decided(e) \/ idx[e] = Len(bids[e])

\* Such a move keeps the loop invariant and the place of the bids in time.
LEMMA ScanFramePC ==
  ASSUME TypeInv, ScanInv, InTimeScanned, NEW e \in Entries, NEW p \in PCs,
         Moves(e, p)
  PROVE  (ScanInv /\ InTimeScanned)'
<1> USE DEF Moves
<1>1. \A x \in Entries : ChosenSoFar(x)'
  <2> SUFFICES ASSUME NEW x \in Entries PROVE ChosenSoFar(x)'
    OBVIOUS
  <2>1. ChosenSoFar(x) /\ Len(bids[x]) \in Nat
    BY LenProperties DEF ScanInv, TypeInv, TypeOK
  <2>2. Len(bids[x]) >= Len(bids[x])
    BY <2>1, SMTT(60)
  <2>3. KeepsScanned(x)
    BY <2>1, <2>2 DEF KeepsScanned
  <2> QED
    BY <2>1, <2>3, ChosenFrame
<1>2. \A x \in Entries : pc'[x] = IF x = e THEN p ELSE pc[x]
  BY DEF TypeInv, TypeOK
<1>3. ScanInv'
  BY <1>1, <1>2 DEF ScanInv
<1>4. InTimeScanned'
  <2> SUFFICES ASSUME NEW b \in inTime
               PROVE  /\ call[b] = "accepted" /\ target[b] \in Entries
                      /\ \E k \in 1..Len(bids[target[b]]) :
                           /\ bids[target[b]][k] = b
                           /\ pc'[target[b]] \in {"emit", "cleanup", "done"} =>
                                k <= idx[target[b]]
    BY DEF InTimeScanned, Decided
  <2>1. call[b] = "accepted" /\ target[b] \in Entries
    BY DEF InTimeScanned
  <2>2. PICK k \in 1..Len(bids[target[b]]) :
          /\ bids[target[b]][k] = b
          /\ Decided(target[b]) => k <= idx[target[b]]
    BY DEF InTimeScanned
  <2>3. pc'[target[b]] \in {"emit", "cleanup", "done"} => k <= idx[target[b]]
    BY <1>2, <2>1, <2>2, SMTT(60) DEF Decided
  <2> QED
    BY <2>1, <2>2, <2>3
<1> QED
  BY <1>3, <1>4

\* Every step keeps the loop invariant of selectWinner and the place of the bids
\* that were in time.
LEMMA ScanInvStep ==
  IndInv /\ [Next]_vars => (ScanInv /\ InTimeScanned)'
<1> SUFFICES ASSUME IndInv, [Next]_vars PROVE (ScanInv /\ InTimeScanned)'
  OBVIOUS
<1> USE DEF IndInv
<1>1. ASSUME NEW e \in Entries, NEW in \in Intents, StartAuction(e, in)
      PROVE  (ScanInv /\ InTimeScanned)'
  <2>1. Moves(e, "timer")
    BY <1>1 DEF StartAuction, Moves, bidVars
  <2> QED
    BY <2>1, ScanFramePC DEF PCs
<1>2. ASSUME NEW e \in Entries, TimerFires(e) PROVE (ScanInv /\ InTimeScanned)'
  <2>1. Moves(e, "expired")
    BY <1>2 DEF TimerFires, Moves, bidVars
  <2> QED
    BY <2>1, ScanFramePC DEF PCs
<1>3. ASSUME NEW e \in Entries, LookupEntry(e) PROVE (ScanInv /\ InTimeScanned)'
  <2>1. intent[e].ID \in IntentIDs
    BY <1>3, IntentsAssumption DEF LookupEntry, TypeInv, NoNilDereference
  <2>2. auctions[intent[e].ID] = e
    BY <1>3, <2>1 DEF LookupEntry, RegistryMatchesGoroutines, Running, PCs
  <2>3. /\ pc' = [pc EXCEPT ![e] = "located"] /\ found' = [found EXCEPT ![e] = e]
        /\ UNCHANGED <<idx, winner, bids, bid, call, target, inTime>>
    BY <1>3, <2>2, NilAssumption DEF LookupEntry, bidVars
  <2>4. found'[e] = e /\ \A x \in Entries : x # e => found'[x] = found[x]
    BY <2>3 DEF TypeInv, TypeOK
  <2>5. Moves(e, "located")
    BY <1>3, <2>3, <2>4 DEF LookupEntry, Moves
  <2> QED
    BY <2>5, ScanFramePC DEF PCs
<1>4. ASSUME NEW e \in Entries, LockEntry(e) PROVE (ScanInv /\ InTimeScanned)'
  <2>1. found[e] = e
    BY <1>4 DEF LockEntry, ScanInv
  <2>2. Moves(e, "scan")
    BY <1>4, <2>1 DEF LockEntry, Moves, bidVars
  <2> QED
    BY <2>2, ScanFramePC DEF PCs
<1>5. ASSUME NEW e \in Entries, ScanBid(e) PROVE (ScanInv /\ InTimeScanned)'
  <2>1. ChosenSoFar(e)'
    BY <1>5, ScanBidChooses
  <2>2. /\ UNCHANGED <<pc, found, bids, bid, call, target, inTime>>
        /\ pc[e] = "scan"
        /\ \A x \in Entries : x # e => idx'[x] = idx[x] /\ winner'[x] = winner[x]
    BY <1>5 DEF ScanBid, bidVars, TypeInv, TypeOK
  <2>3. \A x \in Entries : x # e => ChosenSoFar(x)'
    <3> SUFFICES ASSUME NEW x \in Entries, x # e PROVE ChosenSoFar(x)'
      OBVIOUS
    <3>1. ChosenSoFar(x) /\ Len(bids[x]) \in Nat
      BY LenProperties DEF ScanInv, TypeInv, TypeOK
    <3>2. Len(bids[x]) >= Len(bids[x])
      BY <3>1, SMTT(60)
    <3>3. KeepsScanned(x)
      BY <2>2, <3>1, <3>2 DEF KeepsScanned
    <3> QED
      BY <3>1, <3>3, ChosenFrame
  <2>4. ScanInv'
    BY <2>1, <2>2, <2>3 DEF ScanInv
  <2>5. InTimeScanned'
    BY <2>2, SMTT(60) DEF InTimeScanned, Decided
  <2> QED
    BY <2>4, <2>5
<1>6. ASSUME NEW e \in Entries, ScanEnds(e) PROVE (ScanInv /\ InTimeScanned)'
  <2>1. found[e] = e /\ idx[e] <= Len(bids[e]) /\ idx[e] \in Nat /\ Len(bids[e]) \in Nat
    BY <1>6, LenProperties DEF ScanEnds, ScanInv, ChosenSoFar, TypeInv, TypeOK
  <2>2. idx[e] = Len(bids[e])
    BY <1>6, <2>1, SMTT(60) DEF ScanEnds, HasNext
  <2>3. PICK p \in {"cleanup", "emit"} : pc' = [pc EXCEPT ![e] = p]
    BY <1>6 DEF ScanEnds
  <2>4. Moves(e, p)
    BY <1>6, <2>2, <2>3 DEF ScanEnds, Moves, bidVars
  <2> QED
    BY <2>4, ScanFramePC DEF PCs
<1>7. ASSUME NEW e \in Entries, EmitVoucher(e) PROVE (ScanInv /\ InTimeScanned)'
  <2>1. Moves(e, "cleanup")
    BY <1>7 DEF EmitVoucher, Moves, bidVars, Decided
  <2> QED
    BY <2>1, ScanFramePC DEF PCs
<1>8. ASSUME NEW e \in Entries, Cleanup(e) PROVE (ScanInv /\ InTimeScanned)'
  <2>1. Moves(e, "done")
    BY <1>8 DEF Cleanup, CleanupDue, Moves, bidVars, Decided
  <2> QED
    BY <2>1, ScanFramePC DEF PCs
<1>9. ASSUME NEW b \in Bids, NEW f \in BidForms, SubmitBid(b, f)
      PROVE  (ScanInv /\ InTimeScanned)'
  <2>1. /\ UNCHANGED <<pc, found, idx, winner, bids, inTime>>
        /\ call[b] = "idle"
        /\ \A c \in Bids : c # b =>
             call'[c] = call[c] /\ target'[c] = target[c] /\ bid'[c] = bid[c]
    BY <1>9 DEF SubmitBid, auctionVars, TypeInv, TypeOK
  <2>2. \A x \in Entries : ChosenSoFar(x)'
    <3> SUFFICES ASSUME NEW x \in Entries PROVE ChosenSoFar(x)'
      OBVIOUS
    <3>1. ChosenSoFar(x) /\ Len(bids[x]) \in Nat
      BY LenProperties DEF ScanInv, TypeInv, TypeOK
    <3>2. \A k \in 1..Len(bids[x]) : bids[x][k] \in Bids /\ bids[x][k] # b
      <4> SUFFICES ASSUME NEW k \in 1..Len(bids[x])
                   PROVE  bids[x][k] \in Bids /\ bids[x][k] # b
        OBVIOUS
      <4>1. call[bids[x][k]] = "accepted"
        BY DEF BidInv, BidsInTheirAuction
      <4>2. bids[x][k] \in Bids
        BY SMTT(60) DEF TypeInv, TypeOK
      <4> QED
        BY <2>1, <4>1, <4>2
    <3>3. Len(bids[x]) >= Len(bids[x])
      BY <3>1, SMTT(60)
    <3>4. KeepsScanned(x)
      BY <2>1, <3>1, <3>2, <3>3 DEF KeepsScanned
    <3> QED
      BY <3>1, <3>4, ChosenFrame
  <2>3. ScanInv'
    BY <2>1, <2>2 DEF ScanInv
  <2>4. InTimeScanned'
    <3>1. \A c \in inTime : call'[c] = call[c] /\ target'[c] = target[c]
      BY <2>1 DEF InTimeScanned, TypeInv, TypeOK
    <3>2. pc' = pc /\ idx' = idx /\ bids' = bids /\ inTime' = inTime
      BY <2>1
    <3> SUFFICES ASSUME NEW c \in inTime
                 PROVE  /\ call[c] = "accepted" /\ target[c] \in Entries
                        /\ \E k \in 1..Len(bids[target[c]]) :
                             /\ bids[target[c]][k] = c
                             /\ Decided(target[c]) => k <= idx[target[c]]
      BY <3>1, <3>2, SMTT(60) DEF InTimeScanned, Decided
    <3> QED
      BY DEF InTimeScanned
  <2> QED
    BY <2>3, <2>4
<1>10. ASSUME NEW b \in Bids, AppendBid(b) PROVE (ScanInv /\ InTimeScanned)'
  <2> DEFINE t == target[b]
  <2>1. /\ t \in Entries /\ bids[t] \in Seq(Bids)
        /\ bids' = [bids EXCEPT ![t] = Append(bids[t], b)]
        /\ call' = [call EXCEPT ![b] = "accepted"]
        /\ inTime' = IF pc[t] = "timer" THEN inTime \cup {b} ELSE inTime
        /\ UNCHANGED <<pc, found, idx, winner, bid, target>>
    BY <1>10 DEF AppendBid, auctionVars, TypeInv, TypeOK, NoNilDereference
  <2>2. ASSUME NEW x \in Entries
        PROVE  /\ Len(bids[x]) \in Nat /\ Len(bids'[x]) \in Nat
               /\ Len(bids'[x]) >= Len(bids[x])
               /\ \A k \in 1..Len(bids[x]) : bids'[x][k] = bids[x][k]
    <3>1. bids[x] \in Seq(Bids) /\ Len(bids[x]) \in Nat
      BY LenProperties DEF TypeInv, TypeOK
    <3>2. CASE x = t
      <4>1. bids'[x] = Append(bids[x], b)
        BY <2>1, <3>2 DEF TypeInv, TypeOK
      <4>2. /\ Len(Append(bids[x], b)) = Len(bids[x]) + 1
            /\ \A k \in 1..Len(bids[x]) : Append(bids[x], b)[k] = bids[x][k]
        BY <3>1, AppendProperties, SMTT(60)
      <4>3. Len(bids[x]) + 1 \in Nat /\ Len(bids[x]) + 1 >= Len(bids[x])
        BY <3>1, SMTT(60)
      <4> QED
        BY <3>1, <4>1, <4>2, <4>3
    <3>3. CASE x # t
      <4>1. bids'[x] = bids[x]
        BY <2>1, <3>3 DEF TypeInv, TypeOK
      <4>2. Len(bids[x]) >= Len(bids[x])
        BY <3>1, SMTT(60)
      <4> QED
        BY <3>1, <4>1, <4>2
    <3> QED
      BY <3>2, <3>3
  <2>3. \A x \in Entries : ChosenSoFar(x)'
    <3> SUFFICES ASSUME NEW x \in Entries PROVE ChosenSoFar(x)'
      OBVIOUS
    <3>1. ChosenSoFar(x)
      BY DEF ScanInv
    <3>2. KeepsScanned(x)
      BY <2>1, <2>2 DEF KeepsScanned
    <3> QED
      BY <3>1, <3>2, ChosenFrame
  <2>4. ScanInv'
    BY <2>1, <2>3 DEF ScanInv
  <2>5. ASSUME NEW c \in inTime'
        PROVE  /\ call'[c] = "accepted" /\ target[c] \in Entries
               /\ \E k \in 1..Len(bids'[target[c]]) :
                    /\ bids'[target[c]][k] = c
                    /\ Decided(target[c]) => k <= idx[target[c]]
    <3>1. CASE c \in inTime
      <4>1. c \in Bids /\ call[c] = "accepted" /\ target[c] \in Entries
        BY <3>1 DEF InTimeScanned, TypeInv, TypeOK
      <4>2. PICK k \in 1..Len(bids[target[c]]) :
              bids[target[c]][k] = c /\ (Decided(target[c]) => k <= idx[target[c]])
        BY <3>1 DEF InTimeScanned
      <4>3. k \in 1..Len(bids'[target[c]]) /\ bids'[target[c]][k] = c
        BY <2>2, <4>1, <4>2, SMTT(60)
      <4>4. call'[c] = "accepted"
        BY <2>1, <4>1 DEF TypeInv, TypeOK
      <4> QED
        BY <4>1, <4>2, <4>3, <4>4
    <3>2. CASE c = b /\ pc[t] = "timer"
      <4>1. bids'[t] = Append(bids[t], b)
        BY <2>1 DEF TypeInv, TypeOK
      <4>2. /\ Len(bids[t]) + 1 \in 1..Len(bids'[t])
            /\ bids'[t][Len(bids[t]) + 1] = b
        BY <2>1, <4>1, AppendProperties, LenProperties, SMTT(60)
      <4>3. ~Decided(t)
        BY <3>2 DEF Decided
      <4>4. call'[b] = "accepted"
        BY <2>1 DEF TypeInv, TypeOK
      <4> QED
        BY <2>1, <3>2, <4>2, <4>3, <4>4
    <3> QED
      BY <2>1, <2>5, <3>1, <3>2
  <2>6. InTimeScanned'
    BY <2>1, <2>5, SMTT(60) DEF InTimeScanned, Decided
  <2> QED
    BY <2>4, <2>6
<1>11. CASE ReceiveVoucher
  BY <1>11, ScanFrame DEF ReceiveVoucher, auctionVars, bidVars
<1>12. CASE UNCHANGED vars
  BY <1>12, ScanFrame DEF vars
<1> QED
  BY <1>1, <1>2, <1>3, <1>4, <1>5, <1>6, <1>7, <1>8, <1>9, <1>10, <1>11, <1>12
     DEF Next, RunAuction

\* The inductive invariant holds throughout.
LEMMA IndInvAlways == Spec => []IndInv
<1>1. Init => IndInv
  BY TypeInvInit, RegistryInit, BidInvInit, ScanInvInit DEF IndInv
<1>2. IndInv /\ [Next]_vars => IndInv'
  BY TypeInvStep, RegistryStep, BidInvStep, ScanInvStep DEF IndInv
<1> QED
  BY <1>1, <1>2, PTL DEF Spec

\* In every auction selectWinner returns the earliest of the best bids it
\* scanned, however bids and other auctions interleave with the scan.
THEOREM WinnerCorrect == Spec => []WinnerIsFirstBest
<1>1. IndInv => WinnerIsFirstBest
  BY DEF IndInv, ScanInv, ChosenSoFar, WinnerIsFirstBest
<1> QED
  BY IndInvAlways, <1>1, PTL

\* A bid appended before the timer of its auction fires is never overlooked:
\* the auction has a winner and the bid does not beat it.
THEOREM InTimeCorrect == Spec => []InTimeBidsCount
<1>1. IndInv => InTimeBidsCount
  <2> SUFFICES ASSUME IndInv, NEW b \in inTime, Decided(target[b])
               PROVE  /\ winner[target[b]] # Nil
                      /\ ~Outranks(bid[b], bid[winner[target[b]]])
    BY DEF InTimeBidsCount
  <2> DEFINE t == target[b]
  <2>1. PICK k \in 1..Len(bids[t]) : bids[t][k] = b /\ k <= idx[t]
    BY DEF IndInv, InTimeScanned
  <2>2. t \in Entries /\ idx[t] \in Nat /\ ChosenSoFar(t)
    BY DEF IndInv, InTimeScanned, ScanInv, TypeInv, TypeOK
  <2>3. k \in 1..idx[t] /\ idx[t] # 0
    <3>1. Len(bids[t]) \in Nat
      BY <2>2, LenProperties DEF IndInv, TypeInv, TypeOK
    <3>2. k \in Nat /\ k >= 1 /\ k <= idx[t]
      BY <2>1, <3>1, SMTT(60)
    <3>3. idx[t] \in Nat
      BY <2>2
    <3> QED
      BY <3>2, <3>3, SMTT(60)
  <2>4. winner[t] # Nil
    BY <2>2, <2>3 DEF ChosenSoFar
  <2>5. FirstBest(winner[t], bids[t], idx[t])
    BY <2>2, <2>4 DEF ChosenSoFar
  <2>6. ~Outranks(bid[bids[t][k]], bid[winner[t]])
    BY <2>3, <2>5 DEF FirstBest
  <2> QED
    BY <2>1, <2>4, <2>6
<1> QED
  BY IndInvAlways, <1>1, PTL

------------------------------------------------------------------------------
(***************************************************************************)
(* Outcomes and vouchers.  runAuction reports an outcome exactly when it   *)
(* reaches its deferred Cleanup.                                           *)
(***************************************************************************)
OutcomeInv ==
  \A e \in Entries : outcome[e] = "none" <=> pc[e] \notin {"cleanup", "done"}

\* No goroutine has reported anything at first.
LEMMA OutcomeInit == Init => OutcomeInv /\ VouchersAreWinners
BY SMTT(60) DEF Init, OutcomeInv, VouchersAreWinners

\* Each return path of runAuction sets the outcome on its way to Cleanup.
LEMMA OutcomeStep == IndInv /\ OutcomeInv /\ [Next]_vars => OutcomeInv'
<1> SUFFICES ASSUME IndInv, OutcomeInv, [Next]_vars, NEW x \in Entries
             PROVE  outcome'[x] = "none" <=> pc'[x] \notin {"cleanup", "done"}
  BY DEF OutcomeInv
<1> USE DEF IndInv, TypeInv, TypeOK
<1>0. outcome[x] = "none" <=> pc[x] \notin {"cleanup", "done"}
  BY DEF OutcomeInv
<1>1. ASSUME NEW e \in Entries, NEW in \in Intents, StartAuction(e, in)
      PROVE  outcome'[x] = "none" <=> pc'[x] \notin {"cleanup", "done"}
  BY <1>0, <1>1 DEF StartAuction
<1>2. ASSUME NEW e \in Entries, TimerFires(e) \/ LockEntry(e) \/ ScanBid(e)
      PROVE  outcome'[x] = "none" <=> pc'[x] \notin {"cleanup", "done"}
  BY <1>0, <1>2 DEF TimerFires, LockEntry, ScanBid
<1>3. ASSUME NEW e \in Entries, LookupEntry(e) \/ ScanEnds(e)
      PROVE  outcome'[x] = "none" <=> pc'[x] \notin {"cleanup", "done"}
  BY <1>0, <1>3 DEF LookupEntry, ScanEnds
<1>4. ASSUME NEW e \in Entries, EmitVoucher(e) \/ Cleanup(e)
      PROVE  outcome'[x] = "none" <=> pc'[x] \notin {"cleanup", "done"}
  <2>1. CASE EmitVoucher(e)
    <3>1. /\ pc[e] = "emit" /\ pc' = [pc EXCEPT ![e] = "cleanup"]
          /\ \E o \in {"emitted", "dropped"} : outcome' = [outcome EXCEPT ![e] = o]
      BY <2>1 DEF EmitVoucher
    <3> QED
      BY <1>0, <3>1
  <2>2. CASE Cleanup(e)
    BY <1>0, <2>2 DEF Cleanup, CleanupDue
  <2> QED
    BY <1>4, <2>1, <2>2
<1>5. CASE UNCHANGED <<outcome, pc>>
  BY <1>0, <1>5
<1>6. ASSUME NEW b \in Bids, NEW f \in BidForms, SubmitBid(b, f)
      PROVE  UNCHANGED <<outcome, pc>>
  BY <1>6 DEF SubmitBid, auctionVars
<1>7. ASSUME NEW b \in Bids, AppendBid(b) PROVE UNCHANGED <<outcome, pc>>
  BY <1>7 DEF AppendBid, auctionVars
<1>8. CASE ReceiveVoucher
  BY <1>5, <1>8 DEF ReceiveVoucher, auctionVars
<1>9. CASE UNCHANGED vars
  BY <1>5, <1>9 DEF vars
<1> QED
  BY <1>1, <1>2, <1>3, <1>4, <1>5, <1>6, <1>7, <1>8, <1>9 DEF Next, RunAuction

\* Outcomes match goroutines throughout.
LEMMA OutcomeAlways == Spec => [](IndInv /\ OutcomeInv)
BY OutcomeInit, OutcomeStep, IndInvAlways, PTL DEF Spec

\* The winner of an auction is a bid SubmitBid accepted for its intent, through
\* the pointer of its entry.
LEMMA WinnerFromSlice ==
  ASSUME IndInv, NEW e \in Entries, winner[e] # Nil
  PROVE  /\ call[winner[e]] = "accepted" /\ target[winner[e]] = e
         /\ bid[winner[e]].IntentID = intent[e].ID
<1>1. /\ FirstBest(winner[e], bids[e], idx[e]) /\ idx[e] <= Len(bids[e])
      /\ idx[e] \in Nat /\ Len(bids[e]) \in Nat
  BY LenProperties DEF IndInv, ScanInv, ChosenSoFar, TypeInv, TypeOK
<1>2. PICK k \in 1..idx[e] : bids[e][k] = winner[e]
  BY <1>1 DEF FirstBest
<1>3. k \in 1..Len(bids[e])
  BY <1>1, <1>2, SMTT(60)
<1> QED
  BY <1>2, <1>3, SMTT(60) DEF IndInv, BidInv, BidsInTheirAuction

\* Two auctions never have the same winning bid: a bid lies in one slice only.
LEMMA WinnersDiffer ==
  ASSUME IndInv, NEW x \in Entries, NEW y \in Entries,
         winner[x] # Nil, winner[x] = winner[y]
  PROVE  x = y
BY WinnerFromSlice

\* An auction that reported a voucher keeps its outcome, intent and winner.
LEMMA EmittedStays ==
  ASSUME IndInv, OutcomeInv, [Next]_vars, NEW x \in Entries, outcome[x] = "emitted"
  PROVE  outcome'[x] = "emitted" /\ intent'[x] = intent[x] /\ winner'[x] = winner[x]
<1> USE DEF IndInv, TypeInv, TypeOK
<1>0. pc[x] \in {"cleanup", "done"}
  BY DEF OutcomeInv
<1>1. ASSUME NEW e \in Entries, NEW in \in Intents, StartAuction(e, in)
      PROVE  outcome'[x] = "emitted" /\ intent'[x] = intent[x] /\ winner'[x] = winner[x]
  BY <1>0, <1>1 DEF StartAuction
<1>2. ASSUME NEW e \in Entries, RunAuction(e)
      PROVE  outcome'[x] = "emitted" /\ intent'[x] = intent[x] /\ winner'[x] = winner[x]
  <2>1. CASE x = e
    BY <1>0, <1>2, <2>1 DEF RunAuction, TimerFires, LookupEntry, LockEntry, ScanBid,
                            ScanEnds, EmitVoucher, Cleanup
  <2>2. CASE x # e
    BY <1>2, <2>2 DEF RunAuction, TimerFires, LookupEntry, LockEntry, ScanBid,
                      ScanEnds, EmitVoucher, Cleanup
  <2> QED
    BY <2>1, <2>2
<1>3. ASSUME NEW b \in Bids, NEW f \in BidForms, SubmitBid(b, f)
      PROVE  UNCHANGED <<outcome, intent, winner>>
  BY <1>3 DEF SubmitBid, auctionVars
<1>4. ASSUME NEW b \in Bids, AppendBid(b) PROVE UNCHANGED <<outcome, intent, winner>>
  BY <1>4 DEF AppendBid, auctionVars
<1>5. CASE ReceiveVoucher
  BY <1>5 DEF ReceiveVoucher, auctionVars
<1>6. CASE UNCHANGED vars
  BY <1>6 DEF vars
<1> QED
  BY <1>1, <1>2, <1>3, <1>4, <1>5, <1>6 DEF Next

\* What a voucher at place k of the channel must be.
GoodVoucher(k) ==
  /\ \E e \in Entries :
       /\ outcome[e] = "emitted"
       /\ voucherCh[k].Intent = intent[e]
       /\ voucherCh[k].WinningBid = winner[e]
  /\ \A j \in 1..Len(voucherCh) :
       voucherCh[j].WinningBid = voucherCh[k].WinningBid => j = k

\* The send of runAuction appends the winner of an auction that had sent nothing,
\* and the receive takes the oldest voucher away.
LEMMA VouchersStep ==
  IndInv /\ OutcomeInv /\ VouchersAreWinners /\ [Next]_vars => VouchersAreWinners'
<1> SUFFICES ASSUME IndInv, OutcomeInv, VouchersAreWinners, [Next]_vars
             PROVE  VouchersAreWinners'
  OBVIOUS
<1>1. /\ voucherCh \in Seq(Voucher) /\ Len(voucherCh) \in Nat
      /\ \A k \in 1..Len(voucherCh) : GoodVoucher(k)
  BY LenProperties DEF IndInv, TypeInv, TypeOK, VouchersAreWinners, GoodVoucher
<1>2. ASSUME NEW k \in 1..Len(voucherCh)
      PROVE  \E e \in Entries :
               /\ outcome'[e] = "emitted"
               /\ voucherCh[k].Intent = intent'[e]
               /\ voucherCh[k].WinningBid = winner'[e]
  <2>1. PICK e \in Entries :
          /\ outcome[e] = "emitted"
          /\ voucherCh[k].Intent = intent[e]
          /\ voucherCh[k].WinningBid = winner[e]
    BY <1>1 DEF GoodVoucher
  <2> QED
    BY <2>1, EmittedStays
<1>3. SUFFICES \A k \in 1..Len(voucherCh') :
                 /\ \E e \in Entries :
                      /\ outcome'[e] = "emitted"
                      /\ voucherCh'[k].Intent = intent'[e]
                      /\ voucherCh'[k].WinningBid = winner'[e]
                 /\ \A j \in 1..Len(voucherCh') :
                      voucherCh'[j].WinningBid = voucherCh'[k].WinningBid => j = k
  BY DEF VouchersAreWinners
<1>4. CASE UNCHANGED voucherCh
  BY <1>1, <1>2, <1>4 DEF GoodVoucher
<1>5. CASE ReceiveVoucher
  <2>1. voucherCh # <<>> /\ voucherCh' = Tail(voucherCh)
    BY <1>5 DEF ReceiveVoucher
  <2>2. /\ Len(voucherCh') = Len(voucherCh) - 1
        /\ \A k \in 1..Len(voucherCh') : voucherCh'[k] = voucherCh[k + 1]
    BY <1>1, <2>1, HeadTailProperties
  <2>3. \A k \in 1..Len(voucherCh') : k + 1 \in 1..Len(voucherCh)
    BY <1>1, <2>2, SMTT(60)
  <2>4. ASSUME NEW k \in 1..Len(voucherCh'), NEW j \in 1..Len(voucherCh'),
               voucherCh'[j].WinningBid = voucherCh'[k].WinningBid
        PROVE  j = k
    <3>1. j + 1 = k + 1
      BY <1>1, <2>2, <2>3, <2>4, SMTT(60) DEF GoodVoucher
    <3> QED
      BY <1>1, <2>2, <3>1, SMTT(60)
  <2> QED
    BY <1>2, <2>2, <2>3, <2>4, SMTT(60)
<1>6. ASSUME NEW e \in Entries, EmitVoucher(e), voucherCh' # voucherCh
      PROVE  VouchersAreWinners'
  <2> DEFINE n == Len(voucherCh)
             v == VoucherOf(e)
  <2>1. /\ pc[e] = "emit" /\ voucherCh' = Append(voucherCh, v)
        /\ outcome' = [outcome EXCEPT ![e] = "emitted"] /\ UNCHANGED <<intent, winner>>
    BY <1>6 DEF EmitVoucher
  <2>2. /\ v.Intent = intent[e] /\ v.WinningBid = winner[e]
        /\ outcome[e] = "none" /\ winner[e] # Nil /\ outcome'[e] = "emitted"
    BY <2>1, NilAssumption
       DEF VoucherOf, OutcomeInv, IndInv, TypeInv, TypeOK, NoNilDereference
  <2>3. v \in Voucher
    BY <2>1 DEF VoucherOf, Voucher, IndInv, TypeInv, NoNilDereference
  <2>4. /\ Len(voucherCh') = n + 1 /\ voucherCh'[n + 1] = v
        /\ \A k \in 1..n : voucherCh'[k] = voucherCh[k]
    BY <1>1, <2>1, <2>3, AppendProperties, SMTT(60)
  <2>5. ASSUME NEW k \in 1..n PROVE voucherCh[k].WinningBid # winner[e]
    <3>1. PICK x \in Entries :
            outcome[x] = "emitted" /\ voucherCh[k].WinningBid = winner[x]
      BY <1>1 DEF GoodVoucher
    <3> QED
      BY <2>2, <3>1, WinnersDiffer
  <2>6. \A k \in 1..(n + 1) : k \in 1..n \/ k = n + 1
    BY <1>1, SMTT(60)
  <2>7. ASSUME NEW k \in 1..(n + 1)
        PROVE  \E x \in Entries :
                 /\ outcome'[x] = "emitted"
                 /\ voucherCh'[k].Intent = intent'[x]
                 /\ voucherCh'[k].WinningBid = winner'[x]
    <3>1. CASE k \in 1..n
      BY <1>2, <2>4, <3>1
    <3>2. CASE k = n + 1
      BY <2>1, <2>2, <2>4, <3>2
    <3> QED
      BY <2>6, <3>1, <3>2
  <2>8. ASSUME NEW k \in 1..(n + 1), NEW j \in 1..(n + 1),
               voucherCh'[j].WinningBid = voucherCh'[k].WinningBid
        PROVE  j = k
    <3>1. CASE j \in 1..n /\ k \in 1..n
      BY <1>1, <2>4, <2>8, <3>1 DEF GoodVoucher
    <3>2. CASE j = n + 1 \/ k = n + 1
      BY <2>2, <2>4, <2>5, <2>6, <2>8, <3>2
    <3> QED
      BY <2>6, <3>1, <3>2
  <2> QED
    BY <2>4, <2>7, <2>8 DEF VouchersAreWinners
<1>7. \/ UNCHANGED voucherCh \/ ReceiveVoucher
      \/ \E e \in Entries : EmitVoucher(e)
  BY DEF Next, RunAuction, StartAuction, TimerFires, LookupEntry, LockEntry, ScanBid,
         ScanEnds, Cleanup, SubmitBid, AppendBid, vars
<1> QED
  BY <1>4, <1>5, <1>6, <1>7 DEF VouchersAreWinners

\* Every voucher the consumer can receive is the winner of an auction for its
\* intent, and none is there twice, for any capacity of voucherCh.
THEOREM VouchersCorrect == Spec => []VouchersAreWinners
BY OutcomeInit, VouchersStep, OutcomeAlways, PTL DEF Spec

\* The deferred Cleanup is the only step that takes an entry out of the map, and
\* it runs after runAuction has reported an outcome.
THEOREM EntryHeld == Spec => EntryHeldUntilOutcome
<1>1. ASSUME IndInv, OutcomeInv, [Next]_vars, NEW i \in IntentIDs,
             auctions[i] # Nil, auctions'[i] # auctions[i]
      PROVE  auctions'[i] = Nil /\ outcome[auctions[i]] # "none"
  <2> USE DEF IndInv, TypeInv, TypeOK
  <2>1. ASSUME NEW e \in Entries, NEW in \in Intents, StartAuction(e, in)
        PROVE  FALSE
    BY <1>1, <2>1, IntentsAssumption DEF StartAuction, IsActive
  <2>2. ASSUME NEW e \in Entries, Cleanup(e)
        PROVE  auctions'[i] = Nil /\ outcome[auctions[i]] # "none"
    <3>1. pc[e] = "cleanup" /\ intent[e].ID \in IntentIDs
      BY <1>1, <2>2, IntentsAssumption DEF Cleanup, CleanupDue, NoNilDereference
    <3>2. auctions[intent[e].ID] = e
      BY <1>1, <3>1 DEF RegistryMatchesGoroutines, Running, PCs
    <3>3. outcome[e] # "none"
      BY <1>1, <3>1 DEF OutcomeInv
    <3>4. i = intent[e].ID /\ auctions'[i] = Nil
      BY <1>1, <2>2, <3>1 DEF Cleanup
    <3> QED
      BY <3>2, <3>3, <3>4
  <2>3. \/ UNCHANGED auctions \/ \E e \in Entries : Cleanup(e)
        \/ \E e \in Entries, in \in Intents : StartAuction(e, in)
    BY <1>1 DEF Next, RunAuction, TimerFires, LookupEntry, LockEntry, ScanBid,
                ScanEnds, EmitVoucher, SubmitBid, AppendBid, ReceiveVoucher, vars
  <2> QED
    BY <1>1, <2>1, <2>2, <2>3
<1>2. IndInv /\ OutcomeInv /\ [Next]_vars =>
        [\A i \in IntentIDs :
           auctions[i] # Nil /\ auctions'[i] # auctions[i] =>
             auctions'[i] = Nil /\ outcome[auctions[i]] # "none"]_vars
  BY <1>1
<1> QED
  BY <1>2, OutcomeAlways, PTL DEF Spec, EntryHeldUntilOutcome

==============================================================================
