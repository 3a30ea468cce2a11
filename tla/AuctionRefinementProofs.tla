----------------------- MODULE AuctionRefinementProofs -----------------------
(***************************************************************************)
(* The auction engine implements OrderFlowAuction, for every choice of the *)
(* constants.  The inductive invariant of AuctionWinnerProofs is what each *)
(* step needs to be a step of the abstract auction, or invisible to it.    *)
(***************************************************************************)
EXTENDS AuctionWinnerProofs, AuctionRefinement

\* The state of the abstract auction, as the refinement mapping computes it.
Phase == [e \in Entries |-> PhaseOf(pc[e])]
Books == [e \in Entries |-> Book(e)]
InABook(b) == \E e \in Entries : b \in Book(e)
Offer == [b \in Bids |-> IF InABook(b) THEN bid[b] ELSE Nil]
Verdict == [e \in Entries |-> IF Decided(e) THEN winner[e] ELSE Nil]

\* Nothing the callers of the engine can see changes.
Invisible == UNCHANGED <<Phase, intent, Books, Offer, Verdict, voucherCh>>

\* Most leaves are first-order; those that need more cite SMT.
USE ZenonT(60)

\* What counts in an auction lies in the slice of its entry, and so comes from
\* an accepted call of SubmitBid that aimed at that entry.
LEMMA BookFacts ==
  ASSUME IndInv, NEW e \in Entries, NEW b \in Book(e)
  PROVE  b \in Bids /\ call[b] = "accepted" /\ target[b] = e
<1>1. /\ bids[e] \in Seq(Bids) /\ Len(bids[e]) \in Nat /\ idx[e] \in Nat
      /\ idx[e] <= Len(bids[e])
  BY LenProperties DEF IndInv, TypeInv, TypeOK, ScanInv, ChosenSoFar
<1>2. PICK k \in 1..(IF Decided(e) THEN idx[e] ELSE Len(bids[e])) : b = bids[e][k]
  BY DEF Book
<1>3. k \in 1..Len(bids[e])
  BY <1>1, <1>2, SMTT(60)
<1> QED
  BY <1>1, <1>2, <1>3, SMTT(60) DEF IndInv, BidInv, BidsInTheirAuction

\* A step that keeps every book, and the contents of the bids in them, keeps the
\* offers of the abstract auction.
LEMMA OfferKept ==
  ASSUME IndInv, Books' = Books, NEW B \in SUBSET Bids,
         \A b \in Bids \ B : bid'[b] = bid[b],
         \A b \in B : call[b] # "accepted"
  PROVE  Offer' = Offer
<1>1. \A e \in Entries : Book(e)' = Book(e)
  BY DEF Books
<1>2. \A b \in Bids : InABook(b)' <=> InABook(b)
  BY <1>1 DEF InABook
<1>3. \A b \in Bids : InABook(b) => bid'[b] = bid[b]
  BY BookFacts DEF InABook
<1> QED
  BY <1>2, <1>3 DEF Offer

\* A step of the goroutine of e that leaves bids, intents and channel alone, and
\* does not decide the auction, shows only through its phase.
LEMMA GoroutineMoves ==
  ASSUME IndInv, NEW e \in Entries, NEW p \in PCs,
         pc' = [pc EXCEPT ![e] = p],
         UNCHANGED <<bids, bid>>,
         \A x \in Entries : Decided(x)' => idx'[x] = idx[x] /\ winner'[x] = winner[x],
         Decided(e) <=> p \in {"emit", "cleanup", "done"}
  PROVE  /\ Phase' = [Phase EXCEPT ![e] = PhaseOf(p)]
         /\ Books' = Books /\ Offer' = Offer /\ Verdict' = Verdict
<1>1. \A x \in Entries : pc'[x] = IF x = e THEN p ELSE pc[x]
  BY DEF IndInv, TypeInv, TypeOK
<1>2. \A x \in Entries : Decided(x)' <=> Decided(x)
  BY <1>1 DEF Decided
<1>3. Phase' = [Phase EXCEPT ![e] = PhaseOf(p)]
  <2>1. \A x \in Entries : Phase'[x] = IF x = e THEN PhaseOf(p) ELSE Phase[x]
    BY <1>1 DEF Phase, PhaseOf, PCs, IndInv, TypeInv, TypeOK
  <2>2. Phase = [x \in Entries |-> Phase[x]] /\ Phase' = [x \in Entries |-> Phase'[x]]
    BY SMTT(60) DEF Phase
  <2> QED
    BY <2>1, <2>2
<1>4. Books' = Books
  <2>1. ASSUME NEW x \in Entries PROVE Book(x)' = Book(x)
    <3>1. (IF Decided(x) THEN idx[x] ELSE Len(bids[x]))'
            = IF Decided(x) THEN idx[x] ELSE Len(bids[x])
      BY <1>2
    <3> QED
      BY <3>1 DEF Book
  <2> QED
    BY <2>1 DEF Books
<1>5. Verdict' = Verdict
  BY <1>2 DEF Verdict
<1>6. PICK B \in SUBSET Bids : B = {}
  OBVIOUS
<1>7. Offer' = Offer
  BY <1>4, <1>6, OfferKept
<1> QED
  BY <1>3, <1>4, <1>5, <1>7

\* The empty map and the empty channel of NewEngine are an auction house with
\* nothing opened.
LEMMA RefinesInit == Init => OFA!Init
<1> SUFFICES ASSUME Init PROVE OFA!Init
  OBVIOUS
<1>1. \A e \in Entries : Book(e) = {} /\ ~Decided(e) /\ PhaseOf(pc[e]) = "unopened"
  BY SMTT(60) DEF Init, Book, Decided, PhaseOf
<1> QED
  BY <1>1 DEF OFA!Init, Init

\* StartAuction opens an auction: its existence check under Engine.mu rules out
\* another unreleased auction for the identifier.
LEMMA RefinesStart ==
  ASSUME IndInv, NEW e \in Entries, NEW in \in Intents, StartAuction(e, in)
  PROVE  OFA!Open(e, in)
<1>1. Phase' = [Phase EXCEPT ![e] = "open"] /\ UNCHANGED <<Books, Offer, Verdict>>
  <2>1. /\ pc' = [pc EXCEPT ![e] = "timer"]
        /\ UNCHANGED <<bids, bid, idx, winner>> /\ ~Decided(e)
    BY DEF StartAuction, bidVars, Decided
  <2>2. /\ Phase' = [Phase EXCEPT ![e] = PhaseOf("timer")]
        /\ Books' = Books /\ Offer' = Offer /\ Verdict' = Verdict
    BY <2>1, GoroutineMoves DEF PCs
  <2> QED
    BY <2>2 DEF PhaseOf
<1>2. Phase[e] = "unopened"
  BY DEF StartAuction, Phase, PhaseOf
<1>3. ASSUME NEW o \in Entries, Phase[o] \in {"open", "closed", "issued"}
      PROVE  intent[o].ID # in.ID
  <2>1. pc[o] \in Running
    BY <1>3 DEF Phase, PhaseOf, Running, PCs, IndInv, TypeInv, TypeOK
  <2>2. in.ID \in IntentIDs /\ auctions[in.ID] = Nil
    BY IntentsAssumption DEF StartAuction, IsActive
  <2> QED
    BY <2>1, <2>2, NilAssumption DEF IndInv, RegistryMatchesGoroutines
<1>4. intent' = [intent EXCEPT ![e] = in] /\ UNCHANGED voucherCh
  BY DEF StartAuction
<1> QED
  BY <1>1, <1>2, <1>3, <1>4 DEF OFA!Open, Phase, Books, Offer, Verdict, InABook

\* ScanEnds is the step at which selectWinner's answer becomes the verdict.  The
\* book is what was scanned, and what was scanned is the whole slice.
LEMMA RefinesScanEnds ==
  ASSUME IndInv, NEW e \in Entries, ScanEnds(e)
  PROVE  OFA!CloseUnsold(e) \/ \E w \in Bids : OFA!CloseSold(e, w)
<1> DEFINE p == IF NoWinner(e) THEN "cleanup" ELSE "emit"
<1>1. /\ found[e] = e /\ bids[e] \in Seq(Bids) /\ Len(bids[e]) \in Nat
      /\ idx[e] \in Nat /\ ChosenSoFar(e) /\ idx[e] <= Len(bids[e])
  BY LenProperties DEF IndInv, ScanInv, ScanEnds, TypeInv, TypeOK, ChosenSoFar
<1>2. idx[e] = Len(bids[e])
  BY <1>1, SMTT(60) DEF ScanEnds, HasNext
<1>3. /\ pc[e] = "scan" /\ pc' = [pc EXCEPT ![e] = p]
      /\ UNCHANGED <<intent, bids, bid, idx, winner, voucherCh>>
  BY DEF ScanEnds, bidVars
<1>4. \A x \in Entries : pc'[x] = IF x = e THEN p ELSE pc[x]
  BY <1>3 DEF IndInv, TypeInv, TypeOK
<1>5. /\ ~Decided(e) /\ Decided(e)'
      /\ \A x \in Entries : x # e => (Decided(x)' <=> Decided(x))
  BY <1>3, <1>4 DEF Decided
<1>6. Books' = Books
  <2>1. ASSUME NEW x \in Entries PROVE Book(x)' = Book(x)
    <3>1. (IF Decided(x) THEN idx[x] ELSE Len(bids[x]))'
            = IF Decided(x) THEN idx[x] ELSE Len(bids[x])
      BY <1>2, <1>3, <1>5
    <3> QED
      BY <1>3, <3>1 DEF Book
  <2> QED
    BY <2>1 DEF Books
<1>7. Offer' = Offer
  <2>1. PICK B \in SUBSET Bids : B = {}
    OBVIOUS
  <2> QED
    BY <1>3, <1>6, <2>1, OfferKept
<1>8. /\ Phase' = [Phase EXCEPT ![e] = IF NoWinner(e) THEN "issued" ELSE "closed"]
      /\ Phase[e] = "open"
  <2>1. \A x \in Entries : Phase'[x] =
          IF x # e THEN Phase[x] ELSE IF NoWinner(e) THEN "issued" ELSE "closed"
    BY <1>3, <1>4 DEF Phase, PhaseOf, PCs, IndInv, TypeInv, TypeOK
  <2>2. Phase = [x \in Entries |-> Phase[x]] /\ Phase' = [x \in Entries |-> Phase'[x]]
    BY DEF Phase
  <2>3. Phase[e] = "open"
    BY <1>3 DEF Phase, PhaseOf
  <2> QED
    BY <2>1, <2>2, <2>3
<1>9. Verdict' = [Verdict EXCEPT ![e] = winner[e]] /\ Verdict[e] = Nil
  BY <1>3, <1>5 DEF Verdict
<1>10. Book(e) = {bids[e][k] : k \in 1..idx[e]}
  BY <1>2, <1>5 DEF Book
<1>11. CASE winner[e] = Nil
  <2>1. Phase' = [Phase EXCEPT ![e] = "issued"]
    BY <1>8, <1>11 DEF NoWinner
  <2>2. Books[e] = {}
    BY <1>1, <1>10, <1>11, SMTT(60) DEF Books, ChosenSoFar
  <2>3. Verdict' = Verdict
    BY <1>9, <1>11 DEF Verdict
  <2>4. OFA!CloseUnsold(e)
    BY <1>3, <1>6, <1>7, <1>8, <2>1, <2>2, <2>3
       DEF OFA!CloseUnsold, Phase, Books, Offer, Verdict, InABook
  <2> QED
    BY <2>4
<1>12. CASE winner[e] # Nil
  <2>1. Phase' = [Phase EXCEPT ![e] = "closed"]
    BY <1>8, <1>12 DEF NoWinner
  <2>2. PICK k \in 1..idx[e] :
          /\ bids[e][k] = winner[e]
          /\ \A j \in 1..idx[e] : ~Outranks(bid[bids[e][j]], bid[winner[e]])
    BY <1>1, <1>12 DEF ChosenSoFar, FirstBest
  <2>3. winner[e] \in Books[e] /\ winner[e] \in Bids
    BY <1>10, <2>2, BookFacts, SMTT(60) DEF Books
  <2>4. ASSUME NEW b \in Books[e]
        PROVE  /\ b \in Bids /\ Offer[b] = bid[b]
               /\ ~Outranks(bid[b], bid[winner[e]])
    <3>1. b \in Book(e)
      BY <2>4 DEF Books
    <3>2. b \in Bids /\ InABook(b)
      BY <3>1, BookFacts DEF InABook
    <3>3. PICK j \in 1..idx[e] : b = bids[e][j]
      BY <1>10, <3>1
    <3> QED
      BY <2>2, <3>2, <3>3 DEF Offer
  <2>5. Offer[winner[e]] = bid[winner[e]]
    BY <2>3, <2>4
  <2>6. \A b \in Books[e] : ~OFA!Better(Offer[b], Offer[winner[e]])
    BY <2>4, <2>5 DEF OFA!Better, Outranks
  <2>7. PICK w \in Bids : w = winner[e]
    BY <2>3
  <2>8. OFA!CloseSold(e, w)
    BY <1>3, <1>6, <1>7, <1>8, <1>9, <2>1, <2>3, <2>6, <2>7
       DEF OFA!CloseSold, Phase, Books, Offer, Verdict, InABook
  <2> QED
    BY <2>8
<1> QED
  BY <1>11, <1>12

\* Every step of runAuction but the return of selectWinner is invisible, or
\* issues the verdict, or releases the identifier.
LEMMA RefinesGoroutine ==
  ASSUME IndInv, NEW e \in Entries,
         TimerFires(e) \/ LookupEntry(e) \/ LockEntry(e) \/ ScanBid(e)
           \/ EmitVoucher(e) \/ Cleanup(e)
  PROVE  Invisible \/ OFA!Issue(e) \/ OFA!Release(e)
<1> USE DEF PCs
<1>0. /\ pc \in [Entries -> PCs] /\ Phase \in [Entries -> {PhaseOf(q) : q \in PCs}]
      /\ \A x \in Entries : Phase[x] = PhaseOf(pc[x])
  BY DEF IndInv, TypeInv, TypeOK, Phase
<1>1. ASSUME TimerFires(e) \/ LookupEntry(e) \/ LockEntry(e) PROVE Invisible
  <2>1. PICK p \in {"expired", "located", "scan"} :
          /\ pc' = [pc EXCEPT ![e] = p]
          /\ UNCHANGED <<intent, bids, bid, idx, winner, voucherCh>>
          /\ pc[e] \in {"timer", "expired", "located"}
    <3>1. CASE LookupEntry(e)
      <4>1. intent[e].ID \in IntentIDs
        BY <3>1, IntentsAssumption DEF LookupEntry, IndInv, TypeInv, NoNilDereference
      <4>2. auctions[intent[e].ID] = e
        BY <3>1, <4>1
           DEF LookupEntry, IndInv, RegistryMatchesGoroutines, Running
      <4> QED
        BY <3>1, <4>2, NilAssumption DEF LookupEntry, bidVars
    <3>2. CASE TimerFires(e)
      BY <3>2 DEF TimerFires, bidVars
    <3>3. CASE LockEntry(e)
      BY <3>3 DEF LockEntry, bidVars
    <3> QED
      BY <1>1, <3>1, <3>2, <3>3
  <2>2. /\ Phase' = [Phase EXCEPT ![e] = PhaseOf(p)]
        /\ Books' = Books /\ Offer' = Offer /\ Verdict' = Verdict
    <3>1. ~Decided(e) /\ p \in PCs
      BY <2>1 DEF Decided
    <3> QED
      BY <2>1, <3>1, GoroutineMoves
  <2>3. PhaseOf(p) = Phase[e]
    BY <1>0, <2>1 DEF PhaseOf
  <2>4. Phase' = Phase
    BY <1>0, <2>2, <2>3
  <2> QED
    BY <2>1, <2>2, <2>4 DEF Invisible
<1>2. ASSUME ScanBid(e) PROVE Invisible
  <2>1. /\ pc[e] = "scan" /\ UNCHANGED <<pc, intent, bids, bid, voucherCh>>
        /\ \A x \in Entries : x # e => idx'[x] = idx[x] /\ winner'[x] = winner[x]
    BY <1>2 DEF ScanBid, bidVars, IndInv, TypeInv, TypeOK
  <2>2. pc' = [pc EXCEPT ![e] = "scan"] /\ ~Decided(e)
    BY <1>0, <2>1 DEF Decided
  <2>3. \A x \in Entries : Decided(x)' => idx'[x] = idx[x] /\ winner'[x] = winner[x]
    BY <2>1, <2>2 DEF Decided
  <2>4. Books' = Books /\ Offer' = Offer /\ Verdict' = Verdict
    BY <2>1, <2>2, <2>3, GoroutineMoves
  <2>5. Phase' = Phase
    BY <2>1 DEF Phase
  <2> QED
    BY <2>1, <2>4, <2>5 DEF Invisible
<1>3. ASSUME EmitVoucher(e) PROVE OFA!Issue(e)
  <2>1. /\ pc[e] = "emit" /\ pc' = [pc EXCEPT ![e] = "cleanup"]
        /\ UNCHANGED <<intent, bids, bid, idx, winner>>
    BY <1>3 DEF EmitVoucher, bidVars
  <2>2. Decided(e)
    BY <2>1 DEF Decided
  <2>3. /\ Phase' = [Phase EXCEPT ![e] = PhaseOf("cleanup")]
        /\ Books' = Books /\ Offer' = Offer /\ Verdict' = Verdict
    BY <2>1, <2>2, GoroutineMoves
  <2>4. Phase[e] = "closed" /\ PhaseOf("cleanup") = "issued"
    BY <1>0, <2>1 DEF PhaseOf
  <2>5. Verdict[e] = winner[e]
    BY <2>2 DEF Verdict
  <2>6. \/ voucherCh' = Append(voucherCh, [Intent |-> intent[e], WinningBid |-> Verdict[e]])
        \/ UNCHANGED voucherCh
    BY <1>3, <2>5 DEF EmitVoucher, VoucherOf
  <2> QED
    BY <2>1, <2>3, <2>4, <2>6 DEF OFA!Issue, Phase, Books, Offer, Verdict, InABook
<1>4. ASSUME Cleanup(e) PROVE OFA!Release(e)
  <2>1. /\ pc[e] = "cleanup" /\ pc' = [pc EXCEPT ![e] = "done"]
        /\ UNCHANGED <<intent, bids, bid, idx, winner, voucherCh>>
    BY <1>4 DEF Cleanup, CleanupDue, bidVars
  <2>2. Decided(e)
    BY <2>1 DEF Decided
  <2>3. /\ Phase' = [Phase EXCEPT ![e] = PhaseOf("done")]
        /\ Books' = Books /\ Offer' = Offer /\ Verdict' = Verdict
    BY <2>1, <2>2, GoroutineMoves
  <2>4. Phase[e] = "issued" /\ PhaseOf("done") = "released"
    BY <1>0, <2>1 DEF PhaseOf
  <2> QED
    BY <2>1, <2>3, <2>4 DEF OFA!Release, Phase, Books, Offer, Verdict, InABook
<1> QED
  BY <1>1, <1>2, <1>3, <1>4

\* SubmitBid up to the end of its lookup is invisible, because a bid that is not
\* appended yet is in no book.
LEMMA RefinesSubmit ==
  ASSUME IndInv, NEW b \in Bids, NEW f \in BidForms, SubmitBid(b, f)
  PROVE  Invisible
<1>1. /\ call[b] = "idle" /\ UNCHANGED <<intent, pc, bids, idx, winner, voucherCh>>
      /\ \A c \in Bids \ {b} : bid'[c] = bid[c]
  BY DEF SubmitBid, auctionVars, IndInv, TypeInv, TypeOK
<1>2. \A e \in Entries : Book(e)' = Book(e)
  BY <1>1 DEF Book, Decided
<1>3. Books' = Books /\ Phase' = Phase /\ Verdict' = Verdict
  BY <1>1, <1>2 DEF Books, Phase, Verdict, Decided
<1>4. Offer' = Offer
  <2>1. PICK B \in SUBSET Bids : B = {b}
    OBVIOUS
  <2> QED
    BY <1>1, <1>3, <2>1, OfferKept
<1> QED
  BY <1>1, <1>3, <1>4 DEF Invisible

\* An append before selectWinner has returned enters the bid in the book; a later
\* one lands beyond what was scanned and is invisible.
LEMMA RefinesAppend ==
  ASSUME IndInv, NEW b \in Bids, AppendBid(b)
  PROVE  Invisible \/ \E e \in Entries, f \in BidForms : OFA!Enter(e, b, f)
<1>0. PICK t \in Entries : t = target[b]
  BY DEF AppendBid, IndInv, TypeInv, TypeOK, NoNilDereference
<1>1. /\ bids[t] \in Seq(Bids) /\ bid[b] \in BidForms
      /\ pc[t] # "free" /\ bid[b].IntentID = intent[t].ID
      /\ bid[b].AmountOut # Nil /\ bid[b].GasPrice # Nil /\ call[b] = "located"
  BY <1>0 DEF AppendBid, IndInv, BidInv, CallsAimRight, TypeInv, TypeOK, NoNilDereference
<1>2. /\ bids' = [bids EXCEPT ![t] = Append(bids[t], b)]
      /\ UNCHANGED <<intent, pc, idx, winner, bid, voucherCh>>
  BY <1>0 DEF AppendBid, auctionVars
<1>3. Phase' = Phase /\ Verdict' = Verdict
  BY <1>2 DEF Phase, Verdict, Decided
<1>4. bids'[t] = Append(bids[t], b) /\ \A x \in Entries : x # t => bids'[x] = bids[x]
  BY <1>1, <1>2 DEF IndInv, TypeInv, TypeOK
<1>5. \A x \in Entries : x # t => Book(x)' = Book(x)
  BY <1>2, <1>4, SMTT(60) DEF Book, Decided
<1>6. /\ Len(bids[t]) \in Nat /\ idx[t] \in Nat /\ idx[t] <= Len(bids[t])
      /\ Len(bids'[t]) = Len(bids[t]) + 1
      /\ bids'[t][Len(bids[t]) + 1] = b
      /\ \A j \in 1..Len(bids[t]) : bids'[t][j] = bids[t][j]
  <2>1. Len(bids[t]) \in Nat /\ idx[t] \in Nat /\ idx[t] <= Len(bids[t])
    BY <1>1, LenProperties DEF IndInv, ScanInv, ChosenSoFar, TypeInv, TypeOK
  <2> QED
    BY <1>1, <1>4, <2>1, AppendProperties, SMTT(60)
<1>7. CASE Decided(t)
  <2>1. Decided(t)'
    BY <1>2, <1>7 DEF Decided
  <2>2. Book(t) = {bids[t][k] : k \in 1..idx[t]}
    BY <1>7 DEF Book
  <2>3. Book(t)' = {bids'[t][k] : k \in 1..idx[t]}
    BY <1>2, <2>1 DEF Book
  <2>4. \A k \in 1..idx[t] : bids'[t][k] = bids[t][k]
    BY <1>6, SMTT(60)
  <2>5. Books' = Books
    <3>1. Book(t)' = Book(t)
      BY <2>2, <2>3, <2>4
    <3> QED
      BY <1>5, <3>1 DEF Books
  <2>6. PICK B \in SUBSET Bids : B = {}
    OBVIOUS
  <2>7. Offer' = Offer
    BY <1>2, <2>5, <2>6, OfferKept
  <2> QED
    BY <1>2, <1>3, <2>5, <2>7 DEF Invisible
<1>8. CASE ~Decided(t)
  <2>1. ~Decided(t)'
    BY <1>2, <1>8 DEF Decided
  <2>2. Book(t) = {bids[t][k] : k \in 1..Len(bids[t])}
    BY <1>8 DEF Book
  <2>3. Book(t)' = {bids'[t][k] : k \in 1..(Len(bids[t]) + 1)}
    BY <1>6, <2>1 DEF Book
  <2>4. Book(t)' = Book(t) \cup {b}
    <3>1. ASSUME NEW c PROVE c \in Book(t)' <=> c \in Book(t) \/ c = b
      <4>1. c \in Book(t) => c \in Book(t)'
        BY <1>6, <2>2, <2>3, SMTT(60)
      <4>2. b \in Book(t)'
        BY <1>6, <2>3, SMTT(60)
      <4>3. ASSUME NEW k \in 1..(Len(bids[t]) + 1), c = bids'[t][k]
            PROVE  c \in Book(t) \/ c = b
        <5>1. k \in 1..Len(bids[t]) \/ k = Len(bids[t]) + 1
          BY <1>6, <4>3, SMTT(60)
        <5> QED
          BY <1>6, <2>2, <4>3, <5>1
      <4> QED
        BY <2>3, <4>1, <4>2, <4>3
    <3> QED
      BY <3>1
  <2>5. Books' = [Books EXCEPT ![t] = Books[t] \cup {b}]
    BY <1>1, <1>5, <2>4 DEF Books
  <2>6. ~InABook(b)
    BY <1>1, BookFacts DEF InABook
  <2>7. \A c \in Bids : InABook(c)' <=> c = b \/ InABook(c)
    <3>1. \A x \in Entries : Book(x)' = IF x = t THEN Book(x) \cup {b} ELSE Book(x)
      BY <1>5, <2>4
    <3> QED
      BY <1>1, <3>1 DEF InABook
  <2>8. Offer' = [Offer EXCEPT ![b] = bid[b]] /\ Offer[b] = Nil
    BY <1>2, <2>6, <2>7 DEF Offer
  <2>9. Phase[t] = "open"
    BY <1>1, <1>8 DEF Phase, PhaseOf, Decided, IndInv, TypeInv, TypeOK, PCs
  <2>10. PICK f \in BidForms : f = bid[b]
    BY <1>1
  <2>11. OFA!Enter(t, b, f)
    BY <1>1, <1>2, <1>3, <2>5, <2>8, <2>9, <2>10
       DEF OFA!Enter, Phase, Books, Offer, Verdict, InABook
  <2> QED
    BY <2>11
<1> QED
  BY <1>7, <1>8

\* Every step of the engine is a step of the abstract auction or invisible.
LEMMA RefinesStep == IndInv /\ [Next]_vars => [OFA!Next]_(OFA!vars)
<1> SUFFICES ASSUME IndInv, [Next]_vars PROVE [OFA!Next]_(OFA!vars)
  OBVIOUS
<1>0. Invisible => UNCHANGED OFA!vars
  BY DEF Invisible, OFA!vars, Phase, Books, Offer, Verdict, InABook
<1>1. ASSUME NEW e \in Entries, NEW in \in Intents, StartAuction(e, in)
      PROVE  OFA!Next
  BY <1>1, RefinesStart DEF OFA!Next
<1>2. ASSUME NEW e \in Entries, RunAuction(e) PROVE [OFA!Next]_(OFA!vars)
  <2>1. CASE ScanEnds(e)
    BY <2>1, RefinesScanEnds DEF OFA!Next
  <2>2. CASE ~ScanEnds(e)
    <3>1. Invisible \/ OFA!Issue(e) \/ OFA!Release(e)
      BY <1>2, <2>2, RefinesGoroutine DEF RunAuction
    <3> QED
      BY <1>0, <3>1 DEF OFA!Next
  <2> QED
    BY <2>1, <2>2
<1>3. ASSUME NEW b \in Bids, NEW f \in BidForms, SubmitBid(b, f)
      PROVE  UNCHANGED OFA!vars
  BY <1>0, <1>3, RefinesSubmit
<1>4. ASSUME NEW b \in Bids, AppendBid(b) PROVE [OFA!Next]_(OFA!vars)
  BY <1>0, <1>4, RefinesAppend DEF OFA!Next
<1>5. CASE ReceiveVoucher
  <2>1. /\ voucherCh # <<>> /\ voucherCh' = Tail(voucherCh)
        /\ UNCHANGED <<intent, pc, idx, winner, bids, bid>>
    BY <1>5 DEF ReceiveVoucher, auctionVars, bidVars
  <2>2. \A e \in Entries : Book(e)' = Book(e) /\ (Decided(e)' <=> Decided(e))
    BY <2>1 DEF Book, Decided
  <2>3. UNCHANGED <<Phase, Books, Offer, Verdict>>
    BY <2>1, <2>2 DEF Phase, Books, Offer, InABook, Verdict
  <2>4. OFA!Consume
    BY <2>1, <2>3 DEF OFA!Consume, Phase, Books, Offer, Verdict, InABook
  <2> QED
    BY <2>4 DEF OFA!Next
<1>6. CASE UNCHANGED vars
  <2>1. UNCHANGED <<intent, pc, idx, winner, bids, bid, voucherCh>>
    BY <1>6 DEF vars
  <2>2. \A e \in Entries : Book(e)' = Book(e) /\ (Decided(e)' <=> Decided(e))
    BY <2>1 DEF Book, Decided
  <2>3. Invisible
    BY <2>1, <2>2 DEF Invisible, Phase, Books, Offer, InABook, Verdict
  <2> QED
    BY <1>0, <2>3
<1> QED
  BY <1>1, <1>2, <1>3, <1>4, <1>5, <1>6 DEF Next

\* Locks, entry pointers, the loop of selectWinner and late appends never show:
\* every behaviour of the engine is one of the abstract auction, for any number
\* of identifiers, auctions and concurrent calls of SubmitBid.
THEOREM EngineImplementsAuction == Spec => ImplementsAuction
BY RefinesInit, RefinesStep, IndInvAlways, PTL DEF Spec, ImplementsAuction, OFA!Spec

==============================================================================
