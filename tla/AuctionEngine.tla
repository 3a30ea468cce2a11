---------------------------- MODULE AuctionEngine ----------------------------
(***************************************************************************)
(* The auction engine of the relayer (internal/auction).                   *)
(*                                                                         *)
(* The engine keeps a map from intent identifiers to heap-allocated        *)
(* auction entries.  Every entry is governed by one goroutine, runAuction, *)
(* which waits for a timer, scans the bids of the entry for a winner,      *)
(* offers a voucher to a bounded channel without blocking, and deletes the *)
(* map entry.  Bids arrive through SubmitBid, which any number of          *)
(* goroutines may call at once.  A call obtains the entry POINTER under    *)
(* Engine.mu, releases it, and only then takes the mutex of the entry and  *)
(* appends, so between its two steps the auction may close, be cleaned up, *)
(* and be started again for the same identifier.                           *)
(*                                                                         *)
(* Granularity: a critical section that touches Engine.mu is one map       *)
(* access, so it is one step; the append under auctionEntry.mu is one step *)
(* as well.  The scan of selectWinner holds auctionEntry.mu across a loop, *)
(* so it is one step per iteration and excludes appends while it runs.     *)
(***************************************************************************)
EXTENDS Integers, Sequences

CONSTANTS
  IntentIDs,    \* core.IntentID
  Intents,      \* the core.Intent values offered to StartAuction
  BidForms,     \* the contents a core.Bid may have when it is submitted
  Bids,         \* *core.Bid pointers: one SubmitBid call for each
  Entries,      \* *auctionEntry pointers: bounds the auctions of a behaviour
  VoucherBuf,   \* capacity of voucherCh
  Nil           \* the nil pointer

ASSUME IntentsAssumption ==
  Intents \subseteq [ID : IntentIDs, MinAmountOut : Int]

ASSUME BidFormsAssumption ==
  BidForms \subseteq [IntentID : IntentIDs, AmountOut : Int \cup {Nil},
                      GasPrice : Int \cup {Nil}]

ASSUME NilAssumption ==
  Nil \notin Int \cup Intents \cup BidForms \cup Bids \cup Entries

ASSUME VoucherBufAssumption == VoucherBuf \in Nat \ {0}

VARIABLES
  auctions,     \* Engine.auctions: the entry registered for an identifier
  intent,       \* auctionEntry.intent, also the argument of runAuction
  bids,         \* auctionEntry.bids
  pc,           \* where the runAuction goroutine of an entry is
  found,        \* the entry pointer selectWinner looked up
  idx,          \* how many bids the scan of selectWinner has visited
  winner,       \* the local variable winner of selectWinner and runAuction
  outcome,      \* history: how the auction ended
  bid,          \* the contents of a bid, once it is submitted
  call,         \* where the SubmitBid call of a bid is
  target,       \* the entry pointer submitBidLocked looked up
  inTime,       \* history: bids appended while the auction timer was running
  voucherCh     \* Engine.voucherCh

auctionVars == <<intent, pc, found, idx, winner, outcome>>
bidVars == <<bid, call, target, inTime>>
vars == <<auctions, intent, bids, pc, found, idx, winner, outcome,
          bid, call, target, inTime, voucherCh>>

Voucher == [Intent : Intents, WinningBid : Bids]

\* The states of a runAuction goroutine: its entry is not allocated yet; it
\* waits on the timer; the timer fired; selectWinner holds the pointer but not
\* the lock; it scans under the lock; the winner is known; the deferred Cleanup
\* is due; the goroutine has returned.
PCs == {"free", "timer", "expired", "located", "scan", "emit", "cleanup", "done"}

Running == PCs \ {"free", "done"}

Outcomes == {"none", "emitted", "dropped", "nobids"}

\* Whether selectWinner has returned in the goroutine of entry e.
Decided(e) == pc[e] \in {"emit", "cleanup", "done"}

\* auctionEntry.mu is held across steps only by a scan of the entry.
Locked(x) == \E e \in Entries : pc[e] = "scan" /\ found[e] = x

\* The types of the map, of the goroutines, of the calls and of the channel.
TypeOK ==
  /\ auctions \in [IntentIDs -> Entries \cup {Nil}]
  /\ intent \in [Entries -> Intents \cup {Nil}]
  /\ bids \in [Entries -> Seq(Bids)]
  /\ pc \in [Entries -> PCs]
  /\ found \in [Entries -> Entries \cup {Nil}]
  /\ idx \in [Entries -> Nat]
  /\ winner \in [Entries -> Bids \cup {Nil}]
  /\ outcome \in [Entries -> Outcomes]
  /\ bid \in [Bids -> BidForms \cup {Nil}]
  /\ call \in [Bids -> {"idle", "located", "accepted", "rejected"}]
  /\ target \in [Bids -> Entries \cup {Nil}]
  /\ inTime \subseteq Bids
  /\ voucherCh \in Seq(Voucher)

\* NewEngine: an empty map and an empty channel.
Init ==
  /\ auctions = [i \in IntentIDs |-> Nil]
  /\ intent = [e \in Entries |-> Nil]
  /\ bids = [e \in Entries |-> <<>>]
  /\ pc = [e \in Entries |-> "free"]
  /\ found = [e \in Entries |-> Nil]
  /\ idx = [e \in Entries |-> 0]
  /\ winner = [e \in Entries |-> Nil]
  /\ outcome = [e \in Entries |-> "none"]
  /\ bid = [b \in Bids |-> Nil]
  /\ call = [b \in Bids |-> "idle"]
  /\ target = [b \in Bids |-> Nil]
  /\ inTime = {}
  /\ voucherCh = <<>>

------------------------------------------------------------------------------
(***************************************************************************)
(* An operator named Bad... is a deliberately wrong variant of the         *)
(* definition that follows it.  No specification uses one; each records a  *)
(* mistake in the code that a property of this module would expose.        *)
(***************************************************************************)

BadIsActive(id) == FALSE

\* The existence check of StartAuction.
IsActive(id) == auctions[id] # Nil

(***************************************************************************)
(* StartAuction: under Engine.mu, refuse an identifier that is in the map, *)
(* otherwise allocate an entry, register it and start its goroutine.  The  *)
(* refusal changes nothing and is left to stuttering.                      *)
(***************************************************************************)
StartAuction(e, in) ==
  /\ ~IsActive(in.ID)
  /\ pc[e] = "free"
  /\ auctions' = [auctions EXCEPT ![in.ID] = e]
  /\ intent' = [intent EXCEPT ![e] = in]
  /\ pc' = [pc EXCEPT ![e] = "timer"]
  /\ UNCHANGED <<bids, found, idx, winner, outcome, bidVars, voucherCh>>

\* runAuction: the timer fires.
TimerFires(e) ==
  /\ pc[e] = "timer"
  /\ pc' = [pc EXCEPT ![e] = "expired"]
  /\ UNCHANGED <<auctions, intent, bids, found, idx, winner, outcome, bidVars,
                 voucherCh>>

\* selectWinner: look the entry up by identifier under Engine.mu.  A missing
\* entry means no winner, and runAuction returns to its deferred Cleanup.
LookupEntry(e) ==
  /\ pc[e] = "expired"
  /\ LET x == auctions[intent[e].ID]
     IN  /\ found' = [found EXCEPT ![e] = x]
         /\ pc' = [pc EXCEPT ![e] = IF x = Nil THEN "cleanup" ELSE "located"]
         /\ outcome' = [outcome EXCEPT ![e] = IF x = Nil THEN "nobids" ELSE @]
  /\ UNCHANGED <<auctions, intent, bids, idx, winner, bidVars, voucherCh>>

\* selectWinner: entry.mu.Lock().
LockEntry(e) ==
  /\ pc[e] = "located"
  /\ ~Locked(found[e])
  /\ pc' = [pc EXCEPT ![e] = "scan"]
  /\ UNCHANGED <<auctions, intent, bids, found, idx, winner, outcome, bidVars,
                 voucherCh>>

BadBeats(f, g) ==
  \/ f.AmountOut > g.AmountOut
  \/ f.AmountOut = g.AmountOut /\ f.GasPrice >= g.GasPrice

\* The comparison of selectWinner: a higher AmountOut, or the same AmountOut
\* and a higher GasPrice.
Beats(f, g) ==
  \/ f.AmountOut > g.AmountOut
  \/ f.AmountOut = g.AmountOut /\ f.GasPrice > g.GasPrice

BadChoose(w, b) == IF w = Nil \/ Beats(bid[w], bid[b]) THEN b ELSE w

\* The body of the loop of selectWinner: the winner after visiting b.
Choose(w, b) == IF w = Nil \/ Beats(bid[b], bid[w]) THEN b ELSE w

BadHasNext(e) == idx[e] + 1 < Len(bids[found[e]])

\* The condition of the loop of selectWinner.
HasNext(e) == idx[e] < Len(bids[found[e]])

\* selectWinner: one iteration of the loop over entry.bids.
ScanBid(e) ==
  /\ pc[e] = "scan"
  /\ HasNext(e)
  /\ idx' = [idx EXCEPT ![e] = @ + 1]
  /\ winner' = [winner EXCEPT ![e] = Choose(@, bids[found[e]][idx[e] + 1])]
  /\ UNCHANGED <<auctions, intent, bids, pc, found, outcome, bidVars, voucherCh>>

BadNoWinner(e) == FALSE

\* The nil test of runAuction.
NoWinner(e) == winner[e] = Nil

\* selectWinner returns, releasing entry.mu; without a winner runAuction
\* returns to its deferred Cleanup.
ScanEnds(e) ==
  /\ pc[e] = "scan"
  /\ ~HasNext(e)
  /\ pc' = [pc EXCEPT ![e] = IF NoWinner(e) THEN "cleanup" ELSE "emit"]
  /\ outcome' = [outcome EXCEPT ![e] = IF NoWinner(e) THEN "nobids" ELSE @]
  /\ UNCHANGED <<auctions, intent, bids, found, idx, winner, bidVars, voucherCh>>

BadVoucherOf(e) ==
  [Intent |-> intent[e], WinningBid |-> bids[e][Len(bids[e])]]

\* The voucher runAuction builds.
VoucherOf(e) == [Intent |-> intent[e], WinningBid |-> winner[e]]

BadChannelFull == FALSE

\* When the select statement of runAuction takes its default branch.
ChannelFull == Len(voucherCh) >= VoucherBuf

\* runAuction: the non-blocking send of the voucher.
EmitVoucher(e) ==
  /\ pc[e] = "emit"
  /\ pc' = [pc EXCEPT ![e] = "cleanup"]
  /\ \/ /\ Len(voucherCh) < VoucherBuf
        /\ voucherCh' = Append(voucherCh, VoucherOf(e))
        /\ outcome' = [outcome EXCEPT ![e] = "emitted"]
     \/ /\ ChannelFull
        /\ outcome' = [outcome EXCEPT ![e] = "dropped"]
        /\ UNCHANGED voucherCh
  /\ UNCHANGED <<auctions, intent, bids, found, idx, winner, bidVars>>

BadCleanupDue(e) == pc[e] \in {"expired", "cleanup"}

\* runAuction is returning, so its deferred calls run.
CleanupDue(e) == pc[e] = "cleanup"

\* Cleanup, deferred by runAuction: delete by identifier under Engine.mu.
Cleanup(e) ==
  /\ CleanupDue(e)
  /\ auctions' = [auctions EXCEPT ![intent[e].ID] = Nil]
  /\ pc' = [pc EXCEPT ![e] = "done"]
  /\ UNCHANGED <<intent, bids, found, idx, winner, outcome, bidVars, voucherCh>>

------------------------------------------------------------------------------
BadHasValues(f) == f.AmountOut # Nil

\* The nil checks of SubmitBid.
HasValues(f) == f.AmountOut # Nil /\ f.GasPrice # Nil

\* SubmitBid up to the end of the lookup of submitBidLocked under Engine.mu.
\* A nil amount or price, or an identifier without an entry, is an error.
SubmitBid(b, f) ==
  /\ call[b] = "idle"
  /\ bid' = [bid EXCEPT ![b] = f]
  /\ \/ /\ ~HasValues(f) \/ auctions[f.IntentID] = Nil
        /\ call' = [call EXCEPT ![b] = "rejected"]
        /\ UNCHANGED target
     \/ /\ HasValues(f) /\ auctions[f.IntentID] # Nil
        /\ call' = [call EXCEPT ![b] = "located"]
        /\ target' = [target EXCEPT ![b] = auctions[f.IntentID]]
  /\ UNCHANGED <<auctions, auctionVars, bids, inTime, voucherCh>>

\* submitBidLocked: append under the mutex of the entry looked up before,
\* whatever has become of that entry meanwhile; SubmitBid then returns nil.
AppendBid(b) ==
  /\ call[b] = "located"
  /\ ~Locked(target[b])
  /\ bids' = [bids EXCEPT ![target[b]] = Append(@, b)]
  /\ call' = [call EXCEPT ![b] = "accepted"]
  /\ inTime' = IF pc[target[b]] = "timer" THEN inTime \cup {b} ELSE inTime
  /\ UNCHANGED <<auctions, auctionVars, bid, target, voucherCh>>

\* The consumer of Vouchers() takes the oldest voucher.
ReceiveVoucher ==
  /\ voucherCh # <<>>
  /\ voucherCh' = Tail(voucherCh)
  /\ UNCHANGED <<auctions, auctionVars, bids, bidVars>>

RunAuction(e) ==
  \/ TimerFires(e)
  \/ LookupEntry(e)
  \/ LockEntry(e)
  \/ ScanBid(e)
  \/ ScanEnds(e)
  \/ EmitVoucher(e)
  \/ Cleanup(e)

Next ==
  \/ \E e \in Entries, in \in Intents : StartAuction(e, in)
  \/ \E e \in Entries : RunAuction(e)
  \/ \E b \in Bids, f \in BidForms : SubmitBid(b, f)
  \/ \E b \in Bids : AppendBid(b)
  \/ ReceiveVoucher

Spec == Init /\ [][Next]_vars

\* A started goroutine keeps running and its timer fires; a started SubmitBid
\* call keeps running.  Nothing obliges the consumer to receive.
Fairness ==
  /\ \A e \in Entries : WF_vars(RunAuction(e))
  /\ \A b \in Bids : WF_vars(AppendBid(b))

FairSpec == Spec /\ Fairness

------------------------------------------------------------------------------
(***************************************************************************)
(* Correctness.                                                            *)
(***************************************************************************)

\* An identifier is in the map exactly while the goroutine of the entry it
\* maps to has not finished its deferred Cleanup.  So StartAuction never runs
\* two auctions for one identifier, selectWinner and Cleanup, which go by
\* identifier, always meet the entry of their own goroutine, and no entry is
\* leaked, although identifiers are reused.
RegistryMatchesGoroutines ==
  \A i \in IntentIDs, e \in Entries :
    auctions[i] = e <=> pc[e] \in Running /\ intent[e].ID = i

\* Every bid in the slice of an entry was submitted for the intent of that
\* entry, carries the amount and the price selectWinner dereferences, and is
\* there once, although submitBidLocked appends through a pointer it read
\* before releasing Engine.mu.
BidsInTheirAuction ==
  \A e \in Entries : \A k \in 1..Len(bids[e]) :
    LET b == bids[e][k]
    IN  /\ call[b] = "accepted" /\ target[b] = e
        /\ bid[b].IntentID = intent[e].ID
        /\ bid[b].AmountOut # Nil /\ bid[b].GasPrice # Nil
        /\ \A j \in 1..Len(bids[e]) : bids[e][j] = b => j = k

\* The order of offers, best amount first, then best price.
Outranks(f, g) ==
  \/ f.AmountOut > g.AmountOut
  \/ f.AmountOut = g.AmountOut /\ f.GasPrice > g.GasPrice

\* b is the first of the best among the first n bids of s.
FirstBest(b, s, n) ==
  \E k \in 1..n :
    /\ s[k] = b
    /\ \A j \in 1..n : ~Outranks(bid[s[j]], bid[b])
    /\ \A j \in 1..(k - 1) : Outranks(bid[b], bid[s[j]])

\* What selectWinner returns for an auction is the earliest among the best of
\* the bids it scanned, and nil only if there were none.
WinnerIsFirstBest ==
  \A e \in Entries : Decided(e) =>
    IF winner[e] = Nil THEN idx[e] = 0 ELSE FirstBest(winner[e], bids[e], idx[e])

\* Every voucher waiting in voucherCh pairs an intent with the winner of an
\* auction for that very intent that reported success, and no auction has two
\* vouchers there.
VouchersAreWinners ==
  \A k \in 1..Len(voucherCh) :
    /\ \E e \in Entries :
         /\ outcome[e] = "emitted"
         /\ voucherCh[k].Intent = intent[e]
         /\ voucherCh[k].WinningBid = winner[e]
    /\ \A j \in 1..Len(voucherCh) :
         voucherCh[j].WinningBid = voucherCh[k].WinningBid => j = k

\* A bid that SubmitBid appended while the auction timer was still running is
\* taken into account: its auction ends with a winner, which it does not beat.
InTimeBidsCount ==
  \A b \in inTime :
    LET e == target[b]
    IN  Decided(e) => winner[e] # Nil /\ ~Outranks(bid[b], bid[winner[e]])

\* An entry leaves the map only once its auction has an outcome, and no
\* StartAuction ever overwrites a registered entry.
EntryHeldUntilOutcome ==
  [][\A i \in IntentIDs :
       auctions[i] # Nil /\ auctions'[i] # auctions[i] =>
         auctions'[i] = Nil /\ outcome[auctions[i]] # "none"]_vars

\* Every auction that is started ends with its entry out of the map, even if
\* nobody ever receives from voucherCh, because the send does not block.
AuctionsClose ==
  \A e \in Entries :
    pc[e] = "timer" ~> pc[e] = "done" /\ \A i \in IntentIDs : auctions[i] # e

\* docs/API.md:143, "Late bids (after auction timer expires) are rejected", and
\* the comment of SubmitBid: a bid SubmitBid accepted was in time, or at least
\* took part in the selection.
AcceptedBidsCount ==
  \A b \in Bids : call[b] = "accepted" /\ Decided(target[b]) =>
    \E k \in 1..idx[target[b]] : bids[target[b]][k] = b

==============================================================================
