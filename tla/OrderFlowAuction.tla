-------------------------- MODULE OrderFlowAuction --------------------------
(***************************************************************************)
(* What the auction engine promises to its callers, without locks, entry   *)
(* pointers, scans or goroutines: at most one auction at a time for an     *)
(* identifier; a book of well-formed bids that only grows while the        *)
(* auction is open; a verdict that is an unbeaten bid of the book, missing *)
(* only when the book is empty; at most one voucher for a verdict, which   *)
(* may be lost; and the identifier free again only afterwards.             *)
(***************************************************************************)
EXTENDS Integers, Sequences

CONSTANTS Intents, BidForms, Bids, Auctions, Nil

VARIABLES
  phase,      \* how far an auction has got
  lot,        \* the intent an auction is about
  book,       \* the bids that count in an auction
  offer,      \* the contents of the bids that count somewhere
  verdict,    \* the winning bid of an auction, Nil if it has none
  vouchers    \* the vouchers published and not consumed yet

vars == <<phase, lot, book, offer, verdict, vouchers>>

Init ==
  /\ phase = [a \in Auctions |-> "unopened"]
  /\ lot = [a \in Auctions |-> Nil]
  /\ book = [a \in Auctions |-> {}]
  /\ offer = [b \in Bids |-> Nil]
  /\ verdict = [a \in Auctions |-> Nil]
  /\ vouchers = <<>>

Better(f, g) ==
  \/ f.AmountOut > g.AmountOut
  \/ f.AmountOut = g.AmountOut /\ f.GasPrice > g.GasPrice

Open(a, in) ==
  /\ phase[a] = "unopened"
  /\ \A o \in Auctions :
       phase[o] \in {"open", "closed", "issued"} => lot[o].ID # in.ID
  /\ phase' = [phase EXCEPT ![a] = "open"]
  /\ lot' = [lot EXCEPT ![a] = in]
  /\ UNCHANGED <<book, offer, verdict, vouchers>>

Enter(a, b, f) ==
  /\ phase[a] = "open"
  /\ offer[b] = Nil
  /\ f.IntentID = lot[a].ID /\ f.AmountOut # Nil /\ f.GasPrice # Nil
  /\ book' = [book EXCEPT ![a] = @ \cup {b}]
  /\ offer' = [offer EXCEPT ![b] = f]
  /\ UNCHANGED <<phase, lot, verdict, vouchers>>

CloseUnsold(a) ==
  /\ phase[a] = "open"
  /\ book[a] = {}
  /\ phase' = [phase EXCEPT ![a] = "issued"]
  /\ UNCHANGED <<lot, book, offer, verdict, vouchers>>

CloseSold(a, w) ==
  /\ phase[a] = "open"
  /\ w \in book[a]
  /\ \A b \in book[a] : ~Better(offer[b], offer[w])
  /\ phase' = [phase EXCEPT ![a] = "closed"]
  /\ verdict' = [verdict EXCEPT ![a] = w]
  /\ UNCHANGED <<lot, book, offer, vouchers>>

Issue(a) ==
  /\ phase[a] = "closed"
  /\ phase' = [phase EXCEPT ![a] = "issued"]
  /\ \/ vouchers' = Append(vouchers,
                      [Intent |-> lot[a], WinningBid |-> verdict[a]])
     \/ UNCHANGED vouchers
  /\ UNCHANGED <<lot, book, offer, verdict>>

Release(a) ==
  /\ phase[a] = "issued"
  /\ phase' = [phase EXCEPT ![a] = "released"]
  /\ UNCHANGED <<lot, book, offer, verdict, vouchers>>

Consume ==
  /\ vouchers # <<>>
  /\ vouchers' = Tail(vouchers)
  /\ UNCHANGED <<phase, lot, book, offer, verdict>>

Next ==
  \/ \E a \in Auctions, in \in Intents : Open(a, in)
  \/ \E a \in Auctions, b \in Bids, f \in BidForms : Enter(a, b, f)
  \/ \E a \in Auctions : CloseUnsold(a)
  \/ \E a \in Auctions, w \in Bids : CloseSold(a, w)
  \/ \E a \in Auctions : Issue(a) \/ Release(a)
  \/ Consume

Spec == Init /\ [][Next]_vars

=============================================================================
