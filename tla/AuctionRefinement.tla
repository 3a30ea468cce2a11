-------------------------- MODULE AuctionRefinement --------------------------
(***************************************************************************)
(* AuctionEngine implements OrderFlowAuction.  An auction of the abstract  *)
(* specification is an entry of the engine; it closes when selectWinner    *)
(* returns, and a bid enters its book when it is appended before that.     *)
(***************************************************************************)
EXTENDS AuctionEngine

PhaseOf(p) ==
  CASE p = "free" -> "unopened"
    [] p \in {"timer", "expired", "located", "scan"} -> "open"
    [] p = "emit" -> "closed"
    [] p = "cleanup" -> "issued"
    [] p = "done" -> "released"

\* The bids that count: all that were appended, until selectWinner has returned;
\* from then on those it scanned.
Book(e) ==
  {bids[e][k] : k \in 1..(IF Decided(e) THEN idx[e] ELSE Len(bids[e]))}

OFA == INSTANCE OrderFlowAuction WITH
  Auctions <- Entries,
  phase <- [e \in Entries |-> PhaseOf(pc[e])],
  lot <- intent,
  book <- [e \in Entries |-> Book(e)],
  offer <- [b \in Bids |->
              IF \E e \in Entries : b \in Book(e) THEN bid[b] ELSE Nil],
  verdict <- [e \in Entries |-> IF Decided(e) THEN winner[e] ELSE Nil],
  vouchers <- voucherCh

\* Every step of the engine is a step of the abstract auction or changes
\* nothing it can see: locks, entry pointers, the loop of selectWinner and late
\* appends are invisible to the callers of the engine.
ImplementsAuction == OFA!Spec

==============================================================================
