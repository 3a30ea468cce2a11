--------------------------- MODULE MCAuctionEngine ---------------------------
(***************************************************************************)
(* Instances of AuctionEngine for TLC.  Identifiers, bids and entries are  *)
(* model values; the values of the bids are chosen so that ties on the     *)
(* amount, ties on both amount and price, nil fields and bids for an       *)
(* identifier nobody started all occur.                                    *)
(***************************************************************************)
EXTENDS AuctionRefinement, TLC

CONSTANTS i1, i2

MCIntents == {[ID |-> i, MinAmountOut |-> 0] : i \in IntentIDs}

Form(i, a, g) == [IntentID |-> i, AmountOut |-> a, GasPrice |-> g]

\* Every order of amount and price for i1, nil fields, and a bid for i2.
MCBidForms ==
  {Form(i1, 1, 2), Form(i1, 2, 1), Form(i1, 2, 2), Form(i2, 1, 1),
   Form(i1, Nil, 1), Form(i1, 1, Nil)}

\* Two prices for each identifier.
MCBidFormsFew == {Form(i, a, 1) : i \in IntentIDs, a \in 1..2}

Symmetry == Permutations(Bids) \cup Permutations(Entries)

==============================================================================
