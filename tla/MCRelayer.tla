------------------------------ MODULE MCRelayer ------------------------------
(***************************************************************************)
(* Instances of Relayer for TLC.  There is one malformed request for every *)
(* check of the handler, and one malformed message for every check of      *)
(* readPump.                                                               *)
(***************************************************************************)
EXTENDS Relayer, TLC

CONSTANTS i1, i2

Request(i, a, m) ==
  [post |-> TRUE, decodes |-> TRUE, ID |-> i, AmountIn |-> a, MinAmountOut |-> m,
   deadlineAhead |-> TRUE, hexSignature |-> TRUE]

Good(i) == Request(i, 1, 0)

MalformedRequests ==
  {[Good(i1) EXCEPT !.post = FALSE], [Good(i1) EXCEPT !.decodes = FALSE],
   Request("", 1, 0), Request(i1, Nil, 0), Request(i1, 0, 0), Request(i1, 1, Nil),
   Request(i1, 1, -1), [Good(i1) EXCEPT !.deadlineAhead = FALSE],
   [Good(i1) EXCEPT !.hexSignature = FALSE]}

MCRequestForms == {Good(i) : i \in IntentIDs} \cup MalformedRequests

Message(i, a, g) == [IntentID |-> i, AmountOut |-> a, GasPrice |-> g]

MCBidMessages ==
  {Message(i, 1, 1) : i \in IntentIDs} \cup
  {Message(i1, Nil, 1), Message(i1, 0, 1), Message(i1, 1, Nil), Message(i1, 1, 0)}

Symmetry ==
  Permutations(Requests) \cup Permutations(Bids) \cup Permutations(Entries)

==============================================================================
