----------------------------- MODULE Simulation -----------------------------
(***************************************************************************)
(* The end-to-end simulation (cmd/simulate/main.go) against a relayer that *)
(* starts up, the settlement contract and a chain.  Several drivers may    *)
(* run at once; each has accounts of its own, but all share the account    *)
(* that funds them.  Whoever else is there, drivers that are not followed  *)
(* step by step included, is Rival: it sends transactions from that        *)
(* account, locks escrows, posts intents and bids, under any identifier.   *)
(*                                                                         *)
(* The relayer is Startup followed by its pipeline in large steps: a       *)
(* request is queued and broadcast, its auction opens and closes, and the  *)
(* executor claims.  Relayer, Hub, AuctionEngine and TxManager have the    *)
(* small steps.  All drivers bid the same amount, so the first bid wins.   *)
(* A driver makes one request, named like the driver; those of Rival are   *)
(* Strangers.  Several requests may bear the same identifier.              *)
(*                                                                         *)
(* An operator named Bad... is a deliberately wrong variant of the         *)
(* definition that follows it, used by no specification; it records a      *)
(* mistake in the code that a property would expose.                       *)
(***************************************************************************)
EXTENDS Startup, Settlement, FiniteSets

CONSTANTS
  Drivers,     \* runs of the simulation; also their users' accounts
  Funder,      \* the account every driver is funded from
  Ids,         \* identifiers the clock of a driver may give
  Rival,       \* any other agent, client and solver
  Strangers,   \* its requests to the relayer
  ForeignIds,  \* identifiers no driver comes up with
  VoucherBuf,  \* capacity of voucherCh
  MaxNonce,    \* bound: Rival sends no transaction with this nonce
  Contract,    \* the address of the contract
  ChainID      \* the chain

AllIds == Ids \cup ForeignIds

Requests == Drivers \cup Strangers

\* SubmitIntent takes any identifier that is not empty, of any length.
ASSUME IdsAssumption == \A i \in AllIds : i \in Seq(Nat) /\ i # <<>>

ASSUME AgentsAssumption == Rival \notin Drivers /\ Nil \notin Ids

ASSUME RequestsAssumption == Drivers \cap Strangers = {} /\ VoucherBuf \in Nat

\* Drivers generate their keys and are funded by the first account of Anvil; the
\* contract is deployed with the second one (RUNBOOK.md:43).
ASSUME AccountsAssumption == RelayerSigner \notin Drivers \cup {Funder}

VARIABLES
  nonceOf,    \* the nonce of each account on chain
  pool,       \* transactions waiting to be mined
  receipts,   \* mined transactions, and whether they succeeded
  funded, deployed, minted, approved,  \* the drivers whose call took effect
  driver,     \* where main of a driver is
  step,       \* its transaction at hand
  nonce,      \* the nonce it read
  id,         \* its intentID
  ws,         \* its WebSocket goroutine; bidSent is closed when that is done
  inbox,      \* the broadcasts it has yet to read
  post,       \* its request to the relayer, and the answer
  posted,     \* the identifier of each request that was taken
  auction,    \* where the auction of a request is
  bidsOn,     \* the bids it received in time, in order
  vouchers,   \* vouchers for the executor, the one at hand included
  lockedFor,  \* history: the identifier each escrow was locked for
  refused,    \* history: claims that gas estimation or the node refused
  dropped,    \* history: the requests whose voucher was dropped
  unsettled,  \* history: the requests for whose voucher execute returned an error
  wasted      \* history: the nonces execute reserved and did not use

ledger == <<funded, deployed, minted, approved, escrows, lockedFor>>
chainVars == <<nonceOf, pool, receipts, ledger>>
driverVars == <<driver, step, nonce, id, ws, inbox, post>>
history == <<refused, unsettled, wasted>>
relayerVars == <<posted, auction, bidsOn, vouchers, dropped, history>>
vars == <<startVars, chainVars, driverVars, relayerVars>>

RelayerAccounts == {KeyOf[k] : k \in DOMAIN KeyOf}

\* The transactions main waits for, one after the other.
SetupCalls == <<"sendETH", "deploy", "mint", "approve", "lockIntent">>

Ended == {"ok", "fatal"}

SolverOf(d) == <<"solver", d>>

\* The types; the step of a driver never runs past its transactions, and vouchers
\* wait in voucherCh or, one of them, with the executor.
TypeOK ==
  /\ boot \in {"dotenv", "configure", "vault", "connect", "bind", "serving", "fatal"}
  /\ nonceOf \in [RelayerAccounts \cup Drivers \cup {Funder} -> Nat]
  /\ UNION {funded, deployed, minted, approved} \subseteq Drivers
  /\ driver \in [Drivers -> {"setup", "send", "wait", "dial", "post", "response",
                             "bid", "verify"} \cup Ended]
  /\ step \in [Drivers -> 1..Len(SetupCalls)]
  /\ nonce \in [Drivers -> Nat]
  /\ id \in [Drivers -> Ids \cup {Nil}]
  /\ ws \in [Drivers -> {"none", "reading", "done"}]
  /\ inbox \in [Drivers -> Seq(AllIds)]
  /\ post \in [Drivers -> {"none", "sent", "accepted", "error"}]
  /\ posted \in [Requests -> AllIds \cup {<<>>}]
  /\ auction \in [Requests -> {"none", "queued", "open", "closed", "duplicate"}]
  /\ bidsOn \in [Requests -> Seq(Drivers \cup {Rival})]
  /\ vouchers \in Seq([of : Requests, solver : Drivers \cup {Rival}])
  /\ Len(vouchers) <= VoucherBuf + 1
  /\ dropped \cup unsettled \subseteq Requests /\ wasted \subseteq Nat

Init ==
  /\ StartInit
  /\ nonceOf = [a \in RelayerAccounts \cup Drivers \cup {Funder} |-> 0]
  /\ pool = {} /\ receipts = {} /\ escrows = <<>> /\ lockedFor = <<>>
  /\ funded = {} /\ deployed = {} /\ minted = {} /\ approved = {}
  /\ driver = [d \in Drivers |-> "setup"]
  /\ step = [d \in Drivers |-> 1]
  /\ nonce = [d \in Drivers |-> 0]
  /\ id = [d \in Drivers |-> Nil]
  /\ ws = [d \in Drivers |-> "none"]
  /\ inbox = [d \in Drivers |-> <<>>]
  /\ post = [d \in Drivers |-> "none"]
  /\ posted = [r \in Requests |-> <<>>]
  /\ auction = [r \in Requests |-> "none"]
  /\ bidsOn = [r \in Requests |-> <<>>]
  /\ vouchers = <<>> /\ dropped = {}
  /\ refused = {} /\ unsettled = {} /\ wasted = {}

------------------------------------------------------------------------------
(***************************************************************************)
(* The chain.                                                              *)
(***************************************************************************)

InPool(a, n) == \E t \in pool : t.from = a /\ t.nonce = n

\* What PendingNonceAt answers: the first nonce that is free, a set of one element.
PendingNonces(a) ==
  {n \in nonceOf[a]..(nonceOf[a] + Cardinality(pool)) :
     ~InPool(a, n) /\ \A m \in nonceOf[a]..(n - 1) : InPool(a, m)}

\* An escrow is locked; i is the identifier its agent has in mind.
Lock(agent, k, i) ==
  /\ LockIntent(agent, k)
  /\ lockedFor' = [m \in DOMAIN lockedFor \cup {k} |-> IF m = k THEN i ELSE lockedFor[m]]

\* The effect of a transaction that succeeds.  A call of a token that is not
\* deployed succeeds without any.
Apply(t) ==
  LET d == t.by
      Add(call, S) == IF t.call = call THEN S \cup {d} ELSE S
  IN  /\ funded' = Add("sendETH", funded)
      /\ deployed' = Add("deploy", deployed)
      /\ minted' = IF d \in deployed THEN Add("mint", minted) ELSE minted
      /\ approved' = IF d \in deployed THEN Add("approve", approved) ELSE approved
      /\ CASE t.call = "lockIntent" -> Lock(d, t.id, id[d])
           [] t.call = "claimFunds" -> ClaimFunds(t.id, t.by, t.sig) /\ UNCHANGED lockedFor
           [] OTHER -> UNCHANGED <<escrows, lockedFor>>

Succeeds(t) ==
  CASE t.call = "lockIntent" ->
         t.by \in minted /\ t.by \in approved /\ t.id \notin DOMAIN escrows
    [] t.call = "claimFunds" -> CanClaim(t.id, t.by, t.sig)
    [] OTHER -> TRUE

\* A block includes the next transaction of an account.
Mine(t) ==
  /\ t.nonce = nonceOf[t.from]
  /\ pool' = pool \ {t}
  /\ nonceOf' = [nonceOf EXCEPT ![t.from] = @ + 1]
  /\ receipts' = receipts \cup {[tx |-> t, ok |-> Succeeds(t)]}
  /\ IF Succeeds(t) THEN Apply(t) ELSE UNCHANGED ledger
  /\ UNCHANGED <<startVars, driverVars, relayerVars>>

\* A transaction of Rival from the funding account is sent and mined; MaxNonce
\* bounds how often.
RivalSends ==
  /\ nonceOf[Funder] < MaxNonce
  /\ nonceOf[Funder] \in PendingNonces(Funder)
  /\ nonceOf' = [nonceOf EXCEPT ![Funder] = @ + 1]
  /\ UNCHANGED <<pool, receipts, ledger, startVars, driverVars, relayerVars>>

\* Rival locks an escrow, perhaps under an identifier a driver will come up with.
RivalLocks(i) ==
  /\ Lock(Rival, IntentIDBytes(i), i)
  /\ UNCHANGED <<nonceOf, pool, receipts, funded, deployed, minted, approved,
                 startVars, driverVars, relayerVars>>

\* An agent takes its tokens back, a day later.  A driver lives for about a minute.
Refund(i) ==
  /\ \A d \in Drivers : driver[d] \in Ended
  /\ RefundIntent(i)
  /\ UNCHANGED <<nonceOf, pool, receipts, funded, deployed, minted, approved, lockedFor,
                 startVars, driverVars, relayerVars>>

------------------------------------------------------------------------------
(***************************************************************************)
(* A driver: main, and the goroutine on the WebSocket.                     *)
(***************************************************************************)

\* Who signs the transaction at hand.
Sender(d) == IF SetupCalls[step[d]] \in {"sendETH", "deploy", "mint"} THEN Funder ELSE d

Goto(d, to) == driver' = [driver EXCEPT ![d] = to]

\* The process exits; its memory and its connection are gone.
Exit(d, how) ==
  /\ driver' = [driver EXCEPT ![d] = how]
  /\ step' = [step EXCEPT ![d] = 1]
  /\ nonce' = [nonce EXCEPT ![d] = 0]
  /\ ws' = [ws EXCEPT ![d] = "none"]
  /\ inbox' = [inbox EXCEPT ![d] = <<>>]
  /\ UNCHANGED <<id, post>>

\* PendingNonceAt, in sendETH, deployMockToken and sendContractTx.  Before the
\* last transaction the clock gives the identifier.
ReadNonce(d) ==
  /\ driver[d] = "setup"
  /\ \E n \in PendingNonces(Sender(d)) : nonce' = [nonce EXCEPT ![d] = n]
  /\ IF SetupCalls[step[d]] = "lockIntent"
     THEN \E i \in Ids : id' = [id EXCEPT ![d] = i]
     ELSE UNCHANGED id
  /\ Goto(d, "send")
  /\ UNCHANGED <<startVars, chainVars, relayerVars, step, ws, inbox, post>>

SetupTx(d) ==
  [from |-> Sender(d), nonce |-> nonce[d], call |-> SetupCalls[step[d]], by |-> d,
   id |-> IF id[d] = Nil THEN Nil ELSE IntentIDBytes(id[d])]

\* The node takes a transaction whose nonce is free and whose sender can pay.
NodeTakes(t) ==
  /\ t.nonce >= nonceOf[t.from] /\ ~InPool(t.from, t.nonce)
  /\ t.from \in Drivers => t.from \in funded

\* SendTransaction: the node takes the transaction, or main ends.  The answer may
\* be lost.
SendTransaction(d) ==
  /\ driver[d] = "send"
  /\ \/ /\ NodeTakes(SetupTx(d))
        /\ pool' = pool \cup {SetupTx(d)}
        /\ \/ Goto(d, "wait") /\ UNCHANGED <<step, nonce, id, ws, inbox, post>>
           \/ Exit(d, "fatal")
     \/ Exit(d, "fatal") /\ UNCHANGED pool
  /\ UNCHANGED <<startVars, nonceOf, receipts, ledger, relayerVars>>

BadMined(d) == TRUE

\* waitMined: TransactionReceipt answers.
Mined(d) == \E r \in receipts : r.tx = SetupTx(d)

Reverted(d) == [tx |-> SetupTx(d), ok |-> FALSE] \in receipts

BadLastStep == Len(SetupCalls) + 1

LastStep == Len(SetupCalls)

\* waitMined returns, or ends main because the transaction reverted.
WaitMined(d) ==
  /\ driver[d] = "wait"
  /\ Mined(d)
  /\ \/ Reverted(d) /\ Exit(d, "fatal")
     \/ /\ ~Reverted(d) /\ step[d] < LastStep
        /\ step' = [step EXCEPT ![d] = @ + 1]
        /\ Goto(d, "setup") /\ UNCHANGED <<nonce, id, ws, inbox, post>>
     \/ /\ ~Reverted(d) /\ step[d] = LastStep
        /\ Goto(d, "dial") /\ UNCHANGED <<step, nonce, id, ws, inbox, post>>
  /\ UNCHANGED <<startVars, chainVars, relayerVars>>

\* main: connect as a solver and start the goroutine, if the relayer is there.
Dial(d) ==
  /\ driver[d] = "dial"
  /\ \/ /\ boot = "serving"
        /\ ws' = [ws EXCEPT ![d] = "reading"]
        /\ Goto(d, "post") /\ UNCHANGED <<step, nonce, id, inbox, post>>
     \/ boot # "serving" /\ Exit(d, "fatal")
  /\ UNCHANGED <<startVars, chainVars, relayerVars>>

\* main: POST /v1/intent.
Post(d) ==
  /\ driver[d] = "post"
  /\ Goto(d, "response")
  /\ post' = [post EXCEPT ![d] = "sent"]
  /\ UNCHANGED <<startVars, chainVars, relayerVars, step, nonce, id, ws, inbox>>

\* main: the answer.  That of an error is no JSON object and cannot be decoded.
ReadResponse(d) ==
  /\ driver[d] = "response"
  /\ \/ /\ post[d] = "accepted"
        /\ Goto(d, "bid") /\ UNCHANGED <<step, nonce, id, ws, inbox, post>>
     \/ post[d] = "error" /\ Exit(d, "fatal")
  /\ UNCHANGED <<startVars, chainVars, relayerVars>>

\* main: bidSent is closed; sleep for settlementWait.
BidSent(d) ==
  /\ driver[d] = "bid"
  /\ ws[d] = "done"
  /\ Goto(d, "verify")
  /\ UNCHANGED <<startVars, chainVars, relayerVars, step, nonce, id, ws, inbox, post>>

BadIsResolved(i) == TRUE

\* Escrows: the field IsResolved.
IsResolved(i) == i \in DOMAIN escrows /\ escrows[i].isResolved

\* main: read the escrow and judge.
Verify(d) ==
  /\ driver[d] = "verify"
  /\ Exit(d, IF IsResolved(IntentIDBytes(id[d])) THEN "ok" ELSE "fatal")
  /\ UNCHANGED <<startVars, chainVars, relayerVars>>

\* must: a call to the node or the relayer fails.
CallFails(d) ==
  /\ driver[d] \in {"setup", "dial", "response", "verify"}
  /\ Exit(d, "fatal")
  /\ UNCHANGED <<startVars, chainVars, relayerVars>>

BadHasTimeout(d) == driver[d] \in {"wait", "response"}

\* The 60 seconds of the context, and the 10 seconds for the answer and the bid.
HasTimeout(d) == driver[d] \in {"wait", "response", "bid"}

TimesOut(d) ==
  /\ HasTimeout(d)
  /\ Exit(d, "fatal")
  /\ UNCHANGED <<startVars, chainVars, relayerVars>>

\* The goroutines that are in ReadMessage.
Listening == {d \in Drivers : ws[d] = "reading"}

\* The goroutine: bid for the first intent that is broadcast, whoever posted it.
\* The relayer counts the bid if an auction is open for that identifier.
SendBid(d) ==
  /\ d \in Listening
  /\ inbox[d] # <<>>
  /\ ws' = [ws EXCEPT ![d] = "done"]
  /\ bidsOn' = [r \in Requests |->
       IF auction[r] = "open" /\ posted[r] = Head(inbox[d]) THEN Append(bidsOn[r], d)
                                                           ELSE bidsOn[r]]
  /\ UNCHANGED <<startVars, chainVars, posted, auction, vouchers, dropped, history,
                 driver, step, nonce, id, inbox, post>>

\* The goroutine: reading or writing fails, and it ends all the same.
SocketFails(d) ==
  /\ d \in Listening
  /\ ws' = [ws EXCEPT ![d] = "done"]
  /\ UNCHANGED <<startVars, chainVars, relayerVars, driver, step, nonce, id, inbox,
                 post>>

Main(d) ==
  \/ ReadNonce(d) \/ SendTransaction(d) \/ WaitMined(d) \/ Dial(d) \/ Post(d)
  \/ ReadResponse(d) \/ BidSent(d) \/ Verify(d) \/ TimesOut(d)

------------------------------------------------------------------------------
(***************************************************************************)
(* The relayer, once it serves.                                            *)
(***************************************************************************)

\* SubmitIntent queues an intent and broadcasts it to the connections in S; the
\* others are not registered yet, or the hub drops the message.  Nothing looks at
\* the identifier, which may be that of an earlier request.
Accept(r, i, S) ==
  /\ boot = "serving"
  /\ auction[r] = "none"
  /\ auction' = [auction EXCEPT ![r] = "queued"]
  /\ posted' = [posted EXCEPT ![r] = i]
  /\ inbox' = [d \in Drivers |-> IF d \in S THEN Append(inbox[d], i) ELSE inbox[d]]

\* SubmitIntent for the request of a driver: 202, or 503.
AcceptIntent(d, S) ==
  /\ post[d] = "sent"
  /\ Accept(d, id[d], S)
  /\ post' = [post EXCEPT ![d] = "accepted"]
  /\ UNCHANGED <<startVars, chainVars, bidsOn, vouchers, dropped, history, driver, step,
                 nonce, id, ws>>

RejectIntent(d) ==
  /\ post[d] = "sent"
  /\ post' = [post EXCEPT ![d] = "error"]
  /\ UNCHANGED <<startVars, chainVars, relayerVars, driver, step, nonce, id, ws, inbox>>

\* SubmitIntent for a request of Rival, with any identifier.
AcceptForeign(r, i, S) ==
  /\ Accept(r, i, S)
  /\ UNCHANGED <<startVars, chainVars, bidsOn, vouchers, dropped, history, driver, step,
                 nonce, id, ws, post>>

\* SubmitBid for a bid of Rival.
RivalBids(r) ==
  /\ auction[r] = "open"
  /\ \A k \in 1..Len(bidsOn[r]) : bidsOn[r][k] # Rival
  /\ bidsOn' = [bidsOn EXCEPT ![r] = Append(@, Rival)]
  /\ UNCHANGED <<startVars, chainVars, driverVars, posted, auction, vouchers, dropped,
                 history>>

\* StartAuction, which refuses an identifier that is being auctioned.
OpenAuction(r) ==
  /\ auction[r] = "queued"
  /\ LET taken == \E q \in Requests : auction[q] = "open" /\ posted[q] = posted[r]
     IN  auction' = [auction EXCEPT ![r] = IF taken THEN "duplicate" ELSE "open"]
  /\ UNCHANGED <<startVars, chainVars, driverVars, posted, bidsOn, vouchers, dropped,
                 history>>

BadVoucherOf(r) == [of |-> r, solver |-> bidsOn[r][Len(bidsOn[r])]]

\* runAuction: the voucher of the winner.
VoucherOf(r) == [of |-> r, solver |-> bidsOn[r][1]]

\* runAuction: the timer fires.  The voucher of the winner is sent if voucherCh has
\* room, and dropped if it is full; Run may have one voucher at hand.
CloseAuction(r) ==
  /\ auction[r] = "open"
  /\ auction' = [auction EXCEPT ![r] = "closed"]
  /\ \/ /\ bidsOn[r] = <<>>
        /\ UNCHANGED <<vouchers, dropped>>
     \/ /\ bidsOn[r] # <<>> /\ Len(vouchers) <= VoucherBuf
        /\ vouchers' = Append(vouchers, VoucherOf(r))
        /\ UNCHANGED dropped
     \/ /\ bidsOn[r] # <<>> /\ Len(vouchers) >= VoucherBuf
        /\ dropped' = dropped \cup {r}
        /\ UNCHANGED vouchers
  /\ UNCHANGED <<startVars, chainVars, driverVars, posted, bidsOn, history>>

\* The claimFunds transaction of execute.
ClaimTx(v, sig) ==
  [from |-> config.vault, nonce |-> current, call |-> "claimFunds",
   by |-> SolverOf(v.solver), id |-> IntentIDBytes(posted[v.of]), sig |-> NormaliseV(sig)]

\* The configuration is that of the contract and the chain.
Healthy ==
  config.vault = RelayerSigner /\ config.settlement = Contract /\ config.chainID = ChainID

\* The estimation of gas succeeds, and the node takes the transaction.
Submitted(t) ==
  /\ config.settlement = Contract /\ config.chainID = ChainID
  /\ CanClaim(t.id, t.by, t.sig)
  /\ NodeTakes(t)

\* execute, for the oldest voucher: the transaction is submitted; it is refused,
\* which wastes its nonce; or a call fails, before or after reserving the nonce.
ExecuteVoucher ==
  /\ vouchers # <<>>
  /\ vouchers' = Tail(vouchers)
  /\ LET v == Head(vouchers)
         digest == ClaimDigest(IntentIDBytes(posted[v.of]), SolverOf(v.solver))
     IN  \E sig \in Signatures(config.vault, digest) :
           LET t == ClaimTx(v, sig)
           IN  \/ /\ Submitted(t)
                  /\ pool' = pool \cup {t}
                  /\ current' = current + 1
                  /\ UNCHANGED history
               \/ /\ ~Submitted(t)
                  /\ refused' = refused \cup {[healthy |-> Healthy, open |-> IsOpen(t.id)]}
                  /\ current' = current + 1 /\ wasted' = wasted \cup {current}
                  /\ unsettled' = unsettled \cup {v.of}
                  /\ UNCHANGED pool
               \/ /\ \/ UNCHANGED <<current, wasted>>
                     \/ current' = current + 1 /\ wasted' = wasted \cup {current}
                  /\ unsettled' = unsettled \cup {v.of}
                  /\ UNCHANGED <<refused, pool>>
  /\ UNCHANGED <<shell, env, file, line, boot, config, nonceOf, receipts, ledger,
                 driverVars, posted, auction, bidsOn, dropped>>

\* The relayer before it serves.
Start ==
  /\ \/ StartStep
     \/ boot = "connect" /\ \E n \in PendingNonces(config.vault) : Connect(n)
  /\ UNCHANGED <<chainVars, driverVars, relayerVars>>

Next ==
  \/ Start
  \/ \E t \in pool : Mine(t)
  \/ \E i \in DOMAIN escrows : Refund(i)
  \/ RivalSends
  \/ \E i \in AllIds : RivalLocks(i)
  \/ \E d \in Drivers :
       \/ Main(d)
       \/ CallFails(d)
       \/ SendBid(d)
       \/ SocketFails(d)
       \/ \E S \in SUBSET Listening : AcceptIntent(d, S)
       \/ RejectIntent(d)
  \/ \E r \in Strangers, i \in AllIds, S \in SUBSET Listening : AcceptForeign(r, i, S)
  \/ \E r \in Requests : OpenAuction(r) \/ RivalBids(r) \/ CloseAuction(r)
  \/ ExecuteVoucher

Spec == Init /\ [][Next]_vars

\* A driver runs until it ends and its timeouts expire; the executor is
\* scheduled, and blocks are produced.
Fairness ==
  /\ \A d \in Drivers : WF_vars(Main(d))
  /\ WF_vars(ExecuteVoucher)
  /\ WF_vars(\E t \in pool : Mine(t))

FairSpec == Spec /\ Fairness

------------------------------------------------------------------------------
(***************************************************************************)
(* Correctness.                                                            *)
(***************************************************************************)

Won(r) == auction[r] = "closed" /\ bidsOn[r] # <<>>

\* Escrow k was claimed for the winner of the auction of request r.
PaidWinnerOf(r, k) ==
  escrows[k].isResolved /\ Won(r) /\ escrows[k].paid = SolverOf(bidsOn[r][1])

\* The transactions of a driver depend on each other and are waited for, so none
\* ever reverts, however many drivers share the funding account; except that an
\* identifier may be taken.
SetupNeverReverts ==
  \A r \in receipts : ~r.ok /\ r.tx.call # "claimFunds" =>
    /\ r.tx.call = "lockIntent"
    /\ r.tx.id \in DOMAIN escrows /\ escrows[r.tx.id].agent # r.tx.by

\* Escrow k was paid, and not to the agent that locked it.
PaidOut(k) == escrows[k].isResolved /\ escrows[k].paid # escrows[k].agent

\* An escrow is refunded, or paid to the winner of an auction whose identifier is
\* that of the escrow on chain: no step from the bid to the signed claim mixes up
\* requests or solvers, whatever identifiers are posted.
PayeesAreWinners ==
  \A k \in DOMAIN escrows : PaidOut(k) =>
    \E r \in Requests : IntentIDBytes(posted[r]) = k /\ PaidWinnerOf(r, k)

\* docs/API.md:34, the identifier is a "Unique intent identifier (UUID v4
\* recommended)": an escrow is paid to the winner of an auction for the very
\* identifier it was locked for.  A UUID has 36 characters, and 32 of them count.
EscrowsGoToWinners ==
  \A k \in DOMAIN escrows : PaidOut(k) =>
    \E r \in Requests : posted[r] = lockedFor[k] /\ PaidWinnerOf(r, k)

\* A relayer with the right configuration has a claim refused only if there is no
\* open escrow for it: its signatures are what the contract expects.
RefusedClaimsHaveNoEscrow == \A r \in refused : r.healthy => ~r.open

\* cmd/simulate/main.go:308, "claimFunds succeeded": a driver that reports
\* success has locked the escrow it looked at itself, and the escrow was not
\* refunded but claimed for the winner of an auction with that identifier on chain.
SuccessMeansClaimed ==
  \A d \in Drivers : driver[d] = "ok" =>
    LET k == IntentIDBytes(id[d])
    IN  /\ k \in DOMAIN escrows /\ escrows[k].agent = d
        /\ \E r \in Requests : IntentIDBytes(posted[r]) = k /\ PaidWinnerOf(r, k)

\* A driver ends, whatever the chain, the relayer and the connection do.
DriversEnd == \A d \in Drivers : driver[d] = "setup" ~> driver[d] \in Ended

\* The claim for request r waits behind a nonce that execute has wasted.
HeldUp(r) ==
  \E t \in pool :
    /\ t.call = "claimFunds" /\ t.id = IntentIDBytes(posted[r])
    /\ \E n \in wasted : n < t.nonce

\* README.md:5, the relayer "settles the winning bid on-chain": the escrow of an
\* auction with a winner is resolved, with three exceptions: the voucher was
\* dropped at a full channel, execute returned an error for it, or the claim is
\* held up by a nonce that was wasted on an earlier one.
WinnersGetPaid ==
  \A r \in Requests :
    Won(r) ~> \/ IsResolved(IntentIDBytes(posted[r]))
              \/ r \in dropped \cup unsettled
              \/ HeldUp(r)

==============================================================================
