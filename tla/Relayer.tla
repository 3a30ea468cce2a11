------------------------------- MODULE Relayer -------------------------------
(***************************************************************************)
(* The relayer process (cmd/relayer/main.go) with its ingress: the REST    *)
(* handler, the parsing half of readPump, the two dispatchers, the auction *)
(* engine, and the executor as the consumer of vouchers, joined by bounded *)
(* channels and stopped by one context.                                    *)
(*                                                                         *)
(* The engine is AuctionEngine itself, step by step; the dispatchers are   *)
(* what calls it here.  Hub and TxManager model the connections of solvers *)
(* and the settlement of a voucher, which are left out of this module.     *)
(*                                                                         *)
(* An operator named Bad... is a deliberately wrong variant of the         *)
(* definition that follows it, used by no specification; it records a      *)
(* mistake in the code that a property would expose.                       *)
(***************************************************************************)
EXTENDS Integers, Sequences

CONSTANTS
  IntentIDs,    \* core.IntentID
  Requests,     \* requests to /v1/intent: one SubmitIntent call for each
  RequestForms, \* what a request may contain
  Bids,         \* messages of solvers, and the *core.Bid made of each
  BidMessages,  \* what a message may contain
  Entries,      \* *auctionEntry pointers: bounds the auctions of a behaviour
  IntentBuf,    \* capacity of intentCh
  BidBuf,       \* capacity of bidCh
  VoucherBuf,   \* capacity of voucherCh
  Nil           \* the nil pointer, also a number that does not parse

ASSUME RequestFormsAssumption ==
  RequestForms \subseteq
    [post : BOOLEAN, decodes : BOOLEAN, ID : IntentIDs \cup {""},
     AmountIn : Int \cup {Nil}, MinAmountOut : Int \cup {Nil},
     deadlineAhead : BOOLEAN, hexSignature : BOOLEAN]

ASSUME BidMessagesAssumption ==
  BidMessages \subseteq [IntentID : IntentIDs, AmountOut : Int \cup {Nil},
                         GasPrice : Int \cup {Nil}]

ASSUME BuffersAssumption ==
  IntentBuf \in Nat \ {0} /\ BidBuf \in Nat \ {0} /\ VoucherBuf \in Nat \ {0}

VARIABLES
  auctions, intent, bids, pc, found, idx, winner, outcome, bid, call, target,
  inTime, voucherCh,    \* the variables of AuctionEngine
  req,          \* where the SubmitIntent call of a request is
  form,         \* the contents of a request that was taken
  intentCh,     \* intentCh: the requests whose intents wait in it
  auctionOf,    \* history: the entry started for a request
  refused,      \* history: the requests StartAuction returned an error for
  told,         \* history: the identifiers broadcast to the solvers
  message,      \* the contents of a message that became a bid
  informed,     \* history: the bids sent after the broadcast of their intent
  bidCh,        \* bidCh
  arrived,      \* history: everything pushed to bidCh, in order
  settled,      \* history: the vouchers the executor received, in order
  intentDisp,   \* the runIntentDispatcher goroutine
  bidDisp,      \* the runBidDispatcher goroutine
  executor,     \* the Executor.Run goroutine
  cancelled,    \* the context is cancelled
  server,       \* the HTTP listener
  main          \* the main goroutine

requestVars == <<req, form, intentCh, auctionOf, refused, told>>
messageVars == <<message, informed, bidCh, arrived>>
procVars == <<intentDisp, bidDisp, executor, cancelled, server, main>>
engineVars == <<auctions, intent, bids, pc, found, idx, winner, outcome, bid,
                call, target, inTime, voucherCh>>
vars == <<engineVars, requestVars, messageVars, settled, procVars>>

BadPositive(m) == m.AmountOut # Nil /\ m.GasPrice # Nil

\* The checks of readPump on the two amounts of a message.
Positive(m) ==
  /\ m.AmountOut # Nil /\ m.AmountOut > 0
  /\ m.GasPrice # Nil /\ m.GasPrice > 0

\* The checks of SubmitIntent on a request: its method, its body, and the fields.
Valid(f) ==
  /\ f.post /\ f.decodes
  /\ f.ID # ""
  /\ f.AmountIn # Nil /\ f.AmountIn > 0
  /\ f.MinAmountOut # Nil /\ f.MinAmountOut >= 0
  /\ f.deadlineAhead
  /\ f.hexSignature

\* The intent SubmitIntent builds, as far as the engine looks at it.
IntentOf(f) == [ID |-> f.ID, MinAmountOut |-> f.MinAmountOut]

\* The intents that reach the engine.
Intents == {IntentOf(f) : f \in {g \in RequestForms : Valid(g)}}

ASSUME NilAssumption ==
  Nil \notin Int \cup Intents \cup RequestForms \cup BidMessages \cup Bids \cup Entries

Engine == INSTANCE AuctionEngine WITH BidForms <- BidMessages

\* Whether SubmitIntent has handed the intent of r over.
Taken(r) == req[r] \in {"queued", "broadcast", "accepted"}

\* The types; no channel holds more than its capacity.
TypeOK ==
  /\ Engine!TypeOK
  /\ req \in [Requests -> {"idle", "rejected", "busy", "queued", "broadcast",
                           "accepted"}]
  /\ form \in [Requests -> RequestForms \cup {Nil}]
  /\ intentCh \in Seq(Requests) /\ Len(intentCh) <= IntentBuf
  /\ auctionOf \in [Requests -> Entries \cup {Nil}]
  /\ refused \subseteq Requests
  /\ told \subseteq IntentIDs
  /\ message \in [Bids -> BidMessages \cup {Nil}]
  /\ informed \subseteq Bids
  /\ bidCh \in Seq(Bids) /\ Len(bidCh) <= BidBuf
  /\ arrived \in Seq(Bids)
  /\ settled \in Seq(Engine!Voucher)
  /\ {intentDisp, bidDisp, executor} \subseteq {"run", "stopped"}
  /\ cancelled \in BOOLEAN
  /\ server \in {"up", "failed", "closed"}
  /\ main \in {"waiting", "stopping", "draining", "timedout", "exited"}

\* main, once everything is wired and the goroutines are started.
Init ==
  /\ Engine!Init
  /\ req = [r \in Requests |-> "idle"]
  /\ form = [r \in Requests |-> Nil]
  /\ intentCh = <<>>
  /\ auctionOf = [r \in Requests |-> Nil]
  /\ refused = {} /\ told = {}
  /\ message = [b \in Bids |-> Nil]
  /\ informed = {}
  /\ bidCh = <<>> /\ arrived = <<>> /\ settled = <<>>
  /\ intentDisp = "run" /\ bidDisp = "run" /\ executor = "run"
  /\ cancelled = FALSE /\ server = "up" /\ main = "waiting"

\* main has not returned, so goroutines still run.
Alive == main # "exited"

------------------------------------------------------------------------------
BadIntentChFull == FALSE

\* When the select statement of SubmitIntent takes its default branch.
IntentChFull == Len(intentCh) >= IntentBuf

\* SubmitIntent up to and including the non-blocking push: an error, 503, or the
\* intent is in intentCh.  The context is not consulted, and connections that are
\* open already are served after the listener failed.
SubmitIntent(r, f) ==
  /\ Alive /\ server # "closed"
  /\ req[r] = "idle"
  /\ \/ /\ ~Valid(f)
        /\ req' = [req EXCEPT ![r] = "rejected"]
        /\ UNCHANGED <<form, intentCh>>
     \/ /\ Valid(f) /\ IntentChFull
        /\ req' = [req EXCEPT ![r] = "busy"]
        /\ UNCHANGED <<form, intentCh>>
     \/ /\ Valid(f) /\ ~IntentChFull
        /\ req' = [req EXCEPT ![r] = "queued"]
        /\ form' = [form EXCEPT ![r] = f]
        /\ intentCh' = Append(intentCh, r)
  /\ UNCHANGED <<engineVars, auctionOf, refused, told, messageVars, settled, procVars>>

\* SubmitIntent: the broadcast, after the push.
BroadcastIntent(r) ==
  /\ Alive
  /\ req[r] = "queued"
  /\ req' = [req EXCEPT ![r] = "broadcast"]
  /\ told' = told \cup {form[r].ID}
  /\ UNCHANGED <<engineVars, form, intentCh, auctionOf, refused, messageVars, settled,
                 procVars>>

\* SubmitIntent: the answer 202.
RespondAccepted(r) ==
  /\ Alive
  /\ req[r] = "broadcast"
  /\ req' = [req EXCEPT ![r] = "accepted"]
  /\ UNCHANGED <<engineVars, form, intentCh, auctionOf, refused, told, messageVars,
                 settled, procVars>>

\* readPump: a message with proper amounts is pushed to bidCh, or dropped if that
\* is full.  Other messages change nothing.
ReadBid(b, m) ==
  /\ Alive
  /\ message[b] = Nil
  /\ Positive(m)
  /\ message' = [message EXCEPT ![b] = m]
  /\ \/ /\ Len(bidCh) < BidBuf
        /\ bidCh' = Append(bidCh, b)
        /\ arrived' = Append(arrived, b)
        /\ informed' = IF m.IntentID \in told THEN informed \cup {b} ELSE informed
     \/ /\ Len(bidCh) >= BidBuf
        /\ UNCHANGED <<bidCh, arrived, informed>>
  /\ UNCHANGED <<engineVars, requestVars, settled, procVars>>

------------------------------------------------------------------------------
BadIntentsLeft == intentCh

BadIntentsDrained == <<>>

\* What the receive of runIntentDispatcher leaves in intentCh.
IntentsLeft == Tail(intentCh)

\* runIntentDispatcher: receive an intent and start its auction in the entry e,
\* or log the error it gets because the identifier is being auctioned.
DispatchIntent(e) ==
  /\ Alive
  /\ intentDisp = "run"
  /\ intentCh # <<>>
  /\ intentCh' = IntentsLeft
  /\ LET r == Head(intentCh)
         in == IntentOf(form[r])
     IN  \/ /\ Engine!StartAuction(e, in)
            /\ auctionOf' = [auctionOf EXCEPT ![r] = e]
            /\ UNCHANGED refused
         \/ /\ Engine!IsActive(in.ID)
            /\ refused' = refused \cup {r}
            /\ UNCHANGED <<engineVars, auctionOf>>
  /\ UNCHANGED <<req, form, told, messageVars, settled, procVars>>

BadDispatcherFree == TRUE

\* runBidDispatcher is back in its select statement: it makes one SubmitBid call
\* at a time.
DispatcherFree == \A b \in Bids : call[b] # "located"

\* runBidDispatcher: receive a bid and call SubmitBid.
DispatchBid ==
  /\ Alive
  /\ bidDisp = "run" /\ DispatcherFree
  /\ bidCh # <<>>
  /\ Engine!SubmitBid(Head(bidCh), message[Head(bidCh)])
  /\ bidCh' = Tail(bidCh)
  /\ UNCHANGED <<requestVars, message, informed, arrived, settled, procVars>>

\* runBidDispatcher, inside SubmitBid: the append.
FinishBid(b) ==
  /\ Alive
  /\ Engine!AppendBid(b)
  /\ UNCHANGED <<requestVars, messageVars, settled, procVars>>

\* The goroutines of the engine, which the context does not stop.
RunAuction(e) ==
  /\ Alive
  /\ Engine!RunAuction(e)
  /\ UNCHANGED <<requestVars, messageVars, settled, procVars>>

\* Executor.Run receives a voucher and executes it.
ExecuteVoucher ==
  /\ Alive
  /\ executor = "run"
  /\ Engine!ReceiveVoucher
  /\ settled' = Append(settled, Head(voucherCh))
  /\ UNCHANGED <<requestVars, messageVars, procVars>>

------------------------------------------------------------------------------
BadSeesCancel == FALSE

\* The ctx.Done() branch of a loop is ready.  If a message is ready too, the
\* select statement takes either branch.
SeesCancel == cancelled

StopIntentDispatcher ==
  /\ Alive
  /\ intentDisp = "run" /\ SeesCancel
  /\ intentDisp' = "stopped"
  /\ UNCHANGED <<engineVars, requestVars, messageVars, settled, bidDisp, executor,
                 cancelled, server, main>>

StopBidDispatcher ==
  /\ Alive
  /\ bidDisp = "run" /\ DispatcherFree /\ SeesCancel
  /\ bidDisp' = "stopped"
  /\ UNCHANGED <<engineVars, requestVars, messageVars, settled, intentDisp, executor,
                 cancelled, server, main>>

StopExecutor ==
  /\ Alive
  /\ executor = "run" /\ SeesCancel
  /\ executor' = "stopped"
  /\ UNCHANGED <<engineVars, requestVars, messageVars, settled, intentDisp, bidDisp,
                 cancelled, server, main>>

\* ListenAndServe fails: its goroutine cancels the context, and main goes on
\* waiting for a signal.
ListenerFails ==
  /\ Alive
  /\ server = "up"
  /\ server' = "failed"
  /\ cancelled' = TRUE
  /\ UNCHANGED <<engineVars, requestVars, messageVars, settled, intentDisp, bidDisp,
                 executor, main>>

\* main: a signal arrives, and the context is cancelled.
ReceiveSignal ==
  /\ main = "waiting"
  /\ main' = "stopping"
  /\ cancelled' = TRUE
  /\ UNCHANGED <<engineVars, requestVars, messageVars, settled, intentDisp, bidDisp,
                 executor, server>>

\* main: srv.Shutdown closes the listener and idle connections, then waits.
BeginShutdown ==
  /\ main = "stopping"
  /\ main' = "draining"
  /\ server' = "closed"
  /\ UNCHANGED <<engineVars, requestVars, messageVars, settled, intentDisp, bidDisp,
                 executor, cancelled>>

BadTimeoutArmed == FALSE

\* srv.Shutdown was given a context with a timeout.
TimeoutArmed == main = "draining"

\* main: the five seconds of shutdownCtx are over.
ShutdownTimesOut ==
  /\ TimeoutArmed
  /\ main' = "timedout"
  /\ UNCHANGED <<engineVars, requestVars, messageVars, settled, intentDisp, bidDisp,
                 executor, cancelled, server>>

\* main: srv.Shutdown returns, because no handler is active or its time is up.
\* Then main returns, and every goroutine ends with it.
Exit ==
  /\ \/ main = "timedout"
     \/ main = "draining" /\ \A r \in Requests : req[r] \notin {"queued", "broadcast"}
  /\ main' = "exited"
  /\ UNCHANGED <<engineVars, requestVars, messageVars, settled, intentDisp, bidDisp,
                 executor, cancelled, server>>

IntentDispatcher == StopIntentDispatcher \/ \E e \in Entries : DispatchIntent(e)

BidDispatcher == StopBidDispatcher \/ DispatchBid \/ \E b \in Bids : FinishBid(b)

Executor == StopExecutor \/ ExecuteVoucher

Main == BeginShutdown \/ ShutdownTimesOut \/ Exit

Next ==
  \/ \E r \in Requests, f \in RequestForms : SubmitIntent(r, f)
  \/ \E r \in Requests : BroadcastIntent(r) \/ RespondAccepted(r)
  \/ \E b \in Bids, m \in BidMessages : ReadBid(b, m)
  \/ IntentDispatcher
  \/ BidDispatcher
  \/ \E e \in Entries : RunAuction(e)
  \/ Executor
  \/ ListenerFails
  \/ ReceiveSignal
  \/ Main

Spec == Init /\ [][Next]_vars

\* The goroutines started by main and by StartAuction keep running, and so does
\* main after a signal.  Nobody has to send requests, bids or signals, and a
\* handler may be stuck answering a slow client.
Fairness ==
  /\ WF_vars(IntentDispatcher)
  /\ WF_vars(BidDispatcher)
  /\ WF_vars(Executor)
  /\ \A e \in Entries : WF_vars(RunAuction(e))
  /\ WF_vars(Main)

FairSpec == Spec /\ Fairness

------------------------------------------------------------------------------
(***************************************************************************)
(* Correctness.                                                            *)
(***************************************************************************)

\* An intent that SubmitIntent took is in exactly one place: once in intentCh, in
\* one auction, or refused; a request that got an error is in none, and every
\* auction belongs to one request.
OneAuctionPerRequest ==
  /\ \A r \in Requests :
       LET queued == {k \in 1..Len(intentCh) : intentCh[k] = r}
       IN  /\ \A j, k \in queued : j = k
           /\ ~Taken(r) => queued = {} /\ auctionOf[r] = Nil /\ r \notin refused
           /\ Taken(r) => \/ queued # {} /\ auctionOf[r] = Nil /\ r \notin refused
                          \/ queued = {} /\ auctionOf[r] # Nil /\ r \notin refused
                          \/ queued = {} /\ auctionOf[r] = Nil /\ r \in refused
  /\ \A e \in Entries : pc[e] # "free" =>
       \E r \in Requests :
         /\ auctionOf[r] = e /\ intent[e] = IntentOf(form[r])
         /\ \A q \in Requests : auctionOf[q] = e => q = r

\* The bids of an auction are in the order in which they were pushed to bidCh, so
\* the tie-break of selectWinner in favour of the earlier bid means the bid the
\* relayer received first.
BidsInArrivalOrder ==
  \A e \in Entries : \A j, k \in 1..Len(bids[e]) : j < k =>
    \E m, n \in 1..Len(arrived) :
      m < n /\ arrived[m] = bids[e][j] /\ arrived[n] = bids[e][k]

\* Every voucher, waiting or handed to the executor, settles an intent with
\* positive amounts that some request carried and no error was returned for,
\* with a bid of positive amounts made for it, and no auction is settled twice.
VouchersTraceToRequests ==
  LET all == settled \o voucherCh
  IN  \A k \in 1..Len(all) :
        LET b == all[k].WinningBid
        IN  /\ \E r \in Requests :
                 /\ Taken(r)
                 /\ auctionOf[r] = target[b]
                 /\ all[k].Intent = IntentOf(form[r])
                 /\ form[r].AmountIn > 0 /\ form[r].MinAmountOut >= 0
                 /\ message[b].IntentID = form[r].ID
            /\ message[b].AmountOut > 0 /\ message[b].GasPrice > 0
            /\ \A j \in 1..Len(all) :
                 target[all[j].WinningBid] = target[b] => j = k

\* Unless the context is cancelled, every intent that was taken is auctioned or
\* refused as a duplicate: none stays in intentCh or is lost on the way.
TakenIntentsGetDispatched ==
  \A r \in Requests :
    Taken(r) ~> (auctionOf[r] # Nil \/ r \in refused \/ cancelled)

\* cmd/relayer/main_test.go:135: once the context is cancelled, by a signal or by
\* a failing listener, both dispatchers and the executor end, also when
\* their channels still hold messages.
WorkersStop ==
  cancelled ~> \/ main = "exited"
               \/ /\ intentDisp = "stopped" /\ bidDisp = "stopped"
                  /\ executor = "stopped"

\* A signal ends the process, even if a handler never finishes.
SignalEndsProcess == main = "stopping" ~> main = "exited"

\* cmd/relayer/main.go:236, bids are rejected if late, "after auction timer
\* expires": a bid sent in answer to the broadcast of an intent is rejected only
\* if the timer of an auction for that intent has expired.
RejectedBidsAreLate ==
  \A b \in informed : call[b] = "rejected" =>
    \E e \in Entries :
      /\ pc[e] \notin {"free", "timer"}
      /\ intent[e].ID = message[b].IntentID

==============================================================================
