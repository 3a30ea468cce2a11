---------------------------- MODULE RelayerProofs ----------------------------
(***************************************************************************)
(* Proofs about Relayer, for any number of requests, bids and auctions and *)
(* any capacity of the channels.                                           *)
(*                                                                         *)
(* What the ingress hands over is what the engine expects (IngressInv), so *)
(* every step of the relayer is a step of AuctionEngine or leaves it alone *)
(* and the theorems about the engine hold inside the relayer.  The lemmas  *)
(* say which of them they need (EngineInv); the last section brings them   *)
(* in, through the instance EP, and draws the conclusions.                 *)
(***************************************************************************)
EXTENDS Relayer, SequenceTheorems, TLAPS

\* The types of the ingress and of the goroutines.
IngressTypes ==
  /\ req \in [Requests -> {"idle", "rejected", "busy", "queued", "broadcast",
                           "accepted"}]
  /\ form \in [Requests -> RequestForms \cup {Nil}]
  /\ intentCh \in Seq(Requests) /\ Len(intentCh) <= IntentBuf
  /\ auctionOf \in [Requests -> Entries \cup {Nil}]
  /\ refused \subseteq Requests
  /\ told \subseteq IntentIDs
  /\ message \in [Bids -> BidMessages \cup {Nil}]
  /\ informed \subseteq Bids
  /\ bidCh \in Seq(Bids) /\ Len(bidCh) <= BidBuf
  /\ arrived \in Seq(Bids)

ProcessTypes ==
  /\ {intentDisp, bidDisp, executor} \subseteq {"run", "stopped"}
  /\ cancelled \in BOOLEAN
  /\ server \in {"up", "failed", "closed"}
  /\ main \in {"waiting", "stopping", "draining", "timedout", "exited"}

\* A request that was taken carries a valid intent, only such requests are in
\* intentCh, and the bids in bidCh carry positive amounts.
Checked ==
  /\ \A r \in Requests : Taken(r) => form[r] \in RequestForms /\ Valid(form[r])
  /\ \A k \in 1..Len(intentCh) : Taken(intentCh[k])
  /\ \A b \in Bids : message[b] # Nil => Positive(message[b])
  /\ \A k \in 1..Len(bidCh) : message[bidCh[k]] # Nil

IngressInv == IngressTypes /\ Checked

\* What the lemmas take from the engine: its types, that the bids of an entry were
\* accepted, that a call about to append has an entry, and where winners come from
\* and outcomes are set.
Aimed == \A b \in Bids : call[b] = "located" => target[b] \in Entries

Winners ==
  \A e \in Entries :
    /\ winner[e] # Nil => /\ call[winner[e]] = "accepted" /\ target[winner[e]] = e
                          /\ bid[winner[e]].IntentID = intent[e].ID
    /\ pc[e] = "emit" => intent[e] \in Intents /\ winner[e] \in Bids
    /\ outcome[e] = "none" <=> pc[e] \notin {"cleanup", "done"}

EngineInv == Engine!TypeOK /\ Engine!BidsInTheirAuction /\ Aimed /\ Winners

\* An auction that reported a voucher is not touched again.
EmittedKept ==
  \A e \in Entries : outcome[e] = "emitted" =>
    outcome'[e] = "emitted" /\ intent'[e] = intent[e] /\ winner'[e] = winner[e]

\* Most leaves are first-order; those that need more cite SMT.
USE ZenonT(60)

\* No pointer the code allocates is nil.
LEMMA NotNil == Nil \notin Bids /\ Nil \notin Entries
BY NilAssumption

------------------------------------------------------------------------------
(***************************************************************************)
(* What AuctionEngine assumes of its constants.                            *)
(***************************************************************************)

\* Every intent SubmitIntent lets through has an identifier and an amount.
LEMMA ValidIntent ==
  ASSUME NEW f \in RequestForms, Valid(f)
  PROVE  IntentOf(f) \in Intents /\ f.ID \in IntentIDs /\ f.MinAmountOut \in Int
<1>1. /\ f \in [post : BOOLEAN, decodes : BOOLEAN, ID : IntentIDs \cup {""},
                AmountIn : Int \cup {Nil}, MinAmountOut : Int \cup {Nil},
                deadlineAhead : BOOLEAN, hexSignature : BOOLEAN]
      /\ f.ID # "" /\ f.MinAmountOut # Nil
  BY RequestFormsAssumption DEF Valid
<1>2. f.ID \in IntentIDs /\ f.MinAmountOut \in Int
  BY <1>1
<1>3. IntentOf(f) \in Intents
  BY DEF Intents
<1> QED
  BY <1>2, <1>3

\* The assumptions of AuctionEngine hold of the constants of the relayer.
LEMMA EngineAssumptions ==
  /\ Intents \subseteq [ID : IntentIDs, MinAmountOut : Int]
  /\ BidMessages \subseteq [IntentID : IntentIDs, AmountOut : Int \cup {Nil},
                            GasPrice : Int \cup {Nil}]
  /\ Nil \notin Int \cup Intents \cup BidMessages \cup Bids \cup Entries
  /\ VoucherBuf \in Nat \ {0}
<1>1. ASSUME NEW in \in Intents PROVE in \in [ID : IntentIDs, MinAmountOut : Int]
  <2>1. PICK f \in {g \in RequestForms : Valid(g)} : in = IntentOf(f)
    BY DEF Intents
  <2> QED
    BY <2>1, ValidIntent, SMTT(60) DEF IntentOf
<1> QED
  BY <1>1, BidMessagesAssumption, NilAssumption, BuffersAssumption

------------------------------------------------------------------------------
(***************************************************************************)
(* The ingress.                                                            *)
(***************************************************************************)

\* Nothing is queued at first.
LEMMA IngressInit == Init => IngressInv
BY NilAssumption, BuffersAssumption, SMTT(60)
   DEF Init, IngressInv, IngressTypes, Checked, Taken

\* Whatever runs, only SubmitIntent, its broadcast and its answer, readPump and
\* the two dispatchers touch what the ingress keeps.
LEMMA IngressStep == IngressInv /\ [Next]_vars => IngressInv'
<1> SUFFICES ASSUME IngressInv, [Next]_vars PROVE IngressInv'
  OBVIOUS
<1> USE DEF IngressInv, IngressTypes, Checked, Taken, messageVars, requestVars
<1>1. ASSUME NEW r \in Requests, NEW f \in RequestForms, SubmitIntent(r, f)
      PROVE  IngressInv'
  <2>0. /\ ~Taken(r)
        /\ UNCHANGED <<auctionOf, refused, told, messageVars>>
    BY <1>1 DEF SubmitIntent
  <2>1. ASSUME NEW s \in {"rejected", "busy"}, req' = [req EXCEPT ![r] = s],
               UNCHANGED <<form, intentCh>>
        PROVE  IngressInv'
    <3>1. \A q \in Requests : (Taken(q)' <=> Taken(q))
      BY <2>0, <2>1
    <3>2. \A k \in 1..Len(intentCh) : intentCh[k] \in Requests
      BY SMTT(60)
    <3> QED
      BY <2>0, <2>1, <3>1, <3>2, SMTT(60)
  <2>2. CASE /\ Valid(f) /\ ~IntentChFull
             /\ req' = [req EXCEPT ![r] = "queued"]
             /\ form' = [form EXCEPT ![r] = f]
             /\ intentCh' = Append(intentCh, r)
    <3>1. /\ intentCh' \in Seq(Requests)
          /\ Len(intentCh') = Len(intentCh) + 1
          /\ \A k \in 1..Len(intentCh') :
               intentCh'[k] = r \/ (k \in 1..Len(intentCh) /\ intentCh'[k] = intentCh[k])
      BY <2>2, SMTT(60)
    <3>2. Len(intentCh') <= IntentBuf
      BY <2>2, <3>1, BuffersAssumption, LenProperties, SMTT(60) DEF IntentChFull
    <3>3. \A q \in Requests : Taken(q)' <=> Taken(q) \/ q = r
      BY <2>2
    <3>4. \A k \in 1..Len(intentCh') : (\E q \in Requests : q = intentCh'[k] /\ Taken(q)')
      BY <3>1, <3>3, SMTT(60)
    <3>5. \A q \in Requests : Taken(q)' => form'[q] \in RequestForms /\ Valid(form'[q])
      BY <2>0, <2>2, <3>3
    <3> QED
      BY <2>0, <2>2, <3>1, <3>2, <3>4, <3>5, SMTT(60)
  <2> QED
    BY <1>1, <2>1, <2>2 DEF SubmitIntent
<1>2. ASSUME NEW r \in Requests, BroadcastIntent(r) PROVE IngressInv'
  <2>1. form[r].ID \in IntentIDs
    BY <1>2, ValidIntent DEF BroadcastIntent
  <2> QED
    BY <1>2, <2>1, SMTT(60) DEF BroadcastIntent
<1>3. ASSUME NEW r \in Requests, RespondAccepted(r) PROVE IngressInv'
  BY <1>3, SMTT(60) DEF RespondAccepted
<1>4. ASSUME NEW b \in Bids, NEW m \in BidMessages, ReadBid(b, m) PROVE IngressInv'
  <2>1. /\ message[b] = Nil /\ Positive(m) /\ m # Nil
        /\ message' = [message EXCEPT ![b] = m]
        /\ UNCHANGED requestVars
    BY <1>4, NilAssumption DEF ReadBid
  <2>2. CASE /\ Len(bidCh) < BidBuf
             /\ bidCh' = Append(bidCh, b) /\ arrived' = Append(arrived, b)
             /\ informed' \subseteq informed \cup {b}
    <3>1. /\ bidCh' \in Seq(Bids) /\ arrived' \in Seq(Bids)
          /\ Len(bidCh') = Len(bidCh) + 1
          /\ \A k \in 1..Len(bidCh') :
               bidCh'[k] = b \/ (k \in 1..Len(bidCh) /\ bidCh'[k] = bidCh[k])
      BY <2>2, SMTT(60)
    <3>2. Len(bidCh') <= BidBuf
      BY <2>2, <3>1, BuffersAssumption, LenProperties, SMTT(60)
    <3>3. \A k \in 1..Len(bidCh') : message'[bidCh'[k]] # Nil
      <4>1. \A c \in Bids : message[c] # Nil \/ c = b => message'[c] # Nil
        BY <2>1
      <4>2. \A k \in 1..Len(bidCh) : bidCh[k] \in Bids /\ message[bidCh[k]] # Nil
        BY SMTT(60)
      <4> QED
        BY <3>1, <4>1, <4>2
    <3> QED
      BY <2>1, <2>2, <3>1, <3>2, <3>3, SMTT(60)
  <2>3. CASE UNCHANGED <<bidCh, arrived, informed>>
    BY <2>1, <2>3, SMTT(60)
  <2> QED
    BY <1>4, <2>2, <2>3 DEF ReadBid
<1>5. ASSUME NEW e \in Entries, DispatchIntent(e) PROVE IngressInv'
  <2>1. /\ intentCh # <<>> /\ intentCh' = Tail(intentCh)
        /\ UNCHANGED <<req, form, told, messageVars>>
    BY <1>5 DEF DispatchIntent, IntentsLeft
  <2>2. /\ intentCh' \in Seq(Requests) /\ Len(intentCh') <= IntentBuf
        /\ Head(intentCh) \in Requests
        /\ \A k \in 1..Len(intentCh') :
             k + 1 \in 1..Len(intentCh) /\ intentCh'[k] = intentCh[k + 1]
    BY <2>1, BuffersAssumption, SMTT(60)
  <2>3. auctionOf' \in [Requests -> Entries \cup {Nil}] /\ refused' \subseteq Requests
    BY <1>5, <2>2 DEF DispatchIntent
  <2> QED
    BY <2>1, <2>2, <2>3
<1>6. CASE DispatchBid
  <2>1. /\ bidCh # <<>> /\ bidCh' = Tail(bidCh)
        /\ UNCHANGED <<requestVars, message, informed, arrived>>
    BY <1>6 DEF DispatchBid
  <2>2. /\ bidCh' \in Seq(Bids) /\ Len(bidCh') <= BidBuf
        /\ \A k \in 1..Len(bidCh') :
             k + 1 \in 1..Len(bidCh) /\ bidCh'[k] = bidCh[k + 1]
    BY <2>1, BuffersAssumption, SMTT(60)
  <2> QED
    BY <2>1, <2>2
<1>7. CASE UNCHANGED <<requestVars, messageVars>>
  BY <1>7
<1>8. \/ UNCHANGED <<requestVars, messageVars>>
      \/ \E r \in Requests, f \in RequestForms : SubmitIntent(r, f)
      \/ \E r \in Requests : BroadcastIntent(r) \/ RespondAccepted(r)
      \/ \E b \in Bids, m \in BidMessages : ReadBid(b, m)
      \/ \E e \in Entries : DispatchIntent(e)
      \/ DispatchBid
  BY DEF Next, vars, IntentDispatcher, BidDispatcher, Executor, Main,
         StopIntentDispatcher, StopBidDispatcher, StopExecutor, FinishBid, RunAuction,
         ExecuteVoucher, ListenerFails, ReceiveSignal, BeginShutdown, ShutdownTimesOut,
         Exit
<1> QED
  BY <1>1, <1>2, <1>3, <1>4, <1>5, <1>6, <1>7, <1>8

------------------------------------------------------------------------------
(***************************************************************************)
(* The engine inside the relayer.                                          *)
(***************************************************************************)

\* A step of the relayer is a step of the engine or leaves the engine alone: the
\* dispatchers call it with an intent that SubmitIntent checked and a bid that
\* readPump checked.
LEMMA EngineStep == IngressInv /\ [Next]_vars => [Engine!Next]_Engine!vars
<1> SUFFICES ASSUME IngressInv, [Next]_vars PROVE [Engine!Next]_Engine!vars
  OBVIOUS
<1>1. ASSUME NEW e \in Entries, DispatchIntent(e) PROVE [Engine!Next]_Engine!vars
  <2>1. Head(intentCh) \in Requests /\ Taken(Head(intentCh))
    <3>1. intentCh \in Seq(Requests) /\ intentCh # <<>>
      BY <1>1 DEF DispatchIntent, IngressInv, IngressTypes
    <3>2. 1 \in 1..Len(intentCh) /\ Head(intentCh) = intentCh[1] /\ intentCh[1] \in Requests
      BY <3>1, SMTT(60)
    <3> QED
      BY <3>2 DEF IngressInv, Checked
  <2>2. IntentOf(form[Head(intentCh)]) \in Intents
    BY <2>1, ValidIntent DEF IngressInv, Checked
  <2> QED
    BY <1>1, <2>2 DEF DispatchIntent, Engine!Next, Engine!vars, engineVars
<1>2. CASE DispatchBid
  <2>1. Head(bidCh) \in Bids /\ message[Head(bidCh)] # Nil
    <3>1. bidCh \in Seq(Bids) /\ bidCh # <<>>
      BY <1>2 DEF DispatchBid, IngressInv, IngressTypes
    <3>2. 1 \in 1..Len(bidCh) /\ Head(bidCh) = bidCh[1] /\ bidCh[1] \in Bids
      BY <3>1, SMTT(60)
    <3> QED
      BY <3>2 DEF IngressInv, Checked
  <2>2. message[Head(bidCh)] \in BidMessages
    BY <2>1 DEF IngressInv, IngressTypes
  <2> QED
    BY <1>2, <2>1, <2>2 DEF DispatchBid, Engine!Next
<1>3. ASSUME NEW b \in Bids, FinishBid(b) PROVE [Engine!Next]_Engine!vars
  BY <1>3 DEF FinishBid, Engine!Next
<1>4. ASSUME NEW e \in Entries, RunAuction(e) PROVE [Engine!Next]_Engine!vars
  BY <1>4 DEF RunAuction, Engine!Next
<1>5. CASE ExecuteVoucher
  BY <1>5 DEF ExecuteVoucher, Engine!Next
<1>6. CASE UNCHANGED engineVars
  BY <1>6 DEF engineVars, Engine!vars
<1>7. \/ UNCHANGED engineVars
      \/ \E e \in Entries : DispatchIntent(e) \/ RunAuction(e)
      \/ DispatchBid \/ \E b \in Bids : FinishBid(b)
      \/ ExecuteVoucher
  BY DEF Next, vars, IntentDispatcher, BidDispatcher, Executor, Main, SubmitIntent,
         BroadcastIntent, RespondAccepted, ReadBid, StopIntentDispatcher,
         StopBidDispatcher, StopExecutor, ListenerFails, ReceiveSignal, BeginShutdown,
         ShutdownTimesOut, Exit
<1> QED
  BY <1>1, <1>2, <1>3, <1>4, <1>5, <1>6, <1>7

\* The relayer runs the engine of AuctionEngine: whatever requests, bids and
\* signals do, the map, the entries, the goroutines and voucherCh go through
\* a behaviour of the engine's own specification, so its theorems apply.
THEOREM RelayerRunsEngine == Spec => Engine!Spec
<1>1. Init => Engine!Init
  BY DEF Init
<1> QED
  BY <1>1, IngressInit, IngressStep, EngineStep, PTL DEF Spec, Engine!Spec

------------------------------------------------------------------------------
(***************************************************************************)
(* Requests and auctions.  That every auction belongs to one request needs *)
(* that an entry no goroutine runs for yet belongs to none.                *)
(***************************************************************************)
InQueue(r) == \E k \in 1..Len(intentCh) : intentCh[k] = r

OnePlace(r) ==
  /\ ~Taken(r) => ~InQueue(r) /\ auctionOf[r] = Nil /\ r \notin refused
  /\ Taken(r) => \/ InQueue(r) /\ auctionOf[r] = Nil /\ r \notin refused
                 \/ ~InQueue(r) /\ auctionOf[r] # Nil /\ r \notin refused
                 \/ ~InQueue(r) /\ auctionOf[r] = Nil /\ r \in refused

QueuedOnce == \A j, k \in 1..Len(intentCh) : intentCh[j] = intentCh[k] => j = k

Owns(r, e) ==
  /\ auctionOf[r] = e /\ intent[e] = IntentOf(form[r])
  /\ \A q \in Requests : auctionOf[q] = e => q = r

StartedOnce ==
  /\ \A e \in Entries : pc[e] # "free" => \E r \in Requests : Owns(r, e)
  /\ \A r \in Requests : auctionOf[r] # Nil => pc[auctionOf[r]] # "free"

PlaceInv == QueuedOnce /\ (\A r \in Requests : OnePlace(r)) /\ StartedOnce

\* No goroutine of the engine allocates an entry or changes an intent.
LEMMA AuctionKeepsIntent ==
  ASSUME EngineInv, NEW e \in Entries, Engine!RunAuction(e)
  PROVE  intent' = intent /\ \A x \in Entries : pc'[x] = "free" <=> pc[x] = "free"
<1>1. PICK p \in Engine!PCs \ {"free"} : pc[e] # "free" /\ pc' = [pc EXCEPT ![e] = p]
  <2>1. CASE Engine!ScanBid(e)
    BY <2>1 DEF Engine!ScanBid, EngineInv, Engine!TypeOK, Engine!PCs
  <2>2. CASE \E p \in {"expired", "cleanup", "located", "scan", "emit", "done"} :
               pc[e] # "free" /\ pc' = [pc EXCEPT ![e] = p]
    BY <2>2 DEF Engine!PCs
  <2>3. Engine!LookupEntry(e) \/ Engine!ScanEnds(e) =>
          \E p \in {"cleanup", "located", "emit"} :
            pc[e] # "free" /\ pc' = [pc EXCEPT ![e] = p]
    BY DEF Engine!LookupEntry, Engine!ScanEnds
  <2> QED
    BY <2>1, <2>2, <2>3 DEF Engine!RunAuction, Engine!TimerFires, Engine!LockEntry,
       Engine!EmitVoucher, Engine!Cleanup, Engine!CleanupDue
<1>2. intent' = intent
  BY DEF Engine!RunAuction, Engine!TimerFires, Engine!LookupEntry, Engine!LockEntry,
         Engine!ScanBid, Engine!ScanEnds, Engine!EmitVoucher, Engine!Cleanup
<1> QED
  BY <1>1, <1>2 DEF EngineInv, Engine!TypeOK

\* Nothing is in any place at first.
LEMMA PlaceInit == Init => PlaceInv
BY SMTT(60) DEF Init, Engine!Init, PlaceInv, QueuedOnce, OnePlace, InQueue, StartedOnce,
   Taken

\* A step that keeps the places of requests and allocates no entry.
LEMMA PlaceFrame ==
  ASSUME PlaceInv, IngressInv, UNCHANGED <<intentCh, auctionOf, refused, form, intent>>,
         \A r \in Requests : Taken(r)' <=> Taken(r),
         \A e \in Entries : pc'[e] = "free" <=> pc[e] = "free"
  PROVE  PlaceInv'
<1>1. QueuedOnce'
  BY DEF PlaceInv, QueuedOnce
<1>2. \A r \in Requests : OnePlace(r)'
  BY DEF PlaceInv, OnePlace, InQueue
<1>3. \A r \in Requests, e \in Entries : Owns(r, e) => Owns(r, e)'
  BY DEF Owns
<1>4. StartedOnce'
  BY <1>3, NilAssumption DEF PlaceInv, StartedOnce, IngressInv, IngressTypes
<1> QED
  BY <1>1, <1>2, <1>4 DEF PlaceInv

\* SubmitIntent puts a request in intentCh or nowhere.
LEMMA PlaceSubmit ==
  ASSUME PlaceInv, IngressInv, NEW r \in Requests, NEW f \in RequestForms,
         SubmitIntent(r, f)
  PROVE  PlaceInv'
<1>1. /\ req[r] = "idle" /\ ~Taken(r)
      /\ UNCHANGED <<auctionOf, refused, intent, pc>>
  BY DEF SubmitIntent, engineVars, Taken
<1>2. CASE UNCHANGED <<form, intentCh>> /\ \E s \in {"rejected", "busy"} :
             req' = [req EXCEPT ![r] = s]
  <2>1. \A q \in Requests : Taken(q)' <=> Taken(q)
    BY <1>1, <1>2 DEF Taken, IngressInv, IngressTypes
  <2> QED
    BY <1>1, <1>2, <2>1, PlaceFrame
<1>3. CASE /\ req' = [req EXCEPT ![r] = "queued"]
           /\ form' = [form EXCEPT ![r] = f]
           /\ intentCh' = Append(intentCh, r)
  <2>1. intentCh \in Seq(Requests) /\ ~InQueue(r) /\ auctionOf[r] = Nil /\ r \notin refused
    BY <1>1 DEF PlaceInv, OnePlace, IngressInv, IngressTypes
  <2>2. /\ Len(intentCh) \in Nat /\ Len(intentCh') = Len(intentCh) + 1
        /\ intentCh'[Len(intentCh) + 1] = r
        /\ \A k \in 1..Len(intentCh) : intentCh'[k] = intentCh[k] /\ intentCh[k] # r
    BY <1>3, <2>1, SMTT(60) DEF InQueue
  <2>3. QueuedOnce'
    BY <2>2, SMTT(60) DEF PlaceInv, QueuedOnce
  <2>4. \A q \in Requests : InQueue(q)' <=> InQueue(q) \/ q = r
    BY <2>2, SMTT(60) DEF InQueue
  <2>5. \A q \in Requests : Taken(q)' <=> Taken(q) \/ q = r
    BY <1>3 DEF Taken, IngressInv, IngressTypes
  <2>6. \A q \in Requests : OnePlace(q)'
    BY <1>1, <2>1, <2>4, <2>5 DEF PlaceInv, OnePlace
  <2>7. ASSUME NEW q \in Requests, NEW e \in Entries, Owns(q, e)
        PROVE  Owns(q, e)'
    <3>1. q # r
      BY <2>1, <2>7, NilAssumption DEF Owns
    <3>2. form'[q] = form[q]
      BY <1>3, <3>1 DEF IngressInv, IngressTypes
    <3> QED
      BY <1>1, <2>7, <3>2 DEF Owns
  <2>8. StartedOnce'
    BY <1>1, <2>7 DEF PlaceInv, StartedOnce
  <2> QED
    BY <2>3, <2>6, <2>8 DEF PlaceInv
<1> QED
  BY <1>2, <1>3 DEF SubmitIntent

\* The intent dispatcher moves a request from intentCh into an auction of its own,
\* or to the refused ones.
LEMMA PlaceDispatch ==
  ASSUME PlaceInv, IngressInv, EngineInv, NEW e \in Entries, DispatchIntent(e)
  PROVE  PlaceInv'
<1>1. intentCh \in Seq(Requests) /\ intentCh # <<>> /\ intentCh' = Tail(intentCh)
  BY DEF DispatchIntent, IntentsLeft, IngressInv, IngressTypes
<1>0. PICK r \in Requests : r = Head(intentCh)
  BY <1>1, SMTT(60)
<1>2. /\ Len(intentCh) \in Nat /\ Len(intentCh) > 0 /\ r = intentCh[1]
      /\ Len(intentCh') = Len(intentCh) - 1
      /\ \A k \in 1..Len(intentCh') : intentCh'[k] = intentCh[k + 1]
  BY <1>0, <1>1, SMTT(60)
<1>3. InQueue(r)
  BY <1>2, SMTT(60) DEF InQueue
<1>4. Taken(r) /\ auctionOf[r] = Nil /\ r \notin refused
  BY <1>2, <1>3 DEF PlaceInv, OnePlace
<1>5. QueuedOnce'
  BY <1>2, SMTT(60) DEF PlaceInv, QueuedOnce
<1>6. \A q \in Requests : InQueue(q)' <=> InQueue(q) /\ q # r
  <2>1. \A j, k \in 1..Len(intentCh) : intentCh[j] = intentCh[k] => j = k
    BY DEF PlaceInv, QueuedOnce
  <2>2. ASSUME NEW k \in 1..Len(intentCh'), intentCh'[k] = r PROVE FALSE
    BY <1>2, <2>1, <2>2, SMTT(60)
  <2>3. ASSUME NEW k \in 1..Len(intentCh') PROVE k + 1 \in 1..Len(intentCh)
    BY <1>2, SMTT(60)
  <2>4. ASSUME NEW k \in 1..Len(intentCh), intentCh[k] # r
        PROVE  k - 1 \in 1..Len(intentCh') /\ intentCh'[k - 1] = intentCh[k]
    BY <1>2, <2>4, SMTT(60)
  <2> QED
    BY <1>2, <2>2, <2>3, <2>4 DEF InQueue
<1>7. UNCHANGED <<req, form>> /\ \A q \in Requests : Taken(q)' <=> Taken(q)
  BY DEF DispatchIntent, Taken
<1>8. CASE /\ auctionOf' = [auctionOf EXCEPT ![r] = e] /\ UNCHANGED refused
           /\ Engine!StartAuction(e, IntentOf(form[r]))
  <2>1. /\ pc[e] = "free" /\ pc' = [pc EXCEPT ![e] = "timer"]
        /\ intent' = [intent EXCEPT ![e] = IntentOf(form[r])]
        /\ e # Nil
    BY <1>8, NilAssumption DEF Engine!StartAuction
  <2>2. /\ \A q \in Requests : auctionOf'[q] = IF q = r THEN e ELSE auctionOf[q]
        /\ \A x \in Entries : /\ pc'[x] = IF x = e THEN "timer" ELSE pc[x]
                            /\ intent'[x] = IF x = e THEN IntentOf(form[r]) ELSE intent[x]
    BY <1>8, <2>1 DEF IngressInv, IngressTypes, EngineInv, Engine!TypeOK
  <2>3. \A q \in Requests : OnePlace(q)'
    <3>1. OnePlace(r)'
      BY <1>2, <1>4, <1>6, <1>7, <1>8, <2>1, <2>2 DEF OnePlace
    <3>2. ASSUME NEW q \in Requests, q # r PROVE OnePlace(q)'
      BY <1>6, <1>7, <1>8, <2>2, <3>2 DEF PlaceInv, OnePlace
    <3> QED
      BY <3>1, <3>2
  <2>4. \A q \in Requests : auctionOf[q] # e
    BY <2>1 DEF PlaceInv, StartedOnce
  <2>5. Owns(r, e)'
    BY <1>2, <1>7, <2>2, <2>4 DEF Owns
  <2>6. ASSUME NEW x \in Entries, x # e, NEW q \in Requests, Owns(q, x)
        PROVE  Owns(q, x)'
    <3>1. q # r
      BY <1>4, <2>6, NilAssumption DEF Owns
    <3> QED
      BY <1>7, <2>2, <2>6, <3>1 DEF Owns
  <2>7. \A x \in Entries : pc'[x] # "free" => \E q \in Requests : Owns(q, x)'
    <3> SUFFICES ASSUME NEW x \in Entries, pc'[x] # "free"
                 PROVE  \E q \in Requests : Owns(q, x)'
      OBVIOUS
    <3>1. CASE x = e
      BY <1>2, <2>5, <3>1
    <3>2. CASE x # e
      <4>1. pc[x] # "free"
        BY <2>2, <3>2
      <4>2. PICK q \in Requests : Owns(q, x)
        BY <4>1 DEF PlaceInv, StartedOnce
      <4> QED
        BY <2>6, <3>2, <4>2
    <3> QED
      BY <3>1, <3>2
  <2>8. \A q \in Requests : auctionOf'[q] # Nil => pc'[auctionOf'[q]] # "free"
    BY <2>2, SMTT(60) DEF PlaceInv, StartedOnce, IngressInv, IngressTypes
  <2> QED
    BY <1>5, <2>3, <2>7, <2>8 DEF PlaceInv, StartedOnce
<1>9. CASE refused' = refused \cup {r} /\ UNCHANGED <<engineVars, auctionOf>>
  <2>1. \A q \in Requests : OnePlace(q)'
    BY <1>2, <1>4, <1>6, <1>7, <1>9 DEF PlaceInv, OnePlace
  <2>2. UNCHANGED <<pc, intent, auctionOf>>
    BY <1>9 DEF engineVars
  <2>3. \A q \in Requests, x \in Entries : Owns(q, x) => Owns(q, x)'
    BY <1>7, <2>2 DEF Owns
  <2>4. StartedOnce'
    BY <2>2, <2>3 DEF PlaceInv, StartedOnce
  <2> QED
    BY <1>5, <2>1, <2>4 DEF PlaceInv
<1> QED
  BY <1>0, <1>8, <1>9 DEF DispatchIntent

\* Every step keeps each request in one place.
LEMMA PlaceStep == IngressInv /\ EngineInv /\ PlaceInv /\ [Next]_vars => PlaceInv'
<1> SUFFICES ASSUME IngressInv, EngineInv, PlaceInv, [Next]_vars PROVE PlaceInv'
  OBVIOUS
<1>1. ASSUME NEW r \in Requests, NEW f \in RequestForms, SubmitIntent(r, f)
      PROVE  PlaceInv'
  BY <1>1, PlaceSubmit
<1>2. ASSUME NEW e \in Entries, DispatchIntent(e) PROVE PlaceInv'
  BY <1>2, PlaceDispatch
<1>3. ASSUME NEW r \in Requests, BroadcastIntent(r) \/ RespondAccepted(r)
      PROVE  PlaceInv'
  <2>1. /\ Taken(r) /\ \E s \in {"broadcast", "accepted"} : req' = [req EXCEPT ![r] = s]
        /\ UNCHANGED <<engineVars, form, intentCh, auctionOf, refused>>
    BY <1>3 DEF BroadcastIntent, RespondAccepted, Taken
  <2>2. \A q \in Requests : Taken(q)' <=> Taken(q)
    BY <2>1 DEF Taken, IngressInv, IngressTypes
  <2> QED
    BY <2>1, <2>2, PlaceFrame DEF engineVars
<1>4. ASSUME UNCHANGED <<requestVars, intent>>,
             \A e \in Entries : pc'[e] = "free" <=> pc[e] = "free"
      PROVE  PlaceInv'
  <2>1. UNCHANGED <<req, intentCh, auctionOf, refused, form, intent>>
    BY <1>4 DEF requestVars
  <2>2. \A q \in Requests : Taken(q)' <=> Taken(q)
    BY <2>1 DEF Taken
  <2> QED
    BY <1>4, <2>1, <2>2, PlaceFrame
<1>5. ASSUME NEW e \in Entries, RunAuction(e) PROVE PlaceInv'
  BY <1>4, <1>5, AuctionKeepsIntent DEF RunAuction
<1>6. CASE UNCHANGED <<requestVars, intent, pc>>
  BY <1>4, <1>6
<1>7. \/ UNCHANGED <<requestVars, intent, pc>>
      \/ \E r \in Requests, f \in RequestForms : SubmitIntent(r, f)
      \/ \E r \in Requests : BroadcastIntent(r) \/ RespondAccepted(r)
      \/ \E e \in Entries : DispatchIntent(e) \/ RunAuction(e)
  BY DEF Next, vars, IntentDispatcher, BidDispatcher, Executor, Main, ReadBid,
         StopIntentDispatcher, StopBidDispatcher, StopExecutor, DispatchBid, FinishBid,
         ExecuteVoucher, ListenerFails, ReceiveSignal, BeginShutdown, ShutdownTimesOut,
         Exit, engineVars, Engine!SubmitBid, Engine!AppendBid, Engine!ReceiveVoucher,
         Engine!auctionVars
<1> QED
  BY <1>1, <1>2, <1>3, <1>5, <1>6, <1>7


------------------------------------------------------------------------------
(***************************************************************************)
(* Bids.  bidCh is what is left of arrived behind its first Dispatched     *)
(* members; every SubmitBid call was made for one of those, and the one in *)
(* progress for the last of them.                                          *)
(***************************************************************************)
Dispatched == Len(arrived) - Len(bidCh)

ArrivedOnce ==
  /\ \A k \in 1..Len(arrived) : message[arrived[k]] # Nil
  /\ \A j, k \in 1..Len(arrived) : arrived[j] = arrived[k] => j = k

Pending ==
  /\ Len(bidCh) <= Len(arrived)
  /\ \A k \in 1..Len(bidCh) : bidCh[k] = arrived[Dispatched + k]

Submitted(b) ==
  /\ call[b] # "idle" => /\ bid[b] = message[b]
                         /\ \E k \in 1..Dispatched : arrived[k] = b
  /\ call[b] = "located" => Dispatched > 0 /\ arrived[Dispatched] = b

ArrivalInv == ArrivedOnce /\ Pending /\ \A b \in Bids : Submitted(b)

\* c was pushed to bidCh before d.
Before(c, d) == \E m, n \in 1..Len(arrived) : m < n /\ arrived[m] = c /\ arrived[n] = d

\* Nothing has arrived at first.
LEMMA ArrivalInit == Init => ArrivalInv /\ BidsInArrivalOrder
BY SMTT(60) DEF Init, Engine!Init, ArrivalInv, ArrivedOnce, Pending, Submitted, Dispatched,
   BidsInArrivalOrder

\* readPump adds a bid at the end of both, or drops it.
LEMMA ArrivalRead ==
  ASSUME IngressInv, ArrivalInv, NEW b \in Bids, NEW m \in BidMessages, ReadBid(b, m)
  PROVE  ArrivalInv'
<1>1. /\ bidCh \in Seq(Bids) /\ arrived \in Seq(Bids)
      /\ Len(bidCh) \in Nat /\ Len(arrived) \in Nat
      /\ \A k \in 1..Len(arrived) : arrived[k] \in Bids
  BY SMTT(60) DEF IngressInv, IngressTypes
<1>2. /\ message[b] = Nil /\ m # Nil /\ UNCHANGED <<call, bid>>
      /\ \A c \in Bids : message'[c] = IF c = b THEN m ELSE message[c]
  BY NilAssumption DEF ReadBid, engineVars, IngressInv, IngressTypes
<1>3. \A k \in 1..Len(arrived) : arrived[k] # b /\ message'[arrived[k]] # Nil
  BY <1>1, <1>2 DEF ArrivalInv, ArrivedOnce
<1>4. ASSUME NEW c \in Bids, call[c] # "idle" PROVE c # b
  <2>1. PICK k \in 1..Dispatched : arrived[k] = c
    BY <1>4 DEF ArrivalInv, Submitted
  <2>2. k \in 1..Len(arrived)
    BY <1>1, <2>1, SMTT(60) DEF Dispatched
  <2> QED
    BY <1>3, <2>1, <2>2
<1>5. CASE UNCHANGED <<bidCh, arrived>>
  <2>1. ArrivedOnce' /\ Pending'
    BY <1>3, <1>5 DEF ArrivalInv, ArrivedOnce, Pending, Dispatched
  <2>2. \A c \in Bids : Submitted(c)'
    BY <1>2, <1>4, <1>5 DEF ArrivalInv, Submitted, Dispatched
  <2> QED
    BY <2>1, <2>2 DEF ArrivalInv
<1>6. CASE bidCh' = Append(bidCh, b) /\ arrived' = Append(arrived, b)
  <2>1. /\ Len(arrived') = Len(arrived) + 1 /\ Len(bidCh') = Len(bidCh) + 1
        /\ arrived'[Len(arrived) + 1] = b /\ bidCh'[Len(bidCh) + 1] = b
        /\ \A k \in 1..Len(arrived) : arrived'[k] = arrived[k]
        /\ \A k \in 1..Len(bidCh) : bidCh'[k] = bidCh[k]
    BY <1>1, <1>6, SMTT(60)
  <2>2. Dispatched' = Dispatched /\ Dispatched \in Nat /\ Dispatched <= Len(arrived)
    BY <1>1, <2>1, SMTT(60) DEF Dispatched, ArrivalInv, Pending
  <2>3. ArrivedOnce'
    <3>1. \A k \in 1..Len(arrived') : message'[arrived'[k]] # Nil
      BY <1>1, <1>2, <1>3, <2>1, SMTT(60)
    <3>2. \A j, k \in 1..Len(arrived') : arrived'[j] = arrived'[k] => j = k
      BY <1>1, <1>3, <2>1, SMTT(60) DEF ArrivalInv, ArrivedOnce
    <3> QED
      BY <3>1, <3>2 DEF ArrivedOnce
  <2>4. Pending'
    <3> SUFFICES ASSUME NEW k \in 1..Len(bidCh')
                 PROVE  bidCh'[k] = arrived'[Dispatched + k]
      BY <1>1, <2>1, <2>2, SMTT(60) DEF ArrivalInv, Pending
    <3>1. CASE k \in 1..Len(bidCh)
      <4>1. Dispatched + k \in 1..Len(arrived)
        BY <1>1, <3>1, SMTT(60) DEF Dispatched, ArrivalInv, Pending
      <4> QED
        BY <2>1, <3>1, <4>1 DEF ArrivalInv, Pending
    <3>2. CASE k = Len(bidCh) + 1
      <4>1. Dispatched + k = Len(arrived) + 1
        BY <1>1, <3>2, SMTT(60) DEF Dispatched
      <4> QED
        BY <2>1, <3>2, <4>1
    <3> QED
      BY <1>1, <2>1, <3>1, <3>2, SMTT(60)
  <2>5. \A c \in Bids : Submitted(c)'
    <3> SUFFICES ASSUME NEW c \in Bids PROVE Submitted(c)'
      OBVIOUS
    <3>1. \A k \in 1..Dispatched : arrived'[k] = arrived[k]
      BY <1>1, <2>1, <2>2, SMTT(60)
    <3>2. Dispatched > 0 => Dispatched \in 1..Dispatched
      BY <2>2, SMTT(60)
    <3> QED
      BY <1>2, <1>4, <2>2, <3>1, <3>2 DEF ArrivalInv, Submitted
  <2> QED
    BY <2>3, <2>4, <2>5 DEF ArrivalInv
<1> QED
  BY <1>5, <1>6 DEF ReadBid

\* The bid dispatcher takes the bid that follows the dispatched ones.
LEMMA ArrivalDispatch ==
  ASSUME IngressInv, EngineInv, ArrivalInv, DispatchBid
  PROVE  ArrivalInv'
<1>1. /\ bidCh \in Seq(Bids) /\ bidCh # <<>> /\ bidCh' = Tail(bidCh)
      /\ UNCHANGED <<arrived, message>>
      /\ \A c \in Bids : call[c] # "located"
  BY DEF DispatchBid, DispatcherFree, IngressInv, IngressTypes
<1>2. PICK b \in Bids : b = Head(bidCh)
  BY <1>1, SMTT(60)
<1>3. /\ b = bidCh[1] /\ Len(bidCh) \in Nat /\ Len(bidCh) > 0
      /\ Len(arrived) \in Nat /\ Len(bidCh') = Len(bidCh) - 1
      /\ \A k \in 1..Len(bidCh') : bidCh'[k] = bidCh[k + 1]
  BY <1>1, <1>2, SMTT(60) DEF IngressInv, IngressTypes
<1>4. /\ Dispatched' = Dispatched + 1 /\ Dispatched \in Nat
      /\ Len(bidCh') <= Len(arrived)
  BY <1>1, <1>3, SMTT(60) DEF Dispatched, ArrivalInv, Pending
<1>5. arrived[Dispatched + 1] = b
  BY <1>3, SMTT(60) DEF ArrivalInv, Pending
<1>6. /\ \A c \in Bids : bid'[c] = IF c = b THEN message[b] ELSE bid[c]
      /\ \A c \in Bids : c # b => call'[c] = call[c]
  BY <1>2 DEF DispatchBid, Engine!SubmitBid, EngineInv, Engine!TypeOK
<1>7. ArrivedOnce'
  BY <1>1 DEF ArrivalInv, ArrivedOnce
<1>8. Pending'
  <2> SUFFICES ASSUME NEW k \in 1..Len(bidCh')
               PROVE  bidCh'[k] = arrived[Dispatched + 1 + k]
    BY <1>1, <1>4 DEF Pending
  <2>1. k + 1 \in 1..Len(bidCh) /\ Dispatched + 1 + k = Dispatched + (k + 1)
    BY <1>3, <1>4, SMTT(60)
  <2> QED
    BY <1>3, <2>1 DEF ArrivalInv, Pending
<1>9. \A c \in Bids : Submitted(c)'
  <2>1. \A k \in 1..Dispatched : k \in 1..(Dispatched + 1)
    BY <1>4, SMTT(60)
  <2>2. Dispatched + 1 \in 1..(Dispatched + 1) /\ Dispatched + 1 > 0
    BY <1>4, SMTT(60)
  <2>3. ASSUME NEW c \in Bids, c # b PROVE Submitted(c)'
    BY <1>1, <1>4, <1>6, <2>1, <2>3 DEF ArrivalInv, Submitted
  <2>4. Submitted(b)'
    BY <1>1, <1>4, <1>5, <1>6, <2>2 DEF Submitted
  <2> QED
    BY <2>3, <2>4
<1> QED
  BY <1>7, <1>8, <1>9 DEF ArrivalInv

\* Every step keeps bidCh in the order of arrival.
LEMMA ArrivalStep == IngressInv /\ EngineInv /\ ArrivalInv /\ [Next]_vars => ArrivalInv'
<1> SUFFICES ASSUME IngressInv, EngineInv, ArrivalInv, [Next]_vars PROVE ArrivalInv'
  OBVIOUS
<1>1. ASSUME NEW b \in Bids, NEW m \in BidMessages, ReadBid(b, m) PROVE ArrivalInv'
  BY <1>1, ArrivalRead
<1>2. CASE DispatchBid
  BY <1>2, ArrivalDispatch
<1>3. ASSUME UNCHANGED <<messageVars, bid>>,
             \A c \in Bids : \/ call'[c] = call[c]
                             \/ call[c] # "idle" /\ call'[c] = "accepted"
      PROVE  ArrivalInv'
  <2>1. UNCHANGED <<message, bidCh, arrived, bid, Dispatched>>
    BY <1>3 DEF messageVars, Dispatched
  <2>2. ArrivedOnce' /\ Pending'
    BY <2>1 DEF ArrivalInv, ArrivedOnce, Pending
  <2>3. \A c \in Bids : Submitted(c)'
    BY <1>3, <2>1 DEF ArrivalInv, Submitted
  <2> QED
    BY <2>2, <2>3 DEF ArrivalInv
<1>4. ASSUME NEW b \in Bids, FinishBid(b) PROVE ArrivalInv'
  BY <1>3, <1>4 DEF FinishBid, Engine!AppendBid, EngineInv, Engine!TypeOK
<1>5. CASE UNCHANGED <<messageVars, bid, call>>
  BY <1>3, <1>5
<1>6. \/ UNCHANGED <<messageVars, bid, call>>
      \/ \E b \in Bids, m \in BidMessages : ReadBid(b, m)
      \/ DispatchBid \/ \E b \in Bids : FinishBid(b)
  BY DEF Next, vars, IntentDispatcher, BidDispatcher, Executor, Main, SubmitIntent,
         BroadcastIntent, RespondAccepted, StopIntentDispatcher, StopBidDispatcher,
         StopExecutor, DispatchIntent, RunAuction, ExecuteVoucher, ListenerFails,
         ReceiveSignal, BeginShutdown, ShutdownTimesOut, Exit, engineVars,
         Engine!StartAuction, Engine!RunAuction, Engine!TimerFires, Engine!LookupEntry,
         Engine!LockEntry, Engine!ScanBid, Engine!ScanEnds, Engine!EmitVoucher,
         Engine!Cleanup, Engine!ReceiveVoucher, Engine!bidVars
<1> QED
  BY <1>1, <1>2, <1>4, <1>5, <1>6

\* The bid the dispatcher appends arrived after all that were appended before.
LEMMA OrderAppend ==
  ASSUME IngressInv, EngineInv, ArrivalInv, BidsInArrivalOrder,
         NEW b \in Bids, FinishBid(b)
  PROVE  BidsInArrivalOrder'
<1> SUFFICES ASSUME NEW e \in Entries,
                    NEW j \in 1..Len(bids'[e]), NEW k \in 1..Len(bids'[e]), j < k
             PROVE  \E m, n \in 1..Len(arrived) :
                      m < n /\ arrived[m] = bids'[e][j] /\ arrived[n] = bids'[e][k]
  BY DEF BidsInArrivalOrder, FinishBid, messageVars
<1>1. /\ call[b] = "located" /\ target[b] \in Entries
      /\ bids' = [bids EXCEPT ![target[b]] = Append(bids[target[b]], b)]
  BY DEF FinishBid, Engine!AppendBid, EngineInv, Aimed
<1>2. /\ bids \in [Entries -> Seq(Bids)] /\ bids[e] \in Seq(Bids)
      /\ Len(bids[e]) \in Nat /\ Len(arrived) \in Nat /\ Len(bidCh) \in Nat
  BY LenProperties DEF EngineInv, Engine!TypeOK, IngressInv, IngressTypes
<1>3. CASE j \in 1..Len(bids[e]) /\ k \in 1..Len(bids[e])
  <2>1. bids'[e][j] = bids[e][j] /\ bids'[e][k] = bids[e][k]
    BY <1>1, <1>2, <1>3, SMTT(60)
  <2>2. PICK m \in 1..Len(arrived), n \in 1..Len(arrived) :
          m < n /\ arrived[m] = bids[e][j] /\ arrived[n] = bids[e][k]
    <3>1. Before(bids[e][j], bids[e][k])
      BY <1>3 DEF BidsInArrivalOrder, Before
    <3> QED
      BY <3>1 DEF Before
  <2> QED
    BY <2>1, <2>2
<1>4. CASE j \in 1..Len(bids[e]) /\ k = Len(bids[e]) + 1
  <2>1. bids'[e][j] = bids[e][j] /\ bids'[e][k] = b
    BY <1>1, <1>2, <1>4, SMTT(60)
  <2>2. bids[e][j] \in Bids /\ call[bids[e][j]] = "accepted"
    <3>1. bids[e][j] \in Bids
      BY <1>2, <1>4, SMTT(60)
    <3>2. Engine!BidsInTheirAuction
      BY DEF EngineInv
    <3> QED
      BY <1>4, <3>1, <3>2 DEF Engine!BidsInTheirAuction
  <2>3. PICK m \in 1..Dispatched : arrived[m] = bids[e][j]
    BY <2>2 DEF ArrivalInv, Submitted
  <2>4. Dispatched > 0 /\ arrived[Dispatched] = b
    BY <1>1 DEF ArrivalInv, Submitted
  <2>5. m # Dispatched
    BY <1>1, <2>2, <2>3, <2>4
  <2>6. m < Dispatched /\ m \in 1..Len(arrived) /\ Dispatched \in 1..Len(arrived)
    BY <1>2, <2>3, <2>4, <2>5, SMTT(60) DEF Dispatched
  <2> QED
    BY <2>1, <2>3, <2>4, <2>6
<1>5. \/ j \in 1..Len(bids[e]) /\ k \in 1..Len(bids[e])
      \/ j \in 1..Len(bids[e]) /\ k = Len(bids[e]) + 1
  <2>1. CASE e = target[b]
    <3>1. Len(bids'[e]) = Len(bids[e]) + 1
      BY <1>1, <1>2, <2>1, SMTT(60)
    <3> QED
      BY <1>2, <3>1, SMTT(60)
  <2>2. CASE e # target[b]
    BY <1>1, <1>2, <2>2
  <2> QED
    BY <2>1, <2>2
<1> QED
  BY <1>3, <1>4, <1>5

\* No step disturbs the order of the bids of an auction.
LEMMA OrderStep ==
  IngressInv /\ EngineInv /\ ArrivalInv /\ BidsInArrivalOrder /\ [Next]_vars
    => BidsInArrivalOrder'
<1> SUFFICES ASSUME IngressInv, EngineInv, ArrivalInv, BidsInArrivalOrder, [Next]_vars
             PROVE  BidsInArrivalOrder'
  OBVIOUS
<1>1. ASSUME NEW b \in Bids, FinishBid(b) PROVE BidsInArrivalOrder'
  BY <1>1, OrderAppend
<1>2. ASSUME UNCHANGED bids,
             \A m \in 1..Len(arrived) : m \in 1..Len(arrived') /\ arrived'[m] = arrived[m]
      PROVE  BidsInArrivalOrder'
  <2> SUFFICES ASSUME NEW e \in Entries,
                      NEW j \in 1..Len(bids'[e]), NEW k \in 1..Len(bids'[e]), j < k
               PROVE  \E m, n \in 1..Len(arrived') :
                        m < n /\ arrived'[m] = bids'[e][j] /\ arrived'[n] = bids'[e][k]
    BY DEF BidsInArrivalOrder
  <2>1. bids' = bids
    BY <1>2
  <2>2. j \in 1..Len(bids[e]) /\ k \in 1..Len(bids[e])
    BY <2>1
  <2>3. Before(bids[e][j], bids[e][k])
    BY <2>2 DEF BidsInArrivalOrder, Before
  <2>4. PICK m \in 1..Len(arrived), n \in 1..Len(arrived) :
          m < n /\ arrived[m] = bids[e][j] /\ arrived[n] = bids[e][k]
    BY <2>3 DEF Before
  <2>5. /\ m \in 1..Len(arrived') /\ n \in 1..Len(arrived')
        /\ arrived'[m] = bids'[e][j] /\ arrived'[n] = bids'[e][k]
    BY <1>2, <2>1, <2>4
  <2> QED
    BY <2>4, <2>5
<1>3. ASSUME NEW b \in Bids, UNCHANGED bids, arrived' = Append(arrived, b)
      PROVE  BidsInArrivalOrder'
  <2>1. \A m \in 1..Len(arrived) : m \in 1..Len(arrived') /\ arrived'[m] = arrived[m]
    BY <1>3, SMTT(60) DEF IngressInv, IngressTypes
  <2> QED
    BY <1>2, <1>3, <2>1
<1>4. \/ UNCHANGED <<bids, arrived>>
      \/ \E b \in Bids : FinishBid(b)
      \/ \E b \in Bids : UNCHANGED bids /\ arrived' = Append(arrived, b)
  BY DEF Next, vars, IntentDispatcher, BidDispatcher, Executor, Main, SubmitIntent,
         BroadcastIntent, RespondAccepted, ReadBid, StopIntentDispatcher,
         StopBidDispatcher, StopExecutor, DispatchIntent, DispatchBid, RunAuction,
         ExecuteVoucher, ListenerFails, ReceiveSignal, BeginShutdown, ShutdownTimesOut,
         Exit, engineVars, messageVars, Engine!StartAuction, Engine!RunAuction,
         Engine!TimerFires, Engine!LookupEntry, Engine!LockEntry, Engine!ScanBid,
         Engine!ScanEnds, Engine!EmitVoucher, Engine!Cleanup, Engine!ReceiveVoucher,
         Engine!SubmitBid
<1> QED
  BY <1>1, <1>2, <1>3, <1>4

------------------------------------------------------------------------------
(***************************************************************************)
(* Vouchers, waiting or handed to the executor.                            *)
(***************************************************************************)
All == settled \o voucherCh

Settles(v, e) ==
  outcome[e] = "emitted" /\ v.Intent = intent[e] /\ v.WinningBid = winner[e]

VoucherInv ==
  /\ settled \in Seq(Engine!Voucher)
  /\ \A k \in 1..Len(All) : \E e \in Entries : Settles(All[k], e)
  /\ \A j, k \in 1..Len(All) : All[j].WinningBid = All[k].WinningBid => j = k

\* There are no vouchers at first.
LEMMA VoucherInit == Init => VoucherInv
<1> SUFFICES ASSUME Init PROVE VoucherInv
  OBVIOUS
<1>1. settled = <<>> /\ voucherCh = <<>>
  BY DEF Init, Engine!Init
<1>2. Len(All) = 0 /\ settled \in Seq(Engine!Voucher)
  BY <1>1, SMTT(60) DEF All
<1> QED
  BY <1>2, SMTT(60) DEF VoucherInv

\* A step that shows the same vouchers, wherever they are.
LEMMA VoucherFrame ==
  ASSUME VoucherInv, EmittedKept, settled' \in Seq(Engine!Voucher), Len(All)' = Len(All),
         \A k \in 1..Len(All) : All'[k] = All[k]
  PROVE  VoucherInv'
<1>1. ASSUME NEW k \in 1..Len(All)
      PROVE  \E e \in Entries : /\ outcome'[e] = "emitted" /\ All'[k].Intent = intent'[e]
                               /\ All'[k].WinningBid = winner'[e]
  BY DEF VoucherInv, Settles, EmittedKept
<1>2. \A j, k \in 1..Len(All) : All'[j].WinningBid = All'[k].WinningBid => j = k
  BY DEF VoucherInv
<1> QED
  BY <1>1, <1>2 DEF VoucherInv, Settles

\* runAuction adds the voucher of an auction that had none.
LEMMA VoucherEmit ==
  ASSUME EngineInv, VoucherInv, EmittedKept, NEW e \in Entries,
         Engine!EmitVoucher(e), UNCHANGED settled
  PROVE  VoucherInv'
<1>1. /\ settled \in Seq(Engine!Voucher) /\ voucherCh \in Seq(Engine!Voucher)
      /\ pc[e] = "emit" /\ winner[e] \in Bids /\ intent[e] \in Intents
      /\ outcome[e] = "none" /\ outcome \in [Entries -> Engine!Outcomes]
  BY DEF EngineInv, Winners, VoucherInv, Engine!TypeOK, Engine!EmitVoucher
<1>2. CASE UNCHANGED voucherCh
  <2>1. All' = All
    BY <1>2 DEF All
  <2> QED
    BY <1>1, <2>1, VoucherFrame
<1>3. ASSUME NEW v, v = [Intent |-> intent[e], WinningBid |-> winner[e]],
             voucherCh' = Append(voucherCh, v),
             outcome' = [outcome EXCEPT ![e] = "emitted"]
      PROVE  VoucherInv'
  <2>1. v \in Engine!Voucher /\ v.Intent = intent[e] /\ v.WinningBid = winner[e]
    BY <1>1, <1>3, SMTT(60) DEF Engine!Voucher
  <2>2. /\ Len(All) \in Nat /\ Len(All)' = Len(All) + 1 /\ All'[Len(All) + 1] = v
        /\ \A k \in 1..Len(All) : All'[k] = All[k]
    BY <1>1, <1>3, <2>1, SMTT(60) DEF All
  <2>3. /\ outcome'[e] = "emitted"
        /\ intent'[e] = intent[e] /\ winner'[e] = winner[e]
    BY <1>1, <1>3 DEF Engine!EmitVoucher
  <2>4. ASSUME NEW k \in 1..Len(All)
        PROVE  /\ \E x \in Entries :
                    /\ outcome'[x] = "emitted" /\ All'[k].Intent = intent'[x]
                    /\ All'[k].WinningBid = winner'[x]
               /\ All'[k].WinningBid # winner[e]
    <3>1. PICK x \in Entries : Settles(All[k], x)
      BY DEF VoucherInv
    <3>2. x # e
      BY <1>1, <3>1 DEF Settles
    <3>3. winner[x] # winner[e]
      <4>1. Winners /\ winner[e] # Nil
        BY <1>1, NotNil DEF EngineInv
      <4>2. target[winner[e]] = e /\ (winner[x] # Nil => target[winner[x]] = x)
        BY <4>1 DEF Winners
      <4> QED
        BY <3>2, <4>1, <4>2
    <3> QED
      BY <2>2, <3>1, <3>3 DEF Settles, EmittedKept
  <2>5. ASSUME NEW k \in 1..Len(All)'
        PROVE  k \in 1..Len(All) \/ k = Len(All) + 1
    BY <2>2, SMTT(60)
  <2>6. \A k \in 1..Len(All)' : \E x \in Entries :
          /\ outcome'[x] = "emitted" /\ All'[k].Intent = intent'[x]
          /\ All'[k].WinningBid = winner'[x]
    BY <2>1, <2>2, <2>3, <2>4, <2>5
  <2>7. \A j, k \in 1..Len(All)' : All'[j].WinningBid = All'[k].WinningBid => j = k
    <3> SUFFICES ASSUME NEW j \in 1..Len(All)', NEW k \in 1..Len(All)',
                        All'[j].WinningBid = All'[k].WinningBid
                 PROVE  j = k
      OBVIOUS
    <3>1. CASE j \in 1..Len(All) /\ k \in 1..Len(All)
      BY <2>2, <3>1 DEF VoucherInv
    <3>2. CASE j = Len(All) + 1 /\ k \in 1..Len(All)
      BY <2>1, <2>2, <2>4, <3>2
    <3>3. CASE j \in 1..Len(All) /\ k = Len(All) + 1
      BY <2>1, <2>2, <2>4, <3>3
    <3> QED
      BY <2>5, <3>1, <3>2, <3>3
  <2> QED
    BY <1>1, <2>6, <2>7 DEF VoucherInv, Settles
<1> QED
  BY <1>2, <1>3 DEF Engine!EmitVoucher, Engine!VoucherOf

\* The executor receives the oldest voucher.
LEMMA VoucherExecute ==
  ASSUME EngineInv, VoucherInv, EmittedKept, ExecuteVoucher
  PROVE  VoucherInv'
<1>1. /\ settled \in Seq(Engine!Voucher) /\ voucherCh \in Seq(Engine!Voucher)
      /\ voucherCh # <<>> /\ voucherCh' = Tail(voucherCh)
      /\ settled' = Append(settled, Head(voucherCh))
  BY DEF EngineInv, VoucherInv, Engine!TypeOK, ExecuteVoucher, Engine!ReceiveVoucher
<1>2. PICK v \in Engine!Voucher : v = Head(voucherCh)
  BY <1>1, HeadTailProperties
<1>3. settled' \in Seq(Engine!Voucher) /\ voucherCh' \in Seq(Engine!Voucher)
  BY <1>1, <1>2, HeadTailProperties, AppendProperties
<1>4. /\ Len(settled) \in Nat /\ Len(voucherCh) \in Nat /\ Len(voucherCh) > 0
      /\ Len(settled') = Len(settled) + 1 /\ Len(voucherCh') = Len(voucherCh) - 1
      /\ \A k \in 1..Len(settled) : settled'[k] = settled[k]
      /\ settled'[Len(settled) + 1] = voucherCh[1]
      /\ \A k \in 1..Len(voucherCh') : voucherCh'[k] = voucherCh[k + 1]
  BY <1>1, <1>2, SMTT(60)
<1>5. /\ Len(All) = Len(settled) + Len(voucherCh)
      /\ \A k \in 1..(Len(settled) + Len(voucherCh)) :
           All[k] = IF k <= Len(settled) THEN settled[k] ELSE voucherCh[k - Len(settled)]
  BY <1>1, ConcatProperties DEF All
<1>6. /\ Len(All)' = Len(settled') + Len(voucherCh')
      /\ \A k \in 1..(Len(settled') + Len(voucherCh')) :
           All'[k] = IF k <= Len(settled') THEN settled'[k]
                                          ELSE voucherCh'[k - Len(settled')]
  BY <1>3, ConcatProperties DEF All
<1>7. Len(All)' = Len(All)
  BY <1>4, <1>5, <1>6, SMTT(60)
<1>8. ASSUME NEW k \in 1..Len(All) PROVE All'[k] = All[k]
  <2>1. CASE k <= Len(settled)
    BY <1>4, <1>5, <1>6, <2>1, SMTT(60)
  <2>2. CASE k = Len(settled) + 1
    BY <1>4, <1>5, <1>6, <2>2, SMTT(60)
  <2>3. CASE k > Len(settled) + 1
    BY <1>4, <1>5, <1>6, <2>3, SMTT(60)
  <2> QED
    BY <1>4, <1>5, <2>1, <2>2, <2>3, SMTT(60)
<1> QED
  BY <1>3, <1>7, <1>8, VoucherFrame

\* Every step keeps the vouchers what they are.
LEMMA VoucherStep ==
  EngineInv /\ VoucherInv /\ EmittedKept /\ [Next]_vars => VoucherInv'
<1> SUFFICES ASSUME EngineInv, VoucherInv, EmittedKept, [Next]_vars PROVE VoucherInv'
  OBVIOUS
<1>1. CASE UNCHANGED <<settled, voucherCh>>
  <2>1. All' = All /\ settled' \in Seq(Engine!Voucher)
    BY <1>1 DEF All, VoucherInv
  <2> QED
    BY <2>1, VoucherFrame
<1>2. CASE ExecuteVoucher
  BY <1>2, VoucherExecute
<1>3. ASSUME NEW e \in Entries, RunAuction(e) PROVE VoucherInv'
  <2>1. UNCHANGED settled
    BY <1>3 DEF RunAuction
  <2>2. CASE Engine!EmitVoucher(e)
    BY <2>1, <2>2, VoucherEmit
  <2> QED
    BY <1>1, <1>3, <2>1, <2>2
       DEF RunAuction, Engine!RunAuction, Engine!TimerFires, Engine!LookupEntry,
           Engine!LockEntry, Engine!ScanBid, Engine!ScanEnds, Engine!Cleanup
<1>4. \/ UNCHANGED <<settled, voucherCh>>
      \/ ExecuteVoucher
      \/ \E e \in Entries : RunAuction(e)
  BY DEF Next, vars, IntentDispatcher, BidDispatcher, Executor, Main, SubmitIntent,
         BroadcastIntent, RespondAccepted, ReadBid, StopIntentDispatcher,
         StopBidDispatcher, StopExecutor, DispatchIntent, DispatchBid, FinishBid,
         ListenerFails, ReceiveSignal, BeginShutdown, ShutdownTimesOut, Exit, engineVars,
         Engine!StartAuction, Engine!SubmitBid, Engine!AppendBid
<1> QED
  BY <1>1, <1>2, <1>3, <1>4

\* A voucher leads back to its auction, from there to the request that started it,
\* and through the winning bid to the message it was made of.
LEMMA VouchersTraced ==
  IngressInv /\ EngineInv /\ PlaceInv /\ ArrivalInv /\ VoucherInv
    => VouchersTraceToRequests
<1> SUFFICES ASSUME IngressInv, EngineInv, PlaceInv, ArrivalInv, VoucherInv,
                    NEW k \in 1..Len(All)
             PROVE  LET b == All[k].WinningBid
                    IN  /\ \E r \in Requests :
                             /\ Taken(r)
                             /\ auctionOf[r] = target[b]
                             /\ All[k].Intent = IntentOf(form[r])
                             /\ form[r].AmountIn > 0 /\ form[r].MinAmountOut >= 0
                             /\ message[b].IntentID = form[r].ID
                        /\ message[b].AmountOut > 0 /\ message[b].GasPrice > 0
                        /\ \A j \in 1..Len(All) :
                             target[All[j].WinningBid] = target[b] => j = k
  BY DEF VouchersTraceToRequests, All
<1>1. ASSUME NEW j \in 1..Len(All)
      PROVE  \E e \in Entries :
               /\ Settles(All[j], e) /\ winner[e] \in Bids /\ target[winner[e]] = e
  <2>1. settled \in Seq(Engine!Voucher) /\ voucherCh \in Seq(Engine!Voucher)
    BY DEF VoucherInv, EngineInv, Engine!TypeOK
  <2>2. All \in Seq(Engine!Voucher)
    BY <2>1, ConcatProperties DEF All
  <2>3. All[j].WinningBid \in Bids
    <3>1. All[j] \in Engine!Voucher
      BY <2>2, ElementOfSeq
    <3> QED
      BY <3>1 DEF Engine!Voucher
  <2>4. PICK e \in Entries : Settles(All[j], e)
    BY DEF VoucherInv
  <2>5. Winners /\ winner[e] \in Bids /\ winner[e] # Nil
    BY <2>3, <2>4, NotNil DEF Settles, EngineInv
  <2> QED
    BY <2>4, <2>5 DEF Winners
<1>2. PICK e \in Entries :
        /\ Settles(All[k], e) /\ winner[e] \in Bids /\ target[winner[e]] = e
  BY <1>1
<1>3. PICK b \in Bids : b = All[k].WinningBid /\ b = winner[e] /\ target[b] = e
  BY <1>2 DEF Settles
<1>4. PICK r \in Requests : Owns(r, e)
  <2>1. pc[e] # "free"
    BY <1>2 DEF Settles, EngineInv, Winners
  <2> QED
    BY <2>1 DEF PlaceInv, StartedOnce
<1>5. auctionOf[r] = target[b] /\ Taken(r)
  BY <1>3, <1>4, NilAssumption DEF Owns, PlaceInv, OnePlace
<1>6. form[r].AmountIn > 0 /\ form[r].MinAmountOut >= 0
  BY <1>5 DEF IngressInv, Checked, Valid
<1>7. call[b] = "accepted" /\ bid[b].IntentID = intent[e].ID
  <2>1. Winners /\ winner[e] # Nil
    BY <1>2, NotNil DEF EngineInv
  <2>2. call[winner[e]] = "accepted" /\ bid[winner[e]].IntentID = intent[e].ID
    BY <2>1 DEF Winners
  <2> QED
    BY <1>3, <2>2
<1>8. bid[b] = message[b] /\ \E n \in 1..Dispatched : arrived[n] = b
  BY <1>7 DEF ArrivalInv, Submitted
<1>9. message[b] # Nil
  <2>1. PICK n \in 1..Dispatched : arrived[n] = b
    BY <1>8
  <2>2. n \in 1..Len(arrived)
    BY <2>1, SMTT(60) DEF Dispatched, IngressInv, IngressTypes
  <2> QED
    BY <2>1, <2>2 DEF ArrivalInv, ArrivedOnce
<1>10. message[b].AmountOut > 0 /\ message[b].GasPrice > 0
  BY <1>9 DEF IngressInv, Checked, Positive
<1>11. All[k].Intent = IntentOf(form[r]) /\ message[b].IntentID = form[r].ID
  BY <1>2, <1>4, <1>7, <1>8, SMTT(60) DEF Settles, Owns, IntentOf
<1>12. ASSUME NEW j \in 1..Len(All), target[All[j].WinningBid] = target[b] PROVE j = k
  <2>1. PICK x \in Entries :
          /\ Settles(All[j], x) /\ winner[x] \in Bids /\ target[winner[x]] = x
    BY <1>1
  <2>2. x = e
    BY <1>3, <1>12, <2>1 DEF Settles
  <2>3. All[j].WinningBid = All[k].WinningBid
    BY <1>2, <2>1, <2>2 DEF Settles
  <2> QED
    BY <2>3 DEF VoucherInv
<1> QED
  BY <1>3, <1>5, <1>6, <1>10, <1>11, <1>12

------------------------------------------------------------------------------
(***************************************************************************)
(* The theorems about the engine, in the relayer.                          *)
(***************************************************************************)
EP == INSTANCE AuctionRefinementProofs WITH BidForms <- BidMessages

\* The two instances of the engine are the same specification.
LEMMA SameInit == Engine!Init => EP!Init
BY DEF Engine!Init, EP!Init

\* The two instances of the engine take the same steps.
LEMMA SameNext == [Engine!Next]_Engine!vars => [EP!Next]_EP!vars
BY DEF Engine!Next, EP!Next, Engine!vars, EP!vars, Engine!RunAuction, EP!RunAuction,
       Engine!IsActive, EP!IsActive, Engine!StartAuction, EP!StartAuction,
       Engine!TimerFires, EP!TimerFires, Engine!LookupEntry, EP!LookupEntry,
       Engine!Locked, EP!Locked, Engine!LockEntry, EP!LockEntry, Engine!Beats,
       EP!Beats, Engine!Choose, EP!Choose, Engine!HasNext, EP!HasNext, Engine!ScanBid,
       EP!ScanBid, Engine!NoWinner, EP!NoWinner, Engine!ScanEnds, EP!ScanEnds,
       Engine!VoucherOf, EP!VoucherOf, Engine!ChannelFull, EP!ChannelFull,
       Engine!EmitVoucher, EP!EmitVoucher, Engine!CleanupDue, EP!CleanupDue,
       Engine!Cleanup, EP!Cleanup, Engine!HasValues, EP!HasValues, Engine!SubmitBid,
       EP!SubmitBid, Engine!AppendBid, EP!AppendBid, Engine!ReceiveVoucher,
       EP!ReceiveVoucher, Engine!auctionVars, EP!auctionVars, Engine!bidVars,
       EP!bidVars

\* What is proved of the engine on its own holds in the relayer.
LEMMA EngineFacts == Spec => [](IngressInv /\ EngineInv /\ EP!IndInv /\ EP!OutcomeInv)
<1>1. EP!Spec => [](EP!IndInv /\ EP!OutcomeInv)
  BY EngineAssumptions, EP!OutcomeAlways DEF EP!OutcomeAlways
<1>2. Init => EP!Init
  BY SameInit DEF Init
<1>3. IngressInv /\ [Next]_vars => [EP!Next]_EP!vars
  BY EngineStep, SameNext
<1>4. EP!IndInv => Engine!TypeOK /\ Engine!BidsInTheirAuction /\ Aimed
  BY DEF EP!IndInv, EP!TypeInv, EP!TypeOK, EP!NoNilDereference, EP!BidInv,
         EP!BidsInTheirAuction, EP!PCs, EP!Outcomes, EP!Voucher, Aimed,
         Engine!TypeOK, Engine!BidsInTheirAuction, Engine!PCs, Engine!Outcomes,
         Engine!Voucher
<1>5. EP!IndInv /\ EP!OutcomeInv => Winners
  <2> SUFFICES ASSUME EP!IndInv, EP!OutcomeInv PROVE Winners
    OBVIOUS
  <2>1. ASSUME NEW e \in Entries, winner[e] # Nil
        PROVE  /\ call[winner[e]] = "accepted" /\ target[winner[e]] = e
               /\ bid[winner[e]].IntentID = intent[e].ID
    BY <2>1, EngineAssumptions, EP!WinnerFromSlice DEF EP!WinnerFromSlice
  <2>2. \A e \in Entries : pc[e] = "emit" => intent[e] \in Intents /\ winner[e] \in Bids
    BY DEF EP!IndInv, EP!TypeInv, EP!NoNilDereference
  <2>3. \A e \in Entries : outcome[e] = "none" <=> pc[e] \notin {"cleanup", "done"}
    BY DEF EP!OutcomeInv
  <2> QED
    BY <2>1, <2>2, <2>3 DEF Winners
<1>6. EP!IndInv /\ EP!OutcomeInv => EngineInv
  BY <1>4, <1>5 DEF EngineInv
<1> QED
  BY <1>1, <1>2, <1>3, <1>6, IngressInit, IngressStep, PTL DEF Spec, EP!Spec

\* The relayer as a whole, with its channels, dispatchers and shutdown, shows its
\* clients and solvers an abstract auction: nothing it does around the engine opens,
\* closes or decides an auction in another way.
THEOREM RelayerImplementsAuction == Spec => EP!ImplementsAuction
<1>1. EP!Spec => EP!ImplementsAuction
  BY EngineAssumptions, EP!EngineImplementsAuction DEF EP!EngineImplementsAuction
<1>2. Init => EP!Init
  BY SameInit DEF Init
<1>3. IngressInv /\ [Next]_vars => [EP!Next]_EP!vars
  BY EngineStep, SameNext
<1> QED
  BY <1>1, <1>2, <1>3, IngressInit, IngressStep, PTL DEF Spec, EP!Spec

\* Requests and auctions match throughout.
LEMMA PlaceAlways == Spec => []PlaceInv
BY EngineFacts, PlaceInit, PlaceStep, PTL DEF Spec

\* No accepted intent is lost, duplicated or auctioned twice on its way through
\* intentCh and the dispatcher, and no auction runs without a request.
THEOREM OneAuctionCorrect == Spec => []OneAuctionPerRequest
<1>1. PlaceInv => OneAuctionPerRequest
  BY SMTT(60) DEF PlaceInv, OneAuctionPerRequest, QueuedOnce, OnePlace, InQueue,
     StartedOnce, Owns
<1> QED
  BY <1>1, PlaceAlways, PTL

\* Bids and their messages match throughout.
LEMMA ArrivalAlways == Spec => []ArrivalInv
BY EngineFacts, ArrivalInit, ArrivalStep, PTL DEF Spec

\* Because one dispatcher makes the SubmitBid calls one after the other, the bids
\* of an auction lie in the order of their arrival, which decides ties.
THEOREM ArrivalOrderCorrect == Spec => []BidsInArrivalOrder
BY EngineFacts, ArrivalAlways, ArrivalInit, OrderStep, PTL DEF Spec

\* An auction that reported a voucher is left alone by every step of the relayer.
LEMMA EmittedStep == IngressInv /\ EP!IndInv /\ EP!OutcomeInv /\ [Next]_vars => EmittedKept
<1> SUFFICES ASSUME IngressInv, EP!IndInv, EP!OutcomeInv, [Next]_vars,
                    NEW e \in Entries, outcome[e] = "emitted"
             PROVE  /\ outcome'[e] = "emitted"
                    /\ intent'[e] = intent[e] /\ winner'[e] = winner[e]
  BY DEF EmittedKept
<1>1. [EP!Next]_EP!vars
  BY EngineStep, SameNext
<1> QED
  BY <1>1, EngineAssumptions, EP!EmittedStays DEF EP!EmittedStays

\* Vouchers belong to auctions that reported them throughout.
LEMMA VoucherAlways == Spec => []VoucherInv
BY EngineFacts, EmittedStep, VoucherInit, VoucherStep, PTL DEF Spec

\* Whatever reaches the executor goes back to a request that was answered with no
\* error and to a bid that passed the checks of readPump, once per auction.
THEOREM VouchersTraceCorrect == Spec => []VouchersTraceToRequests
BY EngineFacts, PlaceAlways, ArrivalAlways, VoucherAlways, VouchersTraced, PTL

\* The variables of the relayer keep their types, and no channel is overfull.
THEOREM RelayerTypes == Spec => []TypeOK
<1>1. Init => ProcessTypes
  BY DEF Init, ProcessTypes
<1>2. ProcessTypes /\ [Next]_vars => ProcessTypes'
  BY DEF ProcessTypes, Next, vars, procVars, IntentDispatcher, BidDispatcher, Executor,
         Main, SubmitIntent, BroadcastIntent, RespondAccepted, ReadBid,
         StopIntentDispatcher, StopBidDispatcher, StopExecutor, DispatchIntent,
         DispatchBid, FinishBid, RunAuction, ExecuteVoucher, ListenerFails,
         ReceiveSignal, BeginShutdown, ShutdownTimesOut, Exit
<1>3. IngressInv /\ EngineInv /\ VoucherInv /\ ProcessTypes => TypeOK
  BY DEF IngressInv, IngressTypes, EngineInv, VoucherInv, ProcessTypes, TypeOK
<1> QED
  BY <1>1, <1>2, <1>3, EngineFacts, VoucherAlways, PTL DEF Spec

==============================================================================
