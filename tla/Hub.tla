--------------------------------- MODULE Hub ---------------------------------
(***************************************************************************)
(* The WebSocket hub of the ingress layer (internal/ingress/mempool_ws.go).*)
(*                                                                         *)
(* A solver connection is a client with a bounded send channel and two     *)
(* goroutines.  writePump moves messages from the channel to the wire and  *)
(* returns when the channel is closed or a write fails; readPump reads     *)
(* bids and, when reading fails, unregisters the client.  BroadcastIntent, *)
(* called by any number of HTTP handlers at once, offers a message to      *)
(* every client under the read lock and unregisters the slow ones after    *)
(* releasing it.  So three parties may close a send channel, unregister-   *)
(* Client for a slow client, unregisterClient in readPump and Run at       *)
(* shutdown, while broadcasts send on it: in Go a second close, or a send  *)
(* after a close, panics and takes the relayer down.                       *)
(*                                                                         *)
(* A critical section under the write lock is one step, enabled when no    *)
(* broadcast holds the read lock; a broadcast holds it from its snapshot   *)
(* of the map until it has visited every client.                           *)
(*                                                                         *)
(* An operator named Bad... is a deliberately wrong variant of the         *)
(* definition that follows it, used by no specification; it records a      *)
(* mistake in the code that a property would expose.                       *)
(***************************************************************************)
EXTENDS Integers, Sequences

CONSTANTS
  Clients,      \* *client values: bounds the connections of a behaviour
  Broadcasts,   \* BroadcastIntent calls, each with its own message
  SendBuf,      \* sendBufSize
  BidBuf        \* capacity of bidCh

ASSUME BuffersAssumption == SendBuf \in Nat \ {0} /\ BidBuf \in Nat \ {0}

VARIABLES
  clients,      \* Hub.clients
  send,         \* what is queued in the send channel of a client
  closed,       \* the clients whose send channel is closed
  conn,         \* the connection of a client
  wp,           \* its writePump goroutine
  rp,           \* its readPump goroutine
  bc,           \* where a BroadcastIntent call is
  todo,         \* the clients a broadcast has yet to visit
  slow,         \* the local variable slow of a broadcast
  audience,     \* history: the clients a broadcast found in the map
  offered,      \* history: the broadcasts queued for a client
  bidCh,        \* how many bids wait in bidCh
  cancelled,    \* the context of the relayer is cancelled
  hubDone,      \* Run has returned
  serving,      \* the HTTP server still accepts connections
  panicked      \* a send channel was misused

procVars == <<cancelled, hubDone, serving>>
callVars == <<bc, todo, slow, audience, offered>>
vars == <<clients, send, closed, conn, wp, rp, bc, todo, slow, audience, offered,
          bidCh, cancelled, hubDone, serving, panicked>>

\* The types; no send channel holds more than its capacity.
TypeOK ==
  /\ clients \subseteq Clients /\ closed \subseteq Clients
  /\ send \in [Clients -> Seq(Broadcasts)]
  /\ \A c \in Clients : Len(send[c]) <= SendBuf
  /\ conn \in [Clients -> {"none", "open", "broken", "closed"}]
  /\ wp \in [Clients -> {"off", "run", "exited"}]
  /\ rp \in [Clients -> {"off", "run", "unregister", "close", "exited"}]
  /\ bc \in [Broadcasts -> {"idle", "sending", "evicting"}]
  /\ todo \in [Broadcasts -> SUBSET Clients]
  /\ slow \in [Broadcasts -> SUBSET Clients]
  /\ audience \in [Broadcasts -> SUBSET Clients]
  /\ offered \in [Clients -> SUBSET Broadcasts]
  /\ bidCh \in 0..BidBuf
  /\ cancelled \in BOOLEAN /\ hubDone \in BOOLEAN /\ serving \in BOOLEAN
  /\ panicked \in BOOLEAN

\* NewHub: no clients.
Init ==
  /\ clients = {} /\ closed = {}
  /\ send = [c \in Clients |-> <<>>]
  /\ conn = [c \in Clients |-> "none"]
  /\ wp = [c \in Clients |-> "off"]
  /\ rp = [c \in Clients |-> "off"]
  /\ bc = [b \in Broadcasts |-> "idle"]
  /\ todo = [b \in Broadcasts |-> {}]
  /\ slow = [b \in Broadcasts |-> {}]
  /\ audience = [b \in Broadcasts |-> {}]
  /\ offered = [c \in Clients |-> {}]
  /\ bidCh = 0
  /\ cancelled = FALSE /\ hubDone = FALSE /\ serving = TRUE
  /\ panicked = FALSE

BadCanLock == TRUE

\* Hub.mu can be taken for writing.
CanLock == \A b \in Broadcasts : bc[b] # "sending"

------------------------------------------------------------------------------
\* ServeWS: register the client and start its goroutines.  The context is not
\* consulted, so this happens until the server stops accepting connections.
ServeWS(c) ==
  /\ serving
  /\ conn[c] = "none"
  /\ CanLock
  /\ clients' = clients \cup {c}
  /\ conn' = [conn EXCEPT ![c] = "open"]
  /\ wp' = [wp EXCEPT ![c] = "run"]
  /\ rp' = [rp EXCEPT ![c] = "run"]
  /\ UNCHANGED <<send, closed, callVars, bidCh, procVars, panicked>>

BadIsRegistered(c) == TRUE

\* The existence check of unregisterClient.
IsRegistered(c) == c \in clients

BadClosedAfter(c) == closed

\* The close of unregisterClient: only for a client still in the map.
ClosedAfter(c) == IF IsRegistered(c) THEN closed \cup {c} ELSE closed

\* unregisterClient, under the write lock: delete and close, once.
UnregisterClient(c) ==
  /\ CanLock
  /\ clients' = clients \ {c}
  /\ closed' = ClosedAfter(c)
  /\ panicked' = (panicked \/ (IsRegistered(c) /\ c \in closed))

\* BroadcastIntent: take the read lock and start ranging over the map.
BroadcastIntent(b) ==
  /\ bc[b] = "idle"
  /\ bc' = [bc EXCEPT ![b] = "sending"]
  /\ todo' = [todo EXCEPT ![b] = clients]
  /\ audience' = [audience EXCEPT ![b] = clients]
  /\ UNCHANGED <<clients, send, closed, conn, wp, rp, slow, offered, bidCh,
                 procVars, panicked>>

BadSendFull(c) == Len(send[c]) > SendBuf

\* When the select statement of BroadcastIntent takes its default branch.
SendFull(c) == Len(send[c]) >= SendBuf

BadWithSlow(b, c) == slow

\* BroadcastIntent: remember a client whose queue is full.
WithSlow(b, c) == [slow EXCEPT ![b] = @ \cup {c}]

\* BroadcastIntent: the non-blocking send to one client.
BroadcastTo(b, c) ==
  /\ bc[b] = "sending"
  /\ c \in todo[b]
  /\ todo' = [todo EXCEPT ![b] = @ \ {c}]
  /\ panicked' = (panicked \/ c \in closed)
  /\ \/ /\ ~SendFull(c)
        /\ send' = [send EXCEPT ![c] = Append(@, b)]
        /\ offered' = [offered EXCEPT ![c] = @ \cup {b}]
        /\ UNCHANGED slow
     \/ /\ SendFull(c)
        /\ slow' = WithSlow(b, c)
        /\ UNCHANGED <<send, offered>>
  /\ UNCHANGED <<clients, closed, conn, wp, rp, bc, audience, bidCh, procVars>>

\* BroadcastIntent: every client was visited; release the read lock.
BroadcastUnlock(b) ==
  /\ bc[b] = "sending"
  /\ todo[b] = {}
  /\ bc' = [bc EXCEPT ![b] = "evicting"]
  /\ UNCHANGED <<clients, send, closed, conn, wp, rp, todo, slow, audience, offered,
                 bidCh, procVars, panicked>>

\* BroadcastIntent: disconnect one slow client.  The call has returned once
\* slow[b] is empty.
EvictSlow(b, c) ==
  /\ bc[b] = "evicting"
  /\ c \in slow[b]
  /\ UnregisterClient(c)
  /\ slow' = [slow EXCEPT ![b] = @ \ {c}]
  /\ UNCHANGED <<send, conn, wp, rp, bc, todo, audience, offered, bidCh, procVars>>

------------------------------------------------------------------------------
\* writePump: write the oldest message.  On a broken connection this may still
\* succeed, the frame going nowhere.
WriteMessage(c) ==
  /\ wp[c] = "run"
  /\ conn[c] # "closed"
  /\ send[c] # <<>>
  /\ send' = [send EXCEPT ![c] = Tail(@)]
  /\ UNCHANGED <<clients, closed, conn, wp, rp, callVars, bidCh, procVars, panicked>>

BadConnAfterWrite(c) == conn

\* The deferred Close of writePump.
ConnAfterWrite(c) == [conn EXCEPT ![c] = "closed"]

\* writePump: a message or a ping cannot be written, or the channel is closed
\* and drained; either way it returns and closes the connection.
WritePumpExits(c) ==
  /\ wp[c] = "run"
  /\ conn[c] # "open" \/ (c \in closed /\ send[c] = <<>>)
  /\ wp' = [wp EXCEPT ![c] = "exited"]
  /\ conn' = ConnAfterWrite(c)
  /\ UNCHANGED <<clients, send, closed, rp, callVars, bidCh, procVars, panicked>>

\* readPump: a valid bid is read and pushed to bidCh, or dropped if that is
\* full.  Messages that do not parse or are not positive change nothing.
ReadBid(c) ==
  /\ rp[c] = "run"
  /\ conn[c] = "open"
  /\ bidCh' = IF bidCh < BidBuf THEN bidCh + 1 ELSE bidCh
  /\ UNCHANGED <<clients, send, closed, conn, wp, rp, callVars, procVars, panicked>>

\* readPump: reading fails, on a broken connection or on one closed by writePump.
ReadFails(c) ==
  /\ rp[c] = "run"
  /\ conn[c] # "open"
  /\ rp' = [rp EXCEPT ![c] = "unregister"]
  /\ UNCHANGED <<clients, send, closed, conn, wp, callVars, bidCh, procVars,
                 panicked>>

\* readPump, deferred: unregister the client.
ReadPumpUnregisters(c) ==
  /\ rp[c] = "unregister"
  /\ UnregisterClient(c)
  /\ rp' = [rp EXCEPT ![c] = "close"]
  /\ UNCHANGED <<send, conn, wp, callVars, bidCh, procVars>>

\* readPump, deferred: close the connection.
ReadPumpExits(c) ==
  /\ rp[c] = "close"
  /\ rp' = [rp EXCEPT ![c] = "exited"]
  /\ conn' = [conn EXCEPT ![c] = "closed"]
  /\ UNCHANGED <<clients, send, closed, wp, callVars, bidCh, procVars, panicked>>

------------------------------------------------------------------------------
\* Reading from the solver will fail: it is gone, its pong is overdue or its
\* message is over the read limit.
PeerGone(c) ==
  /\ conn[c] = "open"
  /\ conn' = [conn EXCEPT ![c] = "broken"]
  /\ UNCHANGED <<clients, send, closed, wp, rp, callVars, bidCh, procVars, panicked>>

\* runBidDispatcher takes a bid.
TakeBid ==
  /\ bidCh > 0
  /\ bidCh' = bidCh - 1
  /\ UNCHANGED <<clients, send, closed, conn, wp, rp, callVars, procVars,
                 panicked>>

\* main: cancel(), the first step of the shutdown.
Cancel ==
  /\ ~cancelled
  /\ cancelled' = TRUE
  /\ UNCHANGED <<clients, send, closed, conn, wp, rp, callVars, bidCh, hubDone,
                 serving, panicked>>

\* Run: after the cancellation, close and delete every registered client.
RunShutdown ==
  /\ cancelled /\ ~hubDone
  /\ CanLock
  /\ clients' = {}
  /\ closed' = closed \cup clients
  /\ panicked' = (panicked \/ clients \cap closed # {})
  /\ hubDone' = TRUE
  /\ UNCHANGED <<send, conn, wp, rp, callVars, bidCh, cancelled, serving>>

\* main: srv.Shutdown, after cancel(), stops accepting connections.
ServerShutdown ==
  /\ cancelled /\ serving
  /\ serving' = FALSE
  /\ UNCHANGED <<clients, send, closed, conn, wp, rp, callVars, bidCh, cancelled,
                 hubDone, panicked>>

WritePump(c) == WriteMessage(c) \/ WritePumpExits(c)

ReadPump(c) == ReadFails(c) \/ ReadPumpUnregisters(c) \/ ReadPumpExits(c)

Broadcast(b) ==
  \/ \E c \in Clients : BroadcastTo(b, c) \/ EvictSlow(b, c)
  \/ BroadcastUnlock(b)

Next ==
  \/ \E c \in Clients :
       ServeWS(c) \/ WritePump(c) \/ ReadBid(c) \/ ReadPump(c) \/ PeerGone(c)
  \/ \E b \in Broadcasts : BroadcastIntent(b) \/ Broadcast(b)
  \/ TakeBid
  \/ Cancel
  \/ RunShutdown
  \/ ServerShutdown

Spec == Init /\ [][Next]_vars

\* Started goroutines and calls keep running.  Solvers need not send, connect or
\* disconnect, handlers need not broadcast, the relayer need not shut down.
Fairness ==
  /\ \A c \in Clients : WF_vars(WritePump(c)) /\ WF_vars(ReadPump(c))
  /\ \A b \in Broadcasts : WF_vars(Broadcast(b))
  /\ WF_vars(RunShutdown)

FairSpec == Spec /\ Fairness

------------------------------------------------------------------------------
(***************************************************************************)
(* Correctness.                                                            *)
(***************************************************************************)

\* No broadcast sends on a closed channel and no channel is closed twice, with
\* slow-client eviction, readPump and the shutdown of Run racing to close it.
NoPanic == ~panicked

\* A client that has been registered is in the map exactly while its send channel
\* is open, so writePump is told to stop if and only if the hub has let go of it.
OpenIffRegistered ==
  \A c \in Clients : conn[c] # "none" => (c \in clients <=> c \notin closed)

\* A solver that is still registered after a broadcast that found it in the map
\* has been sent that intent: a message is skipped only by disconnecting.
RegisteredSolversMissNothing ==
  \A b \in Broadcasts : bc[b] = "evicting" /\ slow[b] = {} =>
    \A c \in audience[b] \cap clients : b \in offered[c]

\* Both goroutines of a client end, its connection is closed and it is out of
\* the map, once either of them ended, the peer is gone, or the hub closed its
\* channel: neither pump is left behind by the other.
ClientsGetCleanedUp ==
  \A c \in Clients :
    (conn[c] \in {"broken", "closed"} \/ c \in closed) ~>
      /\ wp[c] = "exited" /\ rp[c] = "exited"
      /\ conn[c] = "closed" /\ c \notin clients

==============================================================================
