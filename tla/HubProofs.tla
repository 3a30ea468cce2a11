------------------------------ MODULE HubProofs ------------------------------
(***************************************************************************)
(* Theorems about Hub, for any number of solvers and of concurrent         *)
(* broadcasts and any capacity of the channels.                            *)
(*                                                                         *)
(* NoPanic is not inductive: that a broadcast sends on open channels only  *)
(* rests on the clients it has yet to visit being registered, which holds  *)
(* because whoever removes a client needs the write lock (CanLock).  And   *)
(* that a registered solver misses nothing rests on every client of the    *)
(* audience being still to visit, marked slow, or served, and on a client  *)
(* that was removed never being registered again.  HubInv says so.         *)
(***************************************************************************)
EXTENDS Hub, TLAPS

\* The variables the argument reads are functions or sets of the right kind.
Shapes ==
  /\ clients \subseteq Clients /\ closed \subseteq Clients
  /\ conn \in [Clients -> {"none", "open", "broken", "closed"}]
  /\ bc \in [Broadcasts -> {"idle", "sending", "evicting"}]
  /\ todo \in [Broadcasts -> SUBSET Clients]
  /\ slow \in [Broadcasts -> SUBSET Clients]
  /\ audience \in [Broadcasts -> SUBSET Clients]
  /\ offered \in [Clients -> SUBSET Broadcasts]

\* A client that never connected is unknown to the hub and to every broadcast.
StrangersUnknown ==
  \A c \in Clients : conn[c] = "none" =>
    /\ c \notin clients /\ c \notin closed
    /\ \A b \in Broadcasts : c \notin audience[b]

\* Under the read lock, whoever is still to be visited is registered.
TodoRegistered ==
  \A b \in Broadcasts : bc[b] = "sending" => todo[b] \subseteq clients

\* A broadcast that left its loop has visited everybody.
VisitedAll ==
  \A b \in Broadcasts : bc[b] = "evicting" => todo[b] = {}

\* Nobody in the audience is forgotten while it is registered.
AudienceAccounted ==
  \A b \in Broadcasts : \A c \in audience[b] \cap clients :
    c \in todo[b] \/ c \in slow[b] \/ b \in offered[c]

HubInv ==
  /\ Shapes
  /\ StrangersUnknown
  /\ OpenIffRegistered
  /\ TodoRegistered
  /\ VisitedAll
  /\ AudienceAccounted
  /\ NoPanic

\* The hub of NewHub satisfies the invariant.
LEMMA HubInvInit == Init => HubInv
  BY DEF Init, HubInv, Shapes, StrangersUnknown, OpenIffRegistered, TodoRegistered,
         VisitedAll, AudienceAccounted, NoPanic

\* What the invariant speaks of.
hubVars == <<clients, closed, conn, bc, todo, slow, audience, offered, panicked>>

\* A step that leaves all of that alone keeps the invariant.
LEMMA HubFrame == HubInv /\ UNCHANGED hubVars => HubInv'
  BY DEF hubVars, HubInv, Shapes, StrangersUnknown, OpenIffRegistered,
         TodoRegistered, VisitedAll, AudienceAccounted, NoPanic

\* ServeWS registers a client no broadcast knows of and whose channel is open.
LEMMA ServeStep ==
  ASSUME HubInv, NEW c \in Clients, ServeWS(c)
  PROVE  HubInv'
  BY DEF ServeWS, CanLock, callVars, procVars, HubInv, Shapes, StrangersUnknown,
         OpenIffRegistered, TodoRegistered, VisitedAll, AudienceAccounted, NoPanic

\* A change of a connection that stays known keeps the invariant.
LEMMA ConnStep ==
  ASSUME HubInv, NEW c \in Clients,
         conn[c] # "none",
         NEW s \in {"broken", "closed"},
         conn' = [conn EXCEPT ![c] = s],
         UNCHANGED <<clients, closed, bc, todo, slow, audience, offered, panicked>>
  PROVE  HubInv'
  BY DEF HubInv, Shapes, StrangersUnknown, OpenIffRegistered, TodoRegistered,
         VisitedAll, AudienceAccounted, NoPanic

\* unregisterClient, called by readPump or for a slow client, closes the channel
\* of a registered client, no other, and disturbs no broadcast under the lock.
LEMMA UnregisterStep ==
  ASSUME HubInv, NEW c \in Clients, UnregisterClient(c),
         slow' \in [Broadcasts -> SUBSET Clients],
         \A b \in Broadcasts : slow[b] \ {c} \subseteq slow'[b],
         UNCHANGED <<conn, bc, todo, audience, offered>>
  PROVE  HubInv'
<1>1. clients' = clients \ {c} /\ CanLock
  BY DEF UnregisterClient
<1>2. conn[c] = "none" => closed' = closed
  BY DEF UnregisterClient, ClosedAfter, IsRegistered, HubInv, StrangersUnknown
<1>3. Shapes' /\ StrangersUnknown'
  BY <1>1, <1>2 DEF UnregisterClient, ClosedAfter, IsRegistered, HubInv, Shapes,
     StrangersUnknown
<1>4. OpenIffRegistered'
  BY <1>1 DEF UnregisterClient, ClosedAfter, IsRegistered, HubInv, Shapes,
     StrangersUnknown, OpenIffRegistered
<1>5. TodoRegistered' /\ VisitedAll'
  BY <1>1 DEF CanLock, HubInv, TodoRegistered, VisitedAll
<1>6. AudienceAccounted'
  BY <1>1 DEF HubInv, AudienceAccounted
<1>7. NoPanic'
  <2>1. ~(IsRegistered(c) /\ c \in closed)
    BY DEF IsRegistered, HubInv, StrangersUnknown, OpenIffRegistered
  <2>2. QED BY <2>1, ZenonT(30) DEF UnregisterClient, HubInv, NoPanic
<1>8. QED BY <1>3, <1>4, <1>5, <1>6, <1>7 DEF HubInv

\* A broadcast finds the registered clients and has yet to visit all of them.
LEMMA BroadcastStarts ==
  ASSUME HubInv, NEW b \in Broadcasts, BroadcastIntent(b)
  PROVE  HubInv'
  BY DEF BroadcastIntent, procVars, HubInv, Shapes, StrangersUnknown,
         OpenIffRegistered, TodoRegistered, VisitedAll, AudienceAccounted, NoPanic

\* The non-blocking send finds the channel open, and serves or marks the client.
LEMMA VisitStep ==
  ASSUME HubInv, NEW b \in Broadcasts, NEW c \in Clients, BroadcastTo(b, c)
  PROVE  HubInv'
<1>1. c \in clients /\ c \notin closed
  BY DEF BroadcastTo, HubInv, TodoRegistered, StrangersUnknown, OpenIffRegistered
<1>2. /\ UNCHANGED <<clients, closed, conn, bc, audience>>
      /\ todo' = [todo EXCEPT ![b] = @ \ {c}]
  BY DEF BroadcastTo
<1>3. \/ offered' = [offered EXCEPT ![c] = @ \cup {b}] /\ slow' = slow
      \/ slow' = [slow EXCEPT ![b] = @ \cup {c}] /\ offered' = offered
  BY DEF BroadcastTo, WithSlow
<1>4. Shapes' BY <1>2, <1>3 DEF HubInv, Shapes
<1>5. StrangersUnknown' /\ OpenIffRegistered' /\ TodoRegistered' /\ VisitedAll'
  BY <1>2 DEF HubInv, Shapes, StrangersUnknown, OpenIffRegistered, TodoRegistered,
     VisitedAll
<1>6. AudienceAccounted' BY <1>2, <1>3 DEF HubInv, Shapes, AudienceAccounted
<1>7. NoPanic' BY <1>1, ZenonT(30) DEF BroadcastTo, HubInv, NoPanic
<1>8. QED BY <1>4, <1>5, <1>6, <1>7 DEF HubInv

\* Releasing the read lock: everybody was visited.
LEMMA UnlockStep ==
  ASSUME HubInv, NEW b \in Broadcasts, BroadcastUnlock(b)
  PROVE  HubInv'
  BY DEF BroadcastUnlock, procVars, HubInv, Shapes, StrangersUnknown,
         OpenIffRegistered, TodoRegistered, VisitedAll, AudienceAccounted, NoPanic

\* The sweep of Run closes the channels of registered clients only.
LEMMA ShutdownStep == HubInv /\ RunShutdown => HubInv'
<1> SUFFICES ASSUME HubInv, RunShutdown PROVE HubInv'
  OBVIOUS
<1>1. /\ clients' = {} /\ closed' = closed \cup clients /\ CanLock
      /\ UNCHANGED <<conn, bc, todo, slow, audience, offered>>
  BY DEF RunShutdown, callVars
<1>2. Shapes' /\ StrangersUnknown'
  BY <1>1 DEF HubInv, Shapes, StrangersUnknown
<1>3. OpenIffRegistered'
  BY <1>1 DEF HubInv, OpenIffRegistered
<1>4. TodoRegistered' /\ VisitedAll' /\ AudienceAccounted'
  BY <1>1 DEF CanLock, HubInv, TodoRegistered, VisitedAll, AudienceAccounted
<1>5. NoPanic'
  <2>1. \A c \in Clients : ~(c \in clients /\ c \in closed)
    BY ZenonT(30) DEF HubInv, StrangersUnknown, OpenIffRegistered
  <2>2. clients \cap closed = {}
    BY <2>1 DEF HubInv, Shapes
  <2>3. QED BY <2>2, ZenonT(30) DEF RunShutdown, HubInv, NoPanic
<1>6. QED BY <1>2, <1>3, <1>4, <1>5 DEF HubInv

\* The goroutines of a client exist only once it has connected.
PumpInv ==
  /\ conn \in [Clients -> {"none", "open", "broken", "closed"}]
  /\ wp \in [Clients -> {"off", "run", "exited"}]
  /\ rp \in [Clients -> {"off", "run", "unregister", "close", "exited"}]
  /\ \A c \in Clients : conn[c] = "none" => wp[c] = "off" /\ rp[c] = "off"

\* No step starts a goroutine for a client without a connection.
LEMMA PumpInvStep == PumpInv /\ [Next]_vars => PumpInv'
<1> SUFFICES ASSUME PumpInv, [Next]_vars PROVE PumpInv'
  OBVIOUS
<1> USE DEF PumpInv
<1>1. ASSUME NEW c \in Clients, ServeWS(c) PROVE PumpInv'
  BY <1>1 DEF ServeWS
<1>2. ASSUME NEW c \in Clients, WritePump(c) PROVE PumpInv'
  BY <1>2 DEF WritePump, WriteMessage, WritePumpExits, ConnAfterWrite
<1>3. ASSUME NEW c \in Clients, ReadPump(c) PROVE PumpInv'
  BY <1>3 DEF ReadPump, ReadFails, ReadPumpUnregisters, ReadPumpExits
<1>4. ASSUME NEW c \in Clients, ReadBid(c) \/ PeerGone(c) PROVE PumpInv'
  BY <1>4 DEF ReadBid, PeerGone
<1>5. ASSUME NEW b \in Broadcasts, BroadcastIntent(b) \/ Broadcast(b) PROVE PumpInv'
  BY <1>5 DEF BroadcastIntent, Broadcast, BroadcastTo, EvictSlow, BroadcastUnlock
<1>6. CASE TakeBid \/ Cancel \/ RunShutdown \/ ServerShutdown \/ UNCHANGED vars
  BY <1>6 DEF TakeBid, Cancel, RunShutdown, ServerShutdown, vars
<1>7. QED BY <1>1, <1>2, <1>3, <1>4, <1>5, <1>6 DEF Next

\* Every step of the hub keeps the invariant.
LEMMA HubInvStep == PumpInv /\ HubInv /\ [Next]_vars => HubInv'
<1> SUFFICES ASSUME PumpInv, HubInv, [Next]_vars PROVE HubInv'
  OBVIOUS
<1>1. ASSUME NEW c \in Clients, ServeWS(c) PROVE HubInv'
  BY <1>1, ServeStep
<1>2. ASSUME NEW c \in Clients, WritePump(c) PROVE HubInv'
  <2>1. CASE WriteMessage(c)
    BY <2>1, HubFrame DEF WriteMessage, hubVars, callVars
  <2>2. CASE WritePumpExits(c)
    <3>1. conn[c] # "none"
      BY <2>2 DEF WritePumpExits, PumpInv
    <3>2. /\ conn' = [conn EXCEPT ![c] = "closed"]
          /\ UNCHANGED <<clients, closed, bc, todo, slow, audience, offered, panicked>>
      BY <2>2 DEF WritePumpExits, ConnAfterWrite, callVars
    <3>3. QED BY <3>1, <3>2, ConnStep, ZenonT(30)
  <2>3. QED BY <1>2, <2>1, <2>2 DEF WritePump
<1>3. ASSUME NEW c \in Clients, ReadPump(c) PROVE HubInv'
  <2>1. CASE ReadFails(c)
    BY <2>1, HubFrame DEF ReadFails, hubVars, callVars
  <2>2. CASE ReadPumpUnregisters(c)
    <3>1. UnregisterClient(c) /\ UNCHANGED <<conn, bc, todo, slow, audience, offered>>
      BY <2>2 DEF ReadPumpUnregisters, callVars
    <3>2. slow' \in [Broadcasts -> SUBSET Clients]
      BY <3>1 DEF HubInv, Shapes
    <3>3. QED BY <3>1, <3>2, UnregisterStep
  <2>3. CASE ReadPumpExits(c)
    <3>1. conn[c] # "none"
      BY <2>3 DEF ReadPumpExits, PumpInv
    <3>2. /\ conn' = [conn EXCEPT ![c] = "closed"]
          /\ UNCHANGED <<clients, closed, bc, todo, slow, audience, offered, panicked>>
      BY <2>3 DEF ReadPumpExits, callVars
    <3>3. QED BY <3>1, <3>2, ConnStep, ZenonT(30)
  <2>4. QED BY <1>3, <2>1, <2>2, <2>3 DEF ReadPump
<1>4. ASSUME NEW c \in Clients, ReadBid(c) PROVE HubInv'
  BY <1>4, HubFrame DEF ReadBid, hubVars, callVars
<1>5. ASSUME NEW c \in Clients, PeerGone(c) PROVE HubInv'
  <2>1. /\ conn[c] # "none"
        /\ conn' = [conn EXCEPT ![c] = "broken"]
        /\ UNCHANGED <<clients, closed, bc, todo, slow, audience, offered, panicked>>
    BY <1>5 DEF PeerGone, callVars
  <2>2. QED BY <2>1, ConnStep, ZenonT(30)
<1>6. ASSUME NEW b \in Broadcasts, BroadcastIntent(b) PROVE HubInv'
  BY <1>6, BroadcastStarts
<1>7. ASSUME NEW b \in Broadcasts, Broadcast(b) PROVE HubInv'
  <2>1. ASSUME NEW c \in Clients, BroadcastTo(b, c) PROVE HubInv'
    BY <2>1, VisitStep
  <2>2. ASSUME NEW c \in Clients, EvictSlow(b, c) PROVE HubInv'
    <3>1. /\ UnregisterClient(c) /\ UNCHANGED <<conn, bc, todo, audience, offered>>
          /\ slow' = [slow EXCEPT ![b] = @ \ {c}]
      BY <2>2 DEF EvictSlow
    <3>2. /\ slow' \in [Broadcasts -> SUBSET Clients]
          /\ \A d \in Broadcasts : slow[d] \ {c} \subseteq slow'[d]
      BY <3>1 DEF HubInv, Shapes
    <3>3. QED BY <3>1, <3>2, UnregisterStep
  <2>3. CASE BroadcastUnlock(b)
    BY <2>3, UnlockStep
  <2>4. QED BY <1>7, <2>1, <2>2, <2>3 DEF Broadcast
<1>8. CASE TakeBid \/ Cancel \/ ServerShutdown \/ UNCHANGED vars
  BY <1>8, HubFrame DEF TakeBid, Cancel, ServerShutdown, hubVars, callVars, vars
<1>9. CASE RunShutdown
  BY <1>9, ShutdownStep
<1>10. QED
  BY <1>1, <1>2, <1>3, <1>4, <1>5, <1>6, <1>7, <1>8, <1>9 DEF Next

\* The invariant holds in every behaviour of the hub.
LEMMA HubInvariant == Spec => [](PumpInv /\ HubInv)
<1>1. Init => PumpInv /\ HubInv
  <2>1. Init => PumpInv BY DEF Init, PumpInv
  <2>2. QED BY <2>1, HubInvInit
<1>2. PumpInv /\ HubInv /\ [Next]_vars => (PumpInv /\ HubInv)'
  BY PumpInvStep, HubInvStep
<1>3. QED BY <1>1, <1>2, PTL DEF Spec

\* Slow-client eviction, readPump and the sweep of Run never close a send channel
\* twice, and BroadcastIntent never sends on a closed one: Go does not panic,
\* however many solvers and handlers there are.
THEOREM HubNeverPanics == Spec => []NoPanic
  BY HubInvariant, PTL DEF HubInv

\* The map of the hub holds a client exactly while its send channel is open, so
\* unregisterClient tells writePump to stop if and only if it let the client go.
THEOREM MapMatchesChannels == Spec => []OpenIffRegistered
  BY HubInvariant, PTL DEF HubInv

\* BroadcastIntent has queued its message for every solver it found in the map
\* and did not disconnect.
THEOREM NoSolverSkipped == Spec => []RegisteredSolversMissNothing
<1>1. HubInv => RegisteredSolversMissNothing
  BY DEF HubInv, VisitedAll, AudienceAccounted, RegisteredSolversMissNothing
<1>2. QED BY <1>1, HubInvariant, PTL

\* The channels never hold more than their capacity.
BufferInv ==
  /\ send \in [Clients -> Seq(Broadcasts)]
  /\ \A c \in Clients : Len(send[c]) <= SendBuf
  /\ bidCh \in 0..BidBuf

\* The default branches of BroadcastIntent and readPump keep the channels within
\* their capacity, and no other step adds to one.
LEMMA BufferStep == BufferInv /\ [Next]_vars => BufferInv'
<1> SUFFICES ASSUME BufferInv, [Next]_vars PROVE BufferInv'
  OBVIOUS
<1> USE BuffersAssumption DEF BufferInv, procVars, callVars
<1>1. ASSUME NEW c \in Clients, ServeWS(c) \/ PeerGone(c) PROVE BufferInv'
  BY <1>1 DEF ServeWS, PeerGone
<1>2. ASSUME NEW c \in Clients, WriteMessage(c) PROVE BufferInv'
  <2>1. /\ Tail(send[c]) \in Seq(Broadcasts)
        /\ Len(Tail(send[c])) <= Len(send[c])
    BY <1>2 DEF WriteMessage
  <2>2. send' = [send EXCEPT ![c] = Tail(send[c])]
    BY <1>2 DEF WriteMessage
  <2>3. UNCHANGED bidCh
    BY <1>2 DEF WriteMessage
  <2>4. QED BY <2>1, <2>2, <2>3
<1>3. ASSUME NEW c \in Clients, WritePumpExits(c) \/ ReadPump(c) PROVE BufferInv'
  BY <1>3 DEF WritePumpExits, ReadPump, ReadFails, ReadPumpUnregisters, ReadPumpExits
<1>4. ASSUME NEW c \in Clients, ReadBid(c) PROVE BufferInv'
  BY <1>4 DEF ReadBid
<1>5. ASSUME NEW b \in Broadcasts, BroadcastIntent(b) \/ BroadcastUnlock(b)
      PROVE  BufferInv'
  BY <1>5 DEF BroadcastIntent, BroadcastUnlock
<1>6. ASSUME NEW b \in Broadcasts, NEW c \in Clients, BroadcastTo(b, c)
      PROVE  BufferInv'
  <2>1. UNCHANGED bidCh
    BY <1>6 DEF BroadcastTo
  <2>2. CASE ~SendFull(c)
    <3>1. send' = [send EXCEPT ![c] = Append(send[c], b)]
      BY <1>6, <2>2 DEF BroadcastTo
    <3>2. Append(send[c], b) \in Seq(Broadcasts) /\ Len(Append(send[c], b)) <= SendBuf
      BY <2>2 DEF SendFull
    <3>3. QED BY <2>1, <3>1, <3>2
  <2>3. CASE SendFull(c)
    BY <1>6, <2>1, <2>3 DEF BroadcastTo
  <2>4. QED BY <2>2, <2>3
<1>7. ASSUME NEW b \in Broadcasts, NEW c \in Clients, EvictSlow(b, c)
      PROVE  BufferInv'
  BY <1>7 DEF EvictSlow
<1>8. CASE TakeBid \/ Cancel \/ RunShutdown \/ ServerShutdown \/ UNCHANGED vars
  BY <1>8 DEF TakeBid, Cancel, RunShutdown, ServerShutdown, vars
<1>9. QED
  BY <1>1, <1>2, <1>3, <1>4, <1>5, <1>6, <1>7, <1>8 DEF Next, WritePump, Broadcast

\* The flags of the process.
FlagsInv ==
  /\ cancelled \in BOOLEAN /\ hubDone \in BOOLEAN /\ serving \in BOOLEAN
  /\ panicked \in BOOLEAN

\* A flag only ever gets the value of a condition.
LEMMA FlagsStep == FlagsInv /\ [Next]_vars => FlagsInv'
<1> SUFFICES ASSUME FlagsInv, [Next]_vars PROVE FlagsInv'
  OBVIOUS
<1> USE ZenonT(30) DEF FlagsInv, procVars
<1>1. ASSUME NEW c \in Clients, ServeWS(c) \/ PeerGone(c) \/ ReadBid(c)
      PROVE  FlagsInv'
  BY <1>1 DEF ServeWS, PeerGone, ReadBid
<1>2. ASSUME NEW c \in Clients, WritePump(c) PROVE FlagsInv'
  BY <1>2 DEF WritePump, WriteMessage, WritePumpExits
<1>3. ASSUME NEW c \in Clients, ReadPump(c) PROVE FlagsInv'
  BY <1>3 DEF ReadPump, ReadFails, ReadPumpUnregisters, ReadPumpExits,
     UnregisterClient
<1>4. ASSUME NEW b \in Broadcasts, BroadcastIntent(b) \/ BroadcastUnlock(b)
      PROVE  FlagsInv'
  BY <1>4 DEF BroadcastIntent, BroadcastUnlock
<1>5. ASSUME NEW b \in Broadcasts, NEW c \in Clients,
             BroadcastTo(b, c) \/ EvictSlow(b, c)
      PROVE  FlagsInv'
  BY <1>5 DEF BroadcastTo, EvictSlow, UnregisterClient
<1>6. CASE TakeBid \/ Cancel \/ UNCHANGED vars
  BY <1>6 DEF TakeBid, Cancel, vars
<1>7. CASE RunShutdown \/ ServerShutdown
  BY <1>7 DEF RunShutdown, ServerShutdown
<1>8. QED
  BY <1>1, <1>2, <1>3, <1>4, <1>5, <1>6, <1>7 DEF Next, Broadcast

\* Whatever the solvers and handlers do, no send channel and not bidCh hold more
\* than make gave them room for, the pumps and broadcasts are where their code can
\* be, and every variable keeps its type.
THEOREM HubTypes == Spec => []TypeOK
<1>1. Init => BufferInv /\ FlagsInv
  <2>1. Init => BufferInv BY BuffersAssumption DEF Init, BufferInv
  <2>2. Init => FlagsInv BY ZenonT(30) DEF Init, FlagsInv
  <2>3. QED BY <2>1, <2>2
<1>2. Spec => [](BufferInv /\ FlagsInv)
  BY <1>1, BufferStep, FlagsStep, PTL DEF Spec
<1>3. HubInv /\ PumpInv /\ BufferInv /\ FlagsInv => TypeOK
  BY ZenonT(30) DEF HubInv, Shapes, PumpInv, BufferInv, FlagsInv, TypeOK
<1>4. QED BY <1>2, <1>3, HubInvariant, PTL

==============================================================================
