-------------------------- MODULE SimulationProofs --------------------------
(***************************************************************************)
(* What is signed, and who is paid.  First the digests and identifiers of  *)
(* Signing.  Then: an escrow is paid to nobody but the winner of an        *)
(* auction with its identifier on chain (PayeesAreWinners), for any number *)
(* of drivers, strangers, identifiers and accounts and any configuration   *)
(* of the relayer; and, where identifiers do not meet on chain, of an      *)
(* auction for the very identifier it was locked for (EscrowsGoToWinners). *)
(*                                                                         *)
(* The argument follows a claim backwards.  A claim in the pool, like a    *)
(* voucher, names a request and the first bid of its auction, which is     *)
(* closed (ClaimsOfWinners).  LockedNames relates an escrow to the         *)
(* identifier it was locked for.  The other conjuncts say whose escrow it  *)
(* is: that of the driver that chose the identifier, or of Rival           *)
(* (EscrowOwners), and a driver posts only after its own lockIntent has    *)
(* succeeded (PostersHaveEscrows).                                         *)
(***************************************************************************)
EXTENDS Simulation, TLAPS

(***************************************************************************)
(* What the digests and identifiers of Signing keep apart, for identifiers *)
(* of any bytes and any length.                                            *)
(***************************************************************************)

\* An identifier of the API: its bytes, none of which is zero.
Identifiers == Seq(Nat \ {0})

\* Strings are equal if they have the same bytes.
LEMMA SameBytes ==
  ASSUME NEW a \in Identifiers, NEW b \in Identifiers, Len(a) = Len(b),
         \A k \in 1..Len(a) : a[k] = b[k]
  PROVE  a = b
BY SMTT(30) DEF Identifiers

\* execute, copy(intentIDBytes[:], ...): identifiers that fit have different
\* escrows on chain.
THEOREM IdentifiersKeepApart ==
  ASSUME NEW a \in Identifiers, NEW b \in Identifiers,
         Len(a) <= IdBytes, Len(b) <= IdBytes,
         IntentIDBytes(a) = IntentIDBytes(b)
  PROVE  a = b
<1>1. \A k \in 1..IdBytes :
        (IF k <= Len(a) THEN a[k] ELSE 0) = (IF k <= Len(b) THEN b[k] ELSE 0)
  <2> TAKE k \in 1..IdBytes
  <2>1. IntentIDBytes(a)[k] = IntentIDBytes(b)[k]
    OBVIOUS
  <2> QED
    BY <2>1 DEF IntentIDBytes
<1>2. \A k \in 1..Len(a) : a[k] # 0
  BY DEF Identifiers
<1>3. \A k \in 1..Len(b) : b[k] # 0
  BY DEF Identifiers
<1>4. Len(a) \in Nat /\ Len(b) \in Nat
  BY DEF Identifiers
<1>5. Len(a) = Len(b)
  <2>1. CASE Len(a) < Len(b)
    BY <2>1, <1>1, <1>3, <1>4, IdBytesAssumption
  <2>2. CASE Len(b) < Len(a)
    BY <2>2, <1>1, <1>2, <1>4, IdBytesAssumption
  <2> QED
    BY <2>1, <2>2, <1>4
<1>6. \A k \in 1..Len(a) : a[k] = b[k]
  BY <1>1, <1>4, <1>5, IdBytesAssumption
<1> QED
  BY <1>5, <1>6, SameBytes

\* The same copy: identifiers that agree on their first IdBytes bytes have one
\* escrow between them, whatever follows.  A UUID in its usual form, which
\* docs/API.md:34 recommends, has 36 bytes.
THEOREM LongIdentifiersCollide ==
  ASSUME NEW a \in Identifiers, NEW b \in Identifiers,
         Len(a) >= IdBytes, Len(b) >= IdBytes,
         \A k \in 1..IdBytes : a[k] = b[k]
  PROVE  IntentIDBytes(a) = IntentIDBytes(b)
<1>1. Len(a) \in Nat /\ Len(b) \in Nat
  BY DEF Identifiers
<1> QED
  BY <1>1, IdBytesAssumption DEF IntentIDBytes

\* Keccak256 is ideal.
LEMMA KeccakInjective ==
  ASSUME NEW x, NEW y, Keccak256(x) = Keccak256(y)
  PROVE  x = y
BY DEF Keccak256

\* ClaimDigest binds an escrow to a payee.
LEMMA ClaimDigestInjective ==
  ASSUME NEW i, NEW j, NEW s, NEW t, ClaimDigest(i, s) = ClaimDigest(j, t)
  PROVE  i = j /\ s = t
<1> DEFINE prefix == "\\x19Ethereum Signed Message:\\n32"
<1>1. <<prefix, Keccak256(<<i, s>>)>> = <<prefix, Keccak256(<<j, t>>)>>
  BY KeccakInjective, ZenonT(30) DEF ClaimDigest
<1>2. Keccak256(<<i, s>>) = Keccak256(<<j, t>>)
  BY <1>1
<1>3. <<i, s>> = <<j, t>>
  BY <1>2, KeccakInjective
<1> QED
  BY <1>3

\* HashIntent: two intents have the same digest under two domains exactly if the
\* domains agree and the intents agree on all that is signed, numbers modulo
\* 2^256.  The deadline counts by the second; the identifier is not signed at all.
THEOREM HashIntentBinds ==
  ASSUME NEW d, NEW e, NEW in, NEW jn
  PROVE  HashIntent(d, in) = HashIntent(e, jn) <=>
         /\ d.Name = e.Name /\ d.Version = e.Version
         /\ d.VerifyingContract = e.VerifyingContract
         /\ Pack(d.ChainID) = Pack(e.ChainID)
         /\ in.Sender = jn.Sender
         /\ in.TokenIn = jn.TokenIn /\ in.TokenOut = jn.TokenOut
         /\ Pack(in.AmountIn) = Pack(jn.AmountIn)
         /\ Pack(in.MinAmountOut) = Pack(jn.MinAmountOut)
         /\ Pack(Unix(in.Deadline)) = Pack(Unix(jn.Deadline))
         /\ Pack(in.Nonce) = Pack(jn.Nonce)
<1> DEFINE Fields(x) == <<intentTypeHash, x.Sender, x.TokenIn, x.TokenOut, Pack(x.AmountIn),
                          Pack(x.MinAmountOut), Pack(Unix(x.Deadline)), Pack(x.Nonce)>>
           Parts(x) == <<domainTypeHash, Keccak256(x.Name), Keccak256(x.Version),
                         Pack(x.ChainID), x.VerifyingContract>>
<1>1. HashIntent(d, in) = HashIntent(e, jn) <=> Parts(d) = Parts(e) /\ Fields(in) = Fields(jn)
  <2>1. ASSUME HashIntent(d, in) = HashIntent(e, jn)
        PROVE  DomainSeparator(d) = DomainSeparator(e) /\ StructHash(in) = StructHash(jn)
    <3>1. <<"\\x19\\x01", DomainSeparator(d), StructHash(in)>>
            = <<"\\x19\\x01", DomainSeparator(e), StructHash(jn)>>
      BY <2>1, KeccakInjective DEF HashIntent
    <3> QED
      BY <3>1
  <2>2. DomainSeparator(d) = DomainSeparator(e) <=> Parts(d) = Parts(e)
    BY KeccakInjective DEF DomainSeparator
  <2>3. StructHash(in) = StructHash(jn) <=> Fields(in) = Fields(jn)
    BY KeccakInjective DEF StructHash
  <2>4. ASSUME DomainSeparator(d) = DomainSeparator(e), StructHash(in) = StructHash(jn)
        PROVE  HashIntent(d, in) = HashIntent(e, jn)
    BY <2>4 DEF HashIntent
  <2> QED
    BY <2>1, <2>2, <2>3, <2>4
<1>2. Parts(d) = Parts(e) <=>
        /\ Keccak256(d.Name) = Keccak256(e.Name) /\ Keccak256(d.Version) = Keccak256(e.Version)
        /\ Pack(d.ChainID) = Pack(e.ChainID) /\ d.VerifyingContract = e.VerifyingContract
  OBVIOUS
<1>3. Fields(in) = Fields(jn) <=>
        /\ in.Sender = jn.Sender
        /\ in.TokenIn = jn.TokenIn /\ in.TokenOut = jn.TokenOut
        /\ Pack(in.AmountIn) = Pack(jn.AmountIn)
        /\ Pack(in.MinAmountOut) = Pack(jn.MinAmountOut)
        /\ Pack(Unix(in.Deadline)) = Pack(Unix(jn.Deadline))
        /\ Pack(in.Nonce) = Pack(jn.Nonce)
  OBVIOUS
<1>4. /\ Keccak256(d.Name) = Keccak256(e.Name) <=> d.Name = e.Name
      /\ Keccak256(d.Version) = Keccak256(e.Version) <=> d.Version = e.Version
  BY KeccakInjective
<1> HIDE DEF Fields, Parts
<1> QED
  BY <1>1, <1>2, <1>3, <1>4

\* The integers that a uint256 holds.
Words == 0..(Uint256 - 1)

\* args.Pack keeps an integer that fits.
LEMMA PackExact ==
  ASSUME NEW n \in Words
  PROVE  Pack(n) = n
BY Uint256Assumption, SMTT(30) DEF Words, Pack

\* HashIntent: for numbers that fit into a uint256 nothing that is signed can be
\* exchanged without changing the digest.
THEOREM HashIntentBindsWords ==
  ASSUME NEW d, NEW e, NEW in, NEW jn, HashIntent(d, in) = HashIntent(e, jn),
         \A x \in {d, e} : x.ChainID \in Words,
         \A x \in {in, jn} : /\ x.AmountIn \in Words /\ x.MinAmountOut \in Words
                             /\ Unix(x.Deadline) \in Words /\ x.Nonce \in Words
  PROVE  /\ d.Name = e.Name /\ d.Version = e.Version /\ d.ChainID = e.ChainID
         /\ d.VerifyingContract = e.VerifyingContract
         /\ in.Sender = jn.Sender /\ in.Nonce = jn.Nonce
         /\ in.TokenIn = jn.TokenIn /\ in.TokenOut = jn.TokenOut
         /\ in.AmountIn = jn.AmountIn /\ in.MinAmountOut = jn.MinAmountOut
         /\ Unix(in.Deadline) = Unix(jn.Deadline)
<1>1. /\ d.Name = e.Name /\ d.Version = e.Version
      /\ d.VerifyingContract = e.VerifyingContract
      /\ Pack(d.ChainID) = Pack(e.ChainID)
      /\ in.Sender = jn.Sender
      /\ in.TokenIn = jn.TokenIn /\ in.TokenOut = jn.TokenOut
      /\ Pack(in.AmountIn) = Pack(jn.AmountIn)
      /\ Pack(in.MinAmountOut) = Pack(jn.MinAmountOut)
      /\ Pack(Unix(in.Deadline)) = Pack(Unix(jn.Deadline))
      /\ Pack(in.Nonce) = Pack(jn.Nonce)
  BY HashIntentBinds
<1>2. \A m, n \in Words : Pack(m) = Pack(n) => m = n
  BY PackExact
<1> QED
  BY <1>1, <1>2

\* KeyVault.Sign, the normalisation of the recovery byte in execute and the
\* recovery in the contract fit together: what the relayer signs is accepted for
\* the escrow and the payee it was signed for, and for no other.
THEOREM ClaimSignatureBinds ==
  ASSUME NEW i, NEW s,
         NEW sig \in Signatures(RelayerSigner, ClaimDigest(i, s)),
         NEW j, NEW t
  PROVE  Recover(ClaimDigest(j, t), NormaliseV(sig)) = RelayerSigner
           <=> i = j /\ s = t
<1>1. PICK v \in {0, 1} :
        sig = [by |-> RelayerSigner, over |-> ClaimDigest(i, s), v |-> v]
  BY DEF Signatures
<1>2. NormaliseV(sig).v \in {27, 28}
  BY <1>1 DEF NormaliseV
<1>3. NormaliseV(sig).over = ClaimDigest(i, s) /\ NormaliseV(sig).by = RelayerSigner
  BY <1>1 DEF NormaliseV
<1>4. Recover(ClaimDigest(j, t), NormaliseV(sig)) = RelayerSigner
        <=> ClaimDigest(i, s) = ClaimDigest(j, t)
  BY <1>2, <1>3, SignerAssumption DEF Recover
<1> QED
  BY <1>4, ClaimDigestInjective

------------------------------------------------------------------------------
(***************************************************************************)
(* The invariant.                                                          *)
(***************************************************************************)

Bidders == Drivers \cup {Rival}

EscrowRecords ==
  [agent : Bidders, isResolved : BOOLEAN,
   paid : Bidders \cup {Nobody} \cup {SolverOf(b) : b \in Bidders}]

Vouchers == [of : Requests, solver : Bidders]

Shapes ==
  /\ driver \in [Drivers -> {"setup", "send", "wait", "dial", "post", "response",
                             "bid", "verify"} \cup Ended]
  /\ step \in [Drivers -> 1..Len(SetupCalls)]
  /\ id \in [Drivers -> Ids \cup {Nil}]
  /\ inbox \in [Drivers -> Seq(AllIds)]
  /\ post \in [Drivers -> {"none", "sent", "accepted", "error"}]
  /\ posted \in [Requests -> AllIds \cup {<<>>}]
  /\ auction \in [Requests -> {"none", "queued", "open", "closed", "duplicate"}]
  /\ \A r \in Requests : auction[r] # "none" => posted[r] \in AllIds
  /\ bidsOn \in [Requests -> Seq(Bidders)]
  /\ vouchers \in Seq(Vouchers)
  /\ escrows \in [DOMAIN escrows -> EscrowRecords]
  /\ \A r \in receipts : r = [tx |-> r.tx, ok |-> r.ok] /\ r.ok \in BOOLEAN

\* The driver has sent its lockIntent, or will not send it any more.
HasLocked(d) ==
  /\ driver[d] \notin {"setup", "send"}
  /\ driver[d] = "wait" => step[d] = LastStep

\* The escrow of the intent of d is that of d.
OwnsEscrow(d) ==
  /\ HasLocked(d) /\ id[d] \in Ids
  /\ IntentIDBytes(id[d]) \in DOMAIN escrows
  /\ escrows[IntentIDBytes(id[d])].agent = d

\* Solver b won the auction of request r.
WonBy(r, b) == Won(r) /\ b = bidsOn[r][1]

ClaimsOfWinners ==
  /\ \A k \in 1..Len(vouchers) : WonBy(vouchers[k].of, vouchers[k].solver)
  /\ \A t \in pool : t.call = "claimFunds" =>
       \E r \in Requests, b \in Bidders :
         t.id = IntentIDBytes(posted[r]) /\ t.by = SolverOf(b) /\ WonBy(r, b)

LockOwners ==
  /\ \A d \in Drivers :
       driver[d] \in {"send", "wait"} /\ step[d] = LastStep => id[d] \in Ids
  /\ \A t \in pool : t.call = "lockIntent" =>
       /\ t.by \in Drivers /\ HasLocked(t.by)
       /\ id[t.by] \in Ids /\ t.id = IntentIDBytes(id[t.by])

EscrowOwners ==
  /\ \A k \in DOMAIN escrows : escrows[k].agent # Rival =>
       \E d \in Drivers :
         escrows[k].agent = d /\ OwnsEscrow(d) /\ k = IntentIDBytes(id[d])
  /\ \A r \in receipts : r.ok /\ r.tx.call = "lockIntent" =>
       r.tx.by \in Drivers /\ OwnsEscrow(r.tx.by)

PostersHaveEscrows ==
  \A d \in Drivers :
    driver[d] \in {"dial", "post", "response", "bid", "verify"} \/ post[d] = "sent" =>
      OwnsEscrow(d)

\* An escrow is there under the name of the identifier it was locked for.
LockedNames ==
  /\ DOMAIN lockedFor = DOMAIN escrows
  /\ \A k \in DOMAIN escrows : lockedFor[k] \in AllIds /\ IntentIDBytes(lockedFor[k]) = k

SimInv ==
  /\ Shapes /\ ClaimsOfWinners /\ LockOwners /\ EscrowOwners /\ PostersHaveEscrows
  /\ LockedNames /\ PayeesAreWinners

------------------------------------------------------------------------------
(***************************************************************************)
(* The order of the transactions, and the initial states.                  *)
(***************************************************************************)

\* Most leaves are first-order; those that need more cite SMT.
USE ZenonT(60)

\* waitMined: the transactions of main come in this order, lockIntent last.
LEMMA SetupOrder ==
  /\ LastStep = 5 /\ Len(SetupCalls) = 5
  /\ \A s \in 1..5 : /\ SetupCalls[s] = "lockIntent" <=> s = 5
                     /\ SetupCalls[s] # "claimFunds"
BY SMTT(60) DEF SetupCalls, LastStep

\* Before anything happened there are no escrows, auctions or vouchers.
LEMMA SimInvInit == Init => SimInv
<1> SUFFICES ASSUME Init PROVE SimInv
  OBVIOUS
<1>1. /\ escrows = <<>> /\ DOMAIN escrows = {} /\ pool = {} /\ receipts = {}
      /\ lockedFor = escrows
  BY SMTT(60) DEF Init
<1>2. Shapes
  <2>1. /\ inbox \in [Drivers -> Seq(AllIds)] /\ step \in [Drivers -> 1..Len(SetupCalls)]
        /\ bidsOn \in [Requests -> Seq(Bidders)] /\ vouchers \in Seq(Vouchers)
    BY SetupOrder, SMTT(60) DEF Init
  <2>2. /\ posted \in [Requests -> AllIds \cup {<<>>}]
        /\ \A r \in Requests : auction[r] = "none"
    BY DEF Init
  <2>3. /\ driver = [d \in Drivers |-> "setup"] /\ id = [d \in Drivers |-> Nil]
        /\ post = [d \in Drivers |-> "none"] /\ auction = [r \in Requests |-> "none"]
    BY DEF Init
  <2>4. escrows \in [DOMAIN escrows -> EscrowRecords]
    BY <1>1, SMTT(60)
  <2> QED
    BY <1>1, <2>1, <2>2, <2>3, <2>4 DEF Shapes
<1>3. ClaimsOfWinners /\ LockOwners /\ EscrowOwners /\ PayeesAreWinners /\ LockedNames
  BY <1>1, SMTT(60) DEF Init, ClaimsOfWinners, LockOwners, EscrowOwners, PayeesAreWinners,
     LockedNames
<1>4. PostersHaveEscrows
  BY DEF Init, PostersHaveEscrows
<1> QED
  BY <1>2, <1>3, <1>4 DEF SimInv

------------------------------------------------------------------------------
(***************************************************************************)
(* What a step may not undo: who has locked, who owns an escrow, and who   *)
(* has won.                                                                *)
(***************************************************************************)

LocksStay == \A d \in Drivers : HasLocked(d) => HasLocked(d)' /\ id'[d] = id[d]

EscrowsStay ==
  \A k \in DOMAIN escrows : k \in DOMAIN escrows' /\ escrows'[k].agent = escrows[k].agent

WinnersStay ==
  \A r \in Requests :
    Won(r) => Won(r)' /\ bidsOn'[r] = bidsOn[r] /\ posted'[r] = posted[r]

\* A driver keeps its identifier from the lock on, so its escrow stays its own.
LEMMA OwnersStay ==
  ASSUME LocksStay, EscrowsStay, NEW d \in Drivers, OwnsEscrow(d)
  PROVE  OwnsEscrow(d)' /\ id'[d] = id[d]
BY DEF LocksStay, EscrowsStay, OwnsEscrow, IntentIDBytes

\* The steps that leave the mined blocks and the auctions alone: a driver moves on.
LEMMA EscrowFrame ==
  ASSUME SimInv, UNCHANGED <<receipts, escrows, lockedFor, posted, auction, bidsOn>>,
         Shapes', LocksStay, PostersHaveEscrows', ClaimsOfWinners', LockOwners'
  PROVE  SimInv'
<1>1. EscrowsStay
  BY DEF EscrowsStay
<1>2. EscrowOwners'
  <2>1. \A k \in DOMAIN escrows : escrows[k].agent # Rival =>
          \E d \in Drivers :
            escrows[k].agent = d /\ OwnsEscrow(d)' /\ k = IntentIDBytes(id'[d])
    BY <1>1, OwnersStay DEF SimInv, EscrowOwners
  <2>2. \A r \in receipts : r.ok /\ r.tx.call = "lockIntent" =>
          r.tx.by \in Drivers /\ OwnsEscrow(r.tx.by)'
    BY <1>1, OwnersStay DEF SimInv, EscrowOwners
  <2> QED
    BY <2>1, <2>2 DEF EscrowOwners, SimInv
<1>3. LockedNames'
  BY DEF SimInv, LockedNames
<1>4. PayeesAreWinners'
  BY DEF SimInv, PayeesAreWinners, PaidOut, PaidWinnerOf, Won
<1> QED
  BY <1>2, <1>3, <1>4 DEF SimInv

Others == <<pool, receipts, escrows, lockedFor, posted, auction, bidsOn, vouchers>>

\* The same when no transaction is sent either.
LEMMA DriverFrame ==
  ASSUME SimInv, UNCHANGED Others,
         Shapes', LocksStay, PostersHaveEscrows',
         \A d \in Drivers :
           (driver[d] \in {"send", "wait"} /\ step[d] = LastStep => id[d] \in Ids)'
  PROVE  SimInv'
<1>1. ClaimsOfWinners'
  BY DEF SimInv, ClaimsOfWinners, WonBy, Won, Others
<1>2. LockOwners'
  BY DEF SimInv, LockOwners, LocksStay, Others
<1> QED
  BY <1>1, <1>2, EscrowFrame DEF Others

------------------------------------------------------------------------------
(***************************************************************************)
(* The steps of a driver, but SendTransaction.                             *)
(***************************************************************************)

\* A driver that exits keeps its claim to its escrow.
LEMMA ExitStep ==
  ASSUME SimInv, NEW d \in Drivers, NEW how \in Ended, Exit(d, how), UNCHANGED Others
  PROVE  SimInv'
<1>1. Shapes'
  <2>1. inbox' \in [Drivers -> Seq(AllIds)]
    BY SMTT(60) DEF SimInv, Shapes, Exit
  <2>2. step' \in [Drivers -> 1..Len(SetupCalls)]
    BY SetupOrder, SMTT(60) DEF SimInv, Shapes, Exit
  <2> QED
    BY <2>1, <2>2 DEF SimInv, Shapes, Exit, Others, Ended
<1>2. LocksStay
  BY DEF LocksStay, HasLocked, SimInv, Shapes, Exit, Ended
<1>3. EscrowsStay
  BY DEF EscrowsStay, Others
<1>4. PostersHaveEscrows'
  <2> SUFFICES ASSUME NEW e \in Drivers,
                      \/ driver'[e] \in {"dial", "post", "response", "bid", "verify"}
                      \/ post'[e] = "sent"
               PROVE  OwnsEscrow(e)'
    BY DEF PostersHaveEscrows
  <2>1. OwnsEscrow(e)
    BY DEF SimInv, Shapes, PostersHaveEscrows, Exit, Ended
  <2> QED
    BY <2>1, <1>2, <1>3, OwnersStay
<1>5. \A e \in Drivers :
        (driver[e] \in {"send", "wait"} /\ step[e] = LastStep => id[e] \in Ids)'
  BY DEF SimInv, Shapes, LockOwners, Exit, Ended, LastStep
<1> QED
  BY <1>1, <1>2, <1>4, <1>5, DriverFrame DEF Others

\* A driver that has its escrow moves on.
LEMMA GotoStep ==
  ASSUME SimInv, NEW d \in Drivers,
         NEW to \in {"dial", "post", "response", "bid", "verify"},
         OwnsEscrow(d), Goto(d, to), UNCHANGED <<step, id, inbox>>,
         \/ UNCHANGED post
         \/ post' = [post EXCEPT ![d] = "sent"],
         UNCHANGED Others
  PROVE  SimInv'
<1>1. Shapes'
  BY DEF SimInv, Shapes, Goto, Others
<1>2. LocksStay
  BY DEF LocksStay, HasLocked, SimInv, Shapes, Goto
<1>3. EscrowsStay
  BY DEF EscrowsStay, Others
<1>4. PostersHaveEscrows'
  <2> SUFFICES ASSUME NEW e \in Drivers,
                      \/ driver'[e] \in {"dial", "post", "response", "bid", "verify"}
                      \/ post'[e] = "sent"
               PROVE  OwnsEscrow(e)'
    BY DEF PostersHaveEscrows
  <2>1. OwnsEscrow(e)
    BY DEF SimInv, Shapes, PostersHaveEscrows, Goto
  <2> QED
    BY <2>1, <1>2, <1>3, OwnersStay
<1>5. \A e \in Drivers :
        (driver[e] \in {"send", "wait"} /\ step[e] = LastStep => id[e] \in Ids)'
  BY DEF SimInv, Shapes, LockOwners, Goto, LastStep
<1> QED
  BY <1>1, <1>2, <1>4, <1>5, DriverFrame DEF Others

\* ReadNonce and the first transactions of WaitMined: the driver has no escrow
\* yet and gets no further than to the next transaction.
LEMMA SetupStep ==
  ASSUME SimInv, NEW d \in Drivers, ~HasLocked(d),
         \/ Goto(d, "send") /\ UNCHANGED step
         \/ Goto(d, "setup") /\ step' = [step EXCEPT ![d] = @ + 1] /\ step[d] < LastStep,
         UNCHANGED id \/ \E i \in Ids : id' = [id EXCEPT ![d] = i],
         driver'[d] = "send" /\ step[d] = LastStep => id'[d] \in Ids,
         UNCHANGED <<inbox, post>>, UNCHANGED Others
  PROVE  SimInv'
<1>1. Shapes'
  <2>1. step \in [Drivers -> 1..5] /\ step' \in [Drivers -> 1..5]
    <3>1. step \in [Drivers -> 1..5]
      BY SetupOrder DEF SimInv, Shapes
    <3>2. CASE UNCHANGED step
      BY <3>1, <3>2
    <3>3. CASE step' = [step EXCEPT ![d] = @ + 1] /\ step[d] < LastStep
      BY <3>1, <3>3, SetupOrder, SMTT(60)
    <3> QED
      BY <3>1, <3>2, <3>3
  <2>2. driver' \in [Drivers -> {"setup", "send", "wait", "dial", "post", "response",
                                "bid", "verify"} \cup Ended]
    BY DEF Goto, SimInv, Shapes
  <2>3. id' \in [Drivers -> Ids \cup {Nil}]
    <3>1. id \in [Drivers -> Ids \cup {Nil}]
      BY DEF SimInv, Shapes
    <3>2. ASSUME NEW i \in Ids, id' = [id EXCEPT ![d] = i]
          PROVE  id' \in [Drivers -> Ids \cup {Nil}]
      BY <3>1, <3>2
    <3> QED
      BY <3>1, <3>2
  <2> QED
    BY <2>1, <2>2, <2>3, SetupOrder DEF SimInv, Shapes, Others
<1>2. LocksStay
  <2> SUFFICES ASSUME NEW e \in Drivers, HasLocked(e)
               PROVE  HasLocked(e)' /\ id'[e] = id[e]
    BY DEF LocksStay
  <2>1. e # d
    OBVIOUS
  <2>2. driver'[e] = driver[e] /\ step'[e] = step[e] /\ id'[e] = id[e]
    BY <2>1 DEF Goto, SimInv, Shapes
  <2> QED
    BY <2>2 DEF HasLocked, LastStep
<1>3. EscrowsStay
  BY DEF EscrowsStay, Others
<1>4. PostersHaveEscrows'
  <2> SUFFICES ASSUME NEW e \in Drivers,
                      \/ driver'[e] \in {"dial", "post", "response", "bid", "verify"}
                      \/ post'[e] = "sent"
               PROVE  OwnsEscrow(e)'
    BY DEF PostersHaveEscrows
  <2>1. OwnsEscrow(e)
    BY DEF SimInv, Shapes, PostersHaveEscrows, Goto
  <2> QED
    BY <2>1, <1>2, <1>3, OwnersStay
<1>5. \A e \in Drivers :
        (driver[e] \in {"send", "wait"} /\ step[e] = LastStep => id[e] \in Ids)'
  BY DEF SimInv, Shapes, LockOwners, Goto, LastStep
<1> QED
  BY <1>1, <1>2, <1>4, <1>5, DriverFrame DEF Others

\* Every step of main of a driver keeps the invariant.
LEMMA MainStep ==
  ASSUME SimInv, NEW d \in Drivers,
         \/ ReadNonce(d) \/ WaitMined(d) \/ Dial(d) \/ Post(d) \/ ReadResponse(d)
         \/ BidSent(d) \/ Verify(d) \/ CallFails(d) \/ TimesOut(d)
  PROVE  SimInv'
<1> USE DEF chainVars, ledger, relayerVars, Others
<1>1. CASE ReadNonce(d)
  <2>1. ~HasLocked(d) /\ Goto(d, "send")
    BY <1>1 DEF ReadNonce, HasLocked
  <2>2. step[d] \in 1..5
    BY SetupOrder DEF SimInv, Shapes
  <2>3. step[d] = LastStep => id'[d] \in Ids
    BY <1>1, <2>2, SetupOrder DEF ReadNonce, SimInv, Shapes
  <2>4. UNCHANGED id \/ \E i \in Ids : id' = [id EXCEPT ![d] = i]
    BY <1>1 DEF ReadNonce
  <2> QED
    BY <1>1, <2>1, <2>3, <2>4, SetupStep DEF ReadNonce
<1>2. CASE WaitMined(d)
  <2>1. CASE Reverted(d) /\ Exit(d, "fatal")
    BY <1>2, <2>1, ExitStep DEF WaitMined, Ended
  <2>2. CASE ~Reverted(d) /\ step[d] < LastStep /\ Goto(d, "setup")
             /\ step' = [step EXCEPT ![d] = @ + 1] /\ UNCHANGED <<id, inbox, post>>
    <3>1. ~HasLocked(d)
      BY <1>2, <2>2, SetupOrder, SMTT(60) DEF WaitMined, HasLocked, SimInv, Shapes
    <3>2. driver'[d] = "setup"
      BY <2>2 DEF Goto, SimInv, Shapes
    <3> QED
      BY <1>2, <2>2, <3>1, <3>2, SetupStep DEF WaitMined
  <2>3. CASE ~Reverted(d) /\ step[d] = LastStep /\ Goto(d, "dial")
             /\ UNCHANGED <<step, id, inbox, post>>
    <3>1. PICK r \in receipts : r.tx = SetupTx(d)
      BY <1>2 DEF WaitMined, Mined
    <3>2. r.ok
      BY <2>3, <3>1 DEF Reverted, SimInv, Shapes
    <3>3. r.tx.call = "lockIntent" /\ r.tx.by = d
      <4>1. r.tx.call = SetupCalls[step[d]] /\ r.tx.by = d
        BY <3>1, SMTT(60) DEF SetupTx
      <4>2. SetupCalls[step[d]] = "lockIntent"
        BY <2>3, SetupOrder, SMTT(60)
      <4> QED
        BY <4>1, <4>2
    <3>4. OwnsEscrow(d)
      BY <3>2, <3>3 DEF SimInv, EscrowOwners
    <3> QED
      BY <1>2, <2>3, <3>4, GotoStep DEF WaitMined
  <2> QED
    BY <1>2, <2>1, <2>2, <2>3 DEF WaitMined
<1>3. CASE Dial(d)
  <2>1. driver[d] = "dial" /\ OwnsEscrow(d)
    BY <1>3 DEF Dial, SimInv, PostersHaveEscrows
  <2> QED
    BY <1>3, <2>1, GotoStep, ExitStep DEF Dial, Ended
<1>4. CASE Post(d)
  <2>1. OwnsEscrow(d)
    BY <1>4 DEF Post, SimInv, PostersHaveEscrows
  <2> QED
    BY <1>4, <2>1, GotoStep DEF Post
<1>5. CASE ReadResponse(d)
  <2>1. OwnsEscrow(d)
    BY <1>5 DEF ReadResponse, SimInv, PostersHaveEscrows
  <2> QED
    BY <1>5, <2>1, GotoStep, ExitStep DEF ReadResponse, Ended
<1>6. CASE BidSent(d)
  <2>1. OwnsEscrow(d)
    BY <1>6 DEF BidSent, SimInv, PostersHaveEscrows
  <2> QED
    BY <1>6, <2>1, GotoStep DEF BidSent
<1>7. CASE Verify(d)
  BY <1>7, ExitStep DEF Verify, Ended
<1>8. CASE CallFails(d)
  BY <1>8, ExitStep DEF CallFails, Ended
<1>9. CASE TimesOut(d)
  BY <1>9, ExitStep DEF TimesOut, Ended
<1> QED
  BY <1>1, <1>2, <1>3, <1>4, <1>5, <1>6, <1>7, <1>8, <1>9

\* Steps that touch nothing the invariant is about.
LEMMA QuietStep ==
  ASSUME SimInv, UNCHANGED <<driver, step, id, inbox, post>>, UNCHANGED Others
  PROVE  SimInv'
<1>1. Shapes'
  BY DEF SimInv, Shapes, Others
<1>2. LocksStay
  BY DEF LocksStay, HasLocked
<1>3. PostersHaveEscrows'
  BY DEF SimInv, PostersHaveEscrows, OwnsEscrow, HasLocked, Others
<1>4. \A e \in Drivers :
        (driver[e] \in {"send", "wait"} /\ step[e] = LastStep => id[e] \in Ids)'
  BY DEF SimInv, LockOwners, LastStep
<1> QED
  BY <1>1, <1>2, <1>3, <1>4, DriverFrame DEF Others

\* A driver sends a transaction, and waits for it or dies.
LEMMA SendStep ==
  ASSUME SimInv, NEW d \in Drivers, SendTransaction(d)
  PROVE  SimInv'
<1> USE DEF relayerVars, ledger
<1>1. CASE Exit(d, "fatal") /\ UNCHANGED pool
  BY <1>1, ExitStep DEF SendTransaction, Others, Ended
<1>2. CASE /\ pool' = pool \cup {SetupTx(d)}
           /\ \/ Goto(d, "wait") /\ UNCHANGED <<step, nonce, id, ws, inbox, post>>
              \/ Exit(d, "fatal")
  <2>1. UNCHANGED <<receipts, escrows, lockedFor, posted, auction, bidsOn, vouchers, id, post>>
    BY <1>2 DEF SendTransaction, Exit
  <2>2. /\ driver[d] = "send"
        /\ \/ /\ driver' = [driver EXCEPT ![d] = "wait"]
              /\ step' = step /\ inbox' = inbox
           \/ /\ driver' = [driver EXCEPT ![d] = "fatal"]
              /\ step' = [step EXCEPT ![d] = 1] /\ inbox' = [inbox EXCEPT ![d] = <<>>]
    BY <1>2 DEF SendTransaction, Exit, Goto
  <2>3. Shapes'
    <3>1. inbox' \in [Drivers -> Seq(AllIds)]
      <4>1. inbox \in [Drivers -> Seq(AllIds)] /\ <<>> \in Seq(AllIds)
        BY SMTT(60) DEF SimInv, Shapes
      <4>2. inbox' = inbox \/ inbox' = [inbox EXCEPT ![d] = <<>>]
        BY <2>2
      <4> QED
        BY <4>1, <4>2
    <3>2. step' \in [Drivers -> 1..Len(SetupCalls)]
      <4>1. step \in [Drivers -> 1..5]
        BY SetupOrder DEF SimInv, Shapes
      <4>2. step' = step \/ step' = [step EXCEPT ![d] = 1]
        BY <2>2
      <4>3. step' \in [Drivers -> 1..5]
        BY <4>1, <4>2, SMTT(60)
      <4> QED
        BY <4>3, SetupOrder
    <3>3. driver' \in [Drivers -> {"setup", "send", "wait", "dial", "post", "response",
                                  "bid", "verify"} \cup Ended]
      BY <2>2 DEF SimInv, Shapes, Ended
    <3> QED
      BY <2>1, <3>1, <3>2, <3>3 DEF SimInv, Shapes
  <2>4. \A e \in Drivers : e # d => driver'[e] = driver[e] /\ step'[e] = step[e]
    BY <2>2 DEF SimInv, Shapes
  <2>5. LocksStay
    BY <2>1, <2>2, <2>4 DEF LocksStay, HasLocked, LastStep
  <2>6. EscrowsStay
    BY <2>1 DEF EscrowsStay
  <2>7. PostersHaveEscrows'
    <3> SUFFICES ASSUME NEW e \in Drivers,
                        \/ driver'[e] \in {"dial", "post", "response", "bid", "verify"}
                        \/ post'[e] = "sent"
                 PROVE  OwnsEscrow(e)'
      BY DEF PostersHaveEscrows
    <3>1. OwnsEscrow(e)
      BY <2>1, <2>2, <2>4 DEF SimInv, Shapes, PostersHaveEscrows
    <3> QED
      BY <3>1, <2>5, <2>6, OwnersStay
  <2>8. step[d] \in 1..5
    BY SetupOrder DEF SimInv, Shapes
  <2>9. ClaimsOfWinners'
    <3>1. SetupTx(d).call # "claimFunds"
      BY <2>8, SetupOrder DEF SetupTx
    <3> QED
      BY <1>2, <2>1, <3>1 DEF SimInv, ClaimsOfWinners, WonBy, Won
  <2>10. LockOwners'
    <3>1. \A e \in Drivers :
            driver'[e] \in {"send", "wait"} /\ step'[e] = LastStep => id'[e] \in Ids
      BY <2>1, <2>2, <2>4 DEF SimInv, Shapes, LockOwners
    <3>2. ASSUME SetupTx(d).call = "lockIntent"
          PROVE  /\ SetupTx(d).by = d /\ HasLocked(d)'
                 /\ id'[d] \in Ids /\ SetupTx(d).id = IntentIDBytes(id'[d])
      <4>1. step[d] = LastStep
        BY <2>8, <3>2, SetupOrder DEF SetupTx
      <4>2. id[d] \in Ids
        BY <2>2, <4>1 DEF SimInv, LockOwners
      <4>3. HasLocked(d)'
        BY <2>2, <4>1 DEF HasLocked, SimInv, Shapes, LastStep
      <4> QED
        BY <2>1, <4>2, <4>3, AgentsAssumption DEF SetupTx
    <3>3. \A t \in pool : t.call = "lockIntent" =>
            /\ t.by \in Drivers /\ HasLocked(t.by)'
            /\ id'[t.by] \in Ids /\ t.id = IntentIDBytes(id'[t.by])
      BY <2>1, <2>5 DEF SimInv, LockOwners, LocksStay
    <3> QED
      BY <1>2, <3>1, <3>2, <3>3 DEF LockOwners, LastStep
  <2> QED
    BY <2>1, <2>3, <2>5, <2>7, <2>9, <2>10, EscrowFrame
<1> QED
  BY <1>1, <1>2 DEF SendTransaction

------------------------------------------------------------------------------
(***************************************************************************)
(* The steps of the chain.                                                 *)
(***************************************************************************)

\* The drivers and the auctions stay as they are.
ChainOnly ==
  UNCHANGED <<driver, step, id, inbox, post, posted, auction, bidsOn, vouchers>>

\* Transactions leave the pool, and the escrows stay in order.
LEMMA ChainFrame ==
  ASSUME SimInv, ChainOnly, pool' \subseteq pool, EscrowsStay,
         Shapes', EscrowOwners', LockedNames', PayeesAreWinners'
  PROVE  SimInv'
<1>1. LocksStay
  BY DEF LocksStay, HasLocked, ChainOnly
<1>2. ClaimsOfWinners'
  BY DEF SimInv, ClaimsOfWinners, WonBy, Won, ChainOnly
<1>3. LockOwners'
  BY <1>1 DEF SimInv, LockOwners, LocksStay, ChainOnly, LastStep
<1>4. PostersHaveEscrows'
  BY <1>1, OwnersStay DEF SimInv, PostersHaveEscrows, ChainOnly
<1> QED
  BY <1>2, <1>3, <1>4 DEF SimInv

\* The receipts are those there were and, at most, one more.  If that is for a
\* lockIntent that succeeded, it is for the sender's own escrow.
NewReceipt ==
  \A r \in receipts' : r \in receipts \/
    /\ r = [tx |-> r.tx, ok |-> r.ok] /\ r.ok \in BOOLEAN
    /\ r.ok /\ r.tx.call = "lockIntent" => r.tx.by \in Drivers /\ OwnsEscrow(r.tx.by)'

\* Nothing happens to the escrows.
LEMMA NoEscrowStep ==
  ASSUME SimInv, ChainOnly, pool' \subseteq pool, UNCHANGED <<escrows, lockedFor>>,
         NewReceipt
  PROVE  SimInv'
<1>1. EscrowsStay /\ LocksStay
  BY DEF EscrowsStay, LocksStay, HasLocked, ChainOnly
<1>2. Shapes'
  BY DEF SimInv, Shapes, ChainOnly, NewReceipt
<1>3. \A d \in Drivers : OwnsEscrow(d) => OwnsEscrow(d)'
  BY <1>1, OwnersStay
<1>4. EscrowOwners'
  <2>1. \A r \in receipts' : r.ok /\ r.tx.call = "lockIntent" =>
          r.tx.by \in Drivers /\ OwnsEscrow(r.tx.by)'
    BY <1>3 DEF SimInv, EscrowOwners, NewReceipt
  <2>2. \A k \in DOMAIN escrows : escrows[k].agent # Rival =>
          \E d \in Drivers :
            escrows[k].agent = d /\ OwnsEscrow(d)' /\ k = IntentIDBytes(id[d])
    BY <1>3 DEF SimInv, EscrowOwners
  <2> QED
    BY <2>1, <2>2 DEF EscrowOwners, ChainOnly
<1>5. LockedNames' /\ PayeesAreWinners'
  BY DEF SimInv, LockedNames, PayeesAreWinners, PaidOut, PaidWinnerOf, Won, ChainOnly
<1> QED
  BY <1>1, <1>2, <1>4, <1>5, ChainFrame

\* lockIntent: a new escrow, of Rival or of the driver that chose the identifier.
LEMMA LockStep ==
  ASSUME SimInv, ChainOnly, pool' \subseteq pool, NewReceipt,
         NEW a \in Bidders, NEW i \in AllIds, Lock(a, IntentIDBytes(i), i),
         a \in Drivers => HasLocked(a) /\ id[a] = i /\ i \in Ids
  PROVE  SimInv'
<1> DEFINE n == IntentIDBytes(i)
<1> HIDE DEF n
<1>1. /\ n \notin DOMAIN escrows /\ DOMAIN escrows' = DOMAIN escrows \cup {n}
      /\ escrows'[n] = [agent |-> a, isResolved |-> FALSE, paid |-> Nobody]
      /\ \A k \in DOMAIN escrows : escrows'[k] = escrows[k]
  BY DEF Lock, LockIntent, n
<1>2. EscrowsStay /\ LocksStay
  BY <1>1 DEF EscrowsStay, LocksStay, HasLocked, ChainOnly
<1>3. \A d \in Drivers : OwnsEscrow(d) => OwnsEscrow(d)'
  BY <1>2, OwnersStay
<1>4. Shapes'
  <2>1. escrows' \in [DOMAIN escrows' -> EscrowRecords]
    <3>1. escrows' = [k \in DOMAIN escrows' |-> escrows'[k]]
      BY DEF Lock, LockIntent
    <3>2. escrows'[n] \in EscrowRecords
      BY <1>1, SMTT(60) DEF EscrowRecords
    <3>3. \A k \in DOMAIN escrows : escrows[k] \in EscrowRecords
      BY DEF SimInv, Shapes
    <3> QED
      BY <1>1, <3>1, <3>2, <3>3
  <2> QED
    BY <2>1 DEF SimInv, Shapes, ChainOnly, NewReceipt
<1>5. EscrowOwners'
  <2>1. \A r \in receipts' : r.ok /\ r.tx.call = "lockIntent" =>
          r.tx.by \in Drivers /\ OwnsEscrow(r.tx.by)'
    BY <1>3 DEF SimInv, EscrowOwners, NewReceipt
  <2>2. \A k \in DOMAIN escrows : escrows'[k].agent # Rival =>
          \E d \in Drivers :
            escrows'[k].agent = d /\ OwnsEscrow(d)' /\ k = IntentIDBytes(id'[d])
    BY <1>1, <1>3 DEF SimInv, EscrowOwners, ChainOnly
  <2>3. ASSUME a # Rival
        PROVE  a \in Drivers /\ OwnsEscrow(a)' /\ n = IntentIDBytes(id'[a])
    <3>1. a \in Drivers
      BY <2>3 DEF Bidders
    <3>2. id'[a] = i /\ HasLocked(a)' /\ i \in Ids
      BY <1>2, <3>1 DEF LocksStay
    <3>3. n \in DOMAIN escrows'
      BY <1>1
    <3>4. escrows'[n].agent = a
      BY <1>1, SMTT(60)
    <3> QED
      BY <3>1, <3>2, <3>3, <3>4 DEF OwnsEscrow, n
  <2>4. escrows'[n].agent = a
    BY <1>1, SMTT(60)
  <2> QED
    BY <1>1, <2>1, <2>2, <2>3, <2>4 DEF EscrowOwners
<1>6. PayeesAreWinners'
  <2> SUFFICES ASSUME NEW k \in DOMAIN escrows', PaidOut(k)'
               PROVE  \E r \in Requests : IntentIDBytes(posted[r]) = k /\ PaidWinnerOf(r, k)'
    BY DEF PayeesAreWinners, ChainOnly
  <2>1. k # n
    BY <1>1, SMTT(60) DEF PaidOut
  <2>2. k \in DOMAIN escrows /\ escrows'[k] = escrows[k]
    BY <1>1, <2>1
  <2>3. PICK r \in Requests : IntentIDBytes(posted[r]) = k /\ PaidWinnerOf(r, k)
    BY <2>2 DEF SimInv, PayeesAreWinners, PaidOut
  <2> QED
    BY <2>2, <2>3 DEF PaidWinnerOf, Won, ChainOnly
<1>7. LockedNames'
  <2>1. lockedFor' = [m \in DOMAIN lockedFor \cup {n} |-> IF m = n THEN i ELSE lockedFor[m]]
    BY DEF Lock, n
  <2>2. DOMAIN lockedFor' = DOMAIN lockedFor \cup {n}
    BY <2>1
  <2>3. lockedFor'[n] = i /\ IntentIDBytes(i) = n
    BY <2>1 DEF n
  <2>4. \A k \in DOMAIN escrows :
          lockedFor'[k] \in AllIds /\ IntentIDBytes(lockedFor'[k]) = k
    BY <1>1, <2>1 DEF SimInv, LockedNames
  <2> QED
    BY <1>1, <2>2, <2>3, <2>4 DEF SimInv, LockedNames
<1> QED
  BY <1>2, <1>4, <1>5, <1>6, <1>7, ChainFrame

\* claimFunds and refundIntent: the escrow is resolved, for its agent or for the
\* winner of an auction with that identifier.
LEMMA ResolveStep ==
  ASSUME SimInv, ChainOnly, pool' \subseteq pool, NewReceipt,
         NEW n \in DOMAIN escrows, NEW p, Resolve(n, p),
         \/ p = escrows[n].agent
         \/ \E r \in Requests, b \in Bidders :
              n = IntentIDBytes(posted[r]) /\ p = SolverOf(b) /\ WonBy(r, b),
         UNCHANGED lockedFor
  PROVE  SimInv'
<1>1. \A k \in DOMAIN escrows : escrows[k] \in EscrowRecords
  BY DEF SimInv, Shapes
<1>2. /\ DOMAIN escrows' = DOMAIN escrows
      /\ \A k \in DOMAIN escrows : k # n => escrows'[k] = escrows[k]
      /\ escrows'[n] = [escrows[n] EXCEPT !.isResolved = TRUE, !.paid = p]
  BY DEF Resolve, SimInv, Shapes
<1>3. /\ escrows'[n].agent = escrows[n].agent /\ escrows'[n].paid = p
      /\ escrows'[n].isResolved
  BY <1>1, <1>2 DEF EscrowRecords
<1>4. EscrowsStay /\ LocksStay
  BY <1>2, <1>3 DEF EscrowsStay, LocksStay, HasLocked, ChainOnly
<1>5. \A d \in Drivers : OwnsEscrow(d) => OwnsEscrow(d)'
  BY <1>4, OwnersStay
<1>6. Shapes'
  <2>1. p \in Bidders \cup {Nobody} \cup {SolverOf(b) : b \in Bidders}
    BY <1>1 DEF EscrowRecords
  <2>2. escrows'[n] \in EscrowRecords
    BY <1>1, <1>2, <2>1 DEF EscrowRecords
  <2>3. escrows' \in [DOMAIN escrows' -> EscrowRecords]
    <3>1. escrows' = [k \in DOMAIN escrows |-> escrows'[k]]
      BY DEF Resolve, SimInv, Shapes
    <3> QED
      BY <1>1, <1>2, <2>2, <3>1
  <2> QED
    BY <2>3 DEF SimInv, Shapes, ChainOnly, NewReceipt
<1>7. EscrowOwners'
  <2>1. \A r \in receipts' : r.ok /\ r.tx.call = "lockIntent" =>
          r.tx.by \in Drivers /\ OwnsEscrow(r.tx.by)'
    BY <1>5 DEF SimInv, EscrowOwners, NewReceipt
  <2>2. \A k \in DOMAIN escrows : escrows[k].agent # Rival =>
          \E d \in Drivers :
            escrows[k].agent = d /\ OwnsEscrow(d)' /\ k = IntentIDBytes(id'[d])
    BY <1>5 DEF SimInv, EscrowOwners, ChainOnly
  <2>3. \A k \in DOMAIN escrows : escrows'[k].agent = escrows[k].agent
    BY <1>2, <1>3
  <2> QED
    BY <1>2, <2>1, <2>2, <2>3, SMTT(60) DEF EscrowOwners
<1>8. PayeesAreWinners'
  <2> SUFFICES ASSUME NEW k \in DOMAIN escrows, PaidOut(k)'
               PROVE  \E r \in Requests : IntentIDBytes(posted[r]) = k /\ PaidWinnerOf(r, k)'
    BY <1>2 DEF PayeesAreWinners, ChainOnly
  <2>1. CASE k # n
    <3>1. escrows'[k] = escrows[k]
      BY <1>2, <2>1
    <3>2. PICK r \in Requests : IntentIDBytes(posted[r]) = k /\ PaidWinnerOf(r, k)
      BY <3>1 DEF SimInv, PayeesAreWinners, PaidOut
    <3> QED
      BY <3>1, <3>2 DEF PaidWinnerOf, Won, ChainOnly
  <2>2. CASE k = n
    <3>1. PICK r \in Requests, b \in Bidders :
            n = IntentIDBytes(posted[r]) /\ p = SolverOf(b) /\ WonBy(r, b)
      BY <1>3, <2>2 DEF PaidOut
    <3>2. PaidWinnerOf(r, k)'
      BY <1>3, <2>2, <3>1 DEF WonBy, PaidWinnerOf, Won, ChainOnly
    <3> QED
      BY <2>2, <3>1, <3>2
  <2> QED
    BY <2>1, <2>2
<1>9. LockedNames'
  BY <1>2 DEF SimInv, LockedNames
<1> QED
  BY <1>4, <1>6, <1>7, <1>8, <1>9, ChainFrame

\* The receipt for any other transaction.
LEMMA PlainReceipt ==
  ASSUME NEW t, NEW ok \in BOOLEAN, receipts' = receipts \cup {[tx |-> t, ok |-> ok]},
         ~ok \/ t.call # "lockIntent"
  PROVE  NewReceipt
<1> SUFFICES ASSUME NEW r \in receipts', r \notin receipts
             PROVE  /\ r = [tx |-> r.tx, ok |-> r.ok] /\ r.ok \in BOOLEAN
                    /\ ~(r.ok /\ r.tx.call = "lockIntent")
  BY DEF NewReceipt
<1>1. r = [tx |-> t, ok |-> ok]
  OBVIOUS
<1>2. r.tx = t /\ r.ok = ok
  BY <1>1
<1> QED
  BY <1>1, <1>2

\* Every transaction a block includes keeps the invariant, lockIntent and
\* claimFunds being the two that touch an escrow.
LEMMA MineStep ==
  ASSUME SimInv, NEW t \in pool, Mine(t)
  PROVE  SimInv'
<1> USE DEF driverVars, relayerVars, history, ledger
<1>1. ChainOnly /\ pool' \subseteq pool
  BY DEF Mine, ChainOnly
<1>2. receipts' = receipts \cup {[tx |-> t, ok |-> Succeeds(t)]}
  BY DEF Mine
<1>3. Succeeds(t) \in BOOLEAN
  BY DEF Succeeds, CanClaim
<1>4. CASE ~Succeeds(t)
  <2>1. UNCHANGED <<escrows, lockedFor>>
    BY <1>4 DEF Mine
  <2>2. NewReceipt
    BY <1>2, <1>3, <1>4, PlainReceipt
  <2> QED
    BY <1>1, <2>1, <2>2, NoEscrowStep
<1>5. CASE Succeeds(t) /\ t.call = "lockIntent"
  <2>1. Lock(t.by, t.id, id[t.by])
    BY <1>5 DEF Mine, Apply
  <2>2. t.by \in Drivers /\ HasLocked(t.by) /\ id[t.by] \in Ids
        /\ t.id = IntentIDBytes(id[t.by])
    BY <1>5 DEF SimInv, LockOwners
  <2>3. OwnsEscrow(t.by)'
    BY <1>1, <2>1, <2>2 DEF OwnsEscrow, Lock, LockIntent, ChainOnly, HasLocked, LastStep
  <2>4. NewReceipt
    BY <1>2, <1>3, <2>2, <2>3, SMTT(60) DEF NewReceipt
  <2> QED
    BY <1>1, <2>1, <2>2, <2>4, LockStep DEF Bidders, AllIds
<1>6. CASE Succeeds(t) /\ t.call = "claimFunds"
  <2>1. t.id \in DOMAIN escrows /\ Resolve(t.id, t.by) /\ UNCHANGED lockedFor
    BY <1>6 DEF Mine, Apply, ClaimFunds, CanClaim, IsOpen
  <2>2. \E r \in Requests, b \in Bidders :
          t.id = IntentIDBytes(posted[r]) /\ t.by = SolverOf(b) /\ WonBy(r, b)
    BY <1>6 DEF SimInv, ClaimsOfWinners
  <2>3. NewReceipt
    BY <1>2, <1>3, <1>6, PlainReceipt
  <2> QED
    BY <1>1, <2>1, <2>2, <2>3, ResolveStep
<1>7. CASE Succeeds(t) /\ t.call \notin {"lockIntent", "claimFunds"}
  <2>1. UNCHANGED <<escrows, lockedFor>>
    BY <1>7 DEF Mine, Apply
  <2>2. NewReceipt
    BY <1>2, <1>3, <1>7, PlainReceipt
  <2> QED
    BY <1>1, <2>1, <2>2, NoEscrowStep
<1> QED
  BY <1>4, <1>5, <1>6, <1>7

\* What Rival does on chain, and refunds, keep the invariant.
LEMMA OtherChainSteps ==
  ASSUME SimInv,
         \/ \E n \in DOMAIN escrows : Refund(n)
         \/ \E i \in AllIds : RivalLocks(i)
         \/ RivalSends
  PROVE  SimInv'
<1> USE DEF driverVars, relayerVars, ledger
<1>1. ChainOnly /\ pool' \subseteq pool /\ NewReceipt
  BY DEF Refund, RivalLocks, RivalSends, ChainOnly, NewReceipt
<1>2. ASSUME NEW n \in DOMAIN escrows, Refund(n) PROVE SimInv'
  BY <1>1, <1>2, ResolveStep DEF Refund, RefundIntent
<1>3. ASSUME NEW i \in AllIds, RivalLocks(i) PROVE SimInv'
  BY <1>1, <1>3, LockStep, AgentsAssumption DEF RivalLocks, Bidders
<1>4. ASSUME RivalSends PROVE SimInv'
  BY <1>1, <1>4, NoEscrowStep DEF RivalSends
<1> QED
  BY <1>2, <1>3, <1>4

------------------------------------------------------------------------------
(***************************************************************************)
(* The steps of the relayer, and of the goroutine that bids.               *)
(***************************************************************************)

\* The drivers and the mined blocks stay as they are.
RelayerOnly == UNCHANGED <<driver, step, id, receipts, escrows, lockedFor>>

\* No intent is newly posted by a driver.
NoNewPosts == \A d \in Drivers : post'[d] = "sent" => post[d] = "sent"

\* A step of the relayer that locks nothing leaves the owners of escrows alone.
LEMMA RelayerFrame ==
  ASSUME SimInv, RelayerOnly, NoNewPosts, WinnersStay, Shapes', ClaimsOfWinners',
         \A t \in pool' : t \in pool \/ t.call # "lockIntent"
  PROVE  SimInv'
<1>1. \A d \in Drivers : /\ OwnsEscrow(d) => OwnsEscrow(d)'
                         /\ HasLocked(d) => HasLocked(d)'
  BY DEF OwnsEscrow, HasLocked, RelayerOnly, LastStep
<1>2. LockOwners'
  BY <1>1 DEF SimInv, LockOwners, RelayerOnly, LastStep
<1>3. EscrowOwners'
  <2>1. \A k \in DOMAIN escrows : escrows[k].agent # Rival =>
          \E d \in Drivers :
            escrows[k].agent = d /\ OwnsEscrow(d)' /\ k = IntentIDBytes(id[d])
    BY <1>1 DEF SimInv, EscrowOwners
  <2>2. \A r \in receipts : r.ok /\ r.tx.call = "lockIntent" =>
          r.tx.by \in Drivers /\ OwnsEscrow(r.tx.by)'
    BY <1>1 DEF SimInv, EscrowOwners
  <2> QED
    BY <2>1, <2>2 DEF EscrowOwners, RelayerOnly
<1>4. PostersHaveEscrows'
  BY <1>1 DEF SimInv, PostersHaveEscrows, RelayerOnly, NoNewPosts
<1>5. PayeesAreWinners'
  <2> SUFFICES ASSUME NEW k \in DOMAIN escrows, PaidOut(k)
               PROVE  \E r \in Requests : IntentIDBytes(posted'[r]) = k /\ PaidWinnerOf(r, k)'
    BY DEF PayeesAreWinners, PaidOut, RelayerOnly
  <2>1. PICK r \in Requests : IntentIDBytes(posted[r]) = k /\ PaidWinnerOf(r, k)
    BY DEF SimInv, PayeesAreWinners
  <2>2. Won(r)' /\ bidsOn'[r] = bidsOn[r] /\ posted'[r] = posted[r]
    BY <2>1 DEF WinnersStay, PaidWinnerOf
  <2> QED
    BY <2>1, <2>2 DEF PaidWinnerOf, RelayerOnly
<1>6. LockedNames'
  BY DEF SimInv, LockedNames, RelayerOnly
<1> QED
  BY <1>2, <1>3, <1>4, <1>5, <1>6 DEF SimInv

\* A voucher of runAuction names a request and one of the bidders.
LEMMA VoucherShapes ==
  ASSUME SimInv
  PROVE  \A k \in 1..Len(vouchers) :
           vouchers[k].of \in Requests /\ vouchers[k].solver \in Bidders
<1>1. vouchers \in Seq(Vouchers)
  BY DEF SimInv, Shapes
<1>2. \A k \in 1..Len(vouchers) : vouchers[k] \in Vouchers
  BY <1>1, SMTT(60)
<1> QED
  BY <1>2 DEF Vouchers

\* Claims and vouchers survive when no winner changes.
LEMMA ClaimsStay ==
  ASSUME SimInv, WinnersStay, UNCHANGED <<pool, vouchers>>
  PROVE  ClaimsOfWinners'
<1>1. \A r \in Requests, b \in Bidders :
        WonBy(r, b) => WonBy(r, b)' /\ posted'[r] = posted[r]
  BY DEF WonBy, WinnersStay
<1>2. \A k \in 1..Len(vouchers) : vouchers[k].of \in Requests /\ vouchers[k].solver \in Bidders
  BY VoucherShapes
<1>3. \A k \in 1..Len(vouchers) : WonBy(vouchers[k].of, vouchers[k].solver)'
  <2> TAKE k \in 1..Len(vouchers)
  <2> DEFINE r == vouchers[k].of
             b == vouchers[k].solver
  <2>1. r \in Requests /\ b \in Bidders /\ WonBy(r, b)
    BY <1>2 DEF SimInv, ClaimsOfWinners
  <2>2. Won(r)' /\ bidsOn'[r] = bidsOn[r] /\ b = bidsOn[r][1]
    BY <2>1 DEF WinnersStay, WonBy, Won
  <2> QED
    BY <2>2 DEF WonBy, Won
<1>4. \A t \in pool : t.call = "claimFunds" =>
        \E r \in Requests, b \in Bidders :
          t.id = IntentIDBytes(posted'[r]) /\ t.by = SolverOf(b) /\ WonBy(r, b)'
  BY <1>1 DEF SimInv, ClaimsOfWinners
<1> QED
  BY <1>3, <1>4 DEF ClaimsOfWinners, WonBy, Won

\* The first of some values is one of them.
LEMMA HeadIsElement ==
  ASSUME NEW S, NEW s \in Seq(S), s # <<>>
  PROVE  Head(s) \in S
BY SMTT(60)

\* SubmitIntent: a request that is taken has no winner yet.
LEMMA AcceptStep ==
  ASSUME SimInv, NEW r \in Requests, NEW i \in AllIds, NEW S \in SUBSET Listening,
         Accept(r, i, S),
         post' \in [Drivers -> {"none", "sent", "accepted", "error"}], NoNewPosts,
         RelayerOnly, UNCHANGED <<bidsOn, vouchers, pool>>
  PROVE  SimInv'
<1>1. /\ auction' = [auction EXCEPT ![r] = "queued"] /\ auction[r] = "none"
      /\ posted' = [posted EXCEPT ![r] = i]
  BY DEF Accept
<1>2. Shapes'
  <2>1. inbox' \in [Drivers -> Seq(AllIds)]
    <3>1. inbox \in [Drivers -> Seq(AllIds)]
      BY DEF SimInv, Shapes
    <3>2. \A d \in Drivers : Append(inbox[d], i) \in Seq(AllIds)
      BY <3>1, SMTT(60)
    <3> QED
      BY <3>1, <3>2 DEF Accept
  <2>2. auction' \in [Requests -> {"none", "queued", "open", "closed", "duplicate"}]
    BY <1>1 DEF SimInv, Shapes
  <2>3. posted' \in [Requests -> AllIds \cup {<<>>}]
    BY <1>1 DEF SimInv, Shapes
  <2>4. \A q \in Requests : auction'[q] # "none" => posted'[q] \in AllIds
    <3> TAKE q \in Requests
    <3>1. CASE q = r
      BY <1>1, <3>1 DEF SimInv, Shapes
    <3>2. CASE q # r
      BY <1>1, <3>2 DEF SimInv, Shapes
    <3> QED
      BY <3>1, <3>2
  <2> QED
    BY <2>1, <2>2, <2>3, <2>4 DEF SimInv, Shapes, RelayerOnly
<1>3. WinnersStay
  <2> SUFFICES ASSUME NEW q \in Requests, Won(q)
               PROVE  Won(q)' /\ bidsOn'[q] = bidsOn[q] /\ posted'[q] = posted[q]
    BY DEF WinnersStay
  <2>1. q # r
    BY <1>1 DEF Won
  <2> QED
    BY <1>1, <2>1 DEF Won, SimInv, Shapes
<1>4. ClaimsOfWinners'
  BY <1>3, ClaimsStay
<1> QED
  BY <1>2, <1>3, <1>4, RelayerFrame

\* SubmitBid: an auction that is open has no winner yet.
LEMMA BidStep ==
  ASSUME SimInv, RelayerOnly, UNCHANGED <<inbox, post, posted, auction, pool, vouchers>>,
         NEW b \in Bidders, NEW C \in SUBSET Requests, \A r \in C : auction[r] = "open",
         bidsOn' = [r \in Requests |-> IF r \in C THEN Append(bidsOn[r], b) ELSE bidsOn[r]]
  PROVE  SimInv'
<1>1. Shapes'
  <2>1. bidsOn \in [Requests -> Seq(Bidders)]
    BY DEF SimInv, Shapes
  <2>2. \A r \in Requests : Append(bidsOn[r], b) \in Seq(Bidders)
    BY <2>1, SMTT(60)
  <2>3. bidsOn' \in [Requests -> Seq(Bidders)]
    BY <2>1, <2>2
  <2> QED
    BY <2>3 DEF SimInv, Shapes, RelayerOnly
<1>2. WinnersStay
  BY DEF WinnersStay, Won
<1>3. ClaimsOfWinners'
  BY <1>2, ClaimsStay
<1> QED
  BY <1>1, <1>2, <1>3, RelayerFrame DEF NoNewPosts

\* StartAuction, and the end of runAuction: the voucher names the first bid.
LEMMA AuctionStep ==
  ASSUME SimInv, NEW q \in Requests, OpenAuction(q) \/ CloseAuction(q)
  PROVE  SimInv'
<1> USE DEF chainVars, ledger, driverVars
<1>1. /\ RelayerOnly /\ UNCHANGED <<inbox, post, posted, bidsOn, pool>>
      /\ auction[q] \in {"queued", "open"}
      /\ \E to \in {"open", "closed", "duplicate"} : auction' = [auction EXCEPT ![q] = to]
  BY DEF OpenAuction, CloseAuction, RelayerOnly
<1>2. \/ UNCHANGED vouchers
      \/ /\ auction' = [auction EXCEPT ![q] = "closed"] /\ bidsOn[q] # <<>>
         /\ vouchers' = Append(vouchers, [of |-> q, solver |-> bidsOn[q][1]])
  BY DEF OpenAuction, CloseAuction, VoucherOf
<1>3. bidsOn[q] # <<>> => bidsOn[q][1] \in Bidders
  <2>1. bidsOn[q] \in Seq(Bidders)
    BY DEF SimInv, Shapes
  <2> QED
    BY <2>1, SMTT(60)
<1>4. Shapes'
  <2>1. vouchers \in Seq(Vouchers)
    BY DEF SimInv, Shapes
  <2>2. vouchers' \in Seq(Vouchers)
    <3>1. bidsOn[q] # <<>> => [of |-> q, solver |-> bidsOn[q][1]] \in Vouchers
      BY <1>3 DEF Vouchers
    <3>2. CASE bidsOn[q] # <<>>
               /\ vouchers' = Append(vouchers, [of |-> q, solver |-> bidsOn[q][1]])
      BY <2>1, <3>1, <3>2, SMTT(60)
    <3> QED
      BY <1>2, <2>1, <3>2
  <2>3. auction' \in [Requests -> {"none", "queued", "open", "closed", "duplicate"}]
    BY <1>1 DEF SimInv, Shapes
  <2>4. \A r \in Requests : auction'[r] # "none" => auction[r] # "none"
    BY <1>1 DEF SimInv, Shapes
  <2> QED
    BY <1>1, <2>2, <2>3, <2>4 DEF SimInv, Shapes, RelayerOnly
<1>5. WinnersStay
  BY <1>1 DEF WinnersStay, Won, SimInv, Shapes
<1>6. ClaimsOfWinners'
  <2>1. CASE UNCHANGED vouchers
    BY <1>1, <1>5, <2>1, ClaimsStay
  <2>2. CASE /\ auction' = [auction EXCEPT ![q] = "closed"] /\ bidsOn[q] # <<>>
             /\ vouchers' = Append(vouchers, [of |-> q, solver |-> bidsOn[q][1]])
    <3>1. \A t \in pool' : t.call = "claimFunds" =>
            \E r \in Requests, b \in Bidders :
              t.id = IntentIDBytes(posted'[r]) /\ t.by = SolverOf(b) /\ WonBy(r, b)'
      BY <1>1, <1>5 DEF SimInv, ClaimsOfWinners, WonBy, WinnersStay
    <3>2. vouchers \in Seq(Vouchers)
      BY DEF SimInv, Shapes
    <3>3. ASSUME NEW k \in 1..Len(vouchers')
          PROVE  WonBy(vouchers[k].of, vouchers[k].solver)'
      <4> DEFINE v == [of |-> q, solver |-> bidsOn[q][1]]
      <4> HIDE DEF v
      <4>1. /\ Len(vouchers) \in Nat /\ Len(vouchers') = Len(vouchers) + 1
            /\ vouchers'[Len(vouchers) + 1] = v
            /\ \A m \in 1..Len(vouchers) : vouchers'[m] = vouchers[m]
        <5>1. v \in Vouchers
          BY <1>3, <2>2 DEF Vouchers, v
        <5>2. vouchers' = Append(vouchers, v)
          BY <2>2 DEF v
        <5> QED
          BY <3>2, <5>1, <5>2, SMTT(60)
      <4>2. CASE k = Len(vouchers) + 1
        <5>1. vouchers'[k] = [of |-> q, solver |-> bidsOn[q][1]]
          BY <4>1, <4>2 DEF v
        <5>2. auction'[q] = "closed" /\ bidsOn' = bidsOn
          BY <1>1, <2>2 DEF SimInv, Shapes
        <5>3. vouchers'[k].of = q /\ vouchers'[k].solver = bidsOn[q][1]
          BY <5>1, SMTT(60)
        <5> QED
          BY <2>2, <5>2, <5>3 DEF WonBy, Won
      <4>3. CASE k \in 1..Len(vouchers)
        <5>1. vouchers'[k] = vouchers[k]
          BY <4>1, <4>3
        <5>2. vouchers[k].of \in Requests /\ WonBy(vouchers[k].of, vouchers[k].solver)
          BY <4>3, VoucherShapes DEF SimInv, ClaimsOfWinners
        <5> QED
          BY <1>1, <1>5, <5>1, <5>2 DEF WonBy, WinnersStay, Won
      <4>4. k = Len(vouchers) + 1 \/ k \in 1..Len(vouchers)
        BY <3>3, <4>1, SMTT(60)
      <4> QED
        BY <4>2, <4>3, <4>4
    <3> QED
      BY <3>1, <3>3 DEF ClaimsOfWinners
  <2> QED
    BY <1>2, <2>1, <2>2
<1> QED
  BY <1>1, <1>4, <1>5, <1>6, RelayerFrame DEF NoNewPosts

\* execute: the claim is that of the voucher.
LEMMA ExecuteStep ==
  ASSUME SimInv, ExecuteVoucher
  PROVE  SimInv'
<1> USE DEF driverVars, ledger
<1>1. RelayerOnly /\ UNCHANGED <<inbox, post, posted, auction, bidsOn>>
  BY DEF ExecuteVoucher, RelayerOnly
<1>2. vouchers # <<>> /\ vouchers' = Tail(vouchers)
  BY DEF ExecuteVoucher
<1>3. vouchers \in Seq(Vouchers)
  BY DEF SimInv, Shapes
<1>4. \A t \in pool' : t \in pool \/
        /\ t.call = "claimFunds" /\ t.id = IntentIDBytes(posted[vouchers[1].of])
        /\ t.by = SolverOf(vouchers[1].solver)
  <2> SUFFICES ASSUME NEW t \in pool', t \notin pool
               PROVE  /\ t.call = "claimFunds" /\ t.id = IntentIDBytes(posted[vouchers[1].of])
                      /\ t.by = SolverOf(vouchers[1].solver)
    OBVIOUS
  <2>1. Head(vouchers) = vouchers[1]
    BY <1>2, <1>3, SMTT(60)
  <2>2. \E sig : t = ClaimTx(vouchers[1], sig)
    BY <2>1 DEF ExecuteVoucher
  <2> QED
    BY <2>2, SMTT(60) DEF ClaimTx
<1>5. Shapes'
  <2>1. vouchers' \in Seq(Vouchers)
    BY <1>2, <1>3, SMTT(60)
  <2> QED
    BY <1>1, <2>1 DEF SimInv, Shapes, RelayerOnly
<1>6. WinnersStay
  BY <1>1 DEF WinnersStay, Won
<1>7. ClaimsOfWinners'
  <2>1. 1 \in 1..Len(vouchers)
    BY <1>2, <1>3, SMTT(60)
  <2>2. /\ vouchers[1].of \in Requests /\ vouchers[1].solver \in Bidders
        /\ WonBy(vouchers[1].of, vouchers[1].solver)
    BY <2>1, VoucherShapes DEF SimInv, ClaimsOfWinners
  <2>3. \A t \in pool' : t.call = "claimFunds" =>
          \E r \in Requests, b \in Bidders :
            t.id = IntentIDBytes(posted[r]) /\ t.by = SolverOf(b) /\ WonBy(r, b)
    BY <1>4, <2>2 DEF SimInv, ClaimsOfWinners
  <2>4. \A k \in 1..Len(vouchers') :
          k + 1 \in 1..Len(vouchers) /\ vouchers'[k] = vouchers[k + 1]
    BY <1>2, <1>3, SMTT(60)
  <2>5. \A k \in 1..Len(vouchers') : WonBy(vouchers'[k].of, vouchers'[k].solver)
    BY <2>4 DEF SimInv, ClaimsOfWinners
  <2> QED
    BY <1>1, <2>3, <2>5 DEF ClaimsOfWinners, WonBy, Won
<1>8. \A t \in pool' : t \in pool \/ t.call # "lockIntent"
  BY <1>4
<1> QED
  BY <1>1, <1>5, <1>6, <1>7, <1>8, RelayerFrame DEF NoNewPosts

------------------------------------------------------------------------------
\* Every step of the drivers, the chain and the relayer keeps the invariant.
LEMMA SimInvStep == SimInv /\ [Next]_vars => SimInv'
<1> SUFFICES ASSUME SimInv, [Next]_vars PROVE SimInv'
  OBVIOUS
<1> USE DEF chainVars, ledger, driverVars, relayerVars
<1>1. CASE Start
  BY <1>1, QuietStep DEF Start, Others
<1>2. ASSUME NEW t \in pool, Mine(t) PROVE SimInv'
  BY <1>2, MineStep
<1>3. CASE \/ \E n \in DOMAIN escrows : Refund(n)
           \/ \E i \in AllIds : RivalLocks(i)
           \/ RivalSends
  BY <1>3, OtherChainSteps
<1>4. ASSUME NEW d \in Drivers, Main(d) \/ CallFails(d) PROVE SimInv'
  BY <1>4, MainStep, SendStep DEF Main
<1>5. ASSUME NEW d \in Drivers, SendBid(d) PROVE SimInv'
  <2> DEFINE C == {r \in Requests : auction[r] = "open" /\ posted[r] = Head(inbox[d])}
  <2>1. RelayerOnly /\ UNCHANGED <<inbox, post, posted, auction, pool, vouchers>>
    BY <1>5 DEF SendBid, RelayerOnly
  <2>2. bidsOn' = [r \in Requests |-> IF r \in C THEN Append(bidsOn[r], d) ELSE bidsOn[r]]
    BY <1>5 DEF SendBid
  <2>3. C \in SUBSET Requests /\ \A r \in C : auction[r] = "open"
    OBVIOUS
  <2>4. d \in Bidders
    BY DEF Bidders
  <2> HIDE DEF C
  <2> QED
    BY <2>1, <2>2, <2>3, <2>4, BidStep
<1>6. ASSUME NEW d \in Drivers, SocketFails(d) PROVE SimInv'
  BY <1>6, QuietStep DEF SocketFails, Others
<1>7. ASSUME NEW d \in Drivers, NEW S \in SUBSET Listening, AcceptIntent(d, S)
      PROVE  SimInv'
  <2>1. post[d] = "sent" /\ OwnsEscrow(d)
    BY <1>7 DEF AcceptIntent, SimInv, PostersHaveEscrows
  <2>2. post' \in [Drivers -> {"none", "sent", "accepted", "error"}] /\ NoNewPosts
    BY <1>7 DEF AcceptIntent, SimInv, Shapes, NoNewPosts
  <2>3. id[d] \in AllIds
    BY <2>1 DEF OwnsEscrow, AllIds
  <2> QED
    BY <1>7, <2>1, <2>2, <2>3, AcceptStep DEF AcceptIntent, RelayerOnly, Requests
<1>8. ASSUME NEW d \in Drivers, RejectIntent(d) PROVE SimInv'
  <2>1. Shapes' /\ NoNewPosts
    BY <1>8 DEF RejectIntent, SimInv, Shapes, NoNewPosts
  <2>2. RelayerOnly /\ UNCHANGED <<posted, auction, bidsOn, pool, vouchers>>
    BY <1>8 DEF RejectIntent, RelayerOnly
  <2>3. WinnersStay
    BY <2>2 DEF WinnersStay, Won
  <2> QED
    BY <2>1, <2>2, <2>3, ClaimsStay, RelayerFrame
<1>9. ASSUME NEW r \in Strangers, NEW i \in AllIds, NEW S \in SUBSET Listening,
             AcceptForeign(r, i, S)
      PROVE  SimInv'
  <2>1. r \in Requests
    BY DEF Requests
  <2>2. post' \in [Drivers -> {"none", "sent", "accepted", "error"}] /\ NoNewPosts
    BY <1>9 DEF AcceptForeign, SimInv, Shapes, NoNewPosts
  <2> QED
    BY <1>9, <2>1, <2>2, AcceptStep DEF AcceptForeign, RelayerOnly
<1>10. ASSUME NEW r \in Requests, OpenAuction(r) \/ CloseAuction(r) PROVE SimInv'
  BY <1>10, AuctionStep
<1>11. ASSUME NEW r \in Requests, RivalBids(r) PROVE SimInv'
  <2> DEFINE C == {r}
  <2>1. RelayerOnly /\ UNCHANGED <<inbox, post, posted, auction, pool, vouchers>>
    BY <1>11 DEF RivalBids, RelayerOnly
  <2>2. bidsOn' = [q \in Requests |-> IF q \in C THEN Append(bidsOn[q], Rival) ELSE bidsOn[q]]
    BY <1>11 DEF RivalBids, SimInv, Shapes
  <2>3. C \in SUBSET Requests /\ \A q \in C : auction[q] = "open"
    BY <1>11 DEF RivalBids
  <2>4. Rival \in Bidders
    BY DEF Bidders
  <2> HIDE DEF C
  <2> QED
    BY <2>1, <2>2, <2>3, <2>4, BidStep
<1>12. CASE ExecuteVoucher
  BY <1>12, ExecuteStep
<1>13. CASE UNCHANGED vars
  BY <1>13, QuietStep DEF vars, Others
<1> QED
  BY <1>1, <1>2, <1>3, <1>4, <1>5, <1>6, <1>7, <1>8, <1>9, <1>10, <1>11, <1>12, <1>13
     DEF Next

\* claimFunds and execute: whatever the drivers, strangers, the relayer and the chain
\* do, and whatever the identifiers, an escrow is refunded or paid to the winner of
\* an auction with its identifier on chain.
THEOREM EscrowSafety == Spec => []PayeesAreWinners
<1>1. SimInv => PayeesAreWinners
  BY DEF SimInv
<1> QED
  BY <1>1, SimInvInit, SimInvStep, PTL DEF Spec

\* execute, copy(intentIDBytes[:], ...): where no two identifiers meet on chain, an
\* escrow is paid to the winner of an auction for the very identifier it was locked
\* for.  IdentifiersKeepApart gives the premise for identifiers that fit, and
\* LongIdentifiersCollide refutes it for longer ones, UUIDs among them.
THEOREM ShortIdentifiersAreSafe ==
  ASSUME \A i \in AllIds : i \in Identifiers /\ Len(i) <= IdBytes
  PROVE  Spec => []EscrowsGoToWinners
<1>1. ASSUME NEW i \in AllIds, NEW j \in AllIds, IntentIDBytes(i) = IntentIDBytes(j)
      PROVE  i = j
  BY <1>1, IdentifiersKeepApart
<1>2. SimInv => EscrowsGoToWinners
  <2> SUFFICES ASSUME SimInv, NEW k \in DOMAIN escrows, PaidOut(k)
               PROVE  \E r \in Requests : posted[r] = lockedFor[k] /\ PaidWinnerOf(r, k)
    BY DEF EscrowsGoToWinners
  <2>1. PICK r \in Requests : IntentIDBytes(posted[r]) = k /\ PaidWinnerOf(r, k)
    BY DEF SimInv, PayeesAreWinners
  <2>2. posted[r] \in AllIds
    BY <2>1 DEF SimInv, Shapes, PaidWinnerOf, Won
  <2>3. lockedFor[k] \in AllIds /\ IntentIDBytes(lockedFor[k]) = k
    BY DEF SimInv, LockedNames
  <2>4. posted[r] = lockedFor[k]
    BY <1>1, <2>1, <2>2, <2>3
  <2> QED
    BY <2>1, <2>4
<1> QED
  BY <1>2, SimInvInit, SimInvStep, PTL DEF Spec

==============================================================================
