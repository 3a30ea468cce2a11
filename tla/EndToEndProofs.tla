--------------------------- MODULE EndToEndProofs ---------------------------
(***************************************************************************)
(* Theorems about the relayer from its start on, and about the runs of the *)
(* simulation against it, for any environments and .env files, drivers and *)
(* accounts.  SimulationProofs has the escrows, and its SimInv is used     *)
(* throughout.                                                             *)
(*                                                                         *)
(*   EnvInv       loadDotEnv and the environment                           *)
(*   NonceTypes   a finite pool, hence an answer to PendingNonceAt         *)
(*   BootInv      what each stage of main has established                  *)
(*   VaultNonces  the nonce counter against the relayer's own account      *)
(*   ClaimedInv   while a driver runs, a resolved escrow was claimed       *)
(*   SetupInv     the order of a driver's transactions                     *)
(***************************************************************************)
EXTENDS SimulationProofs, FiniteSetTheorems, WellFoundedInduction

\* Most leaves are first-order; those that need more cite SMT.
USE ZenonT(60)

(***************************************************************************)
(* Who touches the state of the relayer's main.                            *)
(***************************************************************************)

\* main starts, execute reserves a nonce, and nobody else changes the environment,
\* the configuration or the nonce counter.
LEMMA WhoStarts ==
  ASSUME [Next]_vars
  PROVE  Start \/ ExecuteVoucher \/ UNCHANGED startVars
BY DEF Next, vars, Main, Mine, Refund, RivalSends, RivalLocks, ReadNonce,
       SendTransaction, WaitMined, Dial, Post, ReadResponse, BidSent, Verify, TimesOut,
       CallFails, SendBid, SocketFails, AcceptIntent, RejectIntent, AcceptForeign,
       OpenAuction, RivalBids, CloseAuction

------------------------------------------------------------------------------
(***************************************************************************)
(* loadDotEnv.  The invariant says of a variable that was exported empty   *)
(* what the property says of one that was not exported: nothing tells them *)
(* apart.                                                                  *)
(***************************************************************************)

Lines == [key : Keys \cup {"", "#"}, value : STRING]

EnvShapes ==
  /\ shell \in [Keys -> STRING \cup {Unset}] /\ env \in [Keys -> STRING \cup {Unset}]
  /\ line \in Nat \ {0}
  /\ file # NoFile => file \in Seq(Lines)

\* The lines read so far that give k a value.
Given(k) == {j \in 1..(line - 1) : Defines(j, k)}

\* A variable has the value it was exported with, or the first of its lines.
FirstOf(k) ==
  IF shell[k] \notin {Unset, ""} THEN env[k] = shell[k]
  ELSE IF Given(k) = {} THEN Value(k) = ""
  ELSE \E j \in Given(k) : env[k] = file[j].value /\ \A m \in Given(k) : j <= m

EnvInv == EnvShapes /\ \A k \in Keys : FirstOf(k)

\* Before the first line every variable is as exported.
LEMMA EnvInit == StartInit => EnvInv
<1> SUFFICES ASSUME StartInit PROVE EnvInv
  OBVIOUS
<1>1. EnvShapes
  <2>1. file # NoFile => file \in Seq(Lines)
    BY FilesAssumption DEF StartInit, Lines
  <2>2. /\ shell \in [Keys -> STRING \cup {Unset}]
        /\ env \in [Keys -> STRING \cup {Unset}]
    BY ShellsAssumption DEF StartInit
  <2>3. line \in Nat \ {0}
    BY SMTT(60) DEF StartInit
  <2> QED
    BY <2>1, <2>2, <2>3 DEF EnvShapes
<1>2. \A k \in Keys : Given(k) = {}
  BY SMTT(60) DEF StartInit, Given
<1>3. \A k \in Keys : FirstOf(k)
  BY <1>2 DEF StartInit, FirstOf, Value
<1> QED
  BY <1>1, <1>3 DEF EnvInv

\* A step that leaves all of that alone.
LEMMA EnvFrame ==
  ASSUME EnvInv, UNCHANGED <<shell, env, file, line>>
  PROVE  EnvInv'
<1>1. EnvShapes'
  BY DEF EnvInv, EnvShapes
<1>2. \A k \in Keys : Given(k)' = Given(k)
  BY DEF Given, Defines
<1>3. \A k \in Keys : FirstOf(k)
  BY DEF EnvInv
<1>4. \A k \in Keys : FirstOf(k)'
  BY <1>2, <1>3 DEF FirstOf, Value
<1> QED
  BY <1>1, <1>4 DEF EnvInv

\* A line that is read adds itself to the lines that give its key a value, if it
\* has one, and nothing else.
LEMMA GivenNext ==
  ASSUME line \in Nat \ {0}, line' = line + 1, UNCHANGED file, NEW k
  PROVE  Given(k)' = IF Defines(line, k) THEN Given(k) \cup {line} ELSE Given(k)
<1>1. \A j : j \in 1..(line' - 1) <=> j \in 1..(line - 1) \/ j = line
  BY SMTT(60)
<1>2. \A j : Defines(j, k)' <=> Defines(j, k)
  BY DEF Defines
<1> QED
  BY <1>1, <1>2, SMTT(60) DEF Given

\* loadDotEnv: one line keeps the property, whether or not its variable is set.
LEMMA LineStep ==
  ASSUME EnvInv, ReadLine
  PROVE  EnvInv'
<1>1. /\ file # NoFile /\ file \in Seq(Lines) /\ line \in 1..Len(file)
      /\ UNCHANGED <<shell, file>>
  <2>1. /\ file # NoFile /\ line <= Len(file) /\ line \in Nat \ {0}
        /\ UNCHANGED <<shell, file>> /\ file \in Seq(Lines)
    BY DEF ReadLine, EnvInv, EnvShapes
  <2>2. Len(file) \in Nat
    BY <2>1, SMTT(60)
  <2>3. line \in 1..Len(file)
    BY <2>1, <2>2, SMTT(60)
  <2> QED
    BY <2>1, <2>3
<1>2. file[line] \in Lines
  BY <1>1, SMTT(60)
<1>3. CASE UNCHANGED <<env, line>>
  BY <1>1, <1>3, EnvFrame
<1>4. CASE line' = line + 1
  <2>1. line \in Nat \ {0} /\ line' \in Nat \ {0}
    BY <1>4, SMTT(60) DEF EnvInv, EnvShapes
  <2>2. \/ UNCHANGED env /\ file[line].key = "#"
        \/ UNCHANGED env /\ file[line].key \in Keys /\ IsSet(file[line].key)
        \/ /\ file[line].key \in Keys /\ ~IsSet(file[line].key)
           /\ env' = [env EXCEPT ![file[line].key] = file[line].value]
    <3>1. line' # line
      BY <1>4, <2>1, SMTT(60)
    <3> QED
      BY <3>1 DEF ReadLine
  <2>3. env' \in [Keys -> STRING \cup {Unset}]
    <3>1. env \in [Keys -> STRING \cup {Unset}] /\ file[line].value \in STRING
      BY <1>2 DEF EnvInv, EnvShapes, Lines
    <3> QED
      BY <2>2, <3>1
  <2>4. EnvShapes'
    BY <1>1, <2>1, <2>3 DEF EnvInv, EnvShapes
  <2>5. ASSUME NEW k \in Keys PROVE FirstOf(k)'
    <3>1. FirstOf(k)
      BY DEF EnvInv
    <3>2. \A m \in Given(k) : m < line
      BY <2>1, SMTT(60) DEF Given
    <3>3. Given(k)' = IF Defines(line, k) THEN Given(k) \cup {line} ELSE Given(k)
      BY <1>1, <1>4, <2>1, GivenNext
    <3>4. Defines(line, k) => file[line].key = k
      BY DEF Defines
    <3>5. CASE env'[k] = env[k] /\ Given(k)' = Given(k)
      BY <1>1, <3>1, <3>5 DEF FirstOf, Value
    <3>6. CASE IsSet(k) /\ env'[k] = env[k] /\ Given(k)' = Given(k) \cup {line}
      <4>1. CASE shell[k] \notin {Unset, ""}
        BY <1>1, <3>1, <3>6, <4>1 DEF FirstOf
      <4>2. CASE shell[k] \in {Unset, ""}
        <5>1. PICK j \in Given(k) : env[k] = file[j].value /\ \A m \in Given(k) : j <= m
          BY <3>1, <3>6, <4>2 DEF FirstOf, IsSet
        <5>2. j <= line /\ j \in Given(k)'
          <6>1. j < line /\ j \in Given(k)'
            BY <3>2, <3>6, <5>1
          <6>2. j \in Int
            BY <5>1, SMTT(60) DEF Given
          <6> QED
            BY <2>1, <6>1, <6>2, SMTT(60)
        <5>3. \A m \in Given(k)' : j <= m
          BY <3>6, <5>1, <5>2
        <5> QED
          BY <1>1, <3>6, <4>2, <5>1, <5>2, <5>3 DEF FirstOf
      <4> QED
        BY <4>1, <4>2
    <3>7. CASE ~IsSet(k) /\ file[line].key = k /\ env'[k] = file[line].value
      <4>1. \A j \in Given(k) : file[j].value \in STRING \ {""}
        <5> TAKE j \in Given(k)
        <5>1. j \in 1..(line - 1)
          BY DEF Given
        <5>2. file[j].value # ""
          BY DEF Given, Defines
        <5>3. Len(file) \in Nat
          BY <1>1, SMTT(60)
        <5>4. line \in 1..Len(file)
          BY <1>1
        <5>5. j \in 1..Len(file)
          BY <5>1, <5>3, <5>4, SMTT(60)
        <5>6. file \in Seq(Lines)
          BY <1>1
        <5>7. file[j] \in Lines
          BY <5>5, <5>6, SMTT(60)
        <5> QED
          BY <5>2, <5>7 DEF Lines
      <4>2. shell[k] \in {Unset, ""}
        BY <3>1, <3>7 DEF FirstOf, IsSet, Value
      <4>3. Given(k) = {}
        BY <3>1, <3>7, <4>1, <4>2, UnsetAssumption DEF FirstOf, IsSet, Value
      <4>4. CASE file[line].value = ""
        <5>1. Given(k)' = {}
          BY <3>3, <4>3, <4>4 DEF Defines
        <5> QED
          BY <1>1, <3>7, <4>2, <4>4, <5>1 DEF FirstOf, Value
      <4>5. CASE file[line].value # ""
        <5>1. Given(k)' = {line}
          BY <1>1, <3>3, <3>7, <4>3, <4>5 DEF Defines
        <5>2. line <= line
          BY <2>1, SMTT(60)
        <5> QED
          BY <1>1, <3>7, <4>2, <5>1, <5>2 DEF FirstOf
      <4> QED
        BY <4>4, <4>5
    <3> QED
      <4>1. "#" \notin Keys
        BY DEF Keys, Required
      <4>2. k # file[line].key => env'[k] = env[k] /\ Given(k)' = Given(k)
        BY <2>2, <3>3, <3>4 DEF EnvInv, EnvShapes
      <4>3. CASE k = file[line].key /\ IsSet(k)
        <5>1. env'[k] = env[k]
          BY <2>2, <4>3
        <5> QED
          BY <3>3, <3>5, <3>6, <4>3, <5>1
      <4>4. CASE k = file[line].key /\ ~IsSet(k)
        <5>1. env'[k] = file[line].value
          BY <2>2, <4>1, <4>4 DEF EnvInv, EnvShapes
        <5> QED
          BY <3>7, <4>4, <5>1
      <4> QED
        BY <3>5, <4>2, <4>3, <4>4
  <2> QED
    BY <2>4, <2>5 DEF EnvInv
<1> QED
  BY <1>3, <1>4 DEF ReadLine

\* Configure starts afresh from the environment as it is.
LEMMA ConfigureEnv ==
  ASSUME EnvInv, Configure
  PROVE  EnvInv'
<1>1. shell' = env /\ file' = NoFile /\ line' = 1 /\ env' = env
  BY DEF Configure
<1>2. EnvShapes'
  BY <1>1, SMTT(60) DEF EnvInv, EnvShapes
<1>3. \A k \in Keys : Given(k)' = {}
  BY <1>1 DEF Given, Defines
<1>4. \A k \in Keys : FirstOf(k)'
  BY <1>1, <1>3 DEF FirstOf, Value
<1> QED
  BY <1>2, <1>4 DEF EnvInv

\* Every step keeps the environment as the property says.
LEMMA EnvStep == EnvInv /\ [Next]_vars => EnvInv'
<1> SUFFICES ASSUME EnvInv, [Next]_vars PROVE EnvInv'
  OBVIOUS
<1>1. CASE UNCHANGED <<shell, env, file, line>>
  BY <1>1, EnvFrame
<1>2. ReadLine \/ Configure \/ UNCHANGED <<shell, env, file, line>>
  BY WhoStarts DEF Start, StartStep, startVars, OpenFails, ScanEnds, OpenVault, Connect,
     Serve, ExecuteVoucher
<1> QED
  BY <1>1, <1>2, LineStep, ConfigureEnv

\* loadDotEnv: a variable that was exported with a value keeps it, and one that was
\* not exported gets the first value that is not empty among the lines that were
\* read, whatever the file holds and wherever the scanner stops.
THEOREM DotEnvNeverOverwrites == Spec => []ExportedOrFirstNonEmpty
<1>1. Init => EnvInv
  BY EnvInit DEF Init
<1>2. EnvInv => ExportedOrFirstNonEmpty
  BY DEF EnvInv, ExportedOrFirstNonEmpty, FirstOf, Given
<1> QED
  BY <1>1, <1>2, EnvStep, PTL DEF Spec

------------------------------------------------------------------------------
(***************************************************************************)
(* Nonces are numbers, and because the pool is finite PendingNonceAt has   *)
(* an answer.                                                              *)
(***************************************************************************)

Accounts == RelayerAccounts \cup Drivers \cup {Funder}

NonceTypes ==
  /\ IsFiniteSet(pool)
  /\ nonceOf \in [Accounts -> Nat]
  /\ nonce \in [Drivers -> Nat]

\* PendingNonceAt answers a number that the chain has not used.
LEMMA PendingIsNat ==
  ASSUME NonceTypes, NEW a \in Accounts, NEW n \in PendingNonces(a)
  PROVE  n \in Nat /\ n >= nonceOf[a]
<1>1. nonceOf[a] \in Nat /\ Cardinality(pool) \in Nat
  BY FS_CardinalityType DEF NonceTypes
<1>2. n \in nonceOf[a]..(nonceOf[a] + Cardinality(pool))
  BY DEF PendingNonces
<1> QED
  BY <1>1, <1>2, SMTT(60)

\* A set of numbers has a least element.
LEMMA LeastNat ==
  ASSUME NEW T \in SUBSET Nat, T # {}
  PROVE  \E n \in T : \A m \in T : n <= m
<1> DEFINE R == OpToRel(<, Nat)
<1>1. \A x, y \in Nat : x < y => <<x, y>> \in R
  BY SMTT(60) DEF OpToRel
<1>2. PICK n \in T : \A m \in T : <<m, n>> \notin R
  <2> HIDE DEF R
  <2>1. IsWellFoundedOn(R, Nat)
    BY NatLessThanWellFounded DEF R
  <2> QED
    BY <2>1, WFMin
<1> HIDE DEF R
<1>3. \A m \in T : ~(m < n)
  BY <1>1, <1>2
<1> QED
  BY <1>3, SMTT(60)

\* The pool is too small to hold every nonce an account could use next.
LEMMA FreeNonce ==
  ASSUME NonceTypes, NEW a \in Accounts
  PROVE  \E n \in nonceOf[a]..(nonceOf[a] + Cardinality(pool)) : ~InPool(a, n)
<1> DEFINE S == nonceOf[a]..(nonceOf[a] + Cardinality(pool))
<1>1. nonceOf[a] \in Nat /\ Cardinality(pool) \in Nat /\ IsFiniteSet(pool)
  BY FS_CardinalityType DEF NonceTypes
<1>2. IsFiniteSet(S) /\ Cardinality(pool) < Cardinality(S)
  <2>1. /\ nonceOf[a] \in Int /\ nonceOf[a] + Cardinality(pool) \in Int
        /\ ~(nonceOf[a] > nonceOf[a] + Cardinality(pool))
    BY <1>1, SMTT(60)
  <2>2. /\ IsFiniteSet(S)
        /\ Cardinality(S) = (nonceOf[a] + Cardinality(pool)) - nonceOf[a] + 1
    BY <2>1, FS_Interval
  <2> HIDE DEF S
  <2> QED
    BY <1>1, <2>2, SMTT(60)
<1> HIDE DEF S
<1> SUFFICES ASSUME \A n \in S : InPool(a, n) PROVE FALSE
  BY DEF S
<1> DEFINE f == [n \in S |-> CHOOSE t \in pool : t.from = a /\ t.nonce = n]
<1>3. \A n \in S : f[n] \in pool /\ f[n].nonce = n
  BY DEF InPool
<1> HIDE DEF f
<1>4. f \in [S -> pool]
  BY <1>3 DEF f
<1>5. PICK x \in S, y \in S : x # y /\ f[x] = f[y]
  BY <1>1, <1>2, <1>4, FS_PigeonHole
<1> QED
  BY <1>3, <1>5

\* PendingNonceAt has one answer.
LEMMA OnePendingNonce ==
  ASSUME NonceTypes, NEW a \in Accounts
  PROVE  \E n \in Nat : PendingNonces(a) = {n}
<1> DEFINE low == nonceOf[a]
           high == nonceOf[a] + Cardinality(pool)
           F == {n \in low..high : ~InPool(a, n)}
<1>1. low \in Nat /\ high \in Nat
  <2>1. nonceOf[a] \in Nat /\ Cardinality(pool) \in Nat
    BY FS_CardinalityType DEF NonceTypes
  <2> QED
    BY <2>1, SMTT(60)
<1>2. PICK n \in F : \A m \in F : n <= m
  <2>1. F # {}
    BY FreeNonce
  <2>2. F \in SUBSET Nat
    <3> HIDE DEF low, high
    <3> QED
      BY <1>1, SMTT(60)
  <2> HIDE DEF F
  <2> QED
    BY <2>1, <2>2, LeastNat
<1>3. \A k : k \in PendingNonces(a) <=>
        k \in low..high /\ ~InPool(a, k) /\ \A m \in low..(k - 1) : InPool(a, m)
  BY DEF PendingNonces
<1> HIDE DEF low, high
<1>4. n \in Nat /\ n \in low..high /\ ~InPool(a, n)
  BY <1>1, <1>2, SMTT(60)
<1>5. \A m \in low..(n - 1) : InPool(a, m)
  <2> SUFFICES ASSUME NEW m \in low..(n - 1), ~InPool(a, m) PROVE FALSE
    OBVIOUS
  <2>1. m \in low..high /\ ~(n <= m)
    BY <1>1, <1>4, SMTT(60)
  <2> QED
    BY <1>2, <2>1
<1>6. n \in PendingNonces(a)
  BY <1>3, <1>4, <1>5
<1>7. ASSUME NEW k \in PendingNonces(a) PROVE k = n
  <2>1. k \in low..high /\ ~InPool(a, k) /\ \A m \in low..(k - 1) : InPool(a, m)
    BY <1>3
  <2>2. k \in F
    BY <2>1
  <2>3. n <= k
    BY <1>2, <2>2
  <2>4. n \notin low..(k - 1)
    BY <1>4, <2>1
  <2> QED
    BY <1>1, <1>4, <2>1, <2>3, <2>4, SMTT(60)
<1> QED
  BY <1>4, <1>6, <1>7

\* An account's next nonce is a number.
LEMMA NextNonce ==
  ASSUME NonceTypes, NEW a, nonceOf' = [nonceOf EXCEPT ![a] = @ + 1]
  PROVE  nonceOf' \in [Accounts -> Nat]
<1>1. nonceOf' = [x \in Accounts |-> IF x = a THEN nonceOf[x] + 1 ELSE nonceOf[x]]
  BY DEF NonceTypes
<1>2. \A x \in Accounts : nonceOf[x] \in Nat /\ nonceOf[x] + 1 \in Nat
  BY SMTT(60) DEF NonceTypes
<1> QED
  BY <1>1, <1>2

\* Whoever sends, mines or reads keeps the types of nonces.
LEMMA NonceTypesStep == NonceTypes /\ [Next]_vars => NonceTypes'
<1> SUFFICES ASSUME NonceTypes, [Next]_vars PROVE NonceTypes'
  OBVIOUS
<1> USE DEF chainVars, driverVars, relayerVars
<1>1. CASE UNCHANGED <<pool, nonceOf, nonce>>
  BY <1>1 DEF NonceTypes
<1>2. ASSUME NEW t \in pool, Mine(t) PROVE NonceTypes'
  <2>1. IsFiniteSet(pool')
    BY <1>2, FS_RemoveElement DEF Mine, NonceTypes
  <2> QED
    BY <1>2, <2>1, NextNonce DEF Mine, NonceTypes
<1>3. CASE RivalSends
  BY <1>3, NextNonce DEF RivalSends, NonceTypes
<1>4. ASSUME NEW d \in Drivers, ReadNonce(d) PROVE NonceTypes'
  <2>1. PICK n \in PendingNonces(Sender(d)) : nonce' = [nonce EXCEPT ![d] = n]
    BY <1>4 DEF ReadNonce
  <2>2. Sender(d) \in Accounts
    BY DEF Sender, Accounts
  <2>3. n \in Nat
    BY <2>1, <2>2, PendingIsNat
  <2> QED
    BY <1>4, <2>1, <2>3 DEF ReadNonce, NonceTypes
<1>5. ASSUME NEW d \in Drivers, UNCHANGED <<pool, nonceOf>>, NEW how, Exit(d, how)
      PROVE  NonceTypes'
  <2>1. nonce' = [nonce EXCEPT ![d] = 0] /\ 0 \in Nat
    BY <1>5 DEF Exit
  <2> QED
    BY <1>5, <2>1 DEF NonceTypes
<1>6. ASSUME NEW d \in Drivers, SendTransaction(d) PROVE NonceTypes'
  <2>1. IsFiniteSet(pool')
    BY <1>6, FS_AddElement DEF SendTransaction, NonceTypes
  <2>2. nonce' \in [Drivers -> Nat]
    <3>1. 0 \in Nat /\ nonce \in [Drivers -> Nat]
      BY DEF NonceTypes
    <3>2. UNCHANGED nonce \/ nonce' = [nonce EXCEPT ![d] = 0]
      BY <1>6 DEF SendTransaction, Exit
    <3> QED
      BY <3>1, <3>2
  <2> QED
    BY <1>6, <2>1, <2>2 DEF SendTransaction, NonceTypes
<1>7. ASSUME NEW d \in Drivers, WaitMined(d) \/ Dial(d) \/ ReadResponse(d)
      PROVE  NonceTypes'
  BY <1>1, <1>5, <1>7 DEF WaitMined, Dial, ReadResponse
<1>8. ASSUME NEW d \in Drivers, Verify(d) \/ CallFails(d) \/ TimesOut(d)
      PROVE  NonceTypes'
  BY <1>5, <1>8 DEF Verify, CallFails, TimesOut
<1>9. CASE ExecuteVoucher
  <2>1. UNCHANGED <<nonceOf, nonce>> /\ (UNCHANGED pool \/ \E t : pool' = pool \cup {t})
    BY <1>9 DEF ExecuteVoucher
  <2> QED
    BY <2>1, FS_AddElement DEF NonceTypes
<1>10. \/ UNCHANGED <<pool, nonceOf, nonce>>
       \/ \E t \in pool : Mine(t)
       \/ RivalSends \/ ExecuteVoucher
       \/ \E d \in Drivers :
            \/ ReadNonce(d) \/ SendTransaction(d) \/ WaitMined(d) \/ Dial(d)
            \/ ReadResponse(d) \/ Verify(d) \/ CallFails(d) \/ TimesOut(d)
  BY DEF Next, vars, Main, Start, Refund, RivalLocks, Post, BidSent, SendBid,
         SocketFails, AcceptIntent, RejectIntent, AcceptForeign, OpenAuction, RivalBids,
         CloseAuction
<1> QED
  BY <1>1, <1>2, <1>3, <1>4, <1>6, <1>7, <1>8, <1>9, <1>10

------------------------------------------------------------------------------
(***************************************************************************)
(* main of the relayer, stage by stage.                                    *)
(***************************************************************************)

ConfigFields == {"chainID", "timeout", "port", "vault", "settlement"}

Window == Getenv("AUCTION_TIMEOUT_MS", "200")

\* What main knows once it has read its environment, opened the vault, and asked
\* for the nonce.
BootInv ==
  /\ boot \in {"dotenv", "configure", "vault", "connect", "bind", "serving", "fatal"}
  /\ DOMAIN config = ConfigFields
  /\ boot \in {"vault", "connect", "bind", "serving"} =>
       /\ \A k \in Required : Value(k) # ""
       /\ Window \in DOMAIN Uint /\ config.timeout = Duration(Uint[Window])
  /\ boot \in {"connect", "bind", "serving"} =>
       /\ Value("RELAYER_PRIVATE_KEY") \in DOMAIN KeyOf
       /\ config.vault = KeyOf[Value("RELAYER_PRIVATE_KEY")]
  /\ boot \in {"bind", "serving"} => current \in Nat

\* Requests are accepted, and vouchers executed, by a relayer that serves.
ServingInv ==
  (\E r \in Requests : auction[r] # "none") \/ vouchers # <<>> => boot = "serving"

\* The window in nanoseconds, where the signed product does not wrap around.
LEMMA DurationFits ==
  ASSUME NEW ms \in Nat, 2 * ms * Millisecond < Word
  PROVE  Duration(ms) = ms * Millisecond
<1> DEFINE p == ms * Millisecond
<1>1. p \in Nat /\ 2 * ms * Millisecond = 2 * p
  BY WordAssumption, SMTT(60)
<1>2. p % Word = p /\ ~(2 * p >= Word)
  <2> HIDE DEF p
  <2> QED
    BY <1>1, WordAssumption, SMTT(60)
<1> QED
  BY <1>2 DEF Duration

\* Every step of main keeps what earlier steps established.
LEMMA BootStep ==
  ASSUME EnvShapes, NonceTypes, BootInv, ServingInv, [Next]_vars
  PROVE  BootInv'
<1> USE DEF Window, Getenv, Value
<1>1. CASE UNCHANGED <<env, boot, config>> /\ (boot \in {"bind", "serving"} => current' \in Nat)
  BY <1>1 DEF BootInv
<1>2. CASE OpenFails \/ ReadLine \/ ScanEnds
  BY <1>2 DEF OpenFails, ReadLine, ScanEnds, BootInv
<1>3. CASE Configure
  <2>1. CASE Misconfigured
    BY <1>3, <2>1 DEF Configure, BootInv
  <2>2. CASE ~Misconfigured
    <3>1. /\ \A k \in Required : Value(k) # ""
          /\ Window \in DOMAIN Uint
      BY <2>2 DEF Misconfigured
    <3>2. /\ boot' = "vault" /\ env' = env
          /\ config' = [config EXCEPT
               !.chainID = Uint[Value("CHAIN_ID")],
               !.timeout = Duration(Uint[Window]),
               !.port = Getenv("PORT", "8080")]
      BY <1>3, <2>2 DEF Configure
    <3>3. DOMAIN config' = ConfigFields /\ config'.timeout = Duration(Uint[Window])
      BY <3>2 DEF BootInv, ConfigFields
    <3> QED
      BY <3>1, <3>2, <3>3 DEF BootInv
  <2> QED
    BY <2>1, <2>2
<1>4. CASE OpenVault
  <2>1. CASE Value("RELAYER_PRIVATE_KEY") \notin DOMAIN KeyOf
    BY <1>4, <2>1 DEF OpenVault, BootInv
  <2>2. CASE Value("RELAYER_PRIVATE_KEY") \in DOMAIN KeyOf
    <3>1. /\ boot = "vault" /\ boot' = "connect" /\ env' = env
          /\ config' = [config EXCEPT !.vault = KeyOf[Value("RELAYER_PRIVATE_KEY")]]
      BY <1>4, <2>2 DEF OpenVault
    <3>2. /\ DOMAIN config' = ConfigFields /\ config'.timeout = config.timeout
          /\ config'.vault = KeyOf[Value("RELAYER_PRIVATE_KEY")]
      BY <3>1 DEF BootInv, ConfigFields
    <3> QED
      BY <2>2, <3>1, <3>2 DEF BootInv
  <2> QED
    BY <2>1, <2>2
<1>5. ASSUME boot = "connect", NEW n \in PendingNonces(config.vault), Connect(n)
      PROVE  BootInv'
  <2>1. config.vault \in Accounts
    BY <1>5 DEF BootInv, Accounts, RelayerAccounts
  <2>2. n \in Nat
    BY <2>1, PendingIsNat
  <2> QED
    BY <1>5, <2>2 DEF Connect, Seed, BootInv
<1>6. CASE Serve
  <2>1. /\ DOMAIN config' = ConfigFields /\ config'.timeout = config.timeout
        /\ config'.vault = config.vault
    BY <1>6 DEF Serve, BootInv, ConfigFields
  <2>2. boot = "bind" /\ boot' = "serving" /\ UNCHANGED <<env, current>>
    BY <1>6 DEF Serve
  <2> QED
    BY <2>1, <2>2 DEF BootInv
<1>7. CASE ExecuteVoucher
  <2>1. boot = "serving" /\ UNCHANGED <<env, boot, config>>
    BY <1>7 DEF ExecuteVoucher, ServingInv
  <2>2. current' = current \/ current' = current + 1
    BY <1>7 DEF ExecuteVoucher, history
  <2>3. current \in Nat
    BY <2>1 DEF BootInv
  <2>4. current' \in Nat
    BY <2>2, <2>3, SMTT(60)
  <2> QED
    BY <1>1, <2>1, <2>4
<1>8. CASE UNCHANGED startVars
  BY <1>1, <1>8 DEF startVars, BootInv
<1> QED
  BY <1>2, <1>3, <1>4, <1>5, <1>6, <1>7, <1>8, WhoStarts DEF Start, StartStep

\* boot stays "serving": main has nothing left to do but to wait for a signal.
LEMMA ServingStays ==
  ASSUME [Next]_vars, boot = "serving"
  PROVE  boot' = "serving"
BY WhoStarts DEF Start, StartStep, OpenFails, ReadLine, ScanEnds, Configure, OpenVault,
   Connect, Serve, ExecuteVoucher, startVars

\* Nothing is queued before main serves.
LEMMA ServingStep ==
  ASSUME Shapes, ServingInv, [Next]_vars
  PROVE  ServingInv'
<1>1. CASE boot = "serving"
  BY <1>1, ServingStays DEF ServingInv
<1>2. CASE boot # "serving"
  <2>1. vouchers = <<>> /\ \A r \in Requests : auction[r] = "none"
    BY <1>2 DEF ServingInv
  <2>2. UNCHANGED <<auction, vouchers>>
    <3>1. ~ExecuteVoucher
      BY <2>1 DEF ExecuteVoucher
    <3>2. \A r \in Requests : ~OpenAuction(r) /\ ~CloseAuction(r)
      BY <2>1 DEF OpenAuction, CloseAuction
    <3>3. \A r, i, S : ~Accept(r, i, S)
      BY <1>2 DEF Accept
    <3> QED
      BY <3>1, <3>2, <3>3 DEF Next, vars, Main, Start, Mine, Refund, RivalSends,
         RivalLocks, ReadNonce, SendTransaction, WaitMined, Dial, Post, ReadResponse,
         BidSent, Verify, TimesOut, CallFails, SendBid, SocketFails, AcceptIntent,
         RejectIntent, AcceptForeign, RivalBids, relayerVars
  <2> QED
    BY <2>1, <2>2 DEF ServingInv
<1> QED
  BY <1>1, <1>2

\* Everything about the start of the relayer holds throughout.
LEMMA StartAlways == Spec => [](SimInv /\ EnvInv /\ NonceTypes /\ BootInv /\ ServingInv)
<1>1. Init => SimInv /\ EnvInv /\ NonceTypes /\ BootInv /\ ServingInv
  <2> SUFFICES ASSUME Init PROVE SimInv /\ EnvInv /\ NonceTypes /\ BootInv /\ ServingInv
    OBVIOUS
  <2>1. NonceTypes
    <3>1. 0 \in Nat
      OBVIOUS
    <3> QED
      BY <3>1, FS_EmptySet DEF Init, NonceTypes, Accounts
  <2>2. BootInv
    <3>1. boot = "dotenv" /\ config = NoConfig
      BY DEF Init, StartInit
    <3>2. DOMAIN config = ConfigFields
      BY <3>1, SMTT(60) DEF NoConfig, ConfigFields
    <3> QED
      BY <3>1, <3>2 DEF BootInv
  <2>3. ServingInv
    BY DEF Init, ServingInv
  <2> QED
    BY <2>1, <2>2, <2>3, SimInvInit, EnvInit DEF Init
<1>2. SimInv /\ EnvInv /\ NonceTypes /\ BootInv /\ ServingInv /\ [Next]_vars
        => (SimInv /\ EnvInv /\ NonceTypes /\ BootInv /\ ServingInv)'
  BY SimInvStep, EnvStep, NonceTypesStep, BootStep, ServingStep DEF SimInv, EnvInv
<1> QED
  BY <1>1, <1>2, PTL DEF Spec

\* PendingNonceAt, as NewNonceQueue, Resync and the drivers call it: the node has
\* exactly one answer for every account, whatever is in its pool.
THEOREM PendingNonceIsDefined ==
  Spec => [](\A a \in Accounts : \E n \in Nat : PendingNonces(a) = {n})
<1>1. NonceTypes => \A a \in Accounts : \E n \in Nat : PendingNonces(a) = {n}
  BY OnePendingNonce
<1> QED
  BY <1>1, StartAlways, PTL

\* main: a relayer that serves has every required variable, the account of its key,
\* a nonce from the node, and the window that was asked for if an int64 can hold it.
THEOREM ServesAsConfigured == Spec => []StartedAsConfigured
<1>1. BootInv => StartedAsConfigured
  <2> SUFFICES ASSUME BootInv, boot = "serving"
               PROVE  /\ \A k \in Required : Value(k) # ""
                      /\ config.vault = KeyOf[Value("RELAYER_PRIVATE_KEY")]
                      /\ current # Nil
                      /\ 2 * Uint[Window] * Millisecond < Word
                           => config.timeout = Uint[Window] * Millisecond
    BY DEF StartedAsConfigured, Window
  <2>1. Uint[Window] \in Nat /\ config.timeout = Duration(Uint[Window])
    BY UintAssumption DEF BootInv
  <2>2. current # Nil
    BY NilAssumption DEF BootInv
  <2> QED
    BY <2>1, <2>2, DurationFits DEF BootInv
<1> QED
  BY <1>1, StartAlways, PTL

------------------------------------------------------------------------------
(***************************************************************************)
(* Claims.  The account of the relayer is used by nobody else, so its      *)
(* counter stays above what the node has seen of it, and a claim can only  *)
(* be refused for what the contract says.                                  *)
(***************************************************************************)

VaultNonces ==
  /\ boot \notin {"bind", "serving"} => \A t \in pool : t.from # RelayerSigner
  /\ boot \in {"bind", "serving"} /\ config.vault = RelayerSigner =>
       /\ current >= nonceOf[RelayerSigner]
       /\ \A t \in pool : t.from = RelayerSigner => t.nonce \in Nat /\ t.nonce < current

\* Once the vault is open its account is one of those the chain knows.
LEMMA VaultIsAccount ==
  ASSUME BootInv, boot \in {"connect", "bind", "serving"}
  PROVE  config.vault \in Accounts
BY DEF BootInv, Accounts, RelayerAccounts

\* Whoever is not the relayer does not touch its account.
LEMMA VaultFrame ==
  ASSUME BootInv, VaultNonces, UNCHANGED <<boot, config, current>>,
         RelayerSigner \in Accounts => nonceOf'[RelayerSigner] = nonceOf[RelayerSigner],
         \A t \in pool' : t \in pool \/ t.from # RelayerSigner
  PROVE  VaultNonces'
BY VaultIsAccount DEF VaultNonces

\* The steps before main serves: NewNonceQueue seeds the counter.
LEMMA VaultStart ==
  ASSUME NonceTypes, BootInv, VaultNonces, Start
  PROVE  VaultNonces'
<1>1. UNCHANGED <<pool, nonceOf>>
  BY DEF Start, chainVars
<1>2. CASE OpenFails \/ ReadLine \/ ScanEnds \/ Configure \/ OpenVault
  <2>1. boot \notin {"bind", "serving"} /\ boot' \notin {"bind", "serving"}
    BY <1>2 DEF OpenFails, ReadLine, ScanEnds, Configure, OpenVault
  <2> QED
    BY <1>1, <2>1 DEF VaultNonces
<1>3. CASE Serve
  <2>1. /\ boot = "bind" /\ boot' = "serving" /\ current' = current
        /\ config'.vault = config.vault
    BY <1>3 DEF Serve, BootInv, ConfigFields
  <2> QED
    BY <1>1, <2>1 DEF VaultNonces
<1>4. ASSUME boot = "connect", NEW n \in PendingNonces(config.vault), Connect(n)
      PROVE  VaultNonces'
  <2>1. config.vault \in Accounts
    BY <1>4, VaultIsAccount
  <2>2. n >= nonceOf[config.vault]
    BY <2>1, PendingIsNat
  <2>3. \A t \in pool : t.from # RelayerSigner
    BY <1>4 DEF VaultNonces
  <2>4. /\ config' = config
        /\ (boot' = "bind" /\ current' = n) \/ boot' = "fatal"
    BY <1>4 DEF Connect, Seed
  <2> QED
    BY <1>1, <2>2, <2>3, <2>4 DEF VaultNonces
<1> QED
  BY <1>2, <1>3, <1>4 DEF Start, StartStep

\* A block takes the next transaction of the relayer, or one of somebody else.
LEMMA VaultMine ==
  ASSUME NonceTypes, BootInv, VaultNonces, NEW t \in pool, Mine(t)
  PROVE  VaultNonces'
<1>1. /\ UNCHANGED <<boot, config, current>> /\ pool' \subseteq pool
      /\ t.nonce = nonceOf[t.from]
      /\ nonceOf' = [nonceOf EXCEPT ![t.from] = @ + 1]
  BY DEF Mine, startVars
<1>2. CASE t.from # RelayerSigner
  <2>1. RelayerSigner \in Accounts => nonceOf'[RelayerSigner] = nonceOf[RelayerSigner]
    BY <1>1, <1>2 DEF NonceTypes
  <2> QED
    BY <1>1, <2>1, VaultFrame
<1>3. CASE t.from = RelayerSigner
  <2>1. boot \in {"bind", "serving"}
    BY <1>3 DEF VaultNonces
  <2> SUFFICES ASSUME config.vault = RelayerSigner PROVE VaultNonces'
    BY <1>1, <2>1 DEF VaultNonces
  <2>2. RelayerSigner \in Accounts
    BY <2>1, VaultIsAccount
  <2>3. /\ current \in Nat /\ nonceOf[RelayerSigner] \in Nat
        /\ nonceOf[RelayerSigner] < current
    BY <1>1, <1>3, <2>1, <2>2 DEF VaultNonces, NonceTypes, BootInv
  <2>4. nonceOf'[RelayerSigner] = nonceOf[RelayerSigner] + 1
    BY <1>1, <1>3, <2>2 DEF NonceTypes
  <2>5. current >= nonceOf'[RelayerSigner]
    BY <2>3, <2>4, SMTT(60)
  <2> QED
    BY <1>1, <2>1, <2>5 DEF VaultNonces
<1> QED
  BY <1>2, <1>3

\* The transactions of drivers, and of Rival, come from other accounts.
LEMMA VaultOthers ==
  ASSUME NonceTypes, BootInv, VaultNonces,
         RivalSends \/ \E d \in Drivers : SendTransaction(d)
  PROVE  VaultNonces'
<1>1. CASE RivalSends
  <2>1. /\ UNCHANGED <<boot, config, current, pool>>
        /\ nonceOf' = [nonceOf EXCEPT ![Funder] = @ + 1]
    BY <1>1 DEF RivalSends, startVars
  <2>2. RelayerSigner \in Accounts => nonceOf'[RelayerSigner] = nonceOf[RelayerSigner]
    BY <2>1, AccountsAssumption DEF NonceTypes
  <2> QED
    BY <2>1, <2>2, VaultFrame
<1>2. ASSUME NEW d \in Drivers, SendTransaction(d) PROVE VaultNonces'
  <2>1. /\ UNCHANGED <<boot, config, current, nonceOf>>
        /\ pool' = pool \/ pool' = pool \cup {SetupTx(d)}
    BY <1>2 DEF SendTransaction, startVars
  <2>2. SetupTx(d).from # RelayerSigner
    BY AccountsAssumption DEF SetupTx, Sender
  <2> QED
    BY <2>1, <2>2, VaultFrame
<1> QED
  BY <1>1, <1>2

\* What execute sends: from the vault, with the nonce it reserved.
LEMMA ExecuteSends ==
  ASSUME ExecuteVoucher
  PROVE  /\ UNCHANGED <<boot, config, nonceOf, receipts, escrows, driverVars>>
         /\ \/ UNCHANGED pool /\ current' \in {current, current + 1}
            \/ /\ current' = current + 1
               /\ \E t : /\ t.from = config.vault /\ t.nonce = current
                         /\ t.call = "claimFunds"
                         /\ pool' = pool \cup {t}
<1>1. UNCHANGED <<boot, config, nonceOf, receipts, escrows, driverVars>>
  BY DEF ExecuteVoucher, ledger
<1>2. PICK sig : LET t == ClaimTx(Head(vouchers), sig)
                 IN  \/ pool' = pool \cup {t} /\ current' = current + 1
                     \/ UNCHANGED pool /\ current' \in {current, current + 1}
  BY DEF ExecuteVoucher
<1>3. LET t == ClaimTx(Head(vouchers), sig)
      IN  t.from = config.vault /\ t.nonce = current /\ t.call = "claimFunds"
  BY DEF ClaimTx
<1> QED
  BY <1>1, <1>2, <1>3

\* execute sends with the counter, which then moves past it.
LEMMA VaultExecute ==
  ASSUME NonceTypes, BootInv, ServingInv, VaultNonces, ExecuteVoucher
  PROVE  VaultNonces'
<1>1. boot = "serving" /\ boot' = boot /\ config' = config /\ nonceOf' = nonceOf
  BY ExecuteSends DEF ServingInv, ExecuteVoucher
<1>2. current \in Nat
  BY <1>1 DEF BootInv
<1> SUFFICES ASSUME config.vault = RelayerSigner PROVE VaultNonces'
  BY <1>1 DEF VaultNonces
<1>3. nonceOf[RelayerSigner] \in Nat
  BY <1>1, VaultIsAccount DEF NonceTypes
<1>4. current >= nonceOf[RelayerSigner]
  BY <1>1 DEF VaultNonces
<1>5. current' \in Nat /\ current' >= nonceOf[RelayerSigner] /\ current' >= current
  BY <1>2, <1>3, <1>4, ExecuteSends, SMTT(60)
<1>6. ASSUME NEW t \in pool', t.from = RelayerSigner
      PROVE  t.nonce \in Nat /\ t.nonce < current'
  <2>1. CASE t \in pool
    <3>1. t.nonce \in Nat /\ t.nonce < current
      BY <1>1, <1>6, <2>1 DEF VaultNonces
    <3> QED
      BY <1>2, <1>5, <3>1, SMTT(60)
  <2>2. CASE t \notin pool
    <3>1. t.nonce = current /\ current' = current + 1
      BY <2>2, ExecuteSends
    <3> QED
      BY <1>2, <3>1, SMTT(60)
  <2> QED
    BY <2>1, <2>2
<1> QED
  BY <1>1, <1>5, <1>6 DEF VaultNonces

\* Every step keeps the counter above what the node has seen.
LEMMA VaultStep ==
  ASSUME NonceTypes, BootInv, ServingInv, VaultNonces, [Next]_vars
  PROVE  VaultNonces'
<1>1. CASE UNCHANGED <<boot, config, current, nonceOf, pool>>
  BY <1>1, VaultFrame
<1>2. \/ UNCHANGED <<boot, config, current, nonceOf, pool>>
      \/ Start \/ RivalSends \/ ExecuteVoucher
      \/ \E t \in pool : Mine(t)
      \/ \E d \in Drivers : SendTransaction(d)
  BY DEF Next, vars, startVars, chainVars, Main, Refund, RivalLocks, ReadNonce,
     WaitMined, Dial, Post, ReadResponse, BidSent, Verify, TimesOut, CallFails, SendBid,
     SocketFails, AcceptIntent, RejectIntent, AcceptForeign, OpenAuction, RivalBids,
     CloseAuction
<1> QED
  BY <1>1, <1>2, VaultStart, VaultMine, VaultOthers, VaultExecute

\* execute: what a well configured relayer signs is what the contract expects, and
\* its nonce is free, so only the escrow can be the reason for a refusal.
LEMMA HealthyClaims ==
  ASSUME NonceTypes, BootInv, VaultNonces, boot = "serving", Healthy,
         NEW v, NEW sig \in Signatures(config.vault,
                          ClaimDigest(IntentIDBytes(posted[v.of]), SolverOf(v.solver))),
         IsOpen(ClaimTx(v, sig).id)
  PROVE  Submitted(ClaimTx(v, sig))
<1> DEFINE t == ClaimTx(v, sig)
<1>1. /\ t.id = IntentIDBytes(posted[v.of]) /\ t.by = SolverOf(v.solver)
      /\ t.sig = NormaliseV(sig) /\ t.from = RelayerSigner /\ t.nonce = current
  BY DEF ClaimTx, Healthy
<1>2. Recover(ClaimDigest(t.id, t.by), t.sig) = RelayerSigner
  <2> DEFINE i == IntentIDBytes(posted[v.of])
             w == SolverOf(v.solver)
  <2> HIDE DEF t, i, w
  <2>1. sig \in Signatures(RelayerSigner, ClaimDigest(i, w))
    BY DEF Healthy, i, w
  <2>2. Recover(ClaimDigest(i, w), NormaliseV(sig)) = RelayerSigner
    <3>1. Recover(ClaimDigest(i, w), NormaliseV(sig)) = RelayerSigner <=> i = i /\ w = w
      BY <2>1, ClaimSignatureBinds, SMTT(60)
    <3> QED
      BY <3>1
  <2>3. t.id = i /\ t.by = w
    BY <1>1 DEF i, w
  <2> QED
    BY <1>1, <2>2, <2>3
<1>3. CanClaim(t.id, t.by, t.sig)
  BY <1>2 DEF CanClaim
<1>4. /\ current \in Nat /\ current >= nonceOf[RelayerSigner]
      /\ \A u \in pool : u.from = RelayerSigner => u.nonce \in Nat /\ u.nonce < current
  BY DEF BootInv, VaultNonces, Healthy
<1>5. \A u \in pool : u.from = RelayerSigner => u.nonce # current
  BY <1>4, SMTT(60)
<1>6. NodeTakes(t)
  BY <1>1, <1>4, <1>5, AccountsAssumption DEF NodeTakes, InPool
<1> QED
  BY <1>3, <1>6 DEF Submitted, Healthy

\* Only execute has claims refused.
LEMMA RefusedStep ==
  ASSUME NonceTypes, BootInv, ServingInv, VaultNonces, RefusedClaimsHaveNoEscrow,
         [Next]_vars
  PROVE  RefusedClaimsHaveNoEscrow'
<1>1. CASE UNCHANGED refused
  BY <1>1 DEF RefusedClaimsHaveNoEscrow
<1>2. CASE ExecuteVoucher
  <2>1. boot = "serving"
    BY <1>2 DEF ExecuteVoucher, ServingInv
  <2> DEFINE v == Head(vouchers)
  <2>2. PICK sig \in Signatures(config.vault,
                     ClaimDigest(IntentIDBytes(posted[v.of]), SolverOf(v.solver))) :
          \/ UNCHANGED refused
          \/ /\ ~Submitted(ClaimTx(v, sig))
             /\ refused' = refused \cup
                  {[healthy |-> Healthy, open |-> IsOpen(ClaimTx(v, sig).id)]}
    BY <1>2 DEF ExecuteVoucher, history
  <2>3. CASE ~Submitted(ClaimTx(v, sig))
    <3>1. ~(Healthy /\ IsOpen(ClaimTx(v, sig).id))
      BY <2>1, <2>3, HealthyClaims
    <3>2. LET r == [healthy |-> Healthy, open |-> IsOpen(ClaimTx(v, sig).id)]
          IN  r.healthy => ~r.open
      BY <3>1
    <3> QED
      BY <1>1, <2>2, <3>2 DEF RefusedClaimsHaveNoEscrow
  <2> QED
    BY <1>1, <2>2, <2>3
<1>3. ExecuteVoucher \/ UNCHANGED refused
  BY DEF Next, vars, Main, Start, Mine, Refund, RivalSends, RivalLocks, ReadNonce,
     SendTransaction, WaitMined, Dial, Post, ReadResponse, BidSent, Verify, TimesOut,
     CallFails, SendBid, SocketFails, AcceptIntent, RejectIntent, AcceptForeign,
     OpenAuction, RivalBids, CloseAuction, relayerVars, history
<1> QED
  BY <1>1, <1>2, <1>3

\* execute and KeyVault: a relayer whose key and addresses are those of the contract
\* has a claim refused only because there is no open escrow for it, never because
\* of its signature, its recovery byte or its nonce.
THEOREM SignaturesAreAccepted == Spec => []RefusedClaimsHaveNoEscrow
<1>1. Init => VaultNonces /\ RefusedClaimsHaveNoEscrow
  BY DEF Init, StartInit, VaultNonces, RefusedClaimsHaveNoEscrow
<1>2. /\ SimInv /\ EnvInv /\ NonceTypes /\ BootInv /\ ServingInv
      /\ VaultNonces /\ RefusedClaimsHaveNoEscrow
      /\ [Next]_vars
      => (VaultNonces /\ RefusedClaimsHaveNoEscrow)'
  BY VaultStep, RefusedStep
<1> QED
  BY <1>1, <1>2, StartAlways, PTL DEF Spec

------------------------------------------------------------------------------
(***************************************************************************)
(* The verdict of a driver.  A resolved escrow stays as it is, winners     *)
(* stay winners, and nobody is refunded while a driver runs: so what       *)
(* Verify finds resolved was claimed, for the winner of an auction.        *)
(***************************************************************************)

\* The transaction at hand resolves an escrow by a claim of a winner.
ClaimOf(n, p) ==
  \E r \in Requests, b \in Bidders :
    n = IntentIDBytes(posted[r]) /\ p = SolverOf(b) /\ WonBy(r, b)

\* Escrows are changed by lockIntent, claimFunds and refundIntent only.
LEMMA EscrowChange ==
  ASSUME SimInv, [Next]_vars
  PROVE  \/ UNCHANGED escrows
         \/ \E a, n : LockIntent(a, n) /\ UNCHANGED <<posted, auction, bidsOn, driver, id>>
         \/ \E n \in DOMAIN escrows : \E p :
              /\ IsOpen(n) /\ Resolve(n, p)
              /\ UNCHANGED <<posted, auction, bidsOn, driver, id>>
              /\ ClaimOf(n, p) \/ \A d \in Drivers : driver[d] \in Ended
<1>1. ASSUME NEW t \in pool, Mine(t)
      PROVE  \/ UNCHANGED escrows
             \/ \E a, n : LockIntent(a, n) /\ UNCHANGED <<posted, auction, bidsOn, driver, id>>
             \/ \E n \in DOMAIN escrows : \E p :
                  /\ IsOpen(n) /\ Resolve(n, p)
                  /\ UNCHANGED <<posted, auction, bidsOn, driver, id>>
                  /\ ClaimOf(n, p)
  <2>1. UNCHANGED <<posted, auction, bidsOn, driver, id>>
    BY <1>1 DEF Mine, driverVars, relayerVars
  <2>2. CASE ~Succeeds(t)
    BY <1>1, <2>2 DEF Mine, ledger
  <2>3. CASE Succeeds(t) /\ t.call = "lockIntent"
    BY <1>1, <2>1, <2>3 DEF Mine, Apply, Lock
  <2>4. CASE Succeeds(t) /\ t.call = "claimFunds"
    <3>1. t.id \in DOMAIN escrows /\ IsOpen(t.id) /\ Resolve(t.id, t.by)
      BY <1>1, <2>4 DEF Mine, Apply, ClaimFunds, CanClaim, IsOpen
    <3>2. ClaimOf(t.id, t.by)
      BY <2>4 DEF SimInv, ClaimsOfWinners, ClaimOf
    <3> QED
      BY <2>1, <3>1, <3>2
  <2>5. CASE Succeeds(t) /\ t.call \notin {"lockIntent", "claimFunds"}
    BY <1>1, <2>5 DEF Mine, Apply
  <2> QED
    BY <2>2, <2>3, <2>4, <2>5
<1>2. ASSUME NEW n \in DOMAIN escrows, Refund(n)
      PROVE  /\ IsOpen(n) /\ Resolve(n, escrows[n].agent)
             /\ UNCHANGED <<posted, auction, bidsOn, driver, id>>
             /\ \A d \in Drivers : driver[d] \in Ended
  BY <1>2 DEF Refund, RefundIntent, driverVars, relayerVars
<1>3. ASSUME NEW i \in AllIds, RivalLocks(i)
      PROVE  /\ LockIntent(Rival, IntentIDBytes(i))
             /\ UNCHANGED <<posted, auction, bidsOn, driver, id>>
  BY <1>3 DEF RivalLocks, Lock, driverVars, relayerVars
<1>4. \/ UNCHANGED escrows
      \/ \E t \in pool : Mine(t)
      \/ \E n \in DOMAIN escrows : Refund(n)
      \/ \E i \in AllIds : RivalLocks(i)
  BY DEF Next, vars, Main, Start, RivalSends, ReadNonce, SendTransaction, WaitMined,
     Dial, Post, ReadResponse, BidSent, Verify, TimesOut, CallFails, SendBid,
     SocketFails, AcceptIntent, RejectIntent, AcceptForeign, OpenAuction, RivalBids,
     CloseAuction, ExecuteVoucher, chainVars, ledger
<1> QED
  BY <1>1, <1>2, <1>3, <1>4

ResolvedStay ==
  \A k \in DOMAIN escrows : escrows[k].isResolved =>
    k \in DOMAIN escrows' /\ escrows'[k] = escrows[k]

\* Resolve changes one escrow, which gets resolved and paid.
LEMMA Resolving ==
  ASSUME SimInv, NEW n \in DOMAIN escrows, NEW p, Resolve(n, p)
  PROVE  /\ DOMAIN escrows' = DOMAIN escrows
         /\ \A k \in DOMAIN escrows : k # n => escrows'[k] = escrows[k]
         /\ escrows'[n].agent = escrows[n].agent /\ escrows'[n].paid = p
<1>1. \A k \in DOMAIN escrows : escrows[k] \in EscrowRecords
  BY DEF SimInv, Shapes
<1>2. /\ DOMAIN escrows' = DOMAIN escrows
      /\ \A k \in DOMAIN escrows : k # n => escrows'[k] = escrows[k]
      /\ escrows'[n] = [escrows[n] EXCEPT !.isResolved = TRUE, !.paid = p]
  BY DEF Resolve, SimInv, Shapes
<1> QED
  BY <1>1, <1>2 DEF EscrowRecords

\* lockIntent adds an escrow that is not resolved.
LEMMA Locking ==
  ASSUME NEW a, NEW n, LockIntent(a, n)
  PROVE  /\ n \notin DOMAIN escrows /\ DOMAIN escrows' = DOMAIN escrows \cup {n}
         /\ escrows'[n].agent = a /\ escrows'[n].isResolved = FALSE
         /\ \A k \in DOMAIN escrows : escrows'[k] = escrows[k]
BY DEF LockIntent

\* claimFunds and refundIntent need an open escrow.
LEMMA ResolvedStep ==
  ASSUME SimInv, [Next]_vars
  PROVE  ResolvedStay
<1>1. CASE UNCHANGED escrows
  BY <1>1 DEF ResolvedStay
<1>2. ASSUME NEW a, NEW n, LockIntent(a, n) PROVE ResolvedStay
  BY <1>2, Locking DEF ResolvedStay
<1>3. ASSUME NEW n \in DOMAIN escrows, NEW p, IsOpen(n), Resolve(n, p)
      PROVE  ResolvedStay
  BY <1>3, Resolving DEF ResolvedStay, IsOpen
<1> QED
  BY <1>1, <1>2, <1>3, EscrowChange

\* A closed auction gets no more bids.
LEMMA WinnersStep ==
  ASSUME SimInv, [Next]_vars
  PROVE  WinnersStay
<1> DEFINE Same(r) == auction'[r] = "closed" /\ bidsOn'[r] = bidsOn[r] /\ posted'[r] = posted[r]
<1> SUFFICES ASSUME NEW r \in Requests, auction[r] = "closed" PROVE Same(r)
  BY DEF WinnersStay, Won
<1>1. /\ auction \in [Requests -> {"none", "queued", "open", "closed", "duplicate"}]
      /\ posted \in [Requests -> AllIds \cup {<<>>}]
  BY DEF SimInv, Shapes
<1>2. bidsOn \in [Requests -> Seq(Bidders)]
  BY DEF SimInv, Shapes
<1>3. CASE UNCHANGED <<posted, auction, bidsOn>>
  BY <1>3
<1>4. ASSUME NEW q, NEW i, NEW S, Accept(q, i, S), UNCHANGED bidsOn PROVE Same(r)
  BY <1>1, <1>4 DEF Accept
<1>5. ASSUME NEW q \in Requests, OpenAuction(q) \/ CloseAuction(q) PROVE Same(r)
  BY <1>1, <1>5 DEF OpenAuction, CloseAuction
<1>6. ASSUME NEW q \in Requests, RivalBids(q) PROVE Same(r)
  BY <1>2, <1>6 DEF RivalBids
<1>7. ASSUME NEW d \in Drivers, SendBid(d) PROVE Same(r)
  BY <1>2, <1>7 DEF SendBid
<1>8. \/ UNCHANGED <<posted, auction, bidsOn>>
      \/ \E q, i, S : Accept(q, i, S) /\ UNCHANGED bidsOn
      \/ \E q \in Requests : OpenAuction(q) \/ CloseAuction(q) \/ RivalBids(q)
      \/ \E d \in Drivers : SendBid(d)
  BY DEF Next, vars, Main, Start, Mine, Refund, RivalSends, RivalLocks, ReadNonce,
     SendTransaction, WaitMined, Dial, Post, ReadResponse, BidSent, Verify, TimesOut,
     CallFails, SocketFails, AcceptIntent, RejectIntent, AcceptForeign, ExecuteVoucher,
     relayerVars
<1> QED
  BY <1>3, <1>4, <1>5, <1>6, <1>7, <1>8

\* A driver that has ended stays as it is; one that reports success has just read
\* its escrow; and only a driver in its setup gets an identifier.
LEMMA DriverStep ==
  ASSUME SimInv, [Next]_vars, NEW d \in Drivers
  PROVE  /\ driver[d] \in Ended => driver'[d] = driver[d]
         /\ driver'[d] = "ok" /\ driver[d] # "ok" => Verify(d)
         /\ driver[d] # "setup" => id'[d] = id[d]
<1>1. /\ DOMAIN driver = Drivers /\ DOMAIN id = Drivers
  BY DEF SimInv, Shapes
<1>2. CASE UNCHANGED <<driver, id>>
  BY <1>2
<1>3. ASSUME NEW e \in Drivers, Main(e) \/ CallFails(e)
      PROVE  /\ driver[d] \in Ended => driver'[d] = driver[d]
             /\ driver'[d] = "ok" /\ driver[d] # "ok" => Verify(d)
             /\ driver[d] # "setup" => id'[d] = id[d]
  <2>1. ASSUME e # d
        PROVE  driver'[d] = driver[d] /\ id'[d] = id[d]
    BY <1>1, <1>3, <2>1 DEF Main, ReadNonce, SendTransaction, WaitMined, Dial, Post,
       ReadResponse, BidSent, Verify, TimesOut, CallFails, Goto, Exit
  <2>2. ASSUME e = d
        PROVE  driver[d] \notin Ended
    BY <1>3, <2>2 DEF Main, ReadNonce, SendTransaction, WaitMined, Dial, Post,
       ReadResponse, BidSent, Verify, TimesOut, CallFails, HasTimeout, Ended
  <2>3. ASSUME e = d, driver'[d] = "ok"
        PROVE  Verify(d)
    BY <1>1, <1>3, <2>3 DEF Main, ReadNonce, SendTransaction, WaitMined, Dial, Post,
       ReadResponse, BidSent, TimesOut, CallFails, Goto, Exit
  <2>4. ASSUME e = d, driver[d] # "setup"
        PROVE  id'[d] = id[d]
    BY <1>3, <2>4 DEF Main, ReadNonce, SendTransaction, WaitMined, Dial, Post,
       ReadResponse, BidSent, Verify, TimesOut, CallFails, Goto, Exit
  <2> QED
    BY <2>1, <2>2, <2>3, <2>4
<1>4. \/ UNCHANGED <<driver, id>>
      \/ \E e \in Drivers : Main(e) \/ CallFails(e)
  BY DEF Next, vars, Start, Mine, Refund, RivalSends, RivalLocks, SendBid, SocketFails,
     AcceptIntent, RejectIntent, AcceptForeign, OpenAuction, RivalBids, CloseAuction,
     ExecuteVoucher, driverVars
<1> QED
  BY <1>2, <1>3, <1>4

\* The escrow under k was paid to the winner of an auction with that identifier.
Claimed(k) == \E r \in Requests : IntentIDBytes(posted[r]) = k /\ PaidWinnerOf(r, k)

\* While a driver runs, resolved means claimed.
ClaimedInv ==
  (\E d \in Drivers : driver[d] \notin Ended) =>
    \A k \in DOMAIN escrows : escrows[k].isResolved => Claimed(k)

\* What was claimed stays claimed.
LEMMA ClaimedStays ==
  ASSUME SimInv, [Next]_vars, NEW k \in DOMAIN escrows, escrows[k].isResolved, Claimed(k)
  PROVE  Claimed(k)'
<1>1. PICK r \in Requests : IntentIDBytes(posted[r]) = k /\ PaidWinnerOf(r, k)
  BY DEF Claimed
<1>2. Won(r)' /\ bidsOn'[r] = bidsOn[r] /\ posted'[r] = posted[r]
  BY <1>1, WinnersStep DEF WinnersStay, PaidWinnerOf
<1>3. escrows'[k] = escrows[k]
  BY ResolvedStep DEF ResolvedStay
<1> QED
  BY <1>1, <1>2, <1>3 DEF Claimed, PaidWinnerOf, SolverOf, IntentIDBytes

\* No refund is mined while a driver runs, and a claim names the winner.
LEMMA ClaimedStep ==
  ASSUME SimInv, ClaimedInv, [Next]_vars
  PROVE  ClaimedInv'
<1> SUFFICES ASSUME NEW d \in Drivers, driver'[d] \notin Ended,
                    NEW k \in DOMAIN escrows', escrows'[k].isResolved
             PROVE  Claimed(k)'
  BY DEF ClaimedInv
<1>1. driver[d] \notin Ended
  BY DriverStep
<1>2. CASE k \in DOMAIN escrows /\ escrows[k].isResolved
  BY <1>1, <1>2, ClaimedStays DEF ClaimedInv
<1>3. CASE ~(k \in DOMAIN escrows /\ escrows[k].isResolved)
  <2>1. CASE UNCHANGED escrows
    BY <1>3, <2>1
  <2>2. ASSUME NEW a, NEW n, LockIntent(a, n) PROVE FALSE
    BY <1>3, <2>2, Locking
  <2>3. ASSUME NEW n \in DOMAIN escrows, NEW q, IsOpen(n), Resolve(n, q),
               UNCHANGED <<posted, auction, bidsOn, driver, id>>, ClaimOf(n, q)
        PROVE  Claimed(k)'
    <3>1. k = n /\ escrows'[k].paid = q
      BY <1>3, <2>3, Resolving
    <3>2. PICK r \in Requests, b \in Bidders :
            n = IntentIDBytes(posted[r]) /\ q = SolverOf(b) /\ WonBy(r, b)
      BY <2>3 DEF ClaimOf
    <3>3. PaidWinnerOf(r, k)'
      BY <2>3, <3>1, <3>2 DEF PaidWinnerOf, WonBy, Won, SolverOf
    <3> QED
      BY <2>3, <3>1, <3>2, <3>3 DEF Claimed, IntentIDBytes
  <2> QED
    BY <1>1, <2>1, <2>2, <2>3, EscrowChange
<1> QED
  BY <1>2, <1>3

\* A driver that has ended well keeps its claimed escrow, and one that ends well
\* has found its own escrow resolved.
LEMMA SuccessStep ==
  ASSUME SimInv, ClaimedInv, SuccessMeansClaimed, [Next]_vars
  PROVE  SuccessMeansClaimed'
<1> SUFFICES ASSUME NEW d \in Drivers, driver'[d] = "ok", NEW k, k = IntentIDBytes(id[d])
             PROVE  /\ id'[d] = id[d] /\ k \in DOMAIN escrows' /\ escrows'[k].agent = d
                    /\ Claimed(k)'
  BY DEF SuccessMeansClaimed, Claimed, IntentIDBytes
<1>1. /\ k \in DOMAIN escrows /\ escrows[k].agent = d /\ escrows[k].isResolved
      /\ Claimed(k)
  <2>1. CASE driver[d] = "ok"
    BY <2>1 DEF SuccessMeansClaimed, Claimed, PaidWinnerOf
  <2>2. CASE driver[d] # "ok"
    <3>1. Verify(d)
      BY <2>2, DriverStep
    <3>2. driver[d] = "verify" /\ IsResolved(k)
      BY <3>1 DEF Verify, Exit, SimInv, Shapes
    <3>3. OwnsEscrow(d)
      BY <3>2 DEF SimInv, PostersHaveEscrows
    <3>4. Claimed(k)
      BY <3>2 DEF ClaimedInv, IsResolved, Ended
    <3> QED
      BY <3>2, <3>3, <3>4 DEF OwnsEscrow, IsResolved
  <2> QED
    BY <2>1, <2>2
<1>2. k \in DOMAIN escrows' /\ escrows'[k] = escrows[k]
  BY <1>1, ResolvedStep DEF ResolvedStay
<1>3. driver[d] # "setup"
  <2>1. driver[d] = "ok" \/ Verify(d)
    BY DriverStep
  <2> QED
    BY <2>1 DEF Verify
<1>4. id'[d] = id[d]
  BY <1>3, DriverStep
<1>5. Claimed(k)'
  BY <1>1, ClaimedStays
<1> QED
  BY <1>1, <1>2, <1>4, <1>5

\* cmd/simulate/main.go:308: "claimFunds succeeded" is true.  The escrow that a
\* driver reads after settlementWait is its own, and was paid to the winner of an
\* auction with its identifier on chain, however many drivers and rivals there are.
THEOREM VerdictIsTrue == Spec => []SuccessMeansClaimed
<1>1. Init => ClaimedInv /\ SuccessMeansClaimed
  <2> SUFFICES ASSUME Init PROVE ClaimedInv /\ SuccessMeansClaimed
    OBVIOUS
  <2>1. DOMAIN escrows = {}
    BY SMTT(60) DEF Init
  <2>2. \A d \in Drivers : driver[d] # "ok"
    BY DEF Init
  <2> QED
    BY <2>1, <2>2 DEF ClaimedInv, SuccessMeansClaimed
<1>2. SimInv /\ ClaimedInv /\ SuccessMeansClaimed /\ [Next]_vars
        => (SimInv /\ ClaimedInv /\ SuccessMeansClaimed)'
  BY SimInvStep, ClaimedStep, SuccessStep
<1> QED
  BY <1>1, <1>2, SimInvInit, PTL DEF Spec

------------------------------------------------------------------------------
(***************************************************************************)
(* The transactions of a driver.  waitMined orders them: a transaction is  *)
(* sent when those it depends on have taken effect.  And a driver locks    *)
(* once, so a lockIntent that is in the pool has no escrow yet.            *)
(***************************************************************************)

Setting == {"setup", "send", "wait"}

\* Where a driver is tells what has taken effect.
Progress ==
  \A d \in Drivers : driver[d] \in Setting =>
    /\ step[d] \in {3, 4, 5} => d \in deployed
    /\ step[d] \in {4, 5} => d \in minted
    /\ step[d] = 5 => d \in approved

\* What a transaction in the pool depends on has taken effect.
PoolReady ==
  \A t \in pool :
    /\ t.call # "claimFunds" => t.by \in Drivers
    /\ t.call \in {"mint", "approve"} => t.by \in deployed
    /\ t.call = "lockIntent" => t.by \in minted /\ t.by \in approved

\* A lockIntent that is to be mined is the only one of its driver.
LocksOnce ==
  \A t \in pool : t.call = "lockIntent" =>
    /\ \A s \in pool : s.call = "lockIntent" /\ s.by = t.by => s = t
    /\ \A k \in DOMAIN escrows : escrows[k].agent # t.by

\* A transaction that succeeded has taken effect.
Effective ==
  \A r \in receipts : r.ok =>
    /\ r.tx.call = "deploy" => r.tx.by \in deployed
    /\ r.tx.call = "mint" => r.tx.by \in minted
    /\ r.tx.call = "approve" => r.tx.by \in approved

SetupInv == Progress /\ PoolReady /\ LocksOnce /\ Effective /\ SetupNeverReverts

\* The transactions in their order.
LEMMA CallsInOrder ==
  /\ SetupCalls[1] = "sendETH" /\ SetupCalls[2] = "deploy" /\ SetupCalls[3] = "mint"
  /\ SetupCalls[4] = "approve" /\ SetupCalls[5] = "lockIntent"
  /\ \A s \in 1..5 : s \in {1, 2, 3, 4, 5}
BY SMTT(60) DEF SetupCalls

\* Nothing that has taken effect is undone.
EffectsStay ==
  /\ deployed \subseteq deployed' /\ minted \subseteq minted'
  /\ approved \subseteq approved'

\* Only a block changes what has taken effect.
LEMMA EffectsStep ==
  ASSUME [Next]_vars
  PROVE  EffectsStay
<1>1. ASSUME NEW t \in pool, Mine(t) PROVE EffectsStay
  BY <1>1 DEF Mine, Apply, EffectsStay, ledger
<1>2. (\E t \in pool : Mine(t)) \/ UNCHANGED <<deployed, minted, approved>>
  BY DEF Next, vars, Main, Start, Refund, RivalSends, RivalLocks, ReadNonce,
     SendTransaction, WaitMined, Dial, Post, ReadResponse, BidSent, Verify, TimesOut,
     CallFails, SendBid, SocketFails, AcceptIntent, RejectIntent, AcceptForeign,
     OpenAuction, RivalBids, CloseAuction, ExecuteVoucher, chainVars, ledger
<1> QED
  BY <1>1, <1>2 DEF EffectsStay

\* The agent of an escrow is who locked it.
LEMMA AgentsStep ==
  ASSUME SimInv, [Next]_vars
  PROVE  EscrowsStay
<1>1. CASE UNCHANGED escrows
  BY <1>1 DEF EscrowsStay
<1>2. ASSUME NEW a, NEW n, LockIntent(a, n) PROVE EscrowsStay
  BY <1>2, Locking DEF EscrowsStay
<1>3. ASSUME NEW n \in DOMAIN escrows, NEW p, Resolve(n, p)
      PROVE  EscrowsStay
  BY <1>3, Resolving DEF EscrowsStay
<1> QED
  BY <1>1, <1>2, <1>3, EscrowChange

\* The steps of a driver that leave the chain alone: waitMined moves on when the
\* transaction at hand has succeeded, hence taken effect.
LEMMA ProgressStep ==
  ASSUME SimInv, Progress, Effective, EffectsStay, [Next]_vars
  PROVE  Progress'
<1> SUFFICES ASSUME NEW d \in Drivers, driver'[d] \in Setting
             PROVE  /\ step'[d] \in {3, 4, 5} => d \in deployed'
                    /\ step'[d] \in {4, 5} => d \in minted'
                    /\ step'[d] = 5 => d \in approved'
  BY DEF Progress
<1>1. /\ DOMAIN driver = Drivers /\ DOMAIN step = Drivers
      /\ step[d] \in {1, 2, 3, 4, 5}
  BY SetupOrder, CallsInOrder DEF SimInv, Shapes
<1>2. CASE driver[d] \in Setting /\ step'[d] = step[d]
  BY <1>2 DEF Progress, EffectsStay
<1>3. CASE WaitMined(d)
  <2>1. /\ driver[d] = "wait" /\ Mined(d) /\ ~Reverted(d)
        /\ step' = [step EXCEPT ![d] = @ + 1]
    BY <1>1, <1>3 DEF WaitMined, Exit, Goto, Setting
  <2>2. PICK r \in receipts : r.tx = SetupTx(d)
    BY <2>1 DEF Mined
  <2>3. r.ok
    BY <2>1, <2>2 DEF Reverted, SimInv, Shapes
  <2>4. r.tx.by = d /\ r.tx.call = SetupCalls[step[d]]
    <3>1. SetupTx(d).by = d /\ SetupTx(d).call = SetupCalls[step[d]]
      BY DEF SetupTx
    <3> QED
      BY <2>2, <3>1
  <2>5. /\ step[d] = 2 => d \in deployed
        /\ step[d] = 3 => d \in minted
        /\ step[d] = 4 => d \in approved
    BY <2>2, <2>3, <2>4, CallsInOrder DEF Effective
  <2>6. /\ step[d] \in {3, 4, 5} => d \in deployed
        /\ step[d] \in {4, 5} => d \in minted
        /\ step[d] = 5 => d \in approved
    BY <2>1 DEF Progress, Setting
  <2>7. step'[d] = step[d] + 1
    BY <1>1, <2>1
  <2>8. /\ step'[d] \in {3, 4, 5} => step[d] \in {2, 3, 4}
        /\ step'[d] \in {4, 5} => step[d] \in {3, 4}
        /\ step'[d] = 5 => step[d] = 4
    BY <1>1, <2>7, SMTT(60)
  <2> QED
    BY <2>5, <2>6, <2>8 DEF EffectsStay
<1>4. WaitMined(d) \/ (driver[d] \in Setting /\ step'[d] = step[d])
  <2>1. CASE UNCHANGED <<driver, step>>
    BY <2>1
  <2>2. ASSUME NEW e \in Drivers, Main(e) \/ CallFails(e), e # d
        PROVE  driver'[d] = driver[d] /\ step'[d] = step[d]
    BY <1>1, <2>2 DEF Main, ReadNonce, SendTransaction, WaitMined, Dial, Post,
       ReadResponse, BidSent, Verify, TimesOut, CallFails, Goto, Exit
  <2>3. CASE Main(d) \/ CallFails(d)
    <3>1. CASE ReadNonce(d) \/ SendTransaction(d)
      BY <1>1, <3>1 DEF ReadNonce, SendTransaction, Goto, Exit, Setting
    <3>2. CASE Dial(d) \/ Post(d) \/ ReadResponse(d) \/ BidSent(d)
      BY <1>1, <3>2 DEF Dial, Post, ReadResponse, BidSent, Goto, Exit, Setting
    <3>3. CASE Verify(d) \/ TimesOut(d) \/ CallFails(d)
      BY <1>1, <3>3 DEF Verify, TimesOut, CallFails, Exit, Setting
    <3> QED
      BY <2>3, <3>1, <3>2, <3>3 DEF Main
  <2>4. \/ UNCHANGED <<driver, step>>
        \/ \E e \in Drivers : Main(e) \/ CallFails(e)
    BY DEF Next, vars, Start, Mine, Refund, RivalSends, RivalLocks, SendBid,
       SocketFails, AcceptIntent, RejectIntent, AcceptForeign, OpenAuction, RivalBids,
       CloseAuction, ExecuteVoucher, driverVars
  <2> QED
    BY <2>1, <2>2, <2>3, <2>4
<1> QED
  BY <1>2, <1>3, <1>4

\* A driver sends what is ready, and sends lockIntent once.
LEMMA SendReady ==
  ASSUME SimInv, SetupInv, NEW d \in Drivers, SendTransaction(d)
  PROVE  PoolReady' /\ LocksOnce'
<1>1. /\ UNCHANGED <<escrows, deployed, minted, approved>> /\ driver[d] = "send"
      /\ pool' = pool \/ pool' = pool \cup {SetupTx(d)}
  BY DEF SendTransaction, ledger
<1>2. SetupTx(d).by = d /\ SetupTx(d).call = SetupCalls[step[d]]
  BY DEF SetupTx
<1>3. step[d] \in {1, 2, 3, 4, 5}
  BY SetupOrder, CallsInOrder DEF SimInv, Shapes
<1>4. /\ SetupTx(d).call \in {"mint", "approve"} => d \in deployed
      /\ SetupTx(d).call = "lockIntent" => d \in minted /\ d \in approved
  BY <1>1, <1>2, <1>3, CallsInOrder DEF SetupInv, Progress, Setting
<1>5. PoolReady'
  BY <1>1, <1>2, <1>4 DEF SetupInv, PoolReady
<1>6. ~HasLocked(d)
  BY <1>1 DEF HasLocked
<1>7. \A t \in pool : t.call = "lockIntent" => t.by # d
  BY <1>6 DEF SimInv, LockOwners
<1>8. \A k \in DOMAIN escrows : escrows[k].agent # d
  BY <1>6, AgentsAssumption DEF SimInv, EscrowOwners, OwnsEscrow
<1>9. LocksOnce'
  BY <1>1, <1>2, <1>7, <1>8 DEF SetupInv, LocksOnce
<1> QED
  BY <1>5, <1>9

\* A receipt that is new is that of the transaction.
LEMMA NewFields ==
  ASSUME NEW t, NEW ok, receipts' = receipts \cup {[tx |-> t, ok |-> ok]},
         NEW r \in receipts', r \notin receipts
  PROVE  r.tx = t /\ r.ok = ok
<1>1. r = [tx |-> t, ok |-> ok]
  OBVIOUS
<1> QED
  BY <1>1

\* What a block does to the transactions of drivers.
LEMMA MineReady ==
  ASSUME SimInv, SetupInv, NEW t \in pool, Mine(t), EscrowsStay, EffectsStay
  PROVE  PoolReady' /\ LocksOnce' /\ Effective' /\ SetupNeverReverts'
<1>1. /\ pool' = pool \ {t}
      /\ receipts' = receipts \cup {[tx |-> t, ok |-> Succeeds(t)]}
  BY DEF Mine
<1>2. PoolReady'
  BY <1>1 DEF SetupInv, PoolReady, EffectsStay
<1>3. LocksOnce'
  <2> SUFFICES ASSUME NEW u \in pool, u # t, u.call = "lockIntent",
                      NEW k \in DOMAIN escrows'
               PROVE  escrows'[k].agent # u.by
    BY <1>1 DEF SetupInv, LocksOnce
  <2>1. CASE k \in DOMAIN escrows
    BY <2>1 DEF EscrowsStay, SetupInv, LocksOnce
  <2>2. CASE k \notin DOMAIN escrows
    <3>1. Succeeds(t) /\ t.call = "lockIntent"
      BY <2>2, Resolving DEF Mine, Apply, ClaimFunds, CanClaim, IsOpen, ledger
    <3>2. LockIntent(t.by, t.id)
      BY <3>1 DEF Mine, Apply, Lock
    <3>3. escrows'[k].agent = t.by
      <4>1. DOMAIN escrows' = DOMAIN escrows \cup {t.id} /\ escrows'[t.id].agent = t.by
        BY <3>2, Locking
      <4> QED
        BY <2>2, <4>1
    <3> QED
      BY <3>1, <3>3 DEF SetupInv, LocksOnce
  <2> QED
    BY <2>1, <2>2
<1>4. Effective'
  <2> SUFFICES ASSUME Succeeds(t)
               PROVE  /\ t.call = "deploy" => t.by \in deployed'
                      /\ t.call = "mint" => t.by \in minted'
                      /\ t.call = "approve" => t.by \in approved'
    <3>1. \A r \in receipts' : r \in receipts \/ (r.tx = t /\ r.ok = Succeeds(t))
      BY <1>1, NewFields
    <3> QED
      BY <3>1 DEF SetupInv, Effective, EffectsStay
  <2>1. t.call \in {"mint", "approve"} => t.by \in deployed
    BY DEF SetupInv, PoolReady
  <2> QED
    BY <2>1 DEF Mine, Apply
<1>5. SetupNeverReverts'
  <2> SUFFICES ASSUME NEW r \in receipts', ~r.ok, r.tx.call # "claimFunds"
               PROVE  /\ r.tx.call = "lockIntent"
                      /\ r.tx.id \in DOMAIN escrows'
                      /\ escrows'[r.tx.id].agent # r.tx.by
    BY DEF SetupNeverReverts
  <2>1. CASE r \in receipts
    BY <2>1 DEF SetupInv, SetupNeverReverts, EscrowsStay
  <2>2. CASE r \notin receipts
    <3>1. r.tx = t /\ r.ok = Succeeds(t)
      BY <1>1, <2>2, NewFields
    <3>2. ~Succeeds(t)
      BY <3>1
    <3>3. t.call = "lockIntent"
      BY <3>1, <3>2 DEF Succeeds
    <3>4. t.id \in DOMAIN escrows /\ escrows[t.id].agent # t.by
      BY <3>2, <3>3 DEF Succeeds, SetupInv, PoolReady, LocksOnce
    <3> QED
      BY <3>1, <3>3, <3>4 DEF EscrowsStay
  <2> QED
    BY <2>1, <2>2
<1> QED
  BY <1>2, <1>3, <1>4, <1>5

\* execute adds a claim to the pool, Rival's escrows are its own, and nothing else
\* touches the chain.
LEMMA OthersReady ==
  ASSUME SimInv, SetupInv, EscrowsStay, EffectsStay, UNCHANGED receipts,
         \A t \in pool' : t \in pool \/ t.call = "claimFunds",
         \A k \in DOMAIN escrows' : k \in DOMAIN escrows \/ escrows'[k].agent = Rival
  PROVE  PoolReady' /\ LocksOnce' /\ Effective' /\ SetupNeverReverts'
<1>1. PoolReady'
  BY DEF SetupInv, PoolReady, EffectsStay
<1>2. LocksOnce'
  <2> SUFFICES ASSUME NEW t \in pool', t.call = "lockIntent"
               PROVE  /\ \A s \in pool' : s.call = "lockIntent" /\ s.by = t.by => s = t
                      /\ \A k \in DOMAIN escrows' : escrows'[k].agent # t.by
    BY DEF LocksOnce
  <2>1. t \in pool /\ t.by \in Drivers
    BY DEF SetupInv, PoolReady
  <2>2. \A s \in pool' : s.call = "lockIntent" /\ s.by = t.by => s = t
    BY <2>1 DEF SetupInv, LocksOnce
  <2>3. \A k \in DOMAIN escrows : escrows'[k].agent # t.by
    BY <2>1 DEF SetupInv, LocksOnce, EscrowsStay
  <2> QED
    BY <2>1, <2>2, <2>3, AgentsAssumption
<1>3. Effective'
  BY DEF SetupInv, Effective, EffectsStay
<1>4. SetupNeverReverts'
  BY DEF SetupInv, SetupNeverReverts, EscrowsStay
<1> QED
  BY <1>1, <1>2, <1>3, <1>4

\* Every step keeps the order of the transactions.
LEMMA SetupInvStep ==
  ASSUME SimInv, SetupInv, [Next]_vars
  PROVE  SetupInv'
<1>1. EscrowsStay /\ EffectsStay
  BY AgentsStep, EffectsStep
<1>2. Progress'
  BY <1>1, ProgressStep DEF SetupInv
<1>3. ASSUME NEW t \in pool, Mine(t) PROVE SetupInv'
  BY <1>1, <1>2, <1>3, MineReady DEF SetupInv
<1>4. ASSUME NEW d \in Drivers, SendTransaction(d) PROVE SetupInv'
  <2>1. UNCHANGED <<receipts, escrows>>
    BY <1>4 DEF SendTransaction, ledger
  <2>2. Effective' /\ SetupNeverReverts'
    BY <1>1, <2>1 DEF SetupInv, Effective, SetupNeverReverts, EffectsStay
  <2> QED
    BY <1>2, <1>4, <2>2, SendReady DEF SetupInv
<1>5. CASE ExecuteVoucher
  <2>1. /\ UNCHANGED <<receipts, escrows>>
        /\ \A t \in pool' : t \in pool \/ t.call = "claimFunds"
    BY <1>5, ExecuteSends
  <2> QED
    BY <1>1, <1>2, <2>1, OthersReady DEF SetupInv
<1>6. ASSUME NEW i \in AllIds, RivalLocks(i) PROVE SetupInv'
  <2>1. UNCHANGED <<pool, receipts>> /\ LockIntent(Rival, IntentIDBytes(i))
    BY <1>6 DEF RivalLocks, Lock
  <2>2. \A k \in DOMAIN escrows' : k \in DOMAIN escrows \/ escrows'[k].agent = Rival
    <3>1. /\ DOMAIN escrows' = DOMAIN escrows \cup {IntentIDBytes(i)}
          /\ escrows'[IntentIDBytes(i)].agent = Rival
      BY <2>1, Locking
    <3> QED
      BY <3>1
  <2> QED
    BY <1>1, <1>2, <2>1, <2>2, OthersReady DEF SetupInv
<1>7. ASSUME NEW n \in DOMAIN escrows, Refund(n) PROVE SetupInv'
  <2>1. UNCHANGED <<pool, receipts>> /\ DOMAIN escrows' = DOMAIN escrows
    BY <1>7, Resolving DEF Refund, RefundIntent
  <2> QED
    BY <1>1, <1>2, <2>1, OthersReady DEF SetupInv
<1>8. CASE UNCHANGED <<pool, receipts, escrows>>
  BY <1>1, <1>2, <1>8, OthersReady DEF SetupInv
<1>9. \/ UNCHANGED <<pool, receipts, escrows>>
      \/ ExecuteVoucher
      \/ \E t \in pool : Mine(t)
      \/ \E d \in Drivers : SendTransaction(d)
      \/ \E i \in AllIds : RivalLocks(i)
      \/ \E n \in DOMAIN escrows : Refund(n)
  BY DEF Next, vars, Main, Start, RivalSends, ReadNonce, WaitMined, Dial, Post,
     ReadResponse, BidSent, Verify, TimesOut, CallFails, SendBid, SocketFails,
     AcceptIntent, RejectIntent, AcceptForeign, OpenAuction, RivalBids, CloseAuction,
     chainVars, ledger
<1> QED
  BY <1>3, <1>4, <1>5, <1>6, <1>7, <1>8, <1>9

\* Nothing has been sent at first.
LEMMA SetupInit == Init => SetupInv
<1> SUFFICES ASSUME Init PROVE SetupInv
  OBVIOUS
<1>1. \A d \in Drivers : step[d] = 1
  BY DEF Init
<1>2. 1 \notin {3, 4, 5} /\ 1 \notin {4, 5} /\ 1 # 5
  BY SMTT(60)
<1>3. Progress
  BY <1>1, <1>2 DEF Progress
<1> QED
  BY <1>3 DEF Init, SetupInv, PoolReady, LocksOnce, Effective, SetupNeverReverts

\* waitMined and sendContractTx: no transaction of a driver reverts, with any number
\* of drivers on the funding account, unless somebody else has locked an escrow
\* under its identifier.
THEOREM SetupIsOrdered == Spec => []SetupNeverReverts
<1>1. SimInv /\ SetupInv /\ [Next]_vars => (SimInv /\ SetupInv)'
  BY SimInvStep, SetupInvStep
<1>2. SetupInv => SetupNeverReverts
  BY DEF SetupInv
<1> QED
  BY <1>1, <1>2, SetupInit, SimInvInit, PTL DEF Spec

------------------------------------------------------------------------------
(***************************************************************************)
(* The types.                                                              *)
(***************************************************************************)

\* The variables the arguments above do not read.
OtherTypes ==
  /\ funded \subseteq Drivers /\ deployed \subseteq Drivers
  /\ minted \subseteq Drivers /\ approved \subseteq Drivers
  /\ ws \in [Drivers -> {"none", "reading", "done"}]
  /\ dropped \subseteq Requests /\ unsettled \subseteq Requests /\ wasted \subseteq Nat
  /\ Len(vouchers) <= VoucherBuf + 1

\* runAuction sends a voucher only if there is room for it; execute takes one away.
LEMMA QueueStep ==
  ASSUME SimInv, Len(vouchers) <= VoucherBuf + 1, dropped \subseteq Requests, [Next]_vars
  PROVE  Len(vouchers') <= VoucherBuf + 1 /\ dropped' \subseteq Requests
<1>1. vouchers \in Seq(Vouchers)
  BY DEF SimInv, Shapes
<1>2. CASE UNCHANGED <<vouchers, dropped>>
  BY <1>2
<1>3. CASE ExecuteVoucher
  <2>1. vouchers # <<>> /\ vouchers' = Tail(vouchers) /\ UNCHANGED dropped
    BY <1>3 DEF ExecuteVoucher
  <2>2. Len(vouchers') <= VoucherBuf + 1
    BY <1>1, <2>1, RequestsAssumption, SMTT(60)
  <2> QED
    BY <2>1, <2>2
<1>4. ASSUME NEW r \in Requests, CloseAuction(r)
      PROVE  Len(vouchers') <= VoucherBuf + 1 /\ dropped' \subseteq Requests
  <2>1. CASE Len(vouchers) <= VoucherBuf /\ vouchers' = Append(vouchers, VoucherOf(r))
             /\ UNCHANGED dropped
    <3>1. Len(vouchers') <= VoucherBuf + 1
      <4>1. PICK v : v = VoucherOf(r)
        OBVIOUS
      <4>2. Len(Append(vouchers, v)) = Len(vouchers) + 1 /\ Len(vouchers) \in Nat
        BY <1>1, SMTT(60)
      <4>3. Len(vouchers') = Len(vouchers) + 1
        BY <2>1, <4>1, <4>2
      <4> QED
        BY <2>1, <4>2, <4>3, RequestsAssumption, SMTT(60)
    <3> QED
      BY <2>1, <3>1
  <2>2. CASE UNCHANGED vouchers /\ (dropped' = dropped \/ dropped' = dropped \cup {r})
    BY <2>2
  <2> QED
    BY <1>4, <2>1, <2>2 DEF CloseAuction
<1>5. \/ UNCHANGED <<vouchers, dropped>>
      \/ ExecuteVoucher
      \/ \E r \in Requests : CloseAuction(r)
  BY DEF Next, vars, Main, Start, Mine, Refund, RivalSends, RivalLocks, ReadNonce,
     SendTransaction, WaitMined, Dial, Post, ReadResponse, BidSent, Verify, TimesOut,
     CallFails, SendBid, SocketFails, AcceptIntent, RejectIntent, AcceptForeign,
     OpenAuction, RivalBids, relayerVars
<1> QED
  BY <1>2, <1>3, <1>4, <1>5

\* Calls take effect for drivers, and execute fails for requests.
LEMMA OtherTypesStep ==
  ASSUME SimInv, BootInv, ServingInv, PoolReady, OtherTypes, [Next]_vars
  PROVE  OtherTypes'
<1>0. Len(vouchers') <= VoucherBuf + 1 /\ dropped' \subseteq Requests
  BY QueueStep DEF OtherTypes
<1>1. ASSUME NEW t \in pool, Mine(t) PROVE OtherTypes'
  <2>1. UNCHANGED <<ws, unsettled, wasted>>
    BY <1>1 DEF Mine, driverVars, relayerVars, history
  <2>2. t.call # "claimFunds" => t.by \in Drivers
    BY DEF PoolReady
  <2>3. CASE ~Succeeds(t)
    BY <1>0, <1>1, <2>1, <2>3 DEF Mine, OtherTypes, ledger
  <2>4. CASE Succeeds(t)
    <3>1. /\ funded' \subseteq Drivers /\ deployed' \subseteq Drivers
          /\ minted' \subseteq Drivers /\ approved' \subseteq Drivers
      BY <1>1, <2>2, <2>4 DEF Mine, Apply, OtherTypes
    <3> QED
      BY <1>0, <2>1, <3>1 DEF OtherTypes
  <2> QED
    BY <2>3, <2>4
<1>2. CASE ExecuteVoucher
  <2>1. UNCHANGED <<funded, deployed, minted, approved, ws>>
    BY <1>2 DEF ExecuteVoucher, driverVars, ledger
  <2>2. Head(vouchers) \in Vouchers
    BY <1>2, HeadIsElement DEF ExecuteVoucher, SimInv, Shapes
  <2>3. Head(vouchers).of \in Requests
    BY <2>2 DEF Vouchers
  <2>4. /\ unsettled' = unsettled \/ unsettled' = unsettled \cup {Head(vouchers).of}
        /\ wasted' = wasted \/ wasted' = wasted \cup {current}
    BY <1>2 DEF ExecuteVoucher, history
  <2>5. current \in Nat
    BY <1>2 DEF ExecuteVoucher, ServingInv, BootInv
  <2> QED
    BY <1>0, <2>1, <2>3, <2>4, <2>5 DEF OtherTypes
<1>3. CASE UNCHANGED <<funded, deployed, minted, approved, unsettled, wasted>>
           /\ ws' \in [Drivers -> {"none", "reading", "done"}]
  BY <1>0, <1>3 DEF OtherTypes
<1>4. ASSUME NEW d \in Drivers, Main(d) \/ CallFails(d) \/ SendBid(d) \/ SocketFails(d)
      PROVE  ws' \in [Drivers -> {"none", "reading", "done"}]
  <2>1. \/ ws' = ws
        \/ \E w \in {"none", "reading", "done"} : ws' = [ws EXCEPT ![d] = w]
    BY <1>4 DEF Main, ReadNonce, SendTransaction, WaitMined, Dial, Post, ReadResponse,
       BidSent, Verify, TimesOut, CallFails, SendBid, SocketFails, Exit
  <2> QED
    BY <2>1 DEF OtherTypes
<1>5. \/ \E t \in pool : Mine(t)
      \/ ExecuteVoucher
      \/ /\ UNCHANGED <<funded, deployed, minted, approved, unsettled, wasted>>
         /\ \/ UNCHANGED ws
            \/ \E d \in Drivers : Main(d) \/ CallFails(d) \/ SendBid(d) \/ SocketFails(d)
  BY DEF Next, vars, Main, Start, Refund, RivalSends, RivalLocks, ReadNonce,
     SendTransaction, WaitMined, Dial, Post, ReadResponse, BidSent, Verify, TimesOut,
     CallFails, SendBid, SocketFails, AcceptIntent, RejectIntent, AcceptForeign,
     OpenAuction, RivalBids, CloseAuction, chainVars, ledger, driverVars,
     relayerVars, history
<1> QED
  BY <1>1, <1>2, <1>3, <1>4, <1>5 DEF OtherTypes

\* The relayer, the chain and the drivers keep their types: in particular a driver
\* never runs past its five transactions, every nonce that is read or used is a
\* number, and no more vouchers wait than voucherCh and the executor hold.
THEOREM SimulationTypes == Spec => []TypeOK
<1>1. Init => SetupInv /\ OtherTypes
  <2> SUFFICES ASSUME Init PROVE SetupInv /\ OtherTypes
    OBVIOUS
  <2>1. SetupInv
    BY SetupInit
  <2>2. Len(vouchers) <= VoucherBuf + 1
    BY RequestsAssumption, SMTT(60) DEF Init
  <2>3. OtherTypes
    BY <2>2 DEF Init, OtherTypes
  <2> QED
    BY <2>1, <2>3
<1>2. /\ SimInv /\ EnvInv /\ NonceTypes /\ BootInv /\ ServingInv
      /\ SetupInv /\ OtherTypes /\ [Next]_vars
      => (SetupInv /\ OtherTypes)'
  BY SetupInvStep, OtherTypesStep DEF SetupInv
<1>3. SimInv /\ NonceTypes /\ BootInv /\ OtherTypes => TypeOK
  BY DEF SimInv, Shapes, NonceTypes, BootInv, OtherTypes, TypeOK, Accounts, Vouchers,
     Bidders
<1> QED
  BY <1>1, <1>2, <1>3, StartAlways, PTL DEF Spec

=============================================================================
