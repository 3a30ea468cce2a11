------------------------------- MODULE Startup -------------------------------
(***************************************************************************)
(* The start of the relayer (cmd/relayer/main.go): the .env file, the      *)
(* configuration, the key vault, the connection to the node and the nonce  *)
(* queue, up to the moment the server listens.  logger.Fatal ends the      *)
(* process at once.                                                        *)
(*                                                                         *)
(* A variable of the environment is a string, or Unset; os.Getenv answers  *)
(* "" for one that is not set.  What a string stands for is given by the   *)
(* functions Uint, KeyOf and AddressOf, defined on the strings that parse. *)
(***************************************************************************)
EXTENDS Integers, Sequences

CONSTANTS
  Shells,       \* the environments the relayer may be started in
  Files,        \* what .env may contain: sequences of lines, or NoFile
  NoFile,       \* there is no .env
  Unset,        \* the variable is not in the environment
  Uint,         \* the value of a string that strconv.ParseUint accepts
  KeyOf,        \* the account of a string that is a private key in hex
  AddressOf,    \* the address of a string that is one in hex
  ZeroAddress,  \* what common.HexToAddress makes of any other string
  Millisecond,  \* time.Millisecond, in nanoseconds
  Word,         \* 2^64: integers are kept modulo Word
  Nil           \* not computed yet

Required ==
  {"BASE_RPC_URL", "RELAYER_PRIVATE_KEY", "SETTLEMENT_CONTRACT_ADDRESS", "CHAIN_ID"}
Keys == Required \cup {"AUCTION_TIMEOUT_MS", "PORT"}

\* A line of .env after trimming is a key and a value; one to skip (blank, a
\* comment, without =, or for a variable nobody reads) has the key "#".
ASSUME FilesAssumption ==
  Files \ {NoFile} \subseteq Seq([key : Keys \cup {"", "#"}, value : STRING])

ASSUME UnsetAssumption == Unset \notin STRING

ASSUME ShellsAssumption == Shells \subseteq [Keys -> STRING \cup {Unset}]

\* ParseUint gives an uint64; Nil is no number.
ASSUME UintAssumption == \A s \in DOMAIN Uint : Uint[s] \in Nat
ASSUME NilAssumption == Nil \notin Nat

ASSUME WordAssumption == Word \in Nat \ {0} /\ Millisecond \in Nat \ {0}

VARIABLES
  shell,    \* history: the environment loadDotEnv was called in
  env,      \* its environment now
  file,     \* the contents of .env
  line,     \* the next line to read
  boot,     \* where main is
  config,   \* what main has made of the environment
  current   \* NonceQueue.current

startVars == <<shell, env, file, line, boot, config, current>>

NoConfig == [chainID |-> Nil, timeout |-> Nil, port |-> Nil, vault |-> Nil,
             settlement |-> Nil]

StartInit ==
  /\ shell \in Shells /\ env = shell
  /\ file \in Files
  /\ line = 1
  /\ boot = "dotenv"
  /\ config = NoConfig
  /\ current = Nil

------------------------------------------------------------------------------
\* loadDotEnv: the file cannot be opened, which main only warns of.
OpenFails ==
  /\ boot = "dotenv" /\ file = NoFile
  /\ boot' = "configure"
  /\ UNCHANGED <<shell, env, file, line, config, current>>

\* os.Getenv.
Value(k) == IF env[k] = Unset THEN "" ELSE env[k]

BadIsSet(k) == FALSE

\* loadDotEnv does not overwrite a variable that is not empty.
IsSet(k) == Value(k) # ""

\* loadDotEnv: one line.  An empty key makes os.Setenv fail, and the lines that
\* follow are not read.
ReadLine ==
  /\ boot = "dotenv" /\ file # NoFile
  /\ line <= Len(file)
  /\ LET l == file[line]
     IN  \/ /\ l.key = ""
            /\ boot' = "configure"
            /\ UNCHANGED <<env, line>>
         \/ /\ l.key = "#"
            /\ line' = line + 1
            /\ UNCHANGED <<env, boot>>
         \/ /\ l.key \in Keys
            /\ line' = line + 1
            /\ env' = IF IsSet(l.key) THEN env ELSE [env EXCEPT ![l.key] = l.value]
            /\ UNCHANGED boot
  /\ UNCHANGED <<shell, file, config, current>>

\* loadDotEnv: the end of the file, or an error of the scanner before it.
ScanEnds ==
  /\ boot = "dotenv" /\ file # NoFile
  /\ boot' = "configure"
  /\ UNCHANGED <<shell, env, file, line, config, current>>

\* A variable, or its default.
Getenv(k, default) == IF Value(k) = "" THEN default ELSE Value(k)

BadDuration(ms) == ms

\* time.Duration(ms) * time.Millisecond: a signed product that may wrap around.
Duration(ms) ==
  LET p == (ms * Millisecond) % Word
  IN  IF 2 * p >= Word THEN p - Word ELSE p

\* main: a required variable is missing, or a number does not parse.
Misconfigured ==
  \/ \E k \in Required : Value(k) = ""
  \/ Value("CHAIN_ID") \notin DOMAIN Uint
  \/ Getenv("AUCTION_TIMEOUT_MS", "200") \notin DOMAIN Uint

\* main: mustEnv, the numbers and the defaults.  loadDotEnv has returned, and what
\* it made of shell and file is what counts from now on.
Configure ==
  /\ boot = "configure"
  /\ \/ /\ Misconfigured
        /\ boot' = "fatal"
        /\ UNCHANGED config
     \/ /\ ~Misconfigured
        /\ boot' = "vault"
        /\ config' = [config EXCEPT
             !.chainID = Uint[Value("CHAIN_ID")],
             !.timeout = Duration(Uint[Getenv("AUCTION_TIMEOUT_MS", "200")]),
             !.port = Getenv("PORT", "8080")]
  /\ shell' = env /\ file' = NoFile /\ line' = 1
  /\ UNCHANGED <<env, current>>

\* NewKeyVaultFromHex.
OpenVault ==
  /\ boot = "vault"
  /\ LET k == Value("RELAYER_PRIVATE_KEY")
     IN  \/ /\ k \notin DOMAIN KeyOf
            /\ boot' = "fatal"
            /\ UNCHANGED config
         \/ /\ k \in DOMAIN KeyOf
            /\ boot' = "connect"
            /\ config' = [config EXCEPT !.vault = KeyOf[k]]
  /\ UNCHANGED <<shell, env, file, line, current>>

BadSeed(n) == n + 1

\* NewNonceQueue: the counter starts at the pending nonce.
Seed(n) == n

\* ethclient.Dial and NewNonceQueue: n is the pending nonce of the vault's account.
Connect(n) ==
  /\ boot = "connect"
  /\ \/ boot' = "bind" /\ current' = Seed(n)
     \/ boot' = "fatal" /\ UNCHANGED current
  /\ UNCHANGED <<shell, env, file, line, config>>

\* common.HexToAddress does not fail.
HexToAddress(s) == IF s \in DOMAIN AddressOf THEN AddressOf[s] ELSE ZeroAddress

\* main: bind the contract, start the goroutines and listen.
Serve ==
  /\ boot = "bind"
  /\ boot' = "serving"
  /\ config' = [config EXCEPT
       !.settlement = HexToAddress(Value("SETTLEMENT_CONTRACT_ADDRESS"))]
  /\ UNCHANGED <<shell, env, file, line, current>>

\* Every step of main but the one that asks the node.
StartStep == OpenFails \/ ReadLine \/ ScanEnds \/ Configure \/ OpenVault \/ Serve

------------------------------------------------------------------------------
\* Line j of .env gives variable k a value that is not empty.
Defines(j, k) == file # NoFile /\ file[j].key = k /\ file[j].value # ""

\* The variables .env may set: a variable that was exported with a value keeps it,
\* and one that was not exported has the first value that is not empty among the
\* lines of .env that were read, although each line is written as it is met.
ExportedOrFirstNonEmpty ==
  \A k \in Keys :
    LET lines == {j \in 1..(line - 1) : Defines(j, k)}
    IN  /\ shell[k] \notin {Unset, ""} => env[k] = shell[k]
        /\ shell[k] = Unset =>
             IF lines = {} THEN Value(k) = ""
             ELSE \E j \in lines : env[k] = file[j].value /\ \A m \in lines : j <= m

\* The comment of loadDotEnv, main.go:277, "Existing env vars are NOT overridden -
\* shell-level exports always take precedence", and RUNBOOK.md:14: a variable that
\* was exported keeps its value, an empty one included.
ExportsTakePrecedence == \A k \in Keys : shell[k] # Unset => env[k] = shell[k]

\* A relayer that serves has the account of its key, a seeded nonce counter, and
\* the configured auction window in nanoseconds if that fits an int64.
StartedAsConfigured ==
  boot = "serving" =>
    /\ \A k \in Required : Value(k) # ""
    /\ config.vault = KeyOf[Value("RELAYER_PRIVATE_KEY")]
    /\ current # Nil
    /\ LET ms == Uint[Getenv("AUCTION_TIMEOUT_MS", "200")]
       IN  2 * ms * Millisecond < Word => config.timeout = ms * Millisecond

==============================================================================
