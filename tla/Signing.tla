------------------------------- MODULE Signing -------------------------------
(***************************************************************************)
(* What the relayer signs and how it names an intent on chain: package     *)
(* internal/signer and the first half of Executor.execute.  Pure           *)
(* definitions.                                                            *)
(*                                                                         *)
(* Hashes and signatures are ideal: Keccak256 is a constructor, hence      *)
(* injective, and a signature is a record of who signed which digest.  An  *)
(* identifier is a string, here the sequence of its bytes.                 *)
(***************************************************************************)
EXTENDS Integers, Sequences

CONSTANTS
  IdBytes,  \* the length of an identifier on chain: 32
  Uint256   \* 2^256: a word of the ABI holds integers modulo Uint256

ASSUME IdBytesAssumption == IdBytes \in Nat \ {0}
ASSUME Uint256Assumption == Uint256 \in Nat \ {0}

Keccak256(x) == [keccak256 |-> x]

\* copy(intentIDBytes[:], id): a longer identifier is cut off, a shorter one is
\* followed by zero bytes.
IntentIDBytes(id) == [k \in 1..IdBytes |-> IF k <= Len(id) THEN id[k] ELSE 0]

\* ClaimDigest: the EIP-191 digest that binds an escrow to who is paid.
ClaimDigest(intentID, solver) ==
  Keccak256(<<"\\x19Ethereum Signed Message:\\n32", Keccak256(<<intentID, solver>>)>>)

\* KeyVault.Sign: the recovery bit v of a signature is 0 or 1.
Signatures(account, digest) ==
  {[by |-> account, over |-> digest, v |-> v] : v \in {0, 1}}

BadNormaliseV(sig) == IF sig.v < 1 THEN [sig EXCEPT !.v = @ + 27] ELSE sig

\* execute: the recovery byte the contract expects, 27 or 28.
NormaliseV(sig) == IF sig.v < 27 THEN [sig EXCEPT !.v = @ + 27] ELSE sig

------------------------------------------------------------------------------
(***************************************************************************)
(* The EIP-712 digest of an intent.                                        *)
(***************************************************************************)

domainTypeHash ==
  Keccak256("EIP712Domain(string name,string version,uint256 chainId,address verifyingContract)")

intentTypeHash ==
  Keccak256("Intent(address sender,address tokenIn,address tokenOut,uint256 amountIn,uint256 minAmountOut,uint256 deadline,uint256 nonce)")

\* args.Pack of a uint256: the low 256 bits of the integer, whatever its size.
Pack(n) == n % Uint256

DomainSeparator(d) ==
  Keccak256(<<domainTypeHash, Keccak256(d.Name), Keccak256(d.Version), Pack(d.ChainID),
              d.VerifyingContract>>)

\* Unix(): a deadline is a number of nanoseconds, of which the whole seconds count.
Unix(deadline) == deadline \div 1000000000

\* intentStructHash.
StructHash(in) ==
  Keccak256(<<intentTypeHash, in.Sender, in.TokenIn, in.TokenOut, Pack(in.AmountIn),
              Pack(in.MinAmountOut), Pack(Unix(in.Deadline)), Pack(in.Nonce)>>)

HashIntent(d, in) == Keccak256(<<"\\x19\\x01", DomainSeparator(d), StructHash(in)>>)

\* RecoverSigner: 65 bytes with a recovery bit of 0 or 1, or an error.
RecoverSigner(hash, sig, Nobody) ==
  IF sig.v \in {0, 1} /\ sig.over = hash THEN sig.by ELSE Nobody

==============================================================================
