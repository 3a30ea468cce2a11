---------------------------- MODULE OPStackClient ----------------------------
(***************************************************************************)
(* Gas and fees: internal/txmanager/opstack_client.go.  Every method is a  *)
(* function of what the node answers; an answer, like a result, is a value *)
(* or Err.  EstimateL1DataFee and EstimateGasWithBuffer have no caller in  *)
(* the repository: execute leaves the gas limit to the contract bindings.  *)
(***************************************************************************)
EXTENDS Integers, Sequences

CONSTANT Err

SuggestGasTipCap(answer) == answer

\* The answer to getL1Fee as a sequence of words.  The first is the fee; an answer
\* without one, as from a chain that has no oracle, does not unpack.
EstimateL1DataFee(answer) == IF answer = Err \/ answer = <<>> THEN Err ELSE answer[1]

\* Where float64(raw) * 1.10, rounded and then truncated, is exact.
MaxExactGas == 2^48

\* EstimateGasWithBuffer, for a raw estimate below MaxExactGas.
WithBuffer(raw) == (raw * 11) \div 10

EstimateGasWithBuffer(answer) == IF answer = Err THEN Err ELSE WithBuffer(answer)

==============================================================================
