---------------------------- MODULE MCSimulation ----------------------------
(***************************************************************************)
(* Instance of Simulation for TLC.  Two bytes of an identifier count.      *)
(***************************************************************************)
EXTENDS Simulation, TLC

CONSTANTS d1, rival, funder, relayer, stranger, contract, zero, nobody, nil, nofile,
          s1, unset

MCDrivers == {d1}
MCIds == {<<1>>}
MCStrangers == {s1}
\* Identifiers that are cut off on chain: one, or two that differ only beyond that.
MCForeignIds == {<<2, 2, 3>>}
MCLongIds == {<<2, 2, 3>>, <<2, 2, 4>>}

\* "key2" is not the key the contract expects.
MCKeyOf == [key1 |-> relayer, key2 |-> stranger]
MCAddressOf == [settlement |-> contract]
\* The window "huge" does not fit the word of Simulation.cfg.
MCUint == ("200" :> 3) @@ ("31337" :> 5) @@ ("huge" :> 12) @@ ("1" :> 1)

Exported(f) == [k \in Keys |-> IF k \in DOMAIN f THEN f[k] ELSE unset]
Line(k, v) == [key |-> k, value |-> v]

Complete == [BASE_RPC_URL |-> "url", RELAYER_PRIVATE_KEY |-> "key1",
             SETTLEMENT_CONTRACT_ADDRESS |-> "settlement", CHAIN_ID |-> "31337"]

MCShells == {
  Exported([Complete EXCEPT !.RELAYER_PRIVATE_KEY = "0x"]),
  Exported(("AUCTION_TIMEOUT_MS" :> "200") @@ Complete),
  Exported([Complete EXCEPT !.RELAYER_PRIVATE_KEY = "",
                            !.SETTLEMENT_CONTRACT_ADDRESS = "typo"])}

\* The environment of a relayer that needs no .env.
MCHealthyShells == {Exported(Complete)}
MCNoFiles == {nofile}

MCFiles == {
  nofile,
  <<Line("RELAYER_PRIVATE_KEY", ""), Line("#", ""), Line("AUCTION_TIMEOUT_MS", "huge"),
    Line("RELAYER_PRIVATE_KEY", "key2"), Line("", ""), Line("CHAIN_ID", "1")>>}

==============================================================================
