------------------------------- MODULE MCNode -------------------------------
EXTENDS Node

CONSTANTS p1, p2

Inv(subcommand, chain, base, flags, relayChain, relayBase) ==
    [subcommand |-> subcommand, chain |-> chain, dev |-> FALSE, base |-> base, flags |-> flags,
     relayChain |-> relayChain, relayBase |-> relayBase]

\* A full node with all the optional tasks, a collator by its keyring flag in another
\* place, one in a third with an external relay chain, one there with its own, a
\* development node;
\* purges of two of the places; commands with and without a database; a chain
\* specification and a relay chain that do not exist.
MCInvocations ==
    { Inv(None, None, None, {"telemetry", "offchain-worker"}, None, None),
      Inv(None, "spec.json", "A", {"alice", "no-hardware-benchmarks"}, "paseo", "R"),
      Inv(None, "local", "B", {"relay-chain-rpc-urls"}, "paseo", "R"),
      Inv(None, None, "B", {"collator"}, None, "B"),
      [Inv(None, None, None, {}, None, None) EXCEPT !.dev = TRUE],
      Inv("purge-chain", None, None, {}, None, None),
      Inv("purge-chain", "spec.json", "A", {}, "paseo", "R"),
      Inv("revert", None, None, {}, None, None),
      Inv("build-spec", "missing.json", None, {}, None, None),
      Inv("purge-chain", None, None, {}, "missing", None) }

MCSpecFiles == [f \in {"spec.json"} |-> [id |-> "local_testnet", relay_chain |-> "rococo-local"]]
MCRelaySpecs == [c \in {"rococo-local", "paseo"} |->
                    IF c = "paseo" THEN "paseo" ELSE "rococo_local_testnet"]

=============================================================================
