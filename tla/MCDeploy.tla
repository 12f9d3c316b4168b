------------------------------ MODULE MCDeploy ------------------------------
(***************************************************************************)
(* Deploy for TLC: production, a testnet, a local chain, and environments  *)
(* that differ from production in one thing.                               *)
(***************************************************************************)
EXTENDS Deploy

Production ==
    [local |-> FALSE, shortDelayChain |-> FALSE, delay |-> 1, gov |-> "gov",
     guardian |-> "guardian", safesHaveCode |-> TRUE, feeAssets |-> "valid",
     key |-> "none", threshold |-> 3, committeeSize |-> 5,
     dependenciesHaveCode |-> TRUE, allowRedeploy |-> FALSE, artifacts |-> TRUE,
     stakingToken |-> TRUE, manifest |-> TRUE, swapRouter |-> TRUE]

Environments ==
    {Production,
     [Production EXCEPT !.allowRedeploy = TRUE, !.key = "configured"],
     [Production EXCEPT !.guardian = "gov"]}

=============================================================================
