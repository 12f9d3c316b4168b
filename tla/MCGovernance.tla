--------------------------- MODULE MCGovernance ---------------------------
(* A nodes file of two nodes, one more relayer, and two processes.          *)
EXTENDS Governance

\* The nodes file: a and b, each with a key of its own.
TwoNodes == [n \in {"a", "b"} |-> [key |-> "key " \o n, text |-> "file", role |-> 1]]

WithStaker(r, k) == addRelayer(r, "c", k, "own", 1, 2)

\* Nothing but a frozen relayer; nodes a and b with each other's key, the nodes
\* file having been corrected since; the key of a taken by a relayer on its way
\* out, whose stake is below a minimum raised since; nodes that were registered
\* before, by a batch the Timelock remembers, and left.
States ==
  LET empty == EmptyRegistry(1)
      staker == WithStaker(empty, "key c")
      first(r) == [registry |-> r, operations |-> << >>]
      batch == <<registrationCalls({"a", "b"}, {}), <<"register", {"c"}, 1>> >> IN
  {first([staker EXCEPT !.relayers["c"].frozen = TRUE]),
   first(addRelayer(addRelayer(empty, "a", "key b", "file", 1, 0), "b", "key a", "file", 1, 0)),
   first([WithStaker(empty, "key a") EXCEPT !.minStakeAmount = 3,
                                            !.relayers["c"].status = "Unstaking"]),
   [first(staker) EXCEPT !.operations = batch :> "Done"]}
==========================================================================
