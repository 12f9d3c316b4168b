----------------------------- MODULE MCDarkPool -----------------------------
(***************************************************************************)
(* Instances of DarkPool for TLC.                                          *)
(***************************************************************************)
EXTENDS ChainTrace, PublicMemos, TLC

CONSTANTS t1, t2, o1, o2, bad, low

\* Ephemeral scalars are interchangeable.
EphSymmetry == Permutations(Eph)

None == {}

KageTraffic == {<<"kage", "STANDARD">>}

\* Two units of either asset.
SwapFunds == [asset : {t1, t2}, value : {2}, owner : {o1}, type : {"STANDARD"}]

\* A group's deposit; what is claimed gives standard notes.
CoinFunds == {[asset |-> t1, value |-> 2, owner |-> o1, type |-> "MULTISIG"]}

\* One swap: one unit of t1 for two of t2, while it lasts.
Swaps == {[toAsset |-> t2, fromAmount |-> 1, expectedReturn |-> 2, expiry |-> 1]}

\* The payee's receiving keys, in the order it hands them out.
Keys1 == <<o1>>
Keys2 == <<o1, o2>>

\* An open memo, locked ones for either key, one for a point that is nobody's
\* key, and the four a payer must not be able to post: a value past u128, a
\* timelock past u64 (it truncates to 1), an owner off the curve, a
\* fee-on-transfer asset.
Escrows ==
    {[owner |-> o1, asset |-> t1, value |-> 1, timelock |-> 0, salt |-> 0],
     [owner |-> o1, asset |-> t1, value |-> 2, timelock |-> 2, salt |-> 0],
     [owner |-> o2, asset |-> t1, value |-> 1, timelock |-> 1, salt |-> 0],
     [owner |-> low, asset |-> t1, value |-> 1, timelock |-> 0, salt |-> 0],
     [owner |-> o1, asset |-> t1, value |-> MAX_U128 + 1, timelock |-> 0, salt |-> 0],
     [owner |-> o1, asset |-> t1, value |-> 1, timelock |-> MAX_U64 + 2, salt |-> 0],
     [owner |-> bad, asset |-> t1, value |-> 1, timelock |-> 0, salt |-> 0],
     [owner |-> o1, asset |-> t2, value |-> 1, timelock |-> 0, salt |-> 0]}

=============================================================================
