--------------------------- MODULE MCWalletSpend ---------------------------
(* A wallet with three notes, none of which covers the payment.             *)
EXTENDS WalletSpend

Note(tag, value) == [tag |-> tag, asset |-> "asset", value |-> value, version |-> 1]

Notes == {<<Note(0, 1), Note(-1, 2), Note(1, 1)>>}
DefaultPolicy == [dustFloor |-> 0, maxSteps |-> 3]
=============================================================================
