--------------------------- MODULE MCWalletScan ---------------------------
(* A wallet installed from a seed that was used before.                     *)
EXTENDS WalletScan

\* One block: an own note, a memo with the wallet's tag that does not open,
\* and a rotation of the compliance key.
Chains == {<<[Plain(<<Self(0, 0), Junk(0, 1)>>) EXCEPT !.rotates = 1]>>}
===========================================================================
