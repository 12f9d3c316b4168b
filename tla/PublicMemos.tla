---------------------------- MODULE PublicMemos ----------------------------
(***************************************************************************)
(* The wallet's side of public memos: wallets/src/public (building the     *)
(* payer's transfer and the payee's claim) and sync/PublicMemoScanner.ts,  *)
(* over the pool's events.  A scan keeps nothing between calls: its result *)
(* is a function of the logs and of the chain's time.                      *)
(***************************************************************************)
EXTENDS DarkPool

CONSTANTS
    PublicKey,    \* the payee's receiving keys; index i is PublicKey[i + 1]
    IndexWindow   \* indexWindow, the gap limit

ASSUME PublicMemoConstants ==
    /\ PublicKey \in Seq(Owner) /\ IndexWindow \in Nat \ {0}
    /\ \A i, j \in DOMAIN PublicKey : PublicKey[i] = PublicKey[j] => i = j

-----------------------------------------------------------------------------
(***************************************************************************)
(* Building a transfer.                                                    *)
(***************************************************************************)

assertMemoValue(value) == value \in 1 .. MAX_U128
assertMemoTimelock(timelock) == timelock \in 0 .. MAX_U64
assertMemoAsset(asset) == asset \in Asset

\* Slip: the point is only checked to be on the curve.
assertBjjSubgroupPoint_curve(p) == p \notin OffCurve
assertBjjSubgroupPoint(p) == p \in Owner

buildPublicTransfer(m) ==
    /\ assertBjjSubgroupPoint(m.owner)
    /\ assertMemoValue(m.value)
    /\ assertMemoTimelock(m.timelock)
    /\ assertMemoAsset(m.asset)

-----------------------------------------------------------------------------
(***************************************************************************)
(* Scanning.                                                               *)
(***************************************************************************)

\* A log outside the ranges publicTransfer enforces is skipped.
parseMemoLog(m) == m.value \in 1 .. MAX_U128 /\ m.timelock <= MAX_U64

deriveOwnerKeys(from, to) == {i \in from .. to - 1 : i < Len(PublicKey)}

\* The log carries no owner: the id is recomputed from each candidate key.
recognize(m, keys) == {i \in keys : PublicKey[i + 1] = m.owner}

Matched(to) == UNION {recognize(m, deriveOwnerKeys(0, to)) : m \in {m \in memos : parseMemoLog(m)}}

\* Slip: the window is counted from the match itself.
extended_short(highestMatch) == highestMatch + IndexWindow
\* A match near the frontier extends the window.
extended(highestMatch) == highestMatch + 1 + IndexWindow

\* The indices derived when a round matches nothing further out.
target ==
    FoldSet(LAMBDA n, to : Max({to} \cup {extended(i) : i \in Matched(to)}),
            IndexWindow, DOMAIN PublicKey)

matured(m, at) == m.timelock = 0 \/ at >= m.timelock

toDiscovered(m, i) ==
    [memo |-> m, ownerIndex |-> i,
     claimable |-> m \notin memosSpent /\ matured(m, now)]

scan ==
    UNION {{toDiscovered(m, i) : i \in recognize(m, deriveOwnerKeys(0, target))} :
              m \in {m \in memos : parseMemoLog(m)}}

-----------------------------------------------------------------------------
(***************************************************************************)
(* Claiming.                                                               *)
(***************************************************************************)

assertClaimable(m, ts) == ts <= MAX_U64 /\ (m.timelock = 0 \/ ts >= m.timelock)

\* The index is not trusted: its key must give the memo's id again.
buildPublicClaim(d, ts) ==
    /\ assertClaimable(d.memo, ts)
    /\ assertMemoValue(d.memo.value)
    /\ assertMemoTimelock(d.memo.timelock)
    /\ assertMemoAsset(d.memo.asset)
    /\ PublicKey[d.ownerIndex + 1] = d.memo.owner

-----------------------------------------------------------------------------
(***************************************************************************)
(* Properties.                                                             *)
(***************************************************************************)

Open == ~paused /\ nextLeafIndex < 2^TREE_DEPTH /\ Len(log) < MaxTx

poolAccepts(m) ==
    \E o \in Owner, e \in Eph : ENABLED publicClaim(m, now, o, e, compliance.key)

\* A transfer the wallet builds is one the pool takes (for an asset that
\* delivers what is sent), and one that can be claimed once it is due: the
\* checks before broadcast close the hole the pool's curve check leaves, so no
\* escrow the wallet funds is lost.
BuiltMemosAreSafe ==
    Open => \A m \in {m \in MemoTerms : buildPublicTransfer(m)} :
        /\ m \notin memos /\ m.asset \notin FeeAsset => ENABLED publicTransfer(m)
        /\ m \in Unclaimed /\ m.timelock <= now => poolAccepts(m)

\* Receiving keys that are handed out with gaps no wider than the window.
WithinGaps(i) ==
    i < IndexWindow \/ \E m \in memos : \E j \in recognize(m, 0 .. i - 1) : i - j <= IndexWindow

\* A memo paid to one of the wallet's keys is found by a scan as long as every
\* gap before its key is within the window, and the scan calls it claimable
\* exactly when the claim the wallet then builds is one the pool accepts at
\* that time: nothing is offered that reverts, nothing due is held back.
ScanAgreesWithPool ==
    \A m \in memos : \A i \in recognize(m, 0 .. Len(PublicKey) - 1) :
        (\A j \in 0 .. i : (\E n \in memos : recognize(n, {j}) # {}) => WithinGaps(j)) =>
            \E d \in scan :
                /\ d.memo = m /\ d.ownerIndex = i
                /\ Open => (d.claimable <=> buildPublicClaim(d, now) /\ poolAccepts(m))

=============================================================================
