--------------------------- MODULE KeyRepository ---------------------------
(***************************************************************************)
(* The wallet's key repository, packages/wallets/src/state: which indices  *)
(* of its two key families (self ephemerals, incoming addresses) a wallet  *)
(* has derived and watches for on chain.  A key is its index; its tag is   *)
(* the x of its point, which names the point only when y is even, so an    *)
(* index of odd y is never used.                                           *)
(***************************************************************************)
EXTENDS Integers, FiniteSets, FiniteSetsExt

CONSTANTS
  OddY,        \* indices whose point has odd y
  Window       \* DEFAULT_LOOKAHEAD_WINDOW and the scanner's lookaheadWindow

ASSUME KeyConstants == OddY \subseteq Nat /\ Window \in Nat \ {0}

isEvenY(i) == i \notin OddY

\* selfMap and incomingMap hold the indices whose tag is watched for; the
\* scan indices say up to where they were filled; -1 is "no match yet".
NewRepository ==
  [selfMintCounter |-> 0, selfScanIndex |-> 0,
   incomingIssueCounter |-> 0, incomingScanIndex |-> 0,
   highestMatchedSelf |-> -1, highestMatchedIncoming |-> -1,
   selfMap |-> {}, incomingMap |-> {}]

Bigger(a, b) == IF a > b THEN a ELSE b

\* An index of odd y has no tag to watch for.
registerSelf(k, target) ==
  [k EXCEPT !.selfMap = @ \union {i \in k.selfScanIndex .. target - 1 : isEvenY(i)},
            !.selfScanIndex = Bigger(@, target)]
registerIncoming(k, target) ==
  [k EXCEPT !.incomingMap = @ \union {i \in k.incomingScanIndex .. target - 1 : isEvenY(i)},
            !.incomingScanIndex = Bigger(@, target)]

\* The gap limit: watch `window` indices past the highest that matched.
ensureSelfLookahead(k, window) == registerSelf(k, k.highestMatchedSelf + 1 + window)
ensureIncomingLookahead(k, window) == registerIncoming(k, k.highestMatchedIncoming + 1 + window)

matchSelfTag(k, i) ==
  IF i \in k.selfMap THEN [k EXCEPT !.highestMatchedSelf = Bigger(@, i)] ELSE k
matchIncomingTag(k, i) ==
  IF i \in k.incomingMap THEN [k EXCEPT !.highestMatchedIncoming = Bigger(@, i)] ELSE k

\* The index nextSelfEphemeral ends with when the counter store stands at
\* `base`: it reserves one index after the other, burning those of odd y.
nextEvenY(base) == Min({i \in base .. base + Cardinality(OddY) : isEvenY(i)})

\* Only the index itself is registered: what lies between the old scan index
\* and this one is jumped over.
nextSelfEphemeral(k, i) ==
  [k EXCEPT !.selfMintCounter = Bigger(@, i + 1),
            !.selfMap = @ \union {i},
            !.selfScanIndex = Bigger(@, i + 1)]

\* Indices below the scan index nobody watches for.
jumpedOver(k) == {i \in 0 .. k.selfScanIndex - 1 : isEvenY(i)} \ k.selfMap

nextIncomingAddress(k) ==
  LET i == nextEvenY(k.incomingIssueCounter) IN
  [k EXCEPT !.incomingIssueCounter = i + 1,
            !.incomingMap = @ \union {i},
            !.incomingScanIndex = Bigger(@, i + 1)]

\* What is written to disk: the cursors, not the maps.
getState(k) == [k EXCEPT !.selfMap = {}, !.incomingMap = {}]

\* A repository made new, given the saved cursors and the counter store's
\* high-water, watches for everything either of them ever handed out.
restore(saved, highWater) ==
  LET mint == Bigger(saved.selfMintCounter, highWater)
      k == [NewRepository EXCEPT
              !.selfMintCounter = mint,
              !.incomingIssueCounter = saved.incomingIssueCounter,
              !.highestMatchedSelf = saved.highestMatchedSelf,
              !.highestMatchedIncoming = saved.highestMatchedIncoming]
      filled == registerIncoming(registerSelf(k, Bigger(saved.selfScanIndex, mint + Window)),
                                 Bigger(saved.incomingScanIndex, k.incomingIssueCounter)) IN
  ensureIncomingLookahead(ensureSelfLookahead(filled, Window), Window)

============================================================================
