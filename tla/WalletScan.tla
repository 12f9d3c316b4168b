---------------------------- MODULE WalletScan ----------------------------
(***************************************************************************)
(* How a wallet learns what it owns: ScanEngine reads the pool's events    *)
(* over RPC, NoteProcessor opens those whose tag is the wallet's,          *)
(* UtxoRepository keeps the notes, LeanIMT the leaves, and KeyRepository   *)
(* the tags to look for.  A scan is four RPC reads and then a walk over    *)
(* the logs that may read again; meanwhile the chain grows or is           *)
(* reorganised, the RPC leaves logs out, and the process dies.             *)
(*                                                                         *)
(* A block is what its transactions emit.  A leaf is who can open it,      *)
(* with which index and under which compliance key; its place in the tree  *)
(* counts from the genesis leaf.  A nullifier is a leaf and its place.     *)
(***************************************************************************)
EXTENDS KeyRepository, Sequences, SequencesExt

CONSTANTS
  FinalityDepth, \* confirmations before an event is applied
  ExtraWindow,   \* DEFAULT_PROBE_EXTRA_WINDOW
  MaxAttempts,   \* of repairTreeGap: 8 in the code
  FirstChains,   \* what the pool may hold when the wallet is installed
  MaxMined,      \* bound: blocks ever produced
  MaxBusy,       \* bound: blocks of it with transactions of the pool
  MaxKeys,       \* bound: compliance keys
  MaxIndex,      \* bound: indices of the two key families
  ReorgDepth,    \* most blocks a reorganisation replaces
  MaxEvents      \* bound: reorganisations and omissions, and twice the restarts,
                 \* probes and addresses issued

Leaf == [owner : {"self", "incoming", "junk", "other"}, index : Int, key : Nat, serial : Nat]
Block == [leaves : Seq(Leaf), spent : SUBSET (Leaf \X Nat), rotates : Nat]

ASSUME ScanConstants ==
  /\ FinalityDepth \in Nat \ {0} /\ MaxAttempts \in Nat \ {0}
  /\ {ExtraWindow, MaxMined, MaxBusy, MaxKeys, MaxIndex, ReorgDepth, MaxEvents} \subseteq Nat
  /\ FirstChains \subseteq Seq(Block) /\ \A c \in FirstChains : Len(c) <= MaxMined

VARIABLES
  chain,   \* the pool's blocks: [leaves, spent, rotates]
  mined,   \* blocks ever produced, those reorganised away too
  longest, \* length of the longest chain so far
  counter, \* the durable high-water of self indices, shared by the installs
  pending, \* self indices handed out and not on chain
  wallet,  \* [keys, tree, notes, ring]: lost with the process
  saved,   \* the key repository's cursors on disk
  scan,    \* the scan under way
  raced,   \* history: has this process read logs that were replaced before the head?
  events   \* what of MaxEvents has happened

vars == <<chain, mined, longest, counter, pending, wallet, saved, scan, raced, events>>

happens(cost) == events + cost <= MaxEvents /\ events' = events + cost

(***************************************************************************)
(* The pool, as its events show it                                         *)
(***************************************************************************)
\* Serial numbers tell leaves of others apart; an own leaf is the same leaf
\* when its transaction is mined again.
Self(i, key) == [owner |-> "self", index |-> i, key |-> key, serial |-> 0]
Incoming(j, s) == [owner |-> "incoming", index |-> j, key |-> 0, serial |-> s]
Junk(j, s) == [owner |-> "junk", index |-> j, key |-> 0, serial |-> s]
Other(s) == [owner |-> "other", index |-> -1, key |-> 0, serial |-> s]

LeavesUpTo(b) == FlattenSeq([n \in 1 .. b |-> chain[n].leaves])
Leaves == LeavesUpTo(Len(chain))
FinalBlock == Bigger(0, Len(chain) - FinalityDepth)

HighestFinal(owners) ==
  Max({-1} \union {l.index : l \in {l \in ToSet(LeavesUpTo(FinalBlock)) : l.owner \in owners}})

\* Every leaf event: a memo is emitted as NewPrivateMemo, a note as NewNote.
LeafLogs ==
  UNION {{[leaf |-> chain[b].leaves[n], block |-> b,
           at |-> Len(LeavesUpTo(b - 1)) + n - 1] : n \in DOMAIN chain[b].leaves}
         : b \in DOMAIN chain}
IsMemo(log) == log.leaf.owner \in {"incoming", "junk"}
SpentUpTo(b) == UNION {chain[n].spent : n \in 1 .. b}
NullLogs == UNION {{[nullifier |-> n, block |-> b] : n \in chain[b].spent} : b \in DOMAIN chain}

\* A compliance key is the serial of the block that rotated to it.
KeysOnChain == {0} \union {chain[b].rotates : b \in DOMAIN chain}
CurrentKey(c) == Max({0} \union {c[b].rotates : b \in DOMAIN c})

Empty == [leaves |-> << >>, spent |-> {}, rotates |-> 0]

Mine(block) ==
  /\ mined < MaxMined
  /\ block = Empty \/ Len(SelectSeq(chain, LAMBDA b : b # Empty)) < MaxBusy
  /\ chain' = Append(chain, block)
  /\ mined' = mined + 1
  /\ longest' = Bigger(longest, Len(chain'))
  /\ UNCHANGED <<wallet, saved, scan, raced, events>>

Plain(leaves) == [Empty EXCEPT !.leaves = leaves]

\* No more than the gap limit of self indices is burned in a row: those handed
\* out stay within it of the last one mined for good.
WithinGap(i) == isEvenY(i) /\ i <= MaxIndex /\ i <= HighestFinal({"self"}) + Window

\* The index of an own note that is mined now: this install handed it out
\* before, or another install of the seed does, after burning a few.
mintedHere(i) == i \in pending /\ pending' = pending \ {i} /\ UNCHANGED counter
mintedElsewhere(i) ==
  i >= counter /\ WithinGap(i) /\ counter' = i + 1 /\ UNCHANGED pending

mineDeposit ==
  \E i \in 0 .. MaxIndex :
    /\ mintedHere(i) \/ mintedElsewhere(i)
    /\ Mine(Plain(<<Self(i, CurrentKey(chain))>>))

\* Somebody's transfer: a memo, then the sender's change.  Nobody pays an
\* address more than the gap limit past the last one that was paid for good.
minePayment ==
  \E j \in 0 .. MaxIndex :
    /\ isEvenY(j) /\ j <= HighestFinal({"incoming", "junk"}) + Window
    /\ Mine(Plain(<<Incoming(j, mined + 1), Other(mined + 1)>>))
    /\ UNCHANGED <<counter, pending>>

mineEmpty == Mine(Empty) /\ UNCHANGED <<counter, pending>>

\* An own note is spent, by this install or another, with change to self.
mineSpend ==
  \E log \in LeafLogs, i \in 0 .. MaxIndex :
    /\ mintedHere(i) \/ mintedElsewhere(i)
    /\ log.leaf.owner \in {"self", "incoming"}
    /\ <<log.leaf, log.at>> \notin SpentUpTo(Len(chain))
    /\ Mine([leaves |-> <<Self(i, CurrentKey(chain))>>, spent |-> {<<log.leaf, log.at>>},
             rotates |-> 0])

mineRotation ==
  /\ Cardinality(KeysOnChain) < MaxKeys
  /\ Mine([leaves |-> << >>, spent |-> {}, rotates |-> mined + 1])
  /\ UNCHANGED <<counter, pending>>

\* A block is replaced that a scan has read logs of and not yet read the head.
outruns(kept) ==
  /\ scan.at \in {"memos", "nulls", "head"}
  /\ \E l \in scan.notes \union scan.memos \union scan.nulls : l.block > Len(kept)

\* The last blocks are replaced, those ReorgDepth deep never; own transactions
\* may be mined again.
reorg ==
  \E depth \in 1 .. ReorgDepth :
    /\ happens(1) /\ Len(chain) - depth >= longest - ReorgDepth
    /\ LET kept == SubSeq(chain, 1, Len(chain) - depth)
           gone == UNION {ToSet(chain[b].leaves) : b \in Len(kept) + 1 .. Len(chain)} IN
       /\ chain' = kept
       /\ pending' = pending \union {l.index : l \in {l \in gone : l.owner = "self"}}
       /\ raced' = (raced \/ outruns(kept))
    /\ UNCHANGED <<mined, longest, counter, wallet, saved, scan>>

(***************************************************************************)
(* Handing out keys                                                        *)
(***************************************************************************)
\* This install mints once it has scanned.
mintSelf ==
  /\ wallet.keys.selfScanIndex > 0 /\ scan.at = "idle" /\ pending = {}
  /\ LET i == nextEvenY(counter) IN
     /\ WithinGap(i)
     /\ counter' = i + 1
     /\ pending' = {i}
     /\ wallet' = [wallet EXCEPT !.keys = nextSelfEphemeral(@, i)]
  /\ UNCHANGED <<chain, mined, longest, saved, scan, raced, events>>

issueAddress ==
  /\ scan.at = "idle" /\ wallet.keys.incomingIssueCounter <= HighestFinal({"incoming", "junk"})
  /\ nextEvenY(wallet.keys.incomingIssueCounter) <= MaxIndex
  /\ happens(2)
  /\ wallet' = [wallet EXCEPT !.keys = nextIncomingAddress(@)]
  /\ UNCHANGED <<chain, mined, longest, counter, pending, saved, scan, raced>>

(***************************************************************************)
(* Opening notes                                                           *)
(***************************************************************************)
\* Slip: a note seen again is taken for new.
addNote_overwrite(notes, nullifier) ==
  [n \in DOMAIN notes \union {nullifier} |-> n # nullifier /\ notes[n]]

\* A note seen again keeps what is known of it.
addNote(notes, nullifier) ==
  [n \in DOMAIN notes \union {nullifier} |-> n \in DOMAIN notes /\ notes[n]]

markSpent(notes, nullifiers) == [n \in DOMAIN notes |-> notes[n] \/ n \in nullifiers]

\* Every key of the ring is tried: with the wrong one the leaf does not match.
candidatesFor(ring) == ring

recover(w, log) == [w EXCEPT !.notes = addNote(@, <<log.leaf, log.at>>)]

processNewNote(w, log) ==
  LET i == log.leaf.index
      matched == [w EXCEPT !.keys = matchSelfTag(@, i)] IN
  IF log.leaf.owner = "self" /\ i \in w.keys.selfMap
    THEN IF \E key \in candidatesFor(w.ring) : key = log.leaf.key
           THEN recover(matched, log) ELSE matched
    ELSE w

\* The content key travels with a memo, so no compliance key is needed; the
\* match is noted whether or not the memo opens.
processMemo(w, log) ==
  LET j == log.leaf.index
      matched == [w EXCEPT !.keys = matchIncomingTag(@, j)] IN
  IF j \in w.keys.incomingMap
    THEN IF log.leaf.owner = "incoming" THEN recover(matched, log) ELSE matched
    ELSE w

processLog(w, log) == IF IsMemo(log) THEN processMemo(w, log) ELSE processNewNote(w, log)

\* Insert the leaf when it is the next one.
insertLeaf(w, log) ==
  IF log.at = Len(w.tree) THEN [w EXCEPT !.tree = Append(@, log.leaf)] ELSE w

(***************************************************************************)
(* A scan                                                                  *)
(***************************************************************************)
NoScan ==
  [at |-> "idle", window |-> 0, from |-> 0, notes |-> {}, memos |-> {}, nulls |-> {},
   logs |-> << >>, n |-> 1, attempt |-> 0]

\* What a query returns: everything, or with one log left out.
Answers(logs) ==
  {logs} \union (IF events < MaxEvents THEN {logs \ {l} : l \in logs} ELSE {})
Answered(logs, answer) == events' = IF answer = logs THEN events ELSE events + 1

scanning == <<chain, mined, longest, counter, pending, raced>>

\* Slip: start where the caller says, not at the pool's deployment.
scanFloor_caller(from) == from

\* The pool was deployed in block 1.
scanFloor(from) == Min({from, 1})

\* sync looks `Window` ahead, probe further.
scanPasses(from, window) ==
  /\ scan.at = "idle"
  /\ scan' = [NoScan EXCEPT !.at = "notes", !.window = window, !.from = scanFloor(from)]
  /\ wallet' = [wallet EXCEPT !.keys =
                  ensureIncomingLookahead(ensureSelfLookahead(@, window), window)]
  /\ UNCHANGED <<scanning, saved>>
sync == scanPasses(Len(chain), Window) /\ UNCHANGED events
probe == ExtraWindow > 0 /\ scanPasses(1, Window + ExtraWindow) /\ happens(2)

Since(logs) == {l \in logs : l.block >= scan.from}

\* Three queries, one after the other.
queryFilter(at, logs, then, field) ==
  /\ scan.at = at
  /\ \E answer \in Answers(Since(logs)) :
       /\ scan' = [[scan EXCEPT ![field] = answer] EXCEPT !.at = then]
       /\ Answered(Since(logs), answer)
  /\ UNCHANGED <<scanning, saved, wallet>>
fetchNotes == queryFilter("notes", {l \in LeafLogs : ~IsMemo(l)}, "memos", "notes")
fetchMemos == queryFilter("memos", {l \in LeafLogs : IsMemo(l)}, "nulls", "memos")
fetchNulls == queryFilter("nulls", NullLogs, "head", "nulls")

\* Slip: one confirmation too few.
finalizedBlock_early(head) == head - FinalityDepth + 1

finalizedBlock(head) == head - FinalityDepth

\* The elements of S in order: the k-th has k - 1 of them before it.
Sorted(S, before(_, _)) ==
  [k \in 1 .. Cardinality(S) |-> CHOOSE l \in S : Cardinality({m \in S : before(m, l)}) = k - 1]

\* By block, then by position; should two forks tie, the sort leaves the notes
\* in front of the memos.
LogBefore(a, b) ==
  \/ a.block < b.block
  \/ a.block = b.block /\ (a.at < b.at \/ (a.at = b.at /\ ~IsMemo(a) /\ IsMemo(b)))

LeafBefore(a, b) == a.at < b.at

\* The head is read after the logs.
readHead ==
  /\ scan.at = "head"
  /\ LET final(logs) == {l \in logs : l.block <= finalizedBlock(Len(chain))} IN
     scan' = [scan EXCEPT !.at = "pass", !.notes = {}, !.memos = {},
                          !.nulls = final(@),
                          !.logs = Sorted(final(scan.notes \union scan.memos), LogBefore)]
  /\ UNCHANGED <<scanning, saved, wallet, events>>

Gap == scan.n <= Len(scan.logs) /\ scan.logs[scan.n].at > Len(wallet.tree)

\* scanOnce up to the next gap.  Nothing but the wallet is touched between two
\* logs, so the walk is one step.
scanOnce ==
  /\ scan.at = "pass" /\ scan.n <= Len(scan.logs) /\ ~Gap
  /\ LET walk == FoldLeft(LAMBDA acc, log :
                            IF acc.gap \/ log.at > Len(acc.w.tree) THEN [acc EXCEPT !.gap = TRUE]
                            ELSE [acc EXCEPT !.w = processLog(insertLeaf(@, log), log), !.n = @ + 1],
                          [w |-> wallet, n |-> scan.n, gap |-> FALSE],
                          SubSeq(scan.logs, scan.n, Len(scan.logs))) IN
     /\ wallet' = walk.w
     /\ scan' = [scan EXCEPT !.n = walk.n, !.attempt = 0]
  /\ UNCHANGED <<scanning, saved, events>>

\* Insert and process what came back, up to the first leaf that did not.
fill(w, logs) ==
  LET known == {n \in 0 .. Cardinality(logs) :
                  \A at \in Len(w.tree) .. Len(w.tree) + n - 1 : \E l \in logs : l.at = at}
      seq == Sorted({l \in logs : l.at < Len(w.tree) + Max(known)}, LeafBefore) IN
  FoldLeft(LAMBDA acc, l : processLog(insertLeaf(acc, l), l), w, seq)

\* One attempt of repairTreeGap: ask for the missing leaves by index; after
\* the last attempt the whole scan throws.
repairTreeGap ==
  /\ scan.at = "pass" /\ Gap
  /\ LET missing == {l \in LeafLogs : l.at \in Len(wallet.tree) .. scan.logs[scan.n].at - 1} IN
     \E answer \in Answers(missing) :
       /\ Answered(missing, answer)
       /\ wallet' = fill(wallet, answer)
  /\ scan' = IF Len(wallet'.tree) < scan.logs[scan.n].at /\ scan.attempt + 1 = MaxAttempts
               THEN NoScan ELSE [scan EXCEPT !.attempt = @ + 1]
  /\ UNCHANGED <<scanning, saved>>

\* What the application may have stored after a scan: the new cursors, as long
\* as MaxEvents leaves a restart to read them.
stored(keys) == {saved} \union (IF events + 2 <= MaxEvents THEN {getState(keys)} ELSE {})

\* After the leaves the nullifiers; and again while a match near the edge of
\* the lookahead extended it.
endPass ==
  /\ scan.at = "pass" /\ scan.n > Len(scan.logs)
  /\ LET keys == ensureIncomingLookahead(ensureSelfLookahead(wallet.keys, scan.window),
                                         scan.window) IN
     /\ wallet' = [wallet EXCEPT !.notes = markSpent(@, {l.nullifier : l \in scan.nulls}),
                                 !.keys = keys]
     /\ \/ keys # wallet.keys /\ scan' = [scan EXCEPT !.n = 1] /\ UNCHANGED saved
        \/ keys = wallet.keys /\ scan' = NoScan /\ saved' \in stored(keys)
  /\ UNCHANGED <<scanning, events>>

(***************************************************************************)
(* The life of an install                                                  *)
(***************************************************************************)
\* The ring is made again from the pool's ComplianceKeyRotated log.
fromRotations ==
  /\ scan.at = "idle" /\ wallet.ring # KeysOnChain
  /\ wallet' = [wallet EXCEPT !.ring = KeysOnChain]
  /\ UNCHANGED <<scanning, saved, scan, events>>

NewWallet == [keys |-> NewRepository, tree |-> << >>, notes |-> << >>, ring |-> {0}]

\* The process dies; it comes back with the cursors it saved, or with the seed
\* alone.
restart ==
  /\ happens(2)
  /\ scan' = NoScan
  /\ raced' = FALSE
  /\ \E keys \in {NewRepository, restore(saved, counter)} :
       wallet' = [NewWallet EXCEPT !.keys = keys]
  /\ UNCHANGED <<chain, mined, longest, counter, pending, saved>>

Init ==
  /\ chain \in FirstChains
  /\ mined = Len(chain)
  /\ longest = Len(chain)
  /\ counter = 1 + Max({-1} \union {l.index : l \in {l \in ToSet(Leaves) : l.owner = "self"}})
  /\ pending = {}
  /\ wallet = NewWallet
  /\ saved = getState(NewRepository)
  /\ scan = NoScan
  /\ raced = FALSE
  /\ events = 0

Pool == mineDeposit \/ minePayment \/ mineEmpty \/ mineSpend \/ mineRotation \/ reorg

ScanStep ==
  sync \/ probe \/ fetchNotes \/ fetchMemos \/ fetchNulls \/ readHead \/ scanOnce
  \/ repairTreeGap \/ endPass

Next ==
  Pool \/ ScanStep \/ mintSelf \/ issueAddress \/ fromRotations \/ restart

Spec == Init /\ [][Next]_vars

\* An open wallet scans again and again, each scan runs to its end, and the
\* application makes the ring anew once the pool rotated.
FairSpec == Spec /\ WF_vars(ScanStep) /\ SF_vars(fromRotations)

(***************************************************************************)
(* Properties                                                              *)
(***************************************************************************)
\* What the wallet believes is what the chain says - its tree is a prefix of
\* the pool's, its notes are there, what it holds spent is spent - whatever
\* the RPC left out and whatever was reorganised before a scan read its first
\* logs or after it read the head (finalizedBlock).  A block replaced between
\* the two is not covered: the head is read last, so a log of that block may
\* pass for final, and nothing this process does takes it out again.
BelievesTheChain ==
  \/ raced
  \/ /\ IsPrefix(wallet.tree, Leaves)
     /\ \A n \in DOMAIN wallet.notes :
          /\ n[2] < Len(Leaves) /\ Leaves[n[2] + 1] = n[1] /\ n[1].owner \in {"self", "incoming"}
          /\ wallet.notes[n] => n \in SpentUpTo(Len(chain))

\* While the process lives, a note once spent is never unspent again, in the
\* middle of a scan neither: the balance is read at any time.
NeverResurrected ==
  [][\A n \in DOMAIN wallet.notes :
       wallet.notes[n] => wallet'.notes = << >> \/ (n \in DOMAIN wallet'.notes /\ wallet'.notes[n])]_vars

\* An own index nobody watches for: nextSelfEphemeral jumped over it, or over
\* one before it and the gap limit counts from there.
Unwatched(leaf) ==
  /\ leaf.owner = "self" /\ leaf.index \notin wallet.keys.selfMap
  /\ \E i \in jumpedOver(wallet.keys) : i <= leaf.index

\* A wallet that keeps scanning finds every own note that is final and every
\* final spend of it, and its tree reaches the last final leaf - from the seed
\* alone, past burned and odd indices, across a rotation of the compliance key.
\* Two wallets are not covered, until they are started again: one that read
\* logs of a block that went before it read the head, and one that minted
\* over the indices of another install it had not scanned.
FindsEverything ==
  <>[](\/ raced
       \/ /\ IsPrefix(LeavesUpTo(FinalBlock), wallet.tree)
          /\ \A n \in 0 .. Len(LeavesUpTo(FinalBlock)) - 1 :
               LET leaf == Leaves[n + 1] IN
               leaf.owner \in {"self", "incoming"} /\ ~Unwatched(leaf) =>
                 /\ <<leaf, n>> \in DOMAIN wallet.notes
                 /\ <<leaf, n>> \in SpentUpTo(FinalBlock) => wallet.notes[<<leaf, n>>])

===========================================================================
