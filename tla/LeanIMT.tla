------------------------------ MODULE LeanIMT -------------------------------
(***************************************************************************)
(* The note tree three times over: the contract keeps only the frontier    *)
(* (libraries/MerkleTreeLib.sol), a wallet keeps every level and makes     *)
(* membership paths from it (merkle/LeanIMT.ts), and the circuits check a  *)
(* path (lean_imt_inclusion_proof).  The wallet replays the chain's        *)
(* LeafInserted events late, so it proves against an older root.           *)
(*                                                                         *)
(* Poseidon2 is injective: a hash is the tuple it hashes.                  *)
(***************************************************************************)
EXTENDS Integers, SequencesExt

CONSTANTS
    Commitment,   \* note commitments
    GENESIS,      \* the leaf initialize inserts
    Zero,         \* the zero field element: no leaf, no sibling
    TREE_DEPTH,
    MaxLag        \* bound: how many events a wallet may be behind

VARIABLES
    leaves,       \* the leaves in the order LeafInserted announced them
    sideNodes,    \* the frontier: per level, the left node that waits
    latestRoot,
    known,        \* isKnownRoot
    levels,       \* the wallet's tree: per level, its nodes
    currentRoot   \* the wallet's root

treeVars == <<leaves, sideNodes, latestRoot, known, levels, currentRoot>>

Level == 0 .. TREE_DEPTH - 1
nextLeafIndex == Len(leaves)
walletSize == Len(levels[0])

\* What the circuit's assertion leaves.
Failed == <<"non-canonical leaf index">>

ASSUME TreeAssumption == TREE_DEPTH \in Nat \ {0} /\ MaxLag \in Nat
ASSUME LeafAssumption == {Zero, Failed} \cap (Commitment \cup {GENESIS}) = {}
\* What the provers do not know of powers.
ASSUME PowersAssumption == 2^0 = 1 /\ \A l \in Level : 2^(l + 1) = 2 * 2^l

\* The position above leaf i on level l, the shifted index of every loop.
position(i, l) == i \div 2^l

\* Slip: the level is not absorbed.
hash_3_noLevel(left, right, level) == <<left, right, 0>>
hash_3(left, right, level) == <<left, right, level>>

-----------------------------------------------------------------------------
(***************************************************************************)
(* The contract.                                                           *)
(***************************************************************************)

\* Slip: the loop leaves before it writes the frontier.
climb_breakFirst(side, leaf, i) ==
    LET at[l \in 0 .. TREE_DEPTH] ==
          IF l = 0 THEN [node |-> leaf, side |-> side]
          ELSE LET p == at[l - 1]
                   index == position(i, l - 1) IN
               CASE index = 0 -> p
                 [] index # 0 /\ index % 2 = 0 -> [p EXCEPT !.side[l - 1] = p.node]
                 [] index % 2 = 1 -> [p EXCEPT !.node = hash_3(side[l - 1], p.node, l - 1)]
    IN  at[TREE_DEPTH]

\* One round of the loop of insert: an even position waits in the frontier (and
\* the topmost one, index 0, ends the climb), an odd one meets its sibling.
climbLevel(p, index, l) ==
    CASE p.done -> p
      [] ~p.done /\ index % 2 = 0 ->
           [node |-> p.node, side |-> [p.side EXCEPT ![l] = p.node], done |-> (index = 0)]
      [] ~p.done /\ index % 2 = 1 -> [p EXCEPT !.node = hash_3(p.side[l], p.node, l)]

climb(side, leaf, i) ==
    LET at[l \in 0 .. TREE_DEPTH] ==
          IF l = 0 THEN [node |-> leaf, side |-> side, done |-> FALSE]
          ELSE climbLevel(at[l - 1], position(i, l - 1), l - 1)
    IN  at[TREE_DEPTH]

insert(leaf) ==
    /\ leaf # Zero
    /\ nextLeafIndex < 2^TREE_DEPTH
    /\ LET top == climb(sideNodes, leaf, nextLeafIndex) IN
       /\ sideNodes' = top.side
       /\ latestRoot' = top.node
       /\ known' = known \cup {top.node}
    /\ leaves' = Append(leaves, leaf)

-----------------------------------------------------------------------------
(***************************************************************************)
(* The wallet's tree.                                                      *)
(***************************************************************************)

\* The sibling of position i of a level, or Zero where the level ends.
sibling(level, i) ==
    LET s == IF i % 2 = 0 THEN i + 1 ELSE i - 1 IN
    IF s < Len(level) THEN level[s + 1] ELSE Zero

\* An empty side passes the other through.
parent(left, right, l) ==
    CASE left # Zero /\ right # Zero -> hash_3(left, right, l)
      [] right = Zero -> left
      [] left = Zero /\ right # Zero -> right

put(level, i, node) ==
    IF i >= Len(level) THEN Append(level, node) ELSE [level EXCEPT ![i + 1] = node]

\* The node above position k of level l.
nodeAbove(node, k, l) ==
    LET s == sibling(levels[l], k) IN
    IF k % 2 = 0 THEN parent(node, s, l) ELSE parent(s, node, l)

\* LeanIMT.insert: nodes[l] is the changed node of level l, and the root at the end.
treeInsert(leaf) ==
    LET i == walletSize
        nodes[l \in 0 .. TREE_DEPTH] ==
          IF l = 0 THEN leaf ELSE nodeAbove(nodes[l - 1], position(i, l - 1), l - 1)
    IN  /\ levels' = [l \in Level |-> put(levels[l], position(i, l), nodes[l])]
        /\ currentRoot' = nodes[TREE_DEPTH]

\* Slip: the path stops at the first empty level.
getMerklePath_stops(i) ==
    [l \in Level |-> IF \E m \in 0 .. l : sibling(levels[m], position(i, m)) = Zero
                     THEN Zero ELSE sibling(levels[l], position(i, l))]
getMerklePath(i) == [l \in Level |-> sibling(levels[l], position(i, l))]

-----------------------------------------------------------------------------
(***************************************************************************)
(* The circuit.                                                            *)
(***************************************************************************)

\* One level of lean_imt_inclusion_proof.
ascend(current, bit, sib, l) ==
    CASE current = Failed -> Failed
      [] current # Failed /\ sib = Zero -> IF bit = 0 THEN current ELSE Failed
      [] current # Failed /\ sib # Zero -> IF bit = 0 THEN hash_3(current, sib, l)
                                                      ELSE hash_3(sib, current, l)

lean_imt_inclusion_proof(leaf, i, siblings) ==
    LET current[l \in 0 .. TREE_DEPTH] ==
          IF l = 0 THEN leaf
          ELSE ascend(current[l - 1], position(i, l - 1) % 2, siblings[l - 1], l - 1)
    IN  current[TREE_DEPTH]

-----------------------------------------------------------------------------
InitTree ==
    LET side == [l \in Level |-> Zero]
        top == climb(side, GENESIS, 0) IN
    /\ leaves = <<GENESIS>>
    /\ sideNodes = top.side /\ latestRoot = top.node /\ known = {top.node}
    /\ levels = [l \in Level |-> <<>>] /\ currentRoot = Zero

InsertNote ==
    /\ nextLeafIndex - walletSize < MaxLag
    /\ \E leaf \in Commitment \cup {Zero} : insert(leaf)
    /\ UNCHANGED <<levels, currentRoot>>

\* The wallet replays the next event.
ReplayLeaf ==
    /\ walletSize < nextLeafIndex
    /\ treeInsert(leaves[walletSize + 1])
    /\ UNCHANGED <<leaves, sideNodes, latestRoot, known>>

NextTree == InsertNote \/ ReplayLeaf
SpecTree == InitTree /\ [][NextTree]_treeVars

-----------------------------------------------------------------------------
(***************************************************************************)
(* Properties.                                                             *)
(***************************************************************************)

\* The full tree over the leaves s, by definition: above two nodes their hash,
\* above a last one without a sibling that node itself.
above(below, l) ==
    [k \in 1 .. (Len(below) + 1) \div 2 |->
       IF 2 * k <= Len(below) THEN hash_3(below[2 * k - 1], below[2 * k], l)
                              ELSE below[2 * k - 1]]

fullTree(s) ==
    LET level[l \in 0 .. TREE_DEPTH] == IF l = 0 THEN s ELSE above(level[l - 1], l - 1)
    IN  level

Nodes == UNION {Range(fullTree(leaves)[l]) : l \in 0 .. TREE_DEPTH}

\* Every <<leaf, index>> for which SOME choice of siblings makes the circuit
\* return the root: the circuit's loop run on all of them at once.  A value that
\* is no node of the tree cannot become its root again, as hashes only grow.
ascendAll(pairs, l) ==
    {q \in {<<p[1], ascend(p[2], bit, sib, l), p[3] + bit * 2^l>> :
               p \in pairs, bit \in {0, 1}, sib \in Nodes \cup {Zero}} : q[2] \in Nodes}

Opened ==
    LET pairs[l \in 0 .. TREE_DEPTH] ==
          IF l = 0 THEN {<<leaf, leaf, 0>> : leaf \in Commitment \cup {GENESIS}}
          ELSE ascendAll(pairs[l - 1], l - 1)
    IN  {<<p[1], p[3]>> : p \in {q \in pairs[TREE_DEPTH] : q[2] = latestRoot}}

\* A membership proof against a root the contract saved exists for each leaf at
\* its own index and for nothing else: no sibling moved to another level, and no
\* index past the last leaf, gives a note a second index and so a second nullifier.
RootOpensItsLeavesOnly ==
    Opened = {<<leaves[i + 1], i>> : i \in 0 .. nextLeafIndex - 1}

\* "The root is byte-identical to a full-tree lean IMT", though the contract
\* keeps one node per level; and whatever the wallet has replayed so far into its
\* full tree, each of its paths is accepted by the circuit and leads to a root
\* the contract knows.
TreesAgree ==
    /\ latestRoot = fullTree(leaves)[TREE_DEPTH][1] /\ latestRoot \in known
    /\ walletSize > 0 =>
        /\ currentRoot \in known
        /\ \A i \in 0 .. walletSize - 1 :
              lean_imt_inclusion_proof(levels[0][i + 1], i, getMerklePath(i)) = currentRoot

=============================================================================
