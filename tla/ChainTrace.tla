----------------------------- MODULE ChainTrace -----------------------------
(***************************************************************************)
(* The compliance committee's tracer, wallets/src/threshold/chainTrace.ts, *)
(* over the pool's public state.  The committee opens the notes of the     *)
(* compliance keys it holds shares of; a trace walks from one leaf to the  *)
(* leaves its value went to (forward) or came from (backward), and lists   *)
(* where it had to stop.                                                   *)
(***************************************************************************)
EXTENDS DarkPool

\* What the caller's ChainState answers: the leaves the transaction that
\* spent a nullifier inserted.
childrenOfSpend(nf) ==
    UNION {log[k].outs : k \in {k \in DOMAIN log :
              \E i \in Inputs(k) : nullifier(Leaf(i), i) = nf}}

\* A leaf opens when the committee holds the key it was encrypted to and the
\* rebuilt leaf is the one on chain, which no wrong key survives.
openLeaf(held, i) == i \in NoteIndex /\ Leaf(i).key \in held

Edges(froms, tos) == [expansions |-> froms \X tos, truncated |-> FALSE]
Stops == [expansions |-> {}, truncated |-> FALSE]
Truncated == [expansions |-> {}, truncated |-> TRUE]

\* Slip: a leaf that does not open ends the trace as if it were unspent.
forwardStep_silent(held, i) ==
    IF openLeaf(held, i) /\ nullifier(Leaf(i), i) \in nullifiers
    THEN Edges({i}, childrenOfSpend(nullifier(Leaf(i), i)))
    ELSE Stops

forwardStep(held, i) ==
    LET children == childrenOfSpend(nullifier(Leaf(i), i)) IN
    IF ~openLeaf(held, i) THEN Truncated
    ELSE IF nullifier(Leaf(i), i) \notin nullifiers THEN Stops
    ELSE IF children = {} \/ ~(children \subseteq 0 .. nextLeafIndex - 1) THEN Truncated
    ELSE Edges({i}, children)

\* Slip: the second slot is read as a leaf index also when it is empty.
consumedLeaves_both(packed) == {packed[1], packed[2]}
\* Slot 1 is zero for a single input; an index beyond the tree is refused.
consumedLeaves(packed) ==
    IF packed[2] = 0 THEN {packed[1]} ELSE {packed[1], packed[2]}

Named(packed) ==
    packed \notin {PARENTS_NONE, PARENTS_HIDDEN} /\ consumedLeaves(packed) \subseteq 0 .. nextLeafIndex - 1

\* A transfer's memo hides its parents; the change note inserted right after
\* it names them, provided they all open and were spent into this memo.
bridgeHiddenParents(held, i) ==
    /\ openLeaf(held, i + 1)
    /\ Named(Leaf(i + 1).parents)
    /\ \A p \in consumedLeaves(Leaf(i + 1).parents) :
          openLeaf(held, p) /\ i \in childrenOfSpend(nullifier(Leaf(p), p))

expand(i, packed) ==
    IF consumedLeaves(packed) \subseteq 0 .. nextLeafIndex - 1
    THEN Edges(consumedLeaves(packed), {i}) ELSE Truncated

backwardStep(held, i) ==
    IF ~openLeaf(held, i) THEN Truncated
    ELSE IF Leaf(i).parents = PARENTS_NONE THEN Stops
    ELSE IF Leaf(i).parents # PARENTS_HIDDEN THEN expand(i, Leaf(i).parents)
    ELSE IF bridgeHiddenParents(held, i) THEN expand(i, Leaf(i + 1).parents)
    ELSE Truncated

\* The worklist's fixed point: every visited leaf is stepped from once, and a
\* leaf is visited when some edge of a visited one touches it; steps has what
\* stepping from each leaf gives.
traverse(start, steps) ==
    LET From(S) == UNION {s.result.expansions : s \in {s \in steps : s.at \in S}}
        nodes == FoldSet(LAMBDA n, S : S \cup UNION {{e[1], e[2]} : e \in From(S)},
                         {start}, 1 .. nextLeafIndex) IN
    [nodes |-> nodes,
     edges |-> From(nodes),
     truncated |-> {s.at : s \in {s \in steps : s.at \in nodes /\ s.result.truncated}}]

\* The graph of every start.
forwardTrace(held) ==
    LET steps == {[at |-> i, result |-> forwardStep(held, i)] : i \in 0 .. nextLeafIndex - 1} IN
    [start \in NoteIndex |-> traverse(start, steps)]
backwardTrace(held) ==
    LET steps == {[at |-> i, result |-> backwardStep(held, i)] : i \in 0 .. nextLeafIndex - 1} IN
    [start \in NoteIndex |-> traverse(start, steps)]

-----------------------------------------------------------------------------
(***************************************************************************)
(* Properties.                                                             *)
(***************************************************************************)

\* The transaction that inserted leaf i.
Origin(i) == CHOOSE k \in DOMAIN log : i \in log[k].outs

\* Whatever keys the committee still holds and wherever it starts, no trace
\* invents lineage: each edge goes from a leaf to one that the very transaction
\* which spent it inserted, so a leaf is never blamed on the genesis leaf or on
\* a neighbour's inputs; and what backward finds, forward finds too.
TraceSound(forward, backward) ==
    /\ \A e \in forward.edges \cup backward.edges : e[1] \in Inputs(Origin(e[2]))
    /\ \A e \in backward.edges : e \in forwardStep(Key, e[1]).expansions

\* A trace that reports nothing truncated is whole: forward it has every output
\* of every spend it met; backward it ends only at deposits and claims, follows
\* both inputs of a join, and sees through the memos that hide their sender.
TraceWhole(forward, backward) ==
    /\ forward.truncated = {} =>
          \A k \in DOMAIN log : \A j \in Inputs(k) \cap forward.nodes :
              {j} \X log[k].outs \subseteq forward.edges
    /\ backward.truncated = {} =>
          \A j \in backward.nodes :
              LET parents == {e[1] : e \in {e \in backward.edges : e[2] = j}} IN
              /\ parents = {} => log[Origin(j)].op \in {"deposit", "claim"}
              /\ log[Origin(j)].op = "join" => parents = Inputs(Origin(j))

\* What traverse reports is true and, when it says so, complete; and a committee
\* that holds every key is never cut short.
TraceFaithful ==
    \A held \in SUBSET Key :
        LET forwards == forwardTrace(held)
            backwards == backwardTrace(held) IN
        \A i \in NoteIndex :
            LET forward == forwards[i]
                backward == backwards[i] IN
            /\ TraceSound(forward, backward)
            /\ TraceWhole(forward, backward)
            /\ held = Key => forward.truncated = {} /\ backward.truncated = {}

=============================================================================
