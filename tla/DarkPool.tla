------------------------------ MODULE DarkPool ------------------------------
(***************************************************************************)
(* The shielded pool: contracts/DarkPool.sol together with the statements  *)
(* its eleven circuits prove.                                              *)
(*                                                                         *)
(* Abstractions.                                                           *)
(*  - The proof system is sound: a call carries a proof exactly when the   *)
(*    circuit's asserts hold for some witness, so the asserts appear as    *)
(*    guards.  A proof stays valid for ever and calldata is public: every  *)
(*    entrypoint may be called by anybody, at any time, again and again,   *)
(*    against ANY root the tree ever had.                                  *)
(*  - A root is the number of leaves under it (module LeanIMT shows that   *)
(*    a root determines its leaves and their positions).                   *)
(*  - Hashes and encodings are the tuples they hash: a leaf is its note,   *)
(*    psi is <<eph, compliance key>>, a nullifier is <<psi, leaf index>>,  *)
(*    a memo id is the memo's six fields, packed parents are the pair.     *)
(*  - A transaction is atomic: every entrypoint is nonReentrant, and a     *)
(*    revert leaves no trace, so reverting calls are not steps.            *)
(***************************************************************************)
EXTENDS Integers, Sequences, FiniteSetsExt

CONSTANTS
    Asset,        \* ERC20 addresses
    FeeAsset,     \* the assets that deliver less than was sent
    Owner,        \* public keys somebody holds the secret of
    OffCurve,     \* "owners" that are not points of the curve
    OffSubgroup,  \* points of the curve that are nobody's public key
    Eph,          \* ephemeral scalars of note encryption
    Key,          \* compliance public keys
    GenesisKey,   \* the compliance key given to initialize
    Verifier,     \* addresses with verifier code
    ZeroAddress,  \* the unset verifier
    GENESIS,      \* the leaf seeded at index 0
    NoTerms,      \* absence of swap or memo terms in the log
    MAX_U128,     \* type(uint128).max
    MAX_U64,      \* type(uint64).max
    TREE_DEPTH,
    TOLERANCE,    \* PROOF_TIMESTAMP_TOLERANCE
    DepositTerms, \* the deposits users may make
    SwapTerms,    \* the swaps takers may ask for
    MemoTerms,    \* the memos payers may post
    Traffic,      \* the circuits users of the instance make proofs for
    MaxTx, MaxIntents, MaxVersion, MaxTime   \* bounds of the model

VARIABLES
    leaves,       \* the note tree; leaf index i is leaves[i + 1]
    nullifiers,   \* isNullifierSpent
    memos,        \* isValidPublicMemo
    memosSpent,   \* isPublicMemoSpent
    verifiers,    \* verifier of each circuit
    compliance,   \* current compliance key and its version
    paused,
    now,          \* block.timestamp
    balance,      \* the pool's balance in each asset
    intents,      \* swap_intent proofs takers have handed to solvers
    log           \* one record per executed transaction (the events)

chainVars == <<leaves, nullifiers, memos, memosSpent, balance, log>>
adminVars == <<verifiers, compliance, paused>>
vars == <<chainVars, adminVars, now, intents>>

-----------------------------------------------------------------------------
(***************************************************************************)
(* Data.                                                                   *)
(***************************************************************************)

NoteType == {"STANDARD", "MULTISIG"}
LeafIndex == 0 .. 2^TREE_DEPTH - 1

PARENTS_NONE == <<0, 0>>
PARENTS_HIDDEN == <<-1, -1>>
Parents == Int \X Int

Note == [asset : Asset, value : 0 .. MAX_U128, owner : Owner, type : NoteType,
         eph : Eph, key : Key, parents : Parents]

Funding == [asset : Asset, value : 0 .. MAX_U128, owner : Owner, type : NoteType]
Swap == [toAsset : Asset, fromAmount : 0 .. MAX_U128,
         expectedReturn : 0 .. MAX_U128, expiry : Nat]
Memo == [owner : Owner \cup OffCurve \cup OffSubgroup, asset : Asset, value : Nat,
         timelock : Nat, salt : Nat]

Intent == [input : Nat, root : Nat, key : Key, terms : Swap,
           change : Note, received : Note]

Op == {"deposit", "withdraw", "transfer", "join", "split", "kage", "post", "claim"}
Tx == [op : Op, ins : Seq(Nat), outs : SUBSET Nat, at : Nat, key : Key,
       terms : Swap \cup Memo \cup {NoTerms}]

SpendOp == {"withdraw", "transfer", "join", "split"}
Circuit == (SpendOp \X NoteType)
              \cup ({"deposit", "claim", "kage"} \X {"STANDARD"})

ASSUME BoundsAssumption ==
    /\ MAX_U128 \in Nat /\ MAX_U64 \in Nat /\ TREE_DEPTH \in Nat /\ TOLERANCE \in Nat
    /\ MaxTx \in Nat /\ MaxIntents \in Nat /\ MaxVersion \in Nat /\ MaxTime \in Nat

ASSUME DataAssumption ==
    /\ GenesisKey \in Key /\ FeeAsset \subseteq Asset /\ OffCurve \cap Owner = {}
    /\ OffSubgroup \cap (Owner \cup OffCurve) = {}
    /\ GENESIS \notin Note /\ ZeroAddress \notin Verifier /\ Verifier # {}
    /\ DepositTerms \subseteq Funding
    /\ SwapTerms \subseteq Swap /\ MemoTerms \subseteq Memo
    /\ NoTerms \notin Swap \cup Memo
    /\ Traffic \subseteq Circuit

ASSUME TreeAssumption == 2^TREE_DEPTH \in Nat \ {0}

-----------------------------------------------------------------------------
(***************************************************************************)
(* The tree, the nullifiers and the checks every entrypoint shares.        *)
(***************************************************************************)

nextLeafIndex == Len(leaves)
Leaf(i) == leaves[i + 1]

\* Every insertion saves its root for ever, the ones inside a transaction too.
isKnownRoot(root) == root \in 1 .. nextLeafIndex

\* The roots a membership proof of leaf i may be made against.
rootsOver(i) == {root \in 1 .. 2^TREE_DEPTH : isKnownRoot(root) /\ i < root}

psi(n) == <<n.eph, n.key>>
\* Slip: the leaf index is left out of the nullifier.
nullifier_noIndex(n, i) == <<psi(n), 0>>
nullifier(n, i) == <<psi(n), i>>

insert(outs) ==
    /\ nextLeafIndex + Len(outs) <= 2^TREE_DEPTH
    /\ leaves' = leaves \o outs

\* Slip: the set is written but not consulted.
_spendNullifier_unchecked(ins) ==
    nullifiers' = nullifiers \cup {nullifier(Leaf(ins[k]), ins[k]) : k \in DOMAIN ins}

\* _spendNullifier for each input in turn.
_spendNullifier(ins) ==
    LET nf(k) == nullifier(Leaf(ins[k]), ins[k]) IN
    /\ \A k \in DOMAIN ins :
          nf(k) \notin nullifiers \cup {nf(j) : j \in 1 .. k - 1}
    /\ nullifiers' = nullifiers \cup {nf(k) : k \in DOMAIN ins}

\* Slip: any key that is a point of the curve is accepted.
_verifyComplianceKey_any(key) == key \in Key
_verifyComplianceKey(key) == key = compliance.key

_verifier(circuit) == verifiers[circuit] # ZeroAddress

\* A claim's timestamp has a ceiling, a swap's has a floor.
_verifyProofTimestamp(ts) == ts <= now + TOLERANCE
\* Slip: the swap's timestamp gets the claim's bound.
_verifyProofTimestampFloor_ceiling(ts) == ts <= now + TOLERANCE
_verifyProofTimestampFloor(ts) == ts + TOLERANCE >= now

\* What balanceOf rises by when value is pulled with transferFrom.
Delivered(asset, value) == IF asset \in FeeAsset THEN value - 1 ELSE value

\* Slip: the received amount is not measured.
pull_unmeasured(asset, value) ==
    /\ value > 0
    /\ balance' = [balance EXCEPT ![asset] = @ + Delivered(asset, value)]

\* Pull value into the pool; a fee-on-transfer asset makes the call revert.
pull(asset, value) ==
    /\ value > 0
    /\ Delivered(asset, value) = value
    /\ balance' = [balance EXCEPT ![asset] = @ + Delivered(asset, value)]

\* Slip: the modifier is forgotten.
whenNotPaused_forgotten == TRUE
whenNotPaused == ~paused

emit(op, ins, nOuts, terms) ==
    /\ Len(log) < MaxTx
    /\ log' = Append(log,
         [op |-> op, ins |-> ins,
          outs |-> nextLeafIndex .. nextLeafIndex + nOuts - 1,
          at |-> now, key |-> compliance.key, terms |-> terms])

-----------------------------------------------------------------------------
(***************************************************************************)
(* The circuits: what each proof asserts about its witness.                *)
(***************************************************************************)

\* verify_spend (STANDARD) and open_multisig_note (MULTISIG, a FROST quorum
\* signs): the note is a leaf under a known root, and its type is the circuit's.
verify_spend(i, type) ==
    /\ rootsOver(i) # {}
    /\ Leaf(i) # GENESIS
    /\ Leaf(i).type = type

\* u128 sums: an overflow fails the proof.
assert_conserved(totalIn, totalOut) ==
    /\ totalIn <= MAX_U128
    /\ totalIn = totalOut

\* Slip: only the first input is bound.
assert_parents_bound_first(i, j) == <<i, 0>>
assert_parents_bound(i, j) == <<i, j>>

\* An output of a spend of note n.  A standard circuit lets the prover name any
\* owner; a multisig circuit pins its own outputs to the group's key.
mint_self_note(n, asset, value, owner, eph, key, parents) ==
    [asset |-> asset, value |-> value, owner |-> owner, type |-> n.type,
     eph |-> eph, key |-> key, parents |-> parents]

selfOwners(n) == IF n.type = "MULTISIG" THEN {n.owner} ELSE Owner

\* A memo note: any recipient and type, and the sender's index stays hidden.
mint_incoming_note(n, value, owner, type, eph, key) ==
    [asset |-> n.asset, value |-> value, owner |-> owner, type |-> type,
     eph |-> eph, key |-> key, parents |-> PARENTS_HIDDEN]

-----------------------------------------------------------------------------
(***************************************************************************)
(* Administration and time.                                                *)
(***************************************************************************)

initialize ==
    /\ leaves = <<GENESIS>>
    /\ nullifiers = {} /\ memos = {} /\ memosSpent = {}
    /\ verifiers \in [Circuit -> Verifier]
    /\ compliance = [key |-> GenesisKey, version |-> 1]
    /\ paused = FALSE
    /\ now = 0
    /\ balance = [a \in Asset |-> 0]
    /\ intents = {}
    /\ log = <<>>

pause ==
    /\ ~paused
    /\ paused' = TRUE
    /\ UNCHANGED <<chainVars, verifiers, compliance, now, intents>>

unpause ==
    /\ paused
    /\ paused' = FALSE
    /\ UNCHANGED <<chainVars, verifiers, compliance, now, intents>>

\* Slip: the zero address is not refused.
_setVerifier_zero(circuit, v) == verifiers' = [verifiers EXCEPT ![circuit] = v]
_setVerifier(circuit, v) ==
    /\ v # ZeroAddress
    /\ verifiers' = [verifiers EXCEPT ![circuit] = v]

setVerifier(circuit, v) ==
    /\ _setVerifier(circuit, v)
    /\ UNCHANGED <<chainVars, compliance, paused, now, intents>>

\* Open while paused; the new key may be one used before.
rotateComplianceKey(key) ==
    /\ compliance.version < MaxVersion
    /\ compliance' = [key |-> key, version |-> compliance.version + 1]
    /\ UNCHANGED <<chainVars, verifiers, paused, now, intents>>

Tick ==
    /\ now < MaxTime
    /\ now' = now + 1
    /\ UNCHANGED <<chainVars, adminVars, intents>>

-----------------------------------------------------------------------------
(***************************************************************************)
(* Entrypoints.  The parameters are the public inputs and the witness.     *)
(***************************************************************************)

deposit(d, eph, key) ==
    /\ whenNotPaused
    /\ _verifyComplianceKey(key)
    /\ _verifier(<<"deposit", "STANDARD">>)
    /\ pull(d.asset, d.value)
    /\ insert(<<[asset |-> d.asset, value |-> d.value, owner |-> d.owner, type |-> d.type,
                 eph |-> eph, key |-> key, parents |-> PARENTS_NONE]>>)
    /\ emit("deposit", <<>>, 1, NoTerms)
    /\ UNCHANGED <<nullifiers, memos, memosSpent, adminVars, now, intents>>

\* A contract recipient must affirm the pull; an account without code is not asked.
_requireRecipientAccepts(recipient) == recipient \in {"eoa", "accepts"}

withdraw(type, i, value, recipient, key) ==
    /\ whenNotPaused
    /\ verify_spend(i, type)
    /\ _verifyComplianceKey(key)
    /\ _verifier(<<"withdraw", type>>)
    /\ _spendNullifier(<<i>>)
    /\ _requireRecipientAccepts(recipient)
    /\ \E change \in 0 .. MAX_U128, owner \in selfOwners(Leaf(i)), eph \in Eph :
         /\ assert_conserved(Leaf(i).value, change + value)
         /\ insert(<<mint_self_note(Leaf(i), Leaf(i).asset, change, owner, eph, key,
                                    assert_parents_bound(i, 0))>>)
    /\ balance[Leaf(i).asset] >= value
    /\ balance' = [balance EXCEPT ![Leaf(i).asset] = @ - value]
    /\ emit("withdraw", <<i>>, 1, NoTerms)
    /\ UNCHANGED <<memos, memosSpent, adminVars, now, intents>>

privateTransfer(type, i, key) ==
    /\ whenNotPaused
    /\ verify_spend(i, type)
    /\ _verifyComplianceKey(key)
    /\ _verifier(<<"transfer", type>>)
    /\ _spendNullifier(<<i>>)
    /\ \E value, change \in 0 .. MAX_U128, to \in Owner, toType \in NoteType,
          owner \in selfOwners(Leaf(i)), e, f \in Eph :
         /\ e # f
         /\ assert_conserved(Leaf(i).value, value + change)
         /\ insert(<<mint_incoming_note(Leaf(i), value, to, toType, e, key),
                     mint_self_note(Leaf(i), Leaf(i).asset, change, owner, f, key,
                                    assert_parents_bound(i, 0))>>)
    /\ emit("transfer", <<i>>, 2, NoTerms)
    /\ UNCHANGED <<memos, memosSpent, balance, adminVars, now, intents>>

\* A standard join may merge notes of two owners, a multisig join may not.
join(type, i, j, key) ==
    /\ whenNotPaused
    /\ verify_spend(i, type) /\ verify_spend(j, type)
    /\ rootsOver(i) \cap rootsOver(j) # {}
    /\ _verifyComplianceKey(key)
    /\ _verifier(<<"join", type>>)
    /\ i < j
    /\ type = "MULTISIG" => Leaf(i).owner = Leaf(j).owner
    /\ Leaf(i).asset = Leaf(j).asset
    /\ _spendNullifier(<<i, j>>)
    /\ \E out \in 0 .. MAX_U128, owner \in selfOwners(Leaf(i)), eph \in Eph :
         /\ assert_conserved(Leaf(i).value + Leaf(j).value, out)
         /\ insert(<<mint_self_note(Leaf(i), Leaf(i).asset, out, owner, eph, key,
                                    assert_parents_bound(i, j))>>)
    /\ emit("join", <<i, j>>, 1, NoTerms)
    /\ UNCHANGED <<memos, memosSpent, balance, adminVars, now, intents>>

split(type, i, key) ==
    /\ whenNotPaused
    /\ verify_spend(i, type)
    /\ _verifyComplianceKey(key)
    /\ _verifier(<<"split", type>>)
    /\ _spendNullifier(<<i>>)
    /\ \E v, w \in 0 .. MAX_U128, o, p \in selfOwners(Leaf(i)), e, f \in Eph :
         /\ e # f
         /\ assert_conserved(Leaf(i).value, v + w)
         /\ insert(<<mint_self_note(Leaf(i), Leaf(i).asset, v, o, e, key,
                                    assert_parents_bound(i, 0)),
                     mint_self_note(Leaf(i), Leaf(i).asset, w, p, f, key,
                                    assert_parents_bound(i, 0))>>)
    /\ emit("split", <<i>>, 2, NoTerms)
    /\ UNCHANGED <<memos, memosSpent, balance, adminVars, now, intents>>

-----------------------------------------------------------------------------
(***************************************************************************)
(* Kage: a taker hands a swap_intent proof to solvers; any maker may       *)
(* settle it, late, after a key rotation, or after the taker spent the     *)
(* note elsewhere.                                                         *)
(***************************************************************************)

build_intent(i, root, terms, key) ==
    /\ Cardinality(intents) < MaxIntents
    /\ verify_spend(i, "STANDARD")
    /\ root \in rootsOver(i)
    /\ Leaf(i).asset # terms.toAsset
    /\ \E change \in 0 .. MAX_U128, owner \in Owner, e, f \in Eph :
         /\ assert_conserved(Leaf(i).value, change + terms.fromAmount)
         /\ intents' = intents \cup
              {[input |-> i, root |-> root, key |-> key, terms |-> terms,
                change |-> mint_self_note(Leaf(i), Leaf(i).asset, change, owner, e, key,
                                          assert_parents_bound(i, 0)),
                received |-> mint_self_note(Leaf(i), terms.toAsset, terms.expectedReturn,
                                            owner, f, key, assert_parents_bound(i, 0))]}
    /\ UNCHANGED <<chainVars, adminVars, now>>

\* Slip: the maker's asset is not compared with the one the taker asked for.
settle_swap_anyAsset(t, j, ts, key) ==
    /\ t.key = key
    /\ verify_spend(j, "STANDARD")
    /\ t.root \in rootsOver(j)
    /\ t.input # j
    /\ ts < t.terms.expiry

\* Slip: the key the taker's half was proved with is not compared with the
\* maker's, which is the one the contract asks for.
settle_swap_anyKey(t, j, ts, key) ==
    /\ verify_spend(j, "STANDARD")
    /\ t.root \in rootsOver(j)
    /\ t.input # j
    /\ Leaf(j).asset = t.terms.toAsset
    /\ ts < t.terms.expiry

\* swap_settle's asserts on the taker's authenticated half t and the maker's note.
settle_swap(t, j, ts, key) ==
    /\ t.key = key
    /\ verify_spend(j, "STANDARD")
    /\ t.root \in rootsOver(j)
    /\ t.input # j
    /\ Leaf(j).asset = t.terms.toAsset
    /\ ts < t.terms.expiry

kageSwap(t, j, ts, key) ==
    /\ whenNotPaused
    /\ isKnownRoot(t.root)
    /\ _verifyComplianceKey(key)
    /\ _verifyProofTimestampFloor(ts)
    /\ _verifier(<<"kage", "STANDARD">>)
    /\ settle_swap(t, j, ts, key)
    /\ _spendNullifier(<<t.input, j>>)
    /\ \E change \in 0 .. MAX_U128, owner \in Owner, e, f \in Eph :
         /\ assert_conserved(Leaf(j).value, t.terms.expectedReturn + change)
         /\ Cardinality({t.change.eph, t.received.eph, e, f}) = 4
         /\ insert(<<t.change, t.received,
                     mint_self_note(Leaf(j), Leaf(t.input).asset, t.terms.fromAmount,
                                    owner, e, key, assert_parents_bound(j, 0)),
                     mint_self_note(Leaf(j), Leaf(j).asset, change,
                                    owner, f, key, assert_parents_bound(j, 0))>>)
    /\ emit("kage", <<t.input, j>>, 4, t.terms)
    /\ UNCHANGED <<memos, memosSpent, balance, adminVars, now, intents>>

-----------------------------------------------------------------------------
(***************************************************************************)
(* Public memos: escrow a payer posts for the holder of a key.             *)
(***************************************************************************)

\* Slip: the owner is not checked to be a point.
_isValidBjjPoint_any(p) == TRUE
\* The curve equation, not membership of the subgroup.
_isValidBjjPoint(p) == p \notin OffCurve

\* The width checks: the claim circuit holds the value in a u128 and compares
\* the timelock as a u64.
\* Slip: the timelock's width is not checked.
memoInRange_value(m) == m.value <= MAX_U128
memoInRange(m) == m.value <= MAX_U128 /\ m.timelock <= MAX_U64

publicTransfer(m) ==
    /\ whenNotPaused
    /\ memoInRange(m)
    /\ _isValidBjjPoint(m.owner)
    /\ m \notin memos
    /\ pull(m.asset, m.value)
    /\ memos' = memos \cup {m}
    /\ emit("post", <<>>, 0, m)
    /\ UNCHANGED <<leaves, nullifiers, memosSpent, adminVars, now, intents>>

\* public_claim: only the owner's secret opens the memo; `as u64` truncates.
public_claim(m, ts) ==
    /\ m.timelock = 0 \/ ts % (MAX_U64 + 1) >= m.timelock % (MAX_U64 + 1)
    /\ m.owner \in Owner
    /\ m.value \in 0 .. MAX_U128

publicClaim(m, ts, owner, eph, key) ==
    /\ whenNotPaused
    /\ m \in memos
    /\ m \notin memosSpent
    /\ _verifyComplianceKey(key)
    /\ _verifyProofTimestamp(ts)
    /\ _verifier(<<"claim", "STANDARD">>)
    /\ public_claim(m, ts)
    /\ memosSpent' = memosSpent \cup {m}
    /\ insert(<<[asset |-> m.asset, value |-> m.value, owner |-> owner,
                 type |-> "STANDARD", eph |-> eph, key |-> key,
                 parents |-> PARENTS_NONE]>>)
    /\ emit("claim", <<>>, 1, m)
    /\ UNCHANGED <<nullifiers, memos, balance, adminVars, now, intents>>

-----------------------------------------------------------------------------
Time == 0 .. MaxTime
Root == 1 .. 2^TREE_DEPTH

Administer ==
    \/ pause
    \/ unpause
    \/ \E c \in Circuit, v \in Verifier \cup {ZeroAddress} : setVerifier(c, v)
    \/ \E key \in Key : rotateComplianceKey(key)

Deposit ==
    \E d \in DepositTerms, eph \in Eph, key \in Key : deposit(d, eph, key)

\* The standard entrypoints and, for type MULTISIG, their FROST twins.
Spend(type) ==
    \E i \in LeafIndex, key \in Key :
        \/ /\ <<"withdraw", type>> \in Traffic
           /\ \E value \in 0 .. MAX_U128, recipient \in {"eoa", "accepts", "rejects"} :
                 withdraw(type, i, value, recipient, key)
        \/ /\ <<"transfer", type>> \in Traffic
           /\ privateTransfer(type, i, key)
        \/ /\ <<"join", type>> \in Traffic
           /\ \E j \in LeafIndex : join(type, i, j, key)
        \/ /\ <<"split", type>> \in Traffic
           /\ split(type, i, key)

Kage ==
    \/ \E i \in LeafIndex, root \in Root, terms \in SwapTerms, key \in Key :
          build_intent(i, root, terms, key)
    \/ \E t \in intents, j \in LeafIndex, ts \in Time, key \in Key :
          kageSwap(t, j, ts, key)

Memos ==
    \/ \E m \in MemoTerms : publicTransfer(m)
    \/ \E m \in MemoTerms, ts \in Time, owner \in Owner, eph \in Eph, key \in Key :
         publicClaim(m, ts, owner, eph, key)

Next ==
    \/ Tick
    \/ Administer
    \/ Deposit
    \/ \E type \in NoteType : Spend(type)
    \/ Kage
    \/ Memos

Spec == initialize /\ [][Next]_vars

-----------------------------------------------------------------------------
(***************************************************************************)
(* Properties.                                                             *)
(***************************************************************************)

\* Every variable holds a value of its kind; no verifier is ever unset.
TypeOK ==
    /\ leaves \in Seq(Note \cup {GENESIS})
    /\ nullifiers \subseteq (Eph \X Key) \X Nat
    /\ memos \subseteq Memo
    /\ memosSpent \subseteq memos
    /\ verifiers \in [Circuit -> Verifier]
    /\ compliance \in [key : Key, version : Nat]
    /\ paused \in BOOLEAN
    /\ now \in Nat
    /\ balance \in [Asset -> Nat]
    /\ intents \subseteq Intent
    /\ log \in Seq(Tx)

isSpent(i) == nullifier(Leaf(i), i) \in nullifiers
NoteIndex == 1 .. nextLeafIndex - 1
Unspent == {i \in NoteIndex : ~isSpent(i)}
Unclaimed == memos \ memosSpent
Inputs(k) == {log[k].ins[p] : p \in DOMAIN log[k].ins}

NotesWorth(a) ==
    MapThenSumSet(LAMBDA i : Leaf(i).value, {i \in Unspent : Leaf(i).asset = a})
MemosWorth(a) ==
    MapThenSumSet(LAMBDA m : m.value, {m \in Unclaimed : m.asset = a})

\* In every asset the pool holds exactly what the unspent notes and unclaimed
\* memos are worth, whatever proofs were replayed, joined, split or swapped:
\* no call inflates a note (two-proof conservation of a swap, u128 wrap), and
\* no call strands value (a memo posted twice, two leaves with one nullifier).
Solvency == \A a \in Asset : balance[a] = NotesWorth(a) + MemosWorth(a)

\* A leaf is an input of at most one executed transaction, and its nullifier is
\* spent exactly when it was one: the nullifier set blocks every second spend,
\* under any old root, and blocks no leaf that was never spent, not even one
\* whose commitment a replayed deposit repeats.
NoDoubleSpend ==
    /\ \A k, l \in DOMAIN log : k # l => Inputs(k) \cap Inputs(l) = {}
    /\ \A i \in NoteIndex : isSpent(i) <=> \E k \in DOMAIN log : i \in Inputs(k)

\* What a note's parents tell whoever decrypts it is the truth: none exactly for
\* a deposit or a claim (index 0 is never a parent), hidden only for a transfer
\* memo, and otherwise older leaves the very same transaction consumed.
ParentsTellTruth ==
    \A k \in DOMAIN log : \A o \in log[k].outs :
        LET p == Leaf(o).parents
            named == {p[1], p[2]} \ {0} IN
        /\ p = PARENTS_NONE <=> log[k].op \in {"deposit", "claim"}
        /\ p = PARENTS_HIDDEN => log[k].op = "transfer"
        /\ p \notin {PARENTS_NONE, PARENTS_HIDDEN} =>
             /\ named \subseteq Inputs(k) /\ named \subseteq NoteIndex
             /\ \A i \in named : i < o
        /\ log[k].op = "join" => named = Inputs(k)

\* Every note is encrypted to the compliance key that was current when it was
\* inserted, so the holder of that key can open it: also the taker's notes of a
\* swap, which were proved with the key current when the intent was published
\* and are inserted by whoever settles it, after a rotation perhaps.
ComplianceCanOpen ==
    \A k \in DOMAIN log : \A o \in log[k].outs : Leaf(o).key = log[k].key

\* A swap settles a published intent before it is stale (the expiry plus the
\* timestamp tolerance), and each side gives exactly what the other receives.
KageSettlesIntent ==
    \A k \in DOMAIN log : log[k].op = "kage" =>
        LET t == log[k].terms
            taker == Leaf(log[k].ins[1])
            maker == Leaf(log[k].ins[2])
            out == [p \in 1 .. 4 |-> Leaf(Min(log[k].outs) + p - 1)] IN
        /\ log[k].at < t.expiry + TOLERANCE
        /\ out[2].asset = maker.asset /\ out[2].value = t.expectedReturn
        /\ taker.value - out[1].value = out[3].value
        /\ maker.value - out[4].value = out[2].value
        /\ \E q \in intents : q.input = log[k].ins[1] /\ q.terms = t

\* A memo is never claimed earlier than its timelock less the tolerance, also
\* when the timelock does not fit the u64 the circuit compares.
TimelockHolds ==
    \A k \in DOMAIN log : log[k].op = "claim" =>
        log[k].at + TOLERANCE >= log[k].terms.timelock

\* As long as the tree has room and the pool is not paused, every unspent note
\* can be withdrawn in full to a plain account: after rotations, under replayed
\* commitments, whatever else was spent.
NotesRedeemable ==
    (~paused /\ nextLeafIndex < 2^TREE_DEPTH /\ Len(log) < MaxTx) =>
        \A i \in Unspent :
            ENABLED withdraw(Leaf(i).type, i, Leaf(i).value, "eoa", compliance.key)

\* Under the same conditions every unclaimed memo whose timelock has passed can
\* be claimed, unless its owner is a point outside the subgroup, which the pool
\* does not detect: it escrows nothing else that no proof will ever release.
MemosRedeemable ==
    (~paused /\ nextLeafIndex < 2^TREE_DEPTH /\ Len(log) < MaxTx) =>
        \A m \in Unclaimed : m.timelock <= now /\ m.owner \notin OffSubgroup =>
            \E e \in Eph, o \in Owner : ENABLED publicClaim(m, now, o, e, compliance.key)

\* A paused pool moves nothing: no leaf, nullifier, memo or token changes.
HaltFreezesFunds == [][paused => UNCHANGED chainVars]_vars

-----------------------------------------------------------------------------
(***************************************************************************)
(* The pool as a ledger of coins: a coin is a note or a public memo.       *)
(***************************************************************************)

NoteCoins(S) == {<<"note", i>> : i \in S}
MemoCoins(S) == {<<"memo", m>> : m \in S}

mintedCoins ==
    [c \in NoteCoins(NoteIndex) \cup MemoCoins(memos) |->
        LET n == IF c[1] = "note" THEN Leaf(c[2]) ELSE c[2]
        IN  [asset |-> n.asset, value |-> n.value]]
spentCoins == NoteCoins({i \in NoteIndex : isSpent(i)}) \cup MemoCoins(memosSpent)

Ledger == INSTANCE Utxo WITH minted <- mintedCoins, spent <- spentCoins, vault <- balance

\* The pool implements the coin ledger of module Utxo: every entrypoint burns
\* only notes or memos that existed before the call and were never burnt, and
\* mints what it burns, less what leaves to or plus what arrives from outside.
ImplementsLedger == Ledger!Spec

=============================================================================
