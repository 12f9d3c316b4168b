# A TLA+ development of the darkpool

This directory holds TLA+ modules that model the parts of the repository that
carry its own protocol logic, TLC configurations that check them on small
instances, and proofs, checked by TLAPS, of the main safety properties of the pool, its
note tree, the wallet's memos, scan and tags, groups, governance, deployment, state server and state client, for
every size of the constants. `PROJECT.json` is the index: components, runs, the mutant
that each property catches, the source lines behind each definition, findings,
hazards and theorems.

## 1. The system

The repository is a shielded pool for ERC20 tokens. Users turn tokens into notes
(leaves of a Merkle tree), spend notes with zero-knowledge proofs, and keep the
secrets they need in wallets, whose encrypted state is synchronised between
devices through a server that cannot read it. A relay network (Nox) submits
transactions for users and is paid from a reward pool.

| Part | State | Operations | Talks to |
|---|---|---|---|
| DarkPool contract (`DarkPool.sol`) | note tree and every root it had, spent nullifiers, public memos, verifiers, compliance key and version, pause, token balances | deposit; withdraw, transfer, join, split (standard and multisig); kageSwap; publicTransfer, publicClaim; pause, unpause, setVerifier, rotateComplianceKey | verifiers (proofs), ERC20 tokens, a contract recipient's affirmation, the tree library, wallets through events |
| Circuits (`packages/circuits`) | none | eleven statements, and the two halves of a swap | the pool checks their public inputs |
| Note tree (`MerkleTreeLib.sol`, `merkle/LeanIMT.ts`, `lean_imt_inclusion_proof`) | frontier and roots; all levels | insert, path, path check | pool, wallet, circuits |
| State server (`pss-server`) | slots and invites in SQLite, replay guard and token buckets in memory | GET, PUT, DELETE; start, stop | clients over HTTP |
| State client (`pss-client`, `pss-integration`) | payload and version floor in a local store; mode, remote copy, stored version, takeover grant, queues in memory | open, pull, update, reserve, push, confirmTakeover, pruneSpent | server, wallet counters |
| Wallet (`packages/wallets`: `sync`, `state`, `tx`, `discovery`, `public`) | tree, notes, keys, counters, mint authorizations | scan, mint, plan, assemble, pay; public memos | chain logs, prover, state client |
| Groups (`wallets/src/tss`, `threshold`, `frost`) | key shares, signing nonces, counters of members, scanner | key ceremonies (Feldman, GJKR), threshold decryption, tracing, FROST signing, group notes | pool events, members of the group |
| Nox registry (`NoxRegistry.sol`) | relayer rows, key owners, roles, count, fingerprint, stakes | register, addStake, rotateKey, unstake, slash, freeze, remove, forceUnregister, pause | staking token, governance |
| Governance (`scripts/gov`) | owner keys and public owners on disk, Safes and their nonces, Timelock operations, mempool | generate owners, create Safes, register nodes, execute, guardian actions | registry, Timelock |
| Deployment (`scripts/deploy.ts`) | contracts and roles on chain; secret, record and pointer on disk | one script of some forty steps | all contracts, the Safes |
| Nox rewards and execution (`NoxRewardPool`, `NoxEntryPoint`, sandbox, payment adapter) | liabilities, exit credit; consumed executions | deposit, distribute, rescue, claim; execute | pool, sandbox |
| Adaptors (`contracts/adaptors`) | none between calls | bound bundles, Uniswap swaps | pool, routers |
| Announcements (`KageRegistry`, `ComplianceRegistry`) | announcements | publish | takers, solvers |
| Prover, howl-protocol, howl-e2e, generated verifiers, Poseidon | none | marshal, prove, verify, hash | all of the above |

What is hard to test, and what makes each part correct:

- **Pool.** Nothing is consumed but the nullifier: a proof is good against every
  root, for ever, for anybody, and a deposit can be repeated with the same
  commitment. Two proofs made by two parties at different times conserve a swap
  together, around key rotations and expiry. u128 and u64 edges meet wider
  contract words. Correct means: the balance is what unspent notes and unclaimed
  memos are worth; a leaf is spent once and stays spendable until then; what a
  note says of its parents and its compliance key is true; a pause stops
  everything; no timelock opens early.
- **Tree.** Three implementations of one tree, one of which keeps a single node
  per level, and a wallet that lags. Correct means: same root, each leaf opens at
  its own index only, and every wallet path is accepted.
- **Wallet scan.** Several RPC reads that make one picture of a moving chain, a
  lookahead of keys that is extended while logs are walked, a process that dies.
  Correct means: it never believes what the chain does not say, never takes back
  that a note is spent, and finds everything in the end.
- **Wallet spend.** Jobs that mint at the same time, another device, transactions
  in the mempool, a plan that outlives its notes. Correct means: no tag twice, the
  payable balance is payable, a payment is made once.
- **Groups.** Members fail, lie, repeat and answer again. Correct means: honest
  dealers and `T` good answers suffice and fewer do not; no nonce signs twice; the
  blame is right; the group finds its notes from the view secret.
- **Governance and deployment.** Long scripts over state that others change, which
  die in the middle and are run again. Correct means: what is recorded is governed
  as intended and stays so, no key is lost, the nodes serve in the end.
- **State server.** Requests arrive twice, late, reordered; the process forgets
  its guard and the machine its last writes. Correct means: a request takes effect
  once, and invites and accounts match.
- **State client.** Two devices, each with two promise queues, overlapping GETs,
  lost answers, crashes between two local writes, and human confirmations.
  Correct means: no ephemeral index is handed out twice, what was handed out is on
  the server, no device locks itself out, and the account changes hands only when
  a user says so.

`PROJECT.json` lists the hazards, each at its line, with the properties that would
catch it.

## 2. Modules

| Module | Models | Uses |
|---|---|---|
| `DarkPool` | the pool contract with the statements of its circuits | `Utxo` (refined) |
| `Utxo` | abstract specification: a ledger of coins over a vault | |
| `ChainTrace` | the committee's tracer over the pool's leaves and spends | `DarkPool` |
| `PublicMemos` | the wallet's public transfers, claims and memo scan | `DarkPool` |
| `DarkPoolProofs` | theorems about the pool, its ledger, its traces and the wallet's memos | `DarkPool`, `ChainTrace`, `PublicMemos`, `DataProofs` |
| `LeanIMT` | contract frontier, wallet tree, circuit path check | |
| `KeyRepository` | the wallet's key families and lookahead | |
| `WalletScan` | scan engine, notes, ring and keys over a chain and an RPC | `KeyRepository` |
| `WalletScanProofs` | theorems about the scan | `WalletScan`, `DataProofs` |
| `Plan` | coin selection and join plans | |
| `WalletSpend` | mint authority, counter store, jobs that assemble and pay | `Plan` |
| `WalletSpendProofs` | theorems about what a wallet spends with: tags, plans, membership in the tree | `WalletSpend`, `LeanIMT`, `DataProofs` |
| `Threshold` | Shamir, ceremonies, FROST, threshold decryption | |
| `Multisig` | a group that opens, signs, or keeps a treasury | `Threshold` |
| `MultisigProofs` | theorems about signers and treasury | `Multisig`, `DataProofs` |
| `NoxRegistry` | the relay registry, one operator per function | |
| `Governance` | the scripts of `scripts/gov`, Safe, Timelock, mempool | `NoxRegistry` |
| `GovernanceProofs` | theorems about registry and scripts | `Governance`, `DataProofs` |
| `Deploy` | `deploy.ts`, what it builds and what it writes | |
| `DeployProofs` | theorems about the deployment script | `Deploy` |
| `PssServer` | handlers, store, replay guard, crash behaviour of the server | |
| `PssRequests` | that server under any client and network | `PssServer` |
| `StateSync` | the installs of one account composed with the server | `PssServer` |
| `PssProofs` | theorems about the server and the installs of an account | `PssRequests`, `StateSync`, `DataProofs` |
| `DataProofs` | lemmas on sums, sequences and folds | |

The `MC*` modules hold the instances. A definition `x_suffix` marked `Slip` is `x`
with a plausible mistake; nothing uses it but the check that the property named
with it in `PROJECT.json` notices the mistake.

**DarkPool.** `leaves` is the tree, `nullifiers`, `memos`, `memosSpent`,
`verifiers`, `compliance`, `paused` and `balance` are the contract's storage,
`now` is `block.timestamp`, `log` has one record per executed transaction (the
events), and `intents` holds the taker halves that exist off chain. One action per
entrypoint; the standard entrypoint and its multisig twin are one action with the
note type as a parameter, because the contract routes both to the same internal
function. A circuit's asserts are guards, since the proof system is taken as
sound. A root is the number of leaves under it, which is justified by `LeanIMT`
(theorem `KnownRootsOpen`). Hashes are the tuples they hash. Reverting calls leave no
trace and are not steps. `DepositTerms`, `SwapTerms`, `MemoTerms` and `Traffic`
select what the users of an instance ask for.

**LeanIMT.** `sideNodes`, `latestRoot`, `known` are the contract's; `levels`,
`currentRoot` the wallet's. `climb` is the loop of `insert`, `treeInsert` the
wallet's, `ascend` one level of the circuit; `position(i, l)` is the shifted index all
three loops carry. `fullTree(s)` is the reference: the levels of the tree over the leaves
`s` by definition. Recursion is by recursive functions.

**ChainTrace, PublicMemos.** Neither keeps state: a trace and a memo scan are
functions of what the pool shows. So both are operators over `DarkPool`'s variables,
and their properties hold in every reachable state of the pool for every set of
compliance keys the committee may hold, every starting leaf and every memo. The
tracer's worklist is its fixed point. Transfers are built for an owner on the curve
but outside the subgroup too, where the pool and the wallet check different things.

**KeyRepository, WalletScan.** `chain` is a sequence of blocks of pool events; a
note is who can open it, with which index and key. `scan.at` is the await at which
a scan stands: memo logs, spend logs, head, then the walk, which may stop to query
again (`repairTreeGap`). A query may leave one log out. `wallet` dies with the
process; `saved` holds the cursors on disk. A leaf or nullifier is taken in only
when `finalizedBlock` covers it. Reorganisations never replace blocks deeper than
the finality depth, but come at any moment, between the reads of a scan too. `raced`
is history: this process has read logs of a block that was replaced before it read
the head. The own ephemerals a wallet watches for are a set and not a bound:
`nextSelfEphemeral` adds its own index and moves the scan index behind it, so what
another install minted in between is `jumpedOver`.

**Plan, WalletSpend.** `Plan` is `plan.ts` operator by operator. In `WalletSpend`,
`preflight` is the `SelfMintPreflight`: a batch of candidates reconciled against chain
and mempool, handed out one authority at a time; a job holds an authority from
`issueAuthorization` until its transaction is mined or lost, and a dropped one may
be planned again. A crash loses everything but the counter; a restore, which may
come at any moment, loses the counter too, and `reconcileCounterWithChain` rebuilds
it from the chain. `forgotten` is history: the tags that waited in the mempool when a
counter was lost. The user (`Wanted`) does not ask for the payment again while a
transaction of it may still be mined.

**Threshold, Multisig.** Scalars are taken modulo a small prime; a point is the pair
of its logarithms to the two independent bases, so every check of the code is an
equation that can be evaluated, and Pedersen hiding is not collapsed. Hashes are
injective numbers. A group comes out of a ceremony with any set of faulty dealers,
and is then used in one of three ways that share nothing but the group: a committee
(any sequence of partials, poisoned and repeated ones too), signers (a coordinator
that asks again for other signers or another message) or a treasury (self notes,
addresses, a running scanner, recovery from the view secret). Zero shares, zero
challenges and colliding hashes are left out: with a 251-bit modulus they do not occur,
with eleven they would.

**NoxRegistry, Governance.** Each function of the contract is a requirement on the
storage and the storage it leaves, so that a batch runs as one transaction. The
fingerprint is a set with symmetric difference for exclusive or. In `Governance` a
process has a program counter: read the chain, decide, sign with the nonce that was
read, send, wait. The mempool may hold transactions of a process that died. `hint` is
what a failed run tells its operator to do next. A delayed operation is waiting, due
by the wall clock, or due by the block's, which is where `safe-exec.ts` can be early.
Owner keys have generations; the keys file and the owners file are written one after
the other.

**Deploy.** `pc` walks the script's steps; `chain.new` is the set of contracts under
construction and `chain.live` the one `<network>-latest.json` names. `check` is an
integrity check under way, one answer of the chain per step: of each contract first
the log of grants, which names the candidates (`integrityProbe` is one always), then
`hasRole` role by role, all candidates asked at once and answering one by one, then
the Timelock's two operation logs, then the slots. The holder of the deployer's key, and anybody he gave
a role to, can act between any two. `contested` is history: somebody else administered
the Timelock when the last check read the log. Refusals of the environment are guards of
`begin`. The explorer's verification and links between constructors carry no decision.

**PssServer, PssRequests.** `slots` and `unspent` are the two tables, `synced` what
of them survives a power loss, `seenAt` the guard's ordered map. A handler is
synchronous once its body is read, so it is one step. The token bucket is the
parameter `allowed`.

**StateSync.** Per install: `floor` and `saved` are durable, `sess` is the object in
memory, `pulls` the GETs under way in the order of `#pullSequence`, `op` the await at
which the `#inFlight` queue stands. A turn of `#mutate` is a step; what `#inFlight`
does between two awaits is a step of its own. `reserveTurn` includes the first,
synchronous part of `#pushOnce`: the continuation of an awaited turn runs before
the next turn of the queue can start. `writeAccepted` and `acceptOwnWrite` are
separate, because the floor's store is awaited between them. A payload is the
high-water of one counter scope and the install it names; a merge may choose
either name, since it compares the clocks of two devices. The server is `PssServer`,
with power loss, restart and
deletion left out, and so is a merge that refuses.

## 3. Runs

All bounds are constants of the cfg files. `CHECK_DEADLOCK FALSE` stands where a model
stops at its bounds or is done (the pool, the tree, multisig, the server, the client,
deployment, payments); the scan and governance run with deadlock checked.

| Run | Shows | Bounds, and why they are enough |
|---|---|---|
| `pool_spend` | `ParentsTellTruth`, `NotesRedeemable`, `TraceFaithful`, `HaltFreezesFunds` | 3 transactions (deposit, deposit, join is the longest pattern), 2 ephemerals, 2 keys and a rotation, both note types; traces for every subset of keys and every leaf |
| `pool_coins` | `TypeOK`, `NoDoubleSpend`, `Solvency`, `TimelockHolds`, `MemosRedeemable`, `BuiltMemosAreSafe`, `ScanAgreesWithPool`, `ImplementsLedger` | 4 transactions with a single ephemeral, so commitments repeat: two equal deposits, their spends, the repeat of a spend; eight memos, one per boundary: u128 is 2, u64 is 7, owners in, on and off the curve, a fee-on-transfer asset; gap limit 1 over two keys |
| `pool_kage` | `Solvency`, `KageSettlesIntent`, `ComplianceCanOpen` | two deposits and a settlement of the one intent, before or after a rotation, so that all four notes of a late swap must be under the new key; two ticks around an expiry of 1 with tolerance 1 |
| `note_tree` | `RootOpensItsLeavesOnly`, `TreesAgree` | depth 3, filled to its 8 leaves, repeated commitments, a lag of 2; each parity pattern of an index occurs |
| `wallet_scan` | `BelievesTheChain`, `NeverResurrected`, `FindsEverything` | a chain of at most 4 blocks, 2 of them with events; the first has an own note of the seed, a memo that does not open and a rotation; finality 1, reorganisations of depth 1 between any two steps; window 2 with an odd index; 2 compliance keys after the first; own indices up to 3, so that a mint jumps over an index past the window; two reorganisations or omitted logs, or one restart, probe or address |
| `wallet_spend` | `TagsUnique`, `PlanHonest`, `PaymentCompletes` | notes of 1, 2 and 1 and a target of 4, so two joins are needed; batches of 2 candidates, at most 3; one rotation, and one loss, failure, crash or restore, at any point and with transactions waiting, beside one other minting job |
| `multisig` | `CommitteeOpens`, `NonceOnce`, `AggregateSound`, `RecoveryFindsNotes` | 3 members, threshold 2, modulus 11, two polynomials per dealer; any set of faulty dealers, sequences of up to 3 answers; 4 commitments, 2 requests, one cheater; 3 notes, windows of 2 with odd indices, 2 key versions |
| `governance` | `IndexesAgree`, `StakeBacked`, `SafesOpenable`, `FrozenIsHeld`, `NodesEventuallyServe` | 2 nodes and a third relayer, 4 first states (a frozen relayer; swapped keys; a key taken by one who leaves, below a raised minimum; nodes that left after a batch), 2 processes, one act of mischief, 3 generations of keys, 4 salts |
| `deploy` | `LatestIsGoverned`, `DiskKeepsUp`, `PauseEnds` | 2 runs, 3 environments (production, redeployment with a configured key, one Safe for both offices), two strangers (one promotes the other and leaves), `DarkPoolUpgrader` as what a foreign Timelock operation may grant; 3 events, shared by repeated runs, grants and renunciations by others |
| `pss_requests` | `TakesEffectOnce`, `InvitesConserved` | one account with both collections, two invites, skew 3 and 6 instants: a timestamp's fresh span ends inside, the guard's window of twice the skew does not, and need not, since a shorter window (the mutant) forgets a request that is still fresh; 4 effects |
| `state_sync` | `IndexNeverIssuedTwice`, `NeverWedged`, `TakeoverNamesHolder` | two installs, both able to create the account, 3 writes and one update, pull or crash; symmetric in the installs |
| `takeover_grant` | violation of `TakeoverNeverAutomatic` | account held by one install, 5 writes, no disturbances |

### What the properties except

Some properties hold but for a gap that the code leaves, which the model keeps, with
a history variable that says exactly when it was met. Without the exception TLC finds
the gap, in each case.

- `BelievesTheChain` and `FindsEverything` ask nothing of a process that has `raced`:
  a block it took logs from was replaced before it read the head. `NeverResurrected`
  has no exception.
- `FindsEverything` asks nothing for own notes at or past an index that was jumped over
  and is not watched (`Unwatched`), until a restart, which watches from 0.
- `TagsUnique` does not cover tags that are `forgotten`.
- `LatestIsGoverned` and `PauseEnds` are about sets that were not `contested`.
- `TakeoverNamesHolder` excepts handovers by an install that `raced` (Findings).

For `ImplementsLedger` the refinement maps unspent and spent notes and memos to
coins of `Utxo` and the balance to its vault.

### Fairness

Four runs check liveness; each assumes only what keeps running in the code's world.

- `PauseEnds`: the Gov Safe proposes and executes, and time passes. The script, the
  guardian and the holder of the deployer's key may stop at any time, and the
  guardian may pause as often as it likes. It is claimed of sets that are not
  `contested`: on others a canceller that no check saw could cancel every unpause.
- `NodesEventuallyServe`: blocks are mined and time passes, a script that was started
  goes on, and the lead operator starts `register-nodes.ts` again after every failure,
  with the option its error names. Mischief is bounded, so "once the others are done"
  is what the property means.
- `FindsEverything`: an open wallet scans again and again and each scan runs to its
  end (`WF` on the steps of a scan); after a rotation the application makes the ring
  anew (`SF`, since a scan under way postpones it).
- `PaymentCompletes`: the user plans the payment again whenever it can be planned,
  calls of the wallet return, and the chain mines what it was sent. `SF` on the steps
  of a job, because `take` calls run one after the other and the other job's may come
  first.

### Findings

*A takeover grant can outlive its handover* (`takeover_grant`). The install that
confirmed a takeover forgets the grant when it sees its own name in the blob. If
the answer of its write is lost and the other install's user takes the account
back, the first one sees the very install its grant names, and writes without a
prompt. Comments in `takeover.ts` (45, 73, 88) say that this must not happen.

Met while modelling, without a run of their own:

- `#pushOnce` (`stateSync.ts:583`) sets `#storedVersion`, awaits the floor, then sets
  `#remote`, outside the queue that orders pulls. A pull of another install's later
  write in between leaves that write's version together with this install's own
  payload as the remote. `TakeoverNamesHolder` is the form that holds: its exception
  `raced` is this interleaving.
- When `mergeUnspentNotes` throws (`stateSync.ts:399`), the session already stands at
  the server's version while the local counters are unmerged; a later push uploads
  them.
- `ScanEngine.ts:31` says that a reorganisation shallower than `finalityDepth` never
  rewrites a path, but the head is asked for after the logs (79-97): logs of a block that is
  replaced in between are taken for final when the head has moved on, and nothing in
  the process undoes them; a restart does.
- `nextSelfEphemeral` (`KeyRepository.ts:75`) watches for the index it hands out only,
  and moves the scan index behind it. Indices another install used below it are not
  watched until a restart. With a window of 2: the other install mints 0 and 2, this one
  at 3 before its next scan, and the note at 2 is not found.
- `reconcile.ts:57` says itself that a restored wallet does not see what waits in the
  mempool; a tag that does may be handed out again.
- `deploy.ts:344` reads the log of grants and then awaits `hasRole` for those it names.
  A foreign administrator of the Timelock can grant a role to another account after
  the log was read and renounce before he is asked himself; the check passes.
- `plan.ts:127` promises the smallest covering sum at the minimal size; the code looks
  at runs of neighbours in the ascending list only. For 1, 3, 3, 6 and a target of 7
  it takes 3 and 6 where 1 and 6 cover. `Plan` models the code; `PlanHonest` claims no
  smallest sum, and is proved without one.
- `coordinatorAggregate` (`frost.ts:191`) compares the number of shares with the
  threshold, not with the commitments it was given: two good shares for a list of
  three are summed to a signature that does not verify. `AggregateSound` is about
  complete lists.
- `register-nodes.ts` with `REREGISTER_MISMATCHED` replaces a relayer that the
  guardian froze by one that is not frozen. `FrozenIsHeld` therefore excepts
  transactions of the Safe.
- `deploy-soka.ts` run again after a crash between the token and its record mints a
  second token.

## 4. Proofs

Every theorem holds for all values of the constants that satisfy the assumptions of
the module it is about (named `ASSUME`s, which TLC evaluates in every run of that
module): any number of assets, keys, owners, members, relayers, installs, requests
and transactions. The assumptions say that bounds are naturals, that special values
are outside the sets they are special to, and what the code validates before it
starts; no other hypothesis is used, but for those named below at public memos,
`PssTakesEffectOnce`, `ScanBelieves` and the note tree.

| Module | Theorem | States |
|---|---|---|
| `DarkPoolProofs` | `PoolTypes` | `[]TypeOK` |
| | `PoolNoDoubleSpend` | `[]NoDoubleSpend` |
| | `PoolComplianceCanOpen` | `[]ComplianceCanOpen` |
| | `PoolParents` | `[]ParentsTellTruth` |
| | `PoolKageSettles` | `[]KageSettlesIntent` |
| | `PoolHalts` | `HaltFreezesFunds` |
| | `PoolTimelocks` | `[]TimelockHolds` |
| | `PoolSolvency` | `[]Solvency` |
| | `PoolIsLedger` | `ImplementsLedger`, the refinement of `Utxo` |
| | `PoolTraceFaithful` | `[]TraceFaithful` |
| | `PoolNotesPayable` | `[]NotesPayable`: the checks behind `NotesRedeemable` |
| | `PoolMemosPayable` | `[]MemosPayable`: the checks behind `MemosRedeemable` |
| | `MemosBuiltPass` | `[]BuiltTransfersPass`: the checks behind `BuiltMemosAreSafe` |
| | `MemosScanOffers` | `[]ScanOffersClaims`: the checks behind `ScanAgreesWithPool` |
| `WalletScanProofs` | `ScanTyped` | `[]TypeInv`, the shape of chain, wallet and scan |
| | `ScanNeverResurrects` | `NeverResurrected` |
| | `ScanBelieves` | `[]BelievesTheChain` |
| `WalletSpendProofs` | `WalletTagsUnique` | `[]TagsUnique` |
| | `PlansAreHonest` | `[]PlanHonest` |
| | `TreeOpens` | `[]RootOpensItsLeavesOnly` |
| | `KnownRootsOpen` | `[]KnownRootsOpenLeavesOnly` |
| | `TreeAgrees` | `[]TreesAgree` |
| `MultisigProofs` | `MultisigNonceOnce` | `[]NonceOnce` |
| | `MultisigTagsOnce` | `[]TagsOnce`, a conjunct of `RecoveryFindsNotes` |
| | `MultisigRecovers` | `[]RecoveryFindsNotes` |
| `GovernanceProofs` | `GovernanceIndexesAgree` | `[]IndexesAgree` |
| | `GovernanceStakeBacked` | `[]StakeBacked` |
| | `GovernanceSafesOpenable` | `[]SafesOpenable` |
| | `GovernanceFrozenIsHeld` | `FrozenIsHeld` |
| `DeployProofs` | `DeployLatestIsGoverned` | `[]LatestIsGoverned` |
| | `DeployDiskKeepsUp` | `[]DiskKeepsUp` |
| `PssProofs` | `PssTakesEffectOnce` | `[]TakesEffectOnce` |
| | `PssInvitesConserved` | `[]InvitesConserved` |
| | `SyncIndexNeverIssuedTwice` | `[]IndexNeverIssuedTwice` |
| | `SyncNeverWedged` | `[]NeverWedged` |
| | `SyncTakeoverNamesHolder` | `TakeoverNamesHolder` |

`DataProofs` holds the lemmas about operators that the others share: quotients, sums over finite
sets, sequences and what their operators return, least and last numbers, and the
iteration that a fold performs. A sum or an iteration is a fold, that is a recursive
function, and the induction theorems of the library cannot be instantiated; these
lemmas go by the least counterexample instead (`MinimalSubset`: among the subsets of a
finite set for which a claim fails there is one of which no proper subset fails).

**The pool.** One inductive invariant, `PoolInv`, carries the first five theorems. Its
conjuncts are `NoDoubleSpend`, `ComplianceCanOpen`, `ParentsTellTruth`,
`KageSettlesIntent` and three parts that make them inductive. `WellFormed` adds to the
types that leaf 0 is the genesis leaf and every other leaf a note, and that an intent
spends a note of the tree, splits its value between the change and what the taker
asked for, and marks both with that parent and its own compliance key: without it a
swap that settles after a rotation could not be shown to be readable, honest about
its parents, or balanced. `SpentAreLeaves` says that every spent nullifier and every
input and output of the log belongs to an existing note, so that a leaf that is
appended is unspent. `KageShape` says that a swap has two inputs and inserts four notes
in a row. All entrypoints reduce to one lemma, `Transaction`: to consume fresh notes,
append honest ones under the current key and log both preserves `PoolInv`. Each
entrypoint has a lemma that shows it to be of that form. `PoolHalts` is a case split over
the actions. `PoolTimelocks` is an induction of its own around one lemma: a timelock that
fits a u64 is unchanged by truncation, and the residue of a timestamp is at most the
timestamp.

`PoolSolvency` and `PoolIsLedger` need what a transaction does to the sums. `LeavesMove`
says that it takes its inputs, all different, out of the unspent notes and adds its
outputs; `NotesMove` and `MemosMove` what that does to their worth; `PoolInv` gives the
values, circuit by circuit. The refinement is proved step by step: each entrypoint is
a step of the ledger that retires some coins and makes others of the same worth, up
to what enters or leaves the vault, and every other action is a stutter.

`PoolTraceFaithful` needs `Lineage` besides: each note was inserted by exactly one
transaction, a spend inserts some, and the note after one that hides its parents
comes from the same transaction and names them, which is what `bridgeHiddenParents`
relies on. From it one step of the tracer, forwards and backwards, is shown to report
only true edges, and all of them unless it says that it was cut short; that the
worklist stays inside the tree, and what it has in the end, comes from the lemmas
on iteration.

**What can leave the pool.** Four checked properties say that an entrypoint can be
called; they use `ENABLED`, which no backend supports. The theorems state what makes
them true: `WithdrawPasses`, `ClaimPasses` and `TransferPasses` list every check of
the entrypoint and its circuit (known root, fresh nullifier, verifier in place,
conservation in u128, balance, timestamp, timelock), and the lemmas `WithdrawTakes`,
`ClaimTakes` and `TransferTakes` show that with these, while the pool is open and has room, every
assignment of the effects is a step of the entrypoint, so that no check is left out. A note is
covered by the balance because `Solvency` makes the balance a sum of which the note is
one term (`NoteCovered`). A memo that is due passes because timelock and clock both fit
a u64 and are therefore not truncated: the three theorems about memos have the
hypothesis `MaxTime =< MAX_U64`, that is, until the block time outgrows a u64. In
`MemosScanOffers` the scan widens its target round by round, a fold; a round that
reaches a key moves the target past that key's window (`Widens`), so after as many
rounds as there are keys it has passed each key that was handed out within the
gaps (`TargetReaches`).

**The wallet's scan.** `ScanNeverResurrects` needs the types only: every way through a
pass, a repair included, is a fold of `addNote` and `markSpent`, and neither unmarks a note.
`ScanBelieves` compares the wallet with the blocks that stay: `Stable` is the length the
chain reached at most, less the depth of a reorganisation, and `LeavesUpTo(Stable)` only
ever grows, while the leaves of the chain itself may shrink. `SoundInv` says that the
tree, the notes and the spends the wallet holds are those of the stable blocks
(`Believes`), that what a scan has read is on the chain as it is now (`ReadOk`), and that
what the walk has left to apply is in stable blocks (`PassOk`); the step between the last
two is `readHead`, which keeps what is no later than `finalizedBlock`. `ReadOk` fails
when a block that was read is replaced before the head is, which is what `raced`
remembers, so the invariant is `TypeInv /\ (raced \/ SoundInv)` and `BelievesTheChain`
has that exception. The one hypothesis is `ReorgDepth =< FinalityDepth` (what the finality
depth is for). When blocks are replaced, what the RPC leaves out, when the process dies
and where a repair stops are not restricted. That a walk over logs sorted by
position, with a repair at each gap, only ever appends the next leaf of the chain is
`DataProofs`' induction over a fold.

**The wallet's tags.** `TagInv` follows an index from the counter (`ContextOk`) through the
batch (`PreflightOk`) and the handles of a job (`JobsOk`) to the mempool (`MempoolOk`) and
the tree (`LeavesOk`): indices are below the counter or `forgotten` with an earlier one, and
none but those is in two of these places, except that a candidate that was not
reconciled yet may be on chain. It also says that no
leaf was made under a key the context does not know, so that discovery reads all of
them when it reconciles, and that a job about to assemble has as many authorizations as
its step makes notes.

**Plans.** `PlansAreHonest` compares two computations that share no code path: what
`spendableBalance` adds up and what `planSpend` selects. `PurseInv`, on top of `TagInv`, says
that the leaves, the outputs in the mempool and what the steps of a job have left over
are naturals of the one asset, and that a job under way has a step to do; so the
unspent notes are a finite set with a place each (`Purse`), and from there the argument
is about any such set. `CandidatesAscend`: sorting yields each note worth something once, in
ascending order; `Plan` defines the order by rank (`inOrder`), which needs no induction over
insertions. `LastAreLargest`: no positions of an ascending list are worth more than as
many at its end, so no set of notes is worth more than as many of the largest
(`NoneWorthMore`), which makes the size `minimalCover` settles on minimal among all sets
and not only among the runs of neighbours it looks at (`CoverIs`). `Joined` follows the fold over the joins:
its last output is worth what all joined notes are. The one assumption is that
`dustFloor` and `maxSteps` of the policy are integers; `maxSteps` may be zero or below, in which
case a single note is still spent, as in the code.

**The note tree.** `TreeInv` says that the frontier holds, on each level where the next
leaf's position is odd, the node to its left in the full tree (`Frontier`), that the known
roots are those of the initial parts of the leaves (`ContractAgrees`), and that the wallet's
levels are those of the full tree over the leaves it replayed (`WalletAgrees`); the latest
root alone would not do, since a wallet that lags proves against an older one. Each loop is a
recursive function, so one lemma for each (`ClimbRounds` and its like) yields its values
level by level, and all else goes by `LevelInduction` over a set of levels, which needs no
operator parameter. `AppendedTree` is the heart of it: a leaf more changes one node per
level, the one above it, and that node is what the contract's loop has in hand
(`ClimbsToRoot`) and what the wallet writes (`InsertsNode`). `CircuitAccepts` follows a path up,
and `CircuitSound` follows any accepted run down again: from the root, the node in hand
on each level must be the node of the tree at the position that the bits left say. There the level
absorbed by each hash matters (`Under`: what stands on level l was made below it), since the
lean tree passes a lone node up unchanged; the mutant that drops the level breaks it.
`KnownRootsOpen` quantifies over all siblings a prover may make up, where the checked property
runs over the nodes of the tree. The hypothesis of the three, `HashesApart`, says that no
hash is a leaf or zero: hashes of tuples are taken as injective by the model, but leaves are
opaque to it. `PowersAssumption` states two facts of arithmetic about powers of two that the provers
do not know.

**Groups.** `SigningInv`: handles are only added, the lists of requests name handles
their signers made (`ListsName`), and what was sent was computed with a handle that is
consumed since and that the request's list names (`SentIsConsumed`). `TreasuryInv`: the
candidates in hand are below their member's counter, one of each (`Reserved`), and so are
the self notes on the chain, none of which a candidate repeats (`Spent`). Recovery needs
besides that every note on the chain has an ephemeral or an address of even y and a version
that was current once (`NotesShaped`), and says what the scanner does from there: reading
the chain matches what it has tags for and remembers the highest index
(`ReadChain`), widening adds all tags within a window past it (`SelfWidened`,
`IncomingWidened`: the roll over addresses of odd y may end past the target, but never
skips an address in use). While a note is not known, the least index not known of its kind has a
predecessor that is, so each pass knows one note more (`NewlyKnown`); after as many passes
as there are notes all are known, and the next finds them. `MultisigConstants` asks for finitely many
addresses of odd y, without which the roll need not end.

**Registry and governance.** `sound` says of the registry's storage that key owners,
roles, count, fingerprint and balance agree with the rows; each function has a lemma
that it keeps a sound registry sound, and a batch is a sequence of them. The scripts
need `FilesMatch` (the keys on disk are of the last generation made and the public owners
are of those keys), `ProcessesFit` and `MempoolFits` (what a process is doing, and what was
sent by processes that may be dead, belongs to the owners on disk) and `SafesFit`.

**Deployment.** The script reads what it deployed and hands it over while the holder of
the deployer's key may still act, between any two answers. `ReadsLast` is why its last check
means something. It starts from the moment the re-check reads the Timelock's log of
grants: if the set is not `contested`, the Timelock alone administers itself from then on,
so its roles are only given up and the log names everybody who holds one (`AllAsked`).
The answers are therefore right and stay right (`AnswersStand`, `SettledStays`). Once
proposers and executors are settled nobody schedules anything (`NothingScheduled`),
and the same argument carries over to the other contracts, whose administrator is the
Timelock.
`Vetted` says that the Safes are not the deployer, `LogComplete` that an upgrade or a
scheduled operation is always in the log the script reads, `LiveGoverned` that the set on
record is governed and stays so, and `DiskInTime` which files there are at each step.

**State server.** `Guarded`: a request that took effect is in the guard, and will not be
forgotten before its timestamp is stale, or its timestamp is stale already.
`PssTakesEffectOnce` has the hypothesis `MaxEffects =< maxTrackedReplays`: beyond its
capacity the guard evicts entries that are still fresh and the property is false, which
the code accepts and the hazards list. `InvitesInv` relates the spent codes to the rows
that were made, in the process and on the disk, since a power loss takes rows and burnt
invites back together.

**State client.** `SyncInv` has a part for each install, one for each message and one for
the indices handed out. `InstallOk`: the floor is not above the server's version; an
install that stands at the server's version has at least its counter (`CaughtUp`) and,
unless it raced, its payload as the remote (`KnowsHolder`); a grant is what its user
confirmed (`Granted`); the answer to a GET is the server's row or an older one
(`AnswersTrue`); and the write under way carries at least the counter of what it
overwrites (`WriteTrue`). `MessageOk`: a PUT on the wire that would be taken does too, and
comes from the holder, from one entitled to take over, or from one that raced; requests
of earlier lives of an install are messages nobody waits for. `IssuedOk`: indices handed
out, or granted and about to be, are below the server's counter and distinct.

### Only model-checked

- Liveness: `PauseEnds`, `NodesEventuallyServe`, `FindsEverything`, `PaymentCompletes`.
- `ENABLED`: `NotesRedeemable`, `MemosRedeemable`, `BuiltMemosAreSafe`, `ScanAgreesWithPool`,
  in this form; that every check they depend on passes is proved (above).
- What a recursion computes for every input: `CommitteeOpens`, `AggregateSound` (Lagrange
  interpolation over a field).

`TakeoverNeverAutomatic` is not a property of the code (see Findings).

## 5. Plan

1. `NoxRewardPool` with `NoxEntryPoint`: liabilities against the balance through
   classification, distribution, rescue and exit claims; each intent executed at
   most once and paid before it acts.
2. `BundleExecutor` and the Uniswap adaptor: nothing of a bundle stays behind.
3. `StateSync` with deletion, power loss and refused merges.

## 6. Not modelled, and why

Key derivation, encryption, hashing and the soundness of the proof system are
cryptography: the models take them as injective or sound. The verifiers are
generated. Prover, benchmarks, howl-protocol, client adaptors and the end-to-end
harness marshal data and keep no protocol state; so do the discovery codec and the
witness sources. Role management and proxies come from OpenZeppelin. The replay guard
beyond its capacity, and requests repeated across a restart, are accepted losses of
the server's design and are listed as hazards. The reward pool, the entry point and
the bundle executor have protocols worth modelling and come next. Of what is
modelled, these are left out: the span of indices a persistent counter store caches;
the encodings of FROST messages and the commit-and-reveal of the group's view key;
role management of the registry; the address book, labels and note pruning of the
state client.
