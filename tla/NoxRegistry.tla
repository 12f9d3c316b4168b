--------------------------- MODULE NoxRegistry ---------------------------
(***************************************************************************)
(* The relay registry (contracts/nox/NoxRegistry.sol): which addresses are *)
(* relayers, with which Sphinx key, stake and state.  Every function of    *)
(* the contract is a pair: what it requires of the storage (the reverts),  *)
(* and the storage it leaves, so that a batch of calls can be run as one   *)
(* transaction.                                                            *)
(*                                                                         *)
(* Abstracted: the three strings of a profile are one text, of which only  *)
(* equality matters; the fingerprint, the exclusive or of a hash of every  *)
(* address, is the set of addresses with symmetric difference in place of  *)
(* the exclusive or; the unlock time is whether it has passed.             *)
(***************************************************************************)
EXTENDS Integers, FiniteSets, FiniteSetsExt

CONSTANTS
  Addresses,      \* addresses that may become relayers
  Keys,           \* Sphinx keys
  Texts,          \* values of the urls
  Roles,          \* node roles, out of 1 to 3
  MaxStake,       \* bound: the most a relayer ever stakes
  MinStakes       \* minimum stakes the configuration may name

ASSUME RegistryConstants ==
  /\ IsFiniteSet(Addresses) /\ IsFiniteSet(Keys)
  /\ Roles \subseteq 1..3
  /\ MaxStake \in Nat /\ MinStakes \subseteq (Nat \ {0})

\* The zero address, which stands for nobody, is never a relayer: it sends no
\* transaction, and registerPrivileged refuses it.
ASSUME NobodyRegisters == "nobody" \notin Addresses

VARIABLE registry   \* the contract's storage

(***************************************************************************)
(* Storage                                                                 *)
(***************************************************************************)
Nobody == "nobody"
NoKey == "no key"

\* A row that was never written, or was deleted.
NoRelayer ==
  [status |-> "None", key |-> NoKey, text |-> "", stake |-> 0,
   unlocked |-> FALSE, frozen |-> FALSE]

EmptyRegistry(minStake) ==
  [relayers            |-> [a \in Addresses |-> NoRelayer],
   nodeRoles           |-> [a \in Addresses |-> 0],
   sphinxKeyOwner      |-> [k \in Keys |-> Nobody],
   relayerCount        |-> 0,
   topologyFingerprint |-> {},
   minStakeAmount      |-> minStake,
   balance             |-> 0,
   paused              |-> FALSE]

Row ==
  [status : {"None", "Registered", "Unstaking"}, key : Keys \cup {NoKey},
   text : Texts \cup {""}, stake : Nat, unlocked : BOOLEAN, frozen : BOOLEAN]

Storage ==
  [relayers : [Addresses -> Row], nodeRoles : [Addresses -> 0 .. 3],
   sphinxKeyOwner : [Keys -> Addresses \cup {Nobody}],
   relayerCount : Int, topologyFingerprint : SUBSET Addresses,
   minStakeAmount : Nat, balance : Int, paused : BOOLEAN]

isRegistered(r, a) == r.relayers[a].status # "None"
isActiveRelayer(r, a) == isRegistered(r, a) /\ ~r.relayers[a].frozen

xorAddressIntoFingerprint(fingerprint, a) ==
  (fingerprint \ {a}) \cup ({a} \ fingerprint)

(***************************************************************************)
(* Entering and leaving                                                    *)
(***************************************************************************)
\* Slip: a relayer that leaves keeps its Sphinx key.
removeRelayer_keyKept(r, a) ==
  [r EXCEPT !.relayers[a] = NoRelayer,
            !.nodeRoles[a] = 0,
            !.relayerCount = @ - 1,
            !.topologyFingerprint = xorAddressIntoFingerprint(@, a)]

removeRelayer(r, a) ==
  [r EXCEPT !.sphinxKeyOwner[r.relayers[a].key] = Nobody,
            !.relayers[a] = NoRelayer,
            !.nodeRoles[a] = 0,
            !.relayerCount = @ - 1,
            !.topologyFingerprint = xorAddressIntoFingerprint(@, a)]

addRelayer(r, a, key, text, role, stake) ==
  [r EXCEPT !.relayers[a] = [NoRelayer EXCEPT !.status = "Registered", !.key = key,
                                              !.text = text, !.stake = stake],
            !.sphinxKeyOwner[key] = a,
            !.nodeRoles[a] = role,
            !.relayerCount = @ + 1,
            !.topologyFingerprint = xorAddressIntoFingerprint(@, a),
            !.balance = @ + stake]

mayAdd(r, a, key) == ~isRegistered(r, a) /\ r.sphinxKeyOwner[key] = Nobody

register(a, key, text, role, stake) ==
  /\ ~registry.paused
  /\ mayAdd(registry, a, key)
  /\ stake >= registry.minStakeAmount
  /\ registry' = addRelayer(registry, a, key, text, role, stake)

(***************************************************************************)
(* What a relayer changes about itself                                     *)
(***************************************************************************)
\* updateUrl, updateIngressUrl and updateMetadataUrl.
updateUrl(a, text) ==
  /\ isRegistered(registry, a)
  /\ registry' = [registry EXCEPT !.relayers[a].text = text]

updateRole(a, role) ==
  /\ ~registry.paused /\ isRegistered(registry, a)
  /\ registry' = [registry EXCEPT !.nodeRoles[a] = role]

rotateKey(a, key) ==
  /\ ~registry.paused /\ isRegistered(registry, a)
  /\ registry.sphinxKeyOwner[key] = Nobody
  /\ registry' = [registry EXCEPT !.sphinxKeyOwner[registry.relayers[a].key] = Nobody,
                                  !.sphinxKeyOwner[key] = a,
                                  !.relayers[a].key = key]

addStake(a, amount) ==
  /\ ~registry.paused
  /\ registry.relayers[a].status = "Registered"
  /\ registry.relayers[a].stake + amount <= MaxStake
  /\ registry' = [registry EXCEPT !.relayers[a].stake = @ + amount,
                                  !.balance = @ + amount]

(***************************************************************************)
(* The way out: request, wait for the delay, take the stake                *)
(***************************************************************************)
requestUnstake(a) ==
  /\ ~registry.paused
  /\ registry.relayers[a].status = "Registered"
  /\ registry' = [registry EXCEPT !.relayers[a].status = "Unstaking",
                                  !.relayers[a].unlocked = FALSE]

\* Time reaches unlockTime.
unlockTimePasses(a) ==
  /\ registry.relayers[a].status = "Unstaking" /\ ~registry.relayers[a].unlocked
  /\ registry' = [registry EXCEPT !.relayers[a].unlocked = TRUE]

cancelUnstake(a) ==
  /\ ~registry.paused
  /\ registry.relayers[a].status = "Unstaking"
  /\ ~registry.relayers[a].frozen
  /\ registry' = [registry EXCEPT !.relayers[a].status = "Registered",
                                  !.relayers[a].unlocked = FALSE]

executeUnstake(a) ==
  LET row == registry.relayers[a] IN
  /\ row.status = "Unstaking" /\ ~row.frozen /\ row.unlocked
  /\ registry' = [removeRelayer(registry, a) EXCEPT !.balance = @ - row.stake]

(***************************************************************************)
(* Enforcement                                                             *)
(***************************************************************************)
mayFreeze(r, a) == isRegistered(r, a) /\ ~r.relayers[a].frozen
mayUnfreeze(r, a) == isRegistered(r, a) /\ r.relayers[a].frozen
setFrozen(r, a, frozen) == [r EXCEPT !.relayers[a].frozen = frozen]

\* Slip: a relayer slashed below the minimum loses its row, and what was
\* left of its stake stays in the contract.
slash_noRefund(a, amount) ==
  LET row == registry.relayers[a]
      taken == Min({amount, row.stake})
      left == row.stake - taken IN
  /\ isRegistered(registry, a) /\ taken > 0
  /\ registry' = IF left < registry.minStakeAmount
                 THEN [removeRelayer(registry, a) EXCEPT !.balance = @ - taken]
                 ELSE [registry EXCEPT !.relayers[a].stake = left, !.balance = @ - taken]

slash(a, amount) ==
  LET row == registry.relayers[a]
      taken == Min({amount, row.stake})
      left == row.stake - taken IN
  /\ isRegistered(registry, a) /\ taken > 0
  /\ registry' = IF left < registry.minStakeAmount
                 THEN [removeRelayer(registry, a) EXCEPT !.balance = @ - row.stake]
                 ELSE [registry EXCEPT !.relayers[a].stake = left, !.balance = @ - taken]

\* Slip: a frozen relayer can be removed, and gets its stake back.
removeUnderCollateralized_frozen(a) ==
  LET row == registry.relayers[a] IN
  /\ isRegistered(registry, a)
  /\ row.stake > 0 /\ row.stake < registry.minStakeAmount
  /\ registry' = [removeRelayer(registry, a) EXCEPT !.balance = @ - row.stake]

removeUnderCollateralized(a) ==
  LET row == registry.relayers[a] IN
  /\ isRegistered(registry, a) /\ ~row.frozen
  /\ row.stake > 0 /\ row.stake < registry.minStakeAmount
  /\ registry' = [removeRelayer(registry, a) EXCEPT !.balance = @ - row.stake]

(***************************************************************************)
(* Calls that arrive inside a transaction of a Safe or of the Timelock     *)
(***************************************************************************)
Calls ==
  [fn : {"registerPrivileged"}, a : Addresses, key : Keys, text : Texts, role : Roles]
    \cup [fn : {"forceUnregister", "freeze", "unfreeze"}, a : Addresses]
    \cup [fn : {"pause", "unpause"}]
    \cup [fn : {"updateConfig"}, minStake : MinStakes]

accepts(r, c) ==
  CASE c.fn = "registerPrivileged" -> mayAdd(r, c.a, c.key)
    [] c.fn = "forceUnregister" -> isRegistered(r, c.a)
    [] c.fn = "freeze" -> mayFreeze(r, c.a)
    [] c.fn = "unfreeze" -> mayUnfreeze(r, c.a)
    [] c.fn = "pause" -> ~r.paused
    [] c.fn = "unpause" -> r.paused
    [] c.fn = "updateConfig" -> TRUE

apply(r, c) ==
  CASE c.fn = "registerPrivileged" -> addRelayer(r, c.a, c.key, c.text, c.role, 0)
    [] c.fn = "forceUnregister" ->
         [removeRelayer(r, c.a) EXCEPT !.balance = @ - r.relayers[c.a].stake]
    [] c.fn = "freeze" -> setFrozen(r, c.a, TRUE)
    [] c.fn = "unfreeze" -> setFrozen(r, c.a, FALSE)
    [] c.fn = "pause" -> [r EXCEPT !.paused = TRUE]
    [] c.fn = "unpause" -> [r EXCEPT !.paused = FALSE]
    [] c.fn = "updateConfig" -> [r EXCEPT !.minStakeAmount = c.minStake]

(***************************************************************************)
(* Properties                                                              *)
(***************************************************************************)
registered(r) == {a \in Addresses : isRegistered(r, a)}

indexesAgree(r) ==
  /\ \A a \in registered(r) : /\ r.relayers[a].key \in Keys
                              /\ r.sphinxKeyOwner[r.relayers[a].key] = a
  /\ \A k \in Keys : r.sphinxKeyOwner[k] # Nobody =>
       /\ r.sphinxKeyOwner[k] \in registered(r)
       /\ r.relayers[r.sphinxKeyOwner[k]].key = k
  /\ r.relayerCount = Cardinality(registered(r))
  /\ r.topologyFingerprint = registered(r)
  /\ \A a \in Addresses : r.nodeRoles[a] # 0 <=> a \in registered(r)

stakeBacked(r) == r.balance = MapThenSumSet(LAMBDA a : r.relayers[a].stake, Addresses)

\* The four indexes over the relayers agree with the rows: a key belongs to
\* exactly the relayer that uses it, so no two relayers share one and none is
\* taken by a relayer that left; the count, the fingerprint and the roles are
\* those of the registered relayers.  Every way in and out of the registry,
\* and rotateKey, keeps them.
IndexesAgree == indexesAgree(registry)

\* The contract holds exactly the stakes of its relayers: register, addStake,
\* executeUnstake, slash, removeUnderCollateralized and forceUnregister move
\* the token and the rows together.
StakeBacked == stakeBacked(registry)
==========================================================================
