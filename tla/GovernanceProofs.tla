-------------------------- MODULE GovernanceProofs --------------------------
(***************************************************************************)
(* Whatever the relayers, the slasher and the scripts of several operators *)
(* do to the registry, die in the middle of, or race each other with: its  *)
(* indexes agree, it holds the stakes of its relayers, a frozen relayer's  *)
(* stake stays, and the Safes can be opened.  For all sets of addresses,   *)
(* keys and processes, every nodes file, and any first registry that       *)
(* itself agrees.                                                          *)
(***************************************************************************)
EXTENDS Governance, DataProofs

-----------------------------------------------------------------------------
(***************************************************************************)
(* The registry's functions.                                               *)
(***************************************************************************)

\* What every function of the contract keeps: the properties, and that a row
\* nobody has is empty.
sound(r) ==
    /\ r \in Storage /\ indexesAgree(r) /\ stakeBacked(r)
    /\ \A a \in Addresses \ registered(r) : r.relayers[a] = NoRelayer

stakes(r) == [a \in Addresses |-> r.relayers[a].stake]

\* The balance is the total of the stakes.
LEMMA StakesTotal ==
    ASSUME NEW r
    PROVE  stakeBacked(r) <=> r.balance = Total(stakes(r), Addresses)
<1>1. Total(stakes(r), Addresses) = MapThenSumSet(LAMBDA a : r.relayers[a].stake, Addresses)
  <2> DEFINE v == stakes(r)
             w == [a \in Addresses |-> r.relayers[a].stake]
  <2> QED BY DEF Total, MapThenSumSet, MapThenFoldSet, stakes
<1> QED BY <1>1 DEF stakeBacked

\* A new registry is sound.
LEMMA EmptyIsSound == ASSUME NEW minStake \in Nat PROVE sound(EmptyRegistry(minStake))
<1> DEFINE r == EmptyRegistry(minStake)
<1>1. NoRelayer \in Row
  BY DEF NoRelayer, Row
<1>2. r \in Storage
  BY <1>1 DEF EmptyRegistry, Storage
<1>3. registered(r) = {}
  BY DEF EmptyRegistry, registered, isRegistered, NoRelayer
<1>4. indexesAgree(r)
  BY <1>3, FS_EmptySet DEF EmptyRegistry, indexesAgree
<1>5. Total(stakes(r), Addresses) = 0
  <2>1. IsFiniteSet(Addresses)
    BY RegistryConstants
  <2>2. \A a \in Addresses : stakes(r)[a] = 0
    BY DEF stakes, EmptyRegistry, NoRelayer
  <2> HIDE DEF r
  <2>3. {} \subseteq Addresses /\ \A a \in Addresses : stakes(r)[a] \in Nat
    BY <2>2
  <2>4. Total(stakes(r), Addresses) = Total(stakes(r), {})
    BY <2>1, <2>2, <2>3, TotalZeros
  <2> QED BY <2>4, TotalEmpty
<1>6. stakeBacked(r)
  <2>1. r.balance = 0
    BY DEF EmptyRegistry
  <2> QED BY <1>5, <2>1, StakesTotal
<1> QED BY <1>2, <1>3, <1>4, <1>6 DEF sound, EmptyRegistry

\* Entering: register and registerPrivileged.
LEMMA AddKeepsSound ==
    ASSUME NEW r, sound(r), NEW a \in Addresses, NEW key \in Keys,
           NEW text \in Texts, NEW role \in Roles, NEW stake \in Nat, mayAdd(r, a, key)
    PROVE  sound(addRelayer(r, a, key, text, role, stake))
<1> DEFINE q == addRelayer(r, a, key, text, role, stake)
           row == [NoRelayer EXCEPT !.status = "Registered", !.key = key,
                                    !.text = text, !.stake = stake]
<1>1. /\ r \in Storage /\ indexesAgree(r) /\ a \notin registered(r) /\ r.sphinxKeyOwner[key] = Nobody
      /\ r.relayers[a] = NoRelayer
  BY DEF sound, mayAdd, registered
<1>2. row \in Row /\ row.status = "Registered" /\ row.key = key /\ row.stake = stake
  BY DEF Row, NoRelayer
<1> HIDE DEF row
<1>3. /\ q.relayers = [r.relayers EXCEPT ![a] = row]
      /\ q.sphinxKeyOwner = [r.sphinxKeyOwner EXCEPT ![key] = a]
      /\ q.nodeRoles = [r.nodeRoles EXCEPT ![a] = role]
      /\ q.relayerCount = r.relayerCount + 1
      /\ q.topologyFingerprint = xorAddressIntoFingerprint(r.topologyFingerprint, a)
      /\ q.balance = r.balance + stake
      /\ q.minStakeAmount = r.minStakeAmount /\ q.paused = r.paused
  BY <1>1 DEF addRelayer, Storage, row
<1>4. q \in Storage
  <2>1. /\ q.relayers \in [Addresses -> Row] /\ q.nodeRoles \in [Addresses -> 0 .. 3]
        /\ q.sphinxKeyOwner \in [Keys -> Addresses \cup {Nobody}]
        /\ q.relayerCount \in Int /\ q.balance \in Int
        /\ q.topologyFingerprint \in SUBSET Addresses
        /\ q.minStakeAmount \in Nat /\ q.paused \in BOOLEAN
    <3> HIDE DEF q
    <3>1. role \in 0 .. 3
      BY RegistryConstants
    <3> QED BY <1>1, <1>2, <1>3, <3>1 DEF Storage, xorAddressIntoFingerprint
  <2> QED BY <1>1, <2>1 DEF addRelayer, Storage
<1> HIDE DEF q
<1>5. registered(q) = registered(r) \cup {a}
  BY <1>1, <1>2, <1>3 DEF registered, isRegistered, Storage
<1>6. IsFiniteSet(registered(r))
  BY RegistryConstants, FS_Subset DEF registered
<1>7. Cardinality(registered(q)) = Cardinality(registered(r)) + 1
  BY <1>1, <1>5, <1>6, FS_AddElement
<1>8. indexesAgree(q)
  <2>1. \A b \in registered(q) : q.relayers[b].key \in Keys /\ q.sphinxKeyOwner[q.relayers[b].key] = b
    <3> SUFFICES ASSUME NEW b \in registered(q)
                 PROVE  q.relayers[b].key \in Keys /\ q.sphinxKeyOwner[q.relayers[b].key] = b
      OBVIOUS
    <3>1. CASE b = a
      BY <1>1, <1>2, <1>3, <3>1 DEF Storage
    <3>2. CASE b # a
      <4>1. b \in registered(r) /\ b \in Addresses /\ q.relayers[b] = r.relayers[b]
        BY <1>1, <1>3, <1>5, <3>2 DEF registered, Storage
      <4>2. r.relayers[b].key \in Keys /\ r.sphinxKeyOwner[r.relayers[b].key] = b
        BY <1>1, <4>1 DEF indexesAgree
      <4>3. r.relayers[b].key # key
        BY <1>1, <4>1, <4>2, NobodyRegisters DEF Nobody
      <4> QED BY <1>1, <1>3, <4>1, <4>2, <4>3 DEF Storage
    <3> QED BY <3>1, <3>2
  <2>2. \A k \in Keys : q.sphinxKeyOwner[k] # Nobody =>
          /\ q.sphinxKeyOwner[k] \in registered(q)
          /\ q.relayers[q.sphinxKeyOwner[k]].key = k
    BY <1>1, <1>2, <1>3, <1>5 DEF indexesAgree, Storage
  <2>3. q.relayerCount = Cardinality(registered(q))
    BY <1>1, <1>3, <1>7 DEF indexesAgree
  <2>4. q.topologyFingerprint = registered(q)
    BY <1>1, <1>3, <1>5 DEF indexesAgree, xorAddressIntoFingerprint
  <2>5. \A b \in Addresses : q.nodeRoles[b] # 0 <=> b \in registered(q)
    BY <1>1, <1>3, <1>5, RegistryConstants DEF indexesAgree, Storage
  <2> QED BY <2>1, <2>2, <2>3, <2>4, <2>5 DEF indexesAgree
<1>9. stakeBacked(q)
  <2>1. IsFiniteSet(Addresses) /\ r.balance = Total(stakes(r), Addresses)
    BY RegistryConstants, StakesTotal DEF sound
  <2>2. /\ \A b \in Addresses : stakes(r)[b] \in Nat /\ stakes(q)[b] \in Nat
        /\ SameOn(Addresses \ {a}, stakes(r), stakes(q))
        /\ stakes(r)[a] = 0 /\ stakes(q)[a] = stake
    <3>1. NoRelayer.stake = 0
      BY DEF NoRelayer
    <3> QED BY <1>1, <1>2, <1>3, <1>4, <3>1 DEF stakes, Storage, Row, SameOn
  <2>3. /\ Total(stakes(r), Addresses) \in Nat
        /\ Total(stakes(q), Addresses) = Total(stakes(r), Addresses) - stakes(r)[a] + stakes(q)[a]
    BY <2>1, <2>2, TotalChange
  <2>4. q.balance = Total(stakes(q), Addresses)
    BY <1>3, <2>1, <2>2, <2>3
  <2> QED BY <2>4, StakesTotal
<1>10. \A b \in Addresses \ registered(q) : q.relayers[b] = NoRelayer
  BY <1>1, <1>3, <1>5 DEF sound, Storage
<1> QED BY <1>4, <1>8, <1>9, <1>10 DEF sound, q

\* Leaving, with the stake: executeUnstake, slash below the minimum,
\* removeUnderCollateralized and forceUnregister.
removed(r, a) == [removeRelayer(r, a) EXCEPT !.balance = @ - r.relayers[a].stake]

LEMMA RemoveKeepsSound ==
    ASSUME NEW r, sound(r), NEW a \in registered(r)
    PROVE  sound(removed(r, a))
<1> DEFINE q == removed(r, a)
           key == r.relayers[a].key
<1>1. /\ r \in Storage /\ indexesAgree(r) /\ a \in Addresses
      /\ r.relayers[a] \in Row
  BY DEF sound, registered, Storage
<1>2. NoRelayer \in Row /\ NoRelayer.status = "None" /\ NoRelayer.stake = 0
  BY DEF Row, NoRelayer
<1>3. /\ q.relayers = [r.relayers EXCEPT ![a] = NoRelayer]
      /\ q.sphinxKeyOwner = [r.sphinxKeyOwner EXCEPT ![key] = Nobody]
      /\ q.nodeRoles = [r.nodeRoles EXCEPT ![a] = 0]
      /\ q.relayerCount = r.relayerCount - 1
      /\ q.topologyFingerprint = xorAddressIntoFingerprint(r.topologyFingerprint, a)
      /\ q.balance = r.balance - r.relayers[a].stake
      /\ q.minStakeAmount = r.minStakeAmount /\ q.paused = r.paused
  BY <1>1 DEF removed, removeRelayer, Storage
<1>4. q \in Storage
  <2>1. /\ q.relayers \in [Addresses -> Row] /\ q.nodeRoles \in [Addresses -> 0 .. 3]
        /\ q.sphinxKeyOwner \in [Keys -> Addresses \cup {Nobody}]
        /\ q.relayerCount \in Int /\ q.balance \in Int
        /\ q.topologyFingerprint \in SUBSET Addresses
        /\ q.minStakeAmount \in Nat /\ q.paused \in BOOLEAN
    <3> HIDE DEF q
    <3>1. r.relayers[a].stake \in Nat
      BY <1>1 DEF Row
    <3> HIDE DEF key
    <3>2. r \in Storage
      BY <1>1
    <3>3. /\ q.relayers \in [Addresses -> Row] /\ q.nodeRoles \in [Addresses -> 0 .. 3]
          /\ q.sphinxKeyOwner \in [Keys -> Addresses \cup {Nobody}]
      <4>1. /\ r.relayers \in [Addresses -> Row] /\ r.nodeRoles \in [Addresses -> 0 .. 3]
            /\ r.sphinxKeyOwner \in [Keys -> Addresses \cup {Nobody}]
        BY <3>2 DEF Storage
      <4>2. q.relayers \in [Addresses -> Row]
        BY <1>2, <1>3, <4>1
      <4>3. q.nodeRoles \in [Addresses -> 0 .. 3]
        <5>1. 0 \in 0 .. 3
          OBVIOUS
        <5>2. \A S : 0 \in S /\ r.nodeRoles \in [Addresses -> S] => q.nodeRoles \in [Addresses -> S]
          BY <1>3
        <5> QED BY <4>1, <5>1, <5>2
      <4>4. q.sphinxKeyOwner \in [Keys -> Addresses \cup {Nobody}]
        BY <1>3, <4>1
      <4> QED BY <4>2, <4>3, <4>4
    <3>4. q.topologyFingerprint \in SUBSET Addresses
      BY <1>1, <1>3, <3>2 DEF Storage, xorAddressIntoFingerprint
    <3> QED BY <1>3, <3>1, <3>2, <3>3, <3>4 DEF Storage
  <2> QED BY <1>1, <2>1 DEF removed, removeRelayer, Storage
<1> HIDE DEF q
<1>5. registered(q) = registered(r) \ {a}
  BY <1>1, <1>2, <1>3 DEF registered, isRegistered, Storage
<1>6. IsFiniteSet(registered(r))
  BY RegistryConstants, FS_Subset DEF registered
<1>7. Cardinality(registered(q)) = Cardinality(registered(r)) - 1
  BY <1>5, <1>6, FS_RemoveElement
<1>8. indexesAgree(q)
  <2>1. \A b \in registered(q) : q.relayers[b].key \in Keys /\ q.sphinxKeyOwner[q.relayers[b].key] = b
    BY <1>1, <1>2, <1>3, <1>5 DEF indexesAgree, Storage, registered
  <2>2. \A k \in Keys : q.sphinxKeyOwner[k] # Nobody =>
          /\ q.sphinxKeyOwner[k] \in registered(q)
          /\ q.relayers[q.sphinxKeyOwner[k]].key = k
    BY <1>1, <1>3, <1>5 DEF indexesAgree, Storage
  <2>3. q.relayerCount = Cardinality(registered(q))
    BY <1>1, <1>3, <1>7 DEF indexesAgree
  <2>4. q.topologyFingerprint = registered(q)
    BY <1>1, <1>3, <1>5 DEF indexesAgree, xorAddressIntoFingerprint
  <2>5. \A b \in Addresses : q.nodeRoles[b] # 0 <=> b \in registered(q)
    BY <1>1, <1>3, <1>5 DEF indexesAgree, Storage
  <2> QED BY <2>1, <2>2, <2>3, <2>4, <2>5 DEF indexesAgree
<1>9. stakeBacked(q)
  <2>1. IsFiniteSet(Addresses) /\ r.balance = Total(stakes(r), Addresses)
    BY RegistryConstants, StakesTotal DEF sound
  <2>2. /\ \A b \in Addresses : stakes(r)[b] \in Nat /\ stakes(q)[b] \in Nat
        /\ SameOn(Addresses \ {a}, stakes(r), stakes(q))
        /\ stakes(r)[a] = r.relayers[a].stake /\ stakes(q)[a] = 0
    BY <1>1, <1>2, <1>3, <1>4 DEF stakes, Storage, Row, SameOn
  <2>3. /\ Total(stakes(r), Addresses) \in Nat
        /\ Total(stakes(q), Addresses) = Total(stakes(r), Addresses) - stakes(r)[a] + stakes(q)[a]
    BY <1>1, <2>1, <2>2, TotalChange
  <2>4. q.balance = Total(stakes(q), Addresses)
    BY <1>1, <1>3, <2>1, <2>2, <2>3
  <2> QED BY <2>4, StakesTotal
<1>10. \A b \in Addresses \ registered(q) : q.relayers[b] = NoRelayer
  BY <1>1, <1>3, <1>5 DEF sound, Storage
<1> QED BY <1>4, <1>8, <1>9, <1>10 DEF sound, q

\* Changing a relayer's row but not its key, and the balance with its stake.
LEMMA RowKeepsSound ==
    ASSUME NEW r, sound(r), NEW q \in Storage, NEW a \in registered(r),
           NEW row \in Row, row.status # "None", row.key = r.relayers[a].key,
           q.relayers = [r.relayers EXCEPT ![a] = row],
           q.sphinxKeyOwner = r.sphinxKeyOwner, q.nodeRoles = r.nodeRoles,
           q.relayerCount = r.relayerCount, q.topologyFingerprint = r.topologyFingerprint,
           q.balance = r.balance - r.relayers[a].stake + row.stake
    PROVE  sound(q)
<1>1. r \in Storage /\ indexesAgree(r) /\ a \in Addresses
  BY DEF sound, registered
<1>2. registered(q) = registered(r)
  BY <1>1 DEF registered, isRegistered, Storage
<1>3. indexesAgree(q)
  BY <1>1, <1>2 DEF indexesAgree, Storage
<1>4. stakeBacked(q)
  <2>1. IsFiniteSet(Addresses) /\ r.balance = Total(stakes(r), Addresses)
    BY RegistryConstants, StakesTotal DEF sound
  <2>2. /\ \A b \in Addresses : stakes(r)[b] \in Nat /\ stakes(q)[b] \in Nat
        /\ SameOn(Addresses \ {a}, stakes(r), stakes(q))
        /\ stakes(r)[a] = r.relayers[a].stake /\ stakes(q)[a] = row.stake
    BY <1>1 DEF stakes, Storage, Row, SameOn
  <2>3. /\ Total(stakes(r), Addresses) \in Nat
        /\ Total(stakes(q), Addresses) = Total(stakes(r), Addresses) - stakes(r)[a] + stakes(q)[a]
    BY <1>1, <2>1, <2>2, TotalChange
  <2>4. q.balance = Total(stakes(q), Addresses)
    BY <2>1, <2>2, <2>3
  <2> QED BY <2>4, StakesTotal
<1>5. \A b \in Addresses \ registered(q) : q.relayers[b] = NoRelayer
  BY <1>1, <1>2 DEF sound, Storage
<1> QED BY <1>3, <1>4, <1>5 DEF sound

\* Changing nothing of the relayers.
LEMMA ConfigKeepsSound ==
    ASSUME NEW r, sound(r), NEW q \in Storage,
           q.relayers = r.relayers, q.sphinxKeyOwner = r.sphinxKeyOwner,
           q.relayerCount = r.relayerCount, q.topologyFingerprint = r.topologyFingerprint,
           q.balance = r.balance,
           \A a \in Addresses : q.nodeRoles[a] # 0 <=> r.nodeRoles[a] # 0
    PROVE  sound(q)
<1>1. registered(q) = registered(r) /\ stakes(q) = stakes(r)
  BY DEF registered, isRegistered, stakes
<1>2. stakeBacked(q)
  BY <1>1, StakesTotal DEF sound
<1> QED BY <1>1, <1>2 DEF sound, indexesAgree

\* A call of a Safe or of the Timelock that is accepted.
LEMMA CallKeepsSound ==
    ASSUME NEW r, sound(r), NEW c \in Calls, accepts(r, c)
    PROVE  sound(apply(r, c))
<1>1. r \in Storage
  BY DEF sound
<1>2. CASE c.fn = "registerPrivileged"
  <2>1. c.a \in Addresses /\ c.key \in Keys /\ c.text \in Texts /\ c.role \in Roles
    BY <1>2 DEF Calls
  <2>2. mayAdd(r, c.a, c.key) /\ apply(r, c) = addRelayer(r, c.a, c.key, c.text, c.role, 0)
    BY <1>2 DEF accepts, apply
  <2> QED BY <2>1, <2>2, AddKeepsSound
<1>3. CASE c.fn = "forceUnregister"
  <2>1. c.a \in registered(r)
    BY <1>3 DEF Calls, accepts, registered
  <2>2. apply(r, c) = removed(r, c.a)
    BY <1>3 DEF apply, removed
  <2> QED BY <2>1, <2>2, RemoveKeepsSound
<1>4. CASE c.fn \in {"freeze", "unfreeze"}
  <2>1. c.a \in registered(r)
    BY <1>4 DEF Calls, accepts, registered, mayFreeze, mayUnfreeze
  <2>2. PICK b \in BOOLEAN : apply(r, c) = [r EXCEPT !.relayers[c.a].frozen = b]
    BY <1>4 DEF apply, setFrozen
  <2> DEFINE row == [r.relayers[c.a] EXCEPT !.frozen = b]
             q == [r EXCEPT !.relayers[c.a].frozen = b]
  <2>3. /\ r.relayers[c.a] \in Row /\ row \in Row /\ row.key = r.relayers[c.a].key
        /\ row.status = r.relayers[c.a].status /\ row.stake = r.relayers[c.a].stake
    <3>1. r.relayers[c.a] \in Row
      BY <1>1, <2>1 DEF Storage, registered
    <3> QED BY <3>1 DEF Row
  <2>4. /\ q \in Storage /\ q.relayers = [r.relayers EXCEPT ![c.a] = row]
        /\ q.sphinxKeyOwner = r.sphinxKeyOwner /\ q.nodeRoles = r.nodeRoles
        /\ q.relayerCount = r.relayerCount /\ q.topologyFingerprint = r.topologyFingerprint
        /\ q.balance = r.balance
    BY <1>1, <2>3 DEF Storage
  <2>5. q.balance = r.balance - r.relayers[c.a].stake + row.stake /\ row.status # "None"
    <3>1. row.status # "None"
      BY <2>1, <2>3 DEF registered, isRegistered
    <3>2. r.balance \in Int /\ row.stake \in Nat
      BY <1>1, <2>3 DEF Storage, Row
    <3> HIDE DEF q, row
    <3> QED BY <2>3, <2>4, <3>1, <3>2
  <2> HIDE DEF q, row
  <2>6. sound(q)
    BY <2>1, <2>3, <2>4, <2>5, RowKeepsSound
  <2> QED BY <2>2, <2>6 DEF q
<1>5. CASE c.fn \in {"pause", "unpause"}
  <2>1. PICK b \in BOOLEAN : apply(r, c) = [r EXCEPT !.paused = b]
    BY <1>5 DEF apply
  <2> QED BY <1>1, <2>1, ConfigKeepsSound DEF Storage
<1>6. CASE c.fn = "updateConfig"
  <2>1. c.minStake \in Nat /\ apply(r, c) = [r EXCEPT !.minStakeAmount = c.minStake]
    BY <1>6, RegistryConstants DEF Calls, apply
  <2> QED BY <1>1, <2>1, ConfigKeepsSound DEF Storage
<1> QED BY <1>2, <1>3, <1>4, <1>5, <1>6 DEF Calls

\* A batch of calls, or a MultiSend: all or none.
LEMMA BatchKeepsSound ==
    ASSUME sound(registry), NEW calls \in Seq(Calls)
    PROVE  sound(runCalls(calls).reg)
<1> DEFINE n == Len(calls)
           base == [ok |-> TRUE, reg |-> registry]
           next(acc, c) == IF acc.ok /\ accepts(acc.reg, c)
                           THEN [acc EXCEPT !.reg = apply(acc.reg, c)]
                           ELSE [acc EXCEPT !.ok = FALSE]
           Good == {acc \in [ok : BOOLEAN, reg : Storage] : sound(acc.reg)}
           F(f) == f = [s \in SUBSET (1 .. n) |->
                          IF s = {} THEN base ELSE next(f[s \ {Max(s)}], calls[Max(s)])]
<1>1. n \in Nat /\ DOMAIN calls = 1 .. n /\ \A k \in 1 .. n : calls[k] \in Calls
  OBVIOUS
<1>2. runCalls(calls) = (CHOOSE f : F(f))[1 .. n]
  BY <1>1 DEF runCalls, FoldLeft, MapThenFoldSet
<1>3. base \in Good
  BY DEF sound
<1>4. \A acc \in Good, c \in Calls : next(acc, c) \in Good
  BY CallKeepsSound DEF sound
<1> DEFINE P == 1 .. n
           take == [s \in SUBSET P |-> Max(s)]
           step == [xa \in P \X Good |-> next(xa[2], calls[xa[1]])]
<1>5. IsFiniteSet(P) /\ Takes(take, P)
  BY <1>1, Positions
<1>6. \A x \in P, acc \in Good : step[<<x, acc>>] = next(acc, calls[x]) /\ step[<<x, acc>>] \in Good
  BY <1>1, <1>4
<1>7. \A s \in SUBSET P : s # {} => take[s] = Max(s) /\ take[s] \in P
  BY <1>5 DEF Takes
<1>8. \A s \in SUBSET P : IsFiniteSet(s) /\ Takes(take, s)
  BY <1>5, FS_Subset DEF Takes
<1>9. \E f : F(f)
  <2>1. PICK f : FoldFn(f, base, step, take, P)
    <3> HIDE DEF P, take, step, base
    <3> QED BY <1>5, FoldFnExists
  <2>2. /\ f = [s \in SUBSET P |-> f[s]]
        /\ \A s \in SUBSET P : f[s] = IF s = {} THEN base ELSE step[<<take[s], f[s \ {take[s]}]>>]
    <3> HIDE DEF P, take, step, base
    <3> QED BY <2>1 DEF FoldFn
  <2>3. \A s \in SUBSET P : f[s] \in Good
    <3> SUFFICES ASSUME NEW S \in SUBSET P PROVE f[S] \in Good
      OBVIOUS
    <3> HIDE DEF P, take, step, base, Good, next
    <3>1. f[{}] \in Good
      BY <1>3, <2>2
    <3>2. \A s \in SUBSET S : s # {} /\ f[s \ {take[s]}] \in Good => f[s] \in Good
      BY <1>6, <1>7, <2>2
    <3> QED BY <1>8, <3>1, <3>2, FoldKeeps
  <2>4. \A s \in SUBSET P : f[s] = IF s = {} THEN base ELSE next(f[s \ {Max(s)}], calls[Max(s)])
    <3> HIDE DEF P, take, step, base, Good, next
    <3>1. \A s \in SUBSET P : s # {} => s \ {take[s]} \in SUBSET P
      OBVIOUS
    <3> QED BY <1>6, <1>7, <2>2, <2>3, <3>1
  <2> HIDE DEF take, step, base, Good, next
  <2>5. F(f)
    BY <2>2, <2>4
  <2> QED BY <2>5
<1> DEFINE g == CHOOSE f : F(f)
<1>10. F(g)
  <2> HIDE DEF F
  <2> QED BY <1>9
<1>11. \A s \in SUBSET P : g[s] = IF s = {} THEN base ELSE next(g[s \ {Max(s)}], calls[Max(s)])
  <2> HIDE DEF g, base, next
  <2> QED BY <1>10
<1>12. g[P] \in Good
  <2> HIDE DEF g, F, P, take, step, base, Good, next
  <2>1. g[{}] \in Good
    BY <1>3, <1>11
  <2>2. \A s \in SUBSET P : s # {} /\ g[s \ {take[s]}] \in Good => g[s] \in Good
    <3> SUFFICES ASSUME NEW s \in SUBSET P, s # {}, g[s \ {take[s]}] \in Good
                 PROVE  g[s] \in Good
      OBVIOUS
    <3>1. g[s] = next(g[s \ {take[s]}], calls[take[s]])
      BY <1>7, <1>11
    <3>2. calls[take[s]] \in Calls
      BY <1>1, <1>7 DEF P
    <3> QED BY <1>4, <3>1, <3>2
  <2> QED BY <1>5, <2>1, <2>2, FoldKeeps
<1>13. runCalls(calls) = g[P]
  <2> HIDE DEF F
  <2> QED BY <1>2
<1> HIDE DEF g, P
<1> QED BY <1>12, <1>13

-----------------------------------------------------------------------------
(***************************************************************************)
(* What relayers and the slasher do to the registry.                       *)
(***************************************************************************)

\* A step that writes one relayer's row, and moves the difference of its stake.
Writes(a, row) ==
    /\ a \in registered(registry) /\ row \in Row
    /\ row.status # "None" /\ row.key = registry.relayers[a].key
    /\ registry' = [registry EXCEPT !.relayers[a] = row,
                      !.balance = registry.balance - registry.relayers[a].stake + row.stake]

LEMMA WritesKeeps ==
    ASSUME sound(registry), NEW a, NEW row, Writes(a, row)
    PROVE  sound(registry')
<1> DEFINE r == registry
           q == [r EXCEPT !.relayers[a] = row,
                          !.balance = r.balance - r.relayers[a].stake + row.stake]
<1>1. /\ r \in Storage /\ a \in Addresses /\ a \in registered(r) /\ row \in Row
      /\ row.status # "None" /\ row.key = r.relayers[a].key
  BY DEF sound, Writes, registered
<1>2. r.relayers[a].stake \in Nat /\ row.stake \in Nat /\ r.balance \in Int
  BY <1>1 DEF Storage, Row
<1>3. PICK b \in Int : b = r.balance - r.relayers[a].stake + row.stake
  BY <1>2
<1>4. q = [r EXCEPT !.relayers[a] = row, !.balance = b]
  BY <1>3
<1> HIDE DEF q
<1>5. /\ q \in Storage /\ q.relayers = [r.relayers EXCEPT ![a] = row]
      /\ q.sphinxKeyOwner = r.sphinxKeyOwner /\ q.nodeRoles = r.nodeRoles
      /\ q.relayerCount = r.relayerCount /\ q.topologyFingerprint = r.topologyFingerprint
      /\ q.balance = b
  BY <1>1, <1>4 DEF Storage
<1>6. sound(q)
  BY <1>1, <1>3, <1>5, RowKeepsSound
<1> QED BY <1>6 DEF Writes, q

\* Each of these functions is such a step.
LEMMA RowFunctions ==
    ASSUME sound(registry), NEW a \in Addresses,
           \/ \E t \in Texts : updateUrl(a, t)
           \/ \E amount \in Nat : addStake(a, amount)
           \/ requestUnstake(a) \/ unlockTimePasses(a) \/ cancelUnstake(a)
    PROVE  \E row : Writes(a, row) /\ row.stake >= registry.relayers[a].stake
<1> DEFINE old == registry.relayers[a]
<1>1. registry \in Storage /\ old \in Row
  BY DEF sound, Storage
<1>2. PICK bal \in Int : bal = registry.balance
  BY <1>1 DEF Storage
<1>3. PICK st \in Nat : st = old.stake
  BY <1>1 DEF Row
<1>4. \A row : (/\ row \in Row /\ row.status # "None" /\ row.key = old.key /\ row.stake = st
                /\ old.status # "None"
                /\ registry' = [registry EXCEPT !.relayers[a] = row])
              => Writes(a, row) /\ row.stake >= old.stake
  <2> SUFFICES ASSUME NEW row, row \in Row, row.status # "None", row.key = old.key,
                      row.stake = st, old.status # "None",
                      registry' = [registry EXCEPT !.relayers[a] = row]
               PROVE  Writes(a, row) /\ row.stake >= old.stake
    OBVIOUS
  <2>1. bal - old.stake + row.stake = bal /\ row.stake >= old.stake
    BY <1>3
  <2>2. registry' = [registry EXCEPT !.relayers[a] = row, !.balance = bal]
    BY <1>1, <1>2 DEF Storage
  <2>3. a \in registered(registry)
    BY DEF registered, isRegistered
  <2> QED BY <1>2, <2>1, <2>2, <2>3 DEF Writes
<1>5. CASE \E t \in Texts : updateUrl(a, t)
  <2>1. PICK t \in Texts : updateUrl(a, t)
    BY <1>5
  <2> DEFINE row == [old EXCEPT !.text = t]
  <2>2. /\ row \in Row /\ row.status = old.status /\ row.key = old.key /\ row.stake = st
    BY <1>1, <1>3 DEF Row
  <2>3. old.status # "None" /\ registry' = [registry EXCEPT !.relayers[a] = row]
    BY <2>1 DEF updateUrl, isRegistered
  <2> HIDE DEF row
  <2>4. Writes(a, row) /\ row.stake >= old.stake
    BY <1>1, <1>4, <2>2, <2>3
  <2> QED BY <2>4
<1>6. CASE requestUnstake(a)
  <2> DEFINE row == [old EXCEPT !.status = "Unstaking", !.unlocked = FALSE]
  <2>2. /\ row \in Row /\ row.status # "None" /\ row.key = old.key /\ row.stake = st
    BY <1>1, <1>3 DEF Row
  <2>3. old.status # "None" /\ registry' = [registry EXCEPT !.relayers[a] = row]
    BY <1>6 DEF requestUnstake
  <2> HIDE DEF row
  <2>4. Writes(a, row) /\ row.stake >= old.stake
    BY <1>1, <1>4, <2>2, <2>3
  <2> QED BY <2>4
<1>7. CASE unlockTimePasses(a)
  <2> DEFINE row == [old EXCEPT !.unlocked = TRUE]
  <2>2. /\ row \in Row /\ row.status = old.status /\ row.key = old.key /\ row.stake = st
    BY <1>1, <1>3 DEF Row
  <2>3. old.status # "None" /\ registry' = [registry EXCEPT !.relayers[a] = row]
    BY <1>7 DEF unlockTimePasses
  <2> HIDE DEF row
  <2>4. Writes(a, row) /\ row.stake >= old.stake
    BY <1>1, <1>4, <2>2, <2>3
  <2> QED BY <2>4
<1>8. CASE cancelUnstake(a)
  <2> DEFINE row == [old EXCEPT !.status = "Registered", !.unlocked = FALSE]
  <2>2. /\ row \in Row /\ row.status # "None" /\ row.key = old.key /\ row.stake = st
    BY <1>1, <1>3 DEF Row
  <2>3. old.status # "None" /\ registry' = [registry EXCEPT !.relayers[a] = row]
    BY <1>8 DEF cancelUnstake
  <2> HIDE DEF row
  <2>4. Writes(a, row) /\ row.stake >= old.stake
    BY <1>1, <1>4, <2>2, <2>3
  <2> QED BY <2>4
<1>9. CASE \E amount \in Nat : addStake(a, amount)
  <2>1. PICK amount \in Nat : addStake(a, amount)
    BY <1>9
  <2>2. PICK new \in Nat : new = st + amount
    OBVIOUS
  <2> DEFINE row == [old EXCEPT !.stake = new]
  <2>3. /\ row \in Row /\ row.status = old.status /\ row.key = old.key /\ row.stake = new
    BY <1>1 DEF Row
  <2>4. /\ old.status = "Registered"
        /\ registry' = [registry EXCEPT !.relayers[a].stake = old.stake + amount,
                                        !.balance = registry.balance + amount]
    BY <2>1 DEF addStake
  <2>5. registry' = [registry EXCEPT !.relayers[a] = row, !.balance = bal + amount]
    BY <1>2, <1>3, <2>2, <2>4
  <2>6. bal + amount = bal - old.stake + row.stake /\ row.stake >= old.stake
    BY <1>3, <2>2, <2>3
  <2>7. a \in registered(registry)
    BY <2>4 DEF registered, isRegistered
  <2> HIDE DEF row, old
  <2> QED BY <1>2, <2>3, <2>4, <2>5, <2>6, <2>7 DEF Writes, old
<1> QED BY <1>5, <1>6, <1>7, <1>8, <1>9

\* rotateKey gives the old key up and takes one that is free.
LEMMA RotateKeepsSound ==
    ASSUME sound(registry), NEW a \in Addresses, NEW key \in Keys, rotateKey(a, key)
    PROVE  /\ sound(registry')
           /\ \A b \in Addresses : registry'.relayers[b].stake = registry.relayers[b].stake
<1> DEFINE r == registry
           q == registry'
           old == r.relayers[a].key
           row == [r.relayers[a] EXCEPT !.key = key]
<1>1. /\ r \in Storage /\ indexesAgree(r) /\ a \in registered(r) /\ r.sphinxKeyOwner[key] = Nobody
      /\ r.relayers[a] \in Row
  BY DEF sound, rotateKey, registered, Storage
<1>2. row \in Row /\ row.key = key /\ row.status = r.relayers[a].status /\ row.stake = r.relayers[a].stake
  BY <1>1 DEF Row
<1>3. q = [r EXCEPT !.sphinxKeyOwner = [[r.sphinxKeyOwner EXCEPT ![old] = Nobody] EXCEPT ![key] = a],
                    !.relayers[a] = row]
  BY <1>1 DEF rotateKey, Storage
<1>4. PICK owners \in [Keys -> Addresses \cup {Nobody}] :
        owners = [[r.sphinxKeyOwner EXCEPT ![old] = Nobody] EXCEPT ![key] = a]
  BY <1>1 DEF Storage
<1>5. /\ q.relayers = [r.relayers EXCEPT ![a] = row] /\ q.sphinxKeyOwner = owners
      /\ q.nodeRoles = r.nodeRoles /\ q.relayerCount = r.relayerCount
      /\ q.topologyFingerprint = r.topologyFingerprint /\ q.balance = r.balance
      /\ q \in Storage
  BY <1>1, <1>2, <1>3, <1>4 DEF Storage
<1> HIDE DEF q, row
<1>6. registered(q) = registered(r)
  BY <1>1, <1>2, <1>5 DEF registered, isRegistered, Storage
<1>7. \A b \in Addresses : q.relayers[b].stake = r.relayers[b].stake
  BY <1>1, <1>2, <1>5 DEF Storage
<1>8. /\ owners[key] = a
      /\ \A k \in Keys : k # key /\ k # old => owners[k] = r.sphinxKeyOwner[k]
      /\ old # key => owners[old] = Nobody \/ old \notin Keys
  BY <1>1, <1>4 DEF Storage
<1>9. /\ a \in Addresses /\ r.sphinxKeyOwner[old] = a /\ a # Nobody
      /\ \A b \in registered(r) : b # a => r.relayers[b].key # old /\ r.relayers[b].key # key
      /\ q.relayers[a].key = key
      /\ \A b \in registered(r) : b # a => q.relayers[b] = r.relayers[b]
  BY <1>1, <1>2, <1>5, NobodyRegisters DEF indexesAgree, registered, Nobody, Storage
<1>10. \A b \in registered(q) : q.relayers[b].key \in Keys /\ q.sphinxKeyOwner[q.relayers[b].key] = b
  <2> SUFFICES ASSUME NEW b \in registered(r)
               PROVE  q.relayers[b].key \in Keys /\ owners[q.relayers[b].key] = b
    BY <1>5, <1>6
  <2>1. CASE b = a
    BY <1>8, <1>9, <2>1
  <2>2. CASE b # a
    <3>1. r.sphinxKeyOwner[r.relayers[b].key] = b
      BY <1>1 DEF indexesAgree
    <3>2. r.relayers[b].key \in Keys
      BY <1>1 DEF indexesAgree
    <3> QED BY <1>8, <1>9, <2>2, <3>1, <3>2
  <2> QED BY <2>1, <2>2
<1>11. \A k \in Keys : q.sphinxKeyOwner[k] # Nobody =>
         /\ q.sphinxKeyOwner[k] \in registered(q)
         /\ q.relayers[q.sphinxKeyOwner[k]].key = k
  <2> SUFFICES ASSUME NEW k \in Keys, owners[k] # Nobody
               PROVE  owners[k] \in registered(r) /\ q.relayers[owners[k]].key = k
    BY <1>5, <1>6
  <2>1. CASE k = key
    BY <1>1, <1>8, <1>9, <2>1
  <2>2. CASE k # key
    <3>1. k # old /\ owners[k] = r.sphinxKeyOwner[k]
      BY <1>8, <2>2
    <3>2. owners[k] \in registered(r) /\ r.relayers[owners[k]].key = k
      BY <1>1, <3>1 DEF indexesAgree
    <3>3. owners[k] # a
      BY <3>1, <3>2
    <3> QED BY <1>9, <3>2, <3>3
  <2> QED BY <2>1, <2>2
<1>12. indexesAgree(q)
  BY <1>1, <1>5, <1>6, <1>10, <1>11 DEF indexesAgree
<1>13. stakeBacked(q)
  <2>1. stakes(q) = stakes(r)
    BY <1>7 DEF stakes
  <2> QED BY <1>5, <2>1, StakesTotal DEF sound
<1>14. \A b \in Addresses \ registered(q) : q.relayers[b] = NoRelayer
  BY <1>1, <1>5, <1>6 DEF sound, Storage
<1> QED BY <1>5, <1>7, <1>12, <1>13, <1>14 DEF sound, q

\* Of two numbers the smaller is one.
LEMMA MinOfTwo ==
    ASSUME NEW x \in Nat, NEW y \in Nat
    PROVE  Min({x, y}) \in {x, y} /\ Min({x, y}) <= x /\ Min({x, y}) <= y
<1>1. \E z \in {x, y} : \A w \in {x, y} : z =< w
  <2>1. CASE x =< y
    BY <2>1
  <2>2. CASE y =< x
    BY <2>2
  <2> QED BY <2>1, <2>2
<1>2. Min({x, y}) \in {x, y} /\ \A w \in {x, y} : Min({x, y}) =< w
  BY <1>1 DEF Min
<1> QED BY <1>2

\* A slash takes from the stake, or with it the relayer.
LEMMA SlashKeepsSound ==
    ASSUME sound(registry), NEW a \in Addresses, NEW amount \in Nat, slash(a, amount)
    PROVE  /\ sound(registry')
           /\ \A b \in Addresses \ {a} : registry'.relayers[b] = registry.relayers[b]
<1> DEFINE old == registry.relayers[a]
           taken == Min({amount, old.stake})
           row == [old EXCEPT !.stake = old.stake - taken]
<1>1. /\ registry \in Storage /\ old \in Row /\ a \in registered(registry)
  BY DEF sound, Storage, slash, registered
<1>2. PICK t \in Nat : t = taken /\ t <= old.stake
  <2>1. old.stake \in Nat
    BY <1>1 DEF Row
  <2>2. Min({amount, old.stake}) \in {amount, old.stake} /\ Min({amount, old.stake}) <= old.stake
    BY <2>1, MinOfTwo
  <2> QED BY <2>1, <2>2
<1>3. CASE registry' = removed(registry, a)
  <2>1. \A b \in Addresses \ {a} : registry'.relayers[b] = registry.relayers[b]
    BY <1>1, <1>3 DEF removed, removeRelayer, Storage
  <2> QED BY <1>1, <1>3, <2>1, RemoveKeepsSound
<1>4. CASE registry' = [registry EXCEPT !.relayers[a].stake = old.stake - taken, !.balance = @ - taken]
  <2>1. PICK left \in Nat : left = old.stake - t
    <3>1. old.stake \in Nat
      BY <1>1 DEF Row
    <3> HIDE DEF old, taken
    <3> QED BY <1>2, <3>1
  <2>2. PICK bal \in Int : bal = registry.balance
    BY <1>1 DEF Storage
  <2>3. /\ row \in Row /\ row.status = old.status /\ row.key = old.key /\ row.stake = left
    BY <1>1, <1>2, <2>1 DEF Row
  <2>4. registry' = [registry EXCEPT !.relayers[a] = row, !.balance = bal - t]
    BY <1>2, <1>4, <2>2
  <2>5. bal - t = bal - old.stake + row.stake
    <3>1. old.stake \in Nat
      BY <1>1 DEF Row
    <3> QED BY <2>1, <2>3, <3>1
  <2>6. old.status # "None"
    BY DEF slash, isRegistered
  <2> HIDE DEF row
  <2>7. Writes(a, row)
    BY <1>1, <2>2, <2>3, <2>4, <2>5, <2>6 DEF Writes
  <2>8. \A b \in Addresses \ {a} : registry'.relayers[b] = registry.relayers[b]
    BY <1>1, <2>4 DEF Storage
  <2> QED BY <2>7, <2>8, WritesKeeps
<1>5. \/ registry' = removed(registry, a)
      \/ registry' = [registry EXCEPT !.relayers[a].stake = old.stake - taken, !.balance = @ - taken]
  BY DEF slash, removed
<1> QED BY <1>3, <1>4, <1>5

\* Whoever leaves with its stake is not frozen.
LEMMA LeavesKeepsSound ==
    ASSUME sound(registry), NEW a \in Addresses, executeUnstake(a) \/ removeUnderCollateralized(a)
    PROVE  /\ sound(registry') /\ ~ registry.relayers[a].frozen
           /\ \A b \in Addresses \ {a} : registry'.relayers[b] = registry.relayers[b]
<1>1. /\ registry \in Storage /\ a \in registered(registry) /\ ~ registry.relayers[a].frozen
      /\ registry' = removed(registry, a)
  BY DEF sound, registered, isRegistered, executeUnstake, removeUnderCollateralized, removed
<1>2. \A b \in Addresses \ {a} : registry'.relayers[b] = registry.relayers[b]
  BY <1>1 DEF removed, removeRelayer, Storage
<1> QED BY <1>1, <1>2, RemoveKeepsSound

\* A step of the registry that no Safe has to do with: a frozen relayer loses
\* stake to nobody but the slasher.
HeldStep ==
    \A a \in Addresses :
      registry.relayers[a].frozen /\ registry'.relayers[a].stake < registry.relayers[a].stake
        => \E amount \in 1 .. MaxStake : slash(a, amount)

LEMMA RelayerKeepsSound ==
    ASSUME sound(registry), NEW a \in Addresses,
           \/ \E k \in Keys, t \in Texts, role \in Roles : register(a, k, t, role, MaxStake)
           \/ \E t \in Texts : updateUrl(a, t)
           \/ \E role \in Roles : updateRole(a, role)
           \/ \E k \in Keys : rotateKey(a, k)
           \/ \E amount \in 1 .. MaxStake : addStake(a, amount)
           \/ requestUnstake(a) \/ cancelUnstake(a) \/ unlockTimePasses(a)
           \/ executeUnstake(a) \/ removeUnderCollateralized(a)
           \/ \E amount \in 1 .. MaxStake : slash(a, amount)
    PROVE  sound(registry') /\ HeldStep
<1>1. registry \in Storage /\ MaxStake \in Nat
  BY RegistryConstants DEF sound
<1>2. \A b \in Addresses : registry.relayers[b].stake \in Nat
  BY <1>1 DEF Storage, Row
<1>3. CASE \E k \in Keys, t \in Texts, role \in Roles : register(a, k, t, role, MaxStake)
  <2>1. PICK k \in Keys, t \in Texts, role \in Roles : register(a, k, t, role, MaxStake)
    BY <1>3
  <2>2. mayAdd(registry, a, k) /\ registry' = addRelayer(registry, a, k, t, role, MaxStake)
    BY <2>1 DEF register
  <2>3. sound(registry')
    BY <1>1, <2>2, AddKeepsSound
  <2>4. registry.relayers[a] = NoRelayer
    BY <2>2 DEF mayAdd, sound, registered
  <2>5. \A b \in Addresses \ {a} : registry'.relayers[b] = registry.relayers[b]
    BY <1>1, <2>2 DEF addRelayer, Storage
  <2>6. ~ registry.relayers[a].frozen
    <3>1. NoRelayer.frozen = FALSE
      BY DEF NoRelayer
    <3> QED BY <2>4, <3>1
  <2>7. HeldStep
    BY <1>2, <2>5, <2>6 DEF HeldStep
  <2> QED BY <2>3, <2>7
<1>4. CASE \/ \E t \in Texts : updateUrl(a, t)
           \/ \E amount \in 1 .. MaxStake : addStake(a, amount)
           \/ requestUnstake(a) \/ cancelUnstake(a) \/ unlockTimePasses(a)
  <2>1. PICK row : Writes(a, row) /\ row.stake >= registry.relayers[a].stake
    <3>1. \A amount \in 1 .. MaxStake : amount \in Nat
      BY <1>1
    <3> QED BY <1>4, <3>1, RowFunctions
  <2>2. registry'.relayers[a] = row /\ row \in Row
    BY <1>1, <2>1 DEF Writes, Storage
  <2>3. \A b \in Addresses \ {a} : registry'.relayers[b] = registry.relayers[b]
    BY <1>1, <2>1 DEF Writes, Storage
  <2>4. row.stake \in Nat
    BY <2>2 DEF Row
  <2>5. HeldStep
    BY <1>2, <2>1, <2>2, <2>3, <2>4 DEF HeldStep
  <2> QED BY <2>1, <2>5, WritesKeeps
<1>5. CASE \E role \in Roles : updateRole(a, role)
  <2>1. PICK role \in Roles : updateRole(a, role)
    BY <1>5
  <2>2. /\ a \in registered(registry) /\ registry' = [registry EXCEPT !.nodeRoles[a] = role]
    BY <2>1 DEF updateRole, registered
  <2>3. role \in 0 .. 3 /\ role # 0 /\ registry.nodeRoles[a] # 0
    BY <2>2, RegistryConstants DEF sound, indexesAgree
  <2>4. /\ registry' \in Storage /\ registry'.relayers = registry.relayers
        /\ registry'.sphinxKeyOwner = registry.sphinxKeyOwner
        /\ registry'.relayerCount = registry.relayerCount
        /\ registry'.topologyFingerprint = registry.topologyFingerprint
        /\ registry'.balance = registry.balance
        /\ registry'.nodeRoles = [registry.nodeRoles EXCEPT ![a] = role]
    BY <1>1, <2>2, <2>3 DEF Storage
  <2>5. \A b \in Addresses : registry'.nodeRoles[b] # 0 <=> registry.nodeRoles[b] # 0
    BY <1>1, <2>3, <2>4 DEF Storage
  <2>6. sound(registry')
    BY <2>4, <2>5, ConfigKeepsSound
  <2> QED BY <1>2, <2>4, <2>6 DEF HeldStep
<1>6. CASE \E k \in Keys : rotateKey(a, k)
  <2>1. PICK k \in Keys : rotateKey(a, k)
    BY <1>6
  <2>2. /\ sound(registry')
        /\ \A b \in Addresses : registry'.relayers[b].stake = registry.relayers[b].stake
    BY <2>1, RotateKeepsSound
  <2> QED BY <1>2, <2>2 DEF HeldStep
<1>7. CASE executeUnstake(a) \/ removeUnderCollateralized(a)
  BY <1>2, <1>7, LeavesKeepsSound DEF HeldStep
<1>8. CASE \E amount \in 1 .. MaxStake : slash(a, amount)
  <2>1. PICK amount \in 1 .. MaxStake : slash(a, amount)
    BY <1>8
  <2>2. amount \in Nat
    BY <1>1
  <2>3. /\ sound(registry')
        /\ \A b \in Addresses \ {a} : registry'.relayers[b] = registry.relayers[b]
    BY <2>1, <2>2, SlashKeepsSound
  <2>4. HeldStep
    BY <1>2, <1>8, <2>3 DEF HeldStep
  <2> QED BY <2>3, <2>4
<1> QED BY <1>3, <1>4, <1>5, <1>6, <1>7, <1>8

-----------------------------------------------------------------------------
(***************************************************************************)
(* The inductive invariant of the scripts.                                 *)
(***************************************************************************)

Hints == {NoHint, FreshSalt, Mismatch, Paused} \cup {KeyTaken(o) : o \in Addresses}

Steps == {"", "gov", "guardian", "schedule", "both", "execute", "direct"}

Salts ==
    {<< >>, <<"exec">>} \cup {<<"env", n>> : n \in Nat}
      \cup {<<"register", f, n>> : f \in SUBSET Addresses, n \in Int}

NodeSets == [missing : SUBSET DOMAIN Nodes, replace : SUBSET DOMAIN Nodes]

Process ==
    [pc : {"idle", "second file", "ensure", "owners", "verify", "timelock", "wait", "sign",
           "submit", "receipt", "mined", "reverted"},
     script : {"", "create", "register", "exec", "guardian"},
     seen : {<< >>} \cup NodeSets, calls : Seq(Calls), salt : Salts, step : Steps,
     nonce : Nat, tries : Nat, hint : Hints, env : Nat]

Transaction ==
    [kind : {"create"}, safe : [role : Steps, gen : Nat]]
      \cup [kind : Steps, safe : {"gov", "guardian"}, nonce : Nat, calls : Seq(Calls), salt : Salts]

Files == [made : Nat, keys : Nat, owners : Nat, safes : Nat]

\* The generation on record is the last that was made, and the public owners are
\* of the keys on disk.
FilesMatch ==
    /\ files \in Files
    /\ files.keys # 0 => files.keys = files.made
    /\ files.owners # 0 => files.owners = files.keys

\* Where a process is says which files there are.
Fits(x, f) ==
    /\ x \in Process
    /\ x.pc = "second file" => f.keys # 0
    /\ x.pc = "owners" => x.seen \in NodeSets
    /\ x.pc = "ensure" => x.script = "create"
    /\ x.script = "create" => f.owners # 0

\* A Safe is only ever created for the owners on disk.
Made(tx, f) ==
    /\ tx \in Transaction
    /\ tx.kind = "create" => tx.safe.gen = f.owners /\ f.owners # 0

ProcessesFit ==
    procs \in [Procs -> Process] /\ \A p \in Procs : Fits(procs[p], files)

MempoolFits ==
    /\ mempool \in [Procs -> Seq(Transaction)]
    /\ \A p \in Procs : \A k \in DOMAIN mempool[p] : Made(mempool[p][k], files)

SafesFit == \A s \in safes : s.gen = files.owners /\ files.owners # 0

GovernanceInv ==
    /\ sound(registry) /\ FilesMatch /\ ProcessesFit /\ MempoolFits /\ SafesFit
    /\ nonces \in [{"gov", "guardian"} -> Nat] /\ salts \in Nat

\* A process that ended is idle.
LEMMA IdleFits ==
    ASSUME NEW hint \in Hints, NEW env \in Nat, NEW f
    PROVE  Idle(hint, env) \in Process /\ Fits(Idle(hint, env), f)
<1>1. << >> \in Seq(Calls)
  OBVIOUS
<1>2. Idle(hint, env) \in Process
  BY <1>1 DEF Idle, Process, Salts, Steps
<1> QED BY <1>2 DEF Idle, Fits

\* The invariant holds at the start.
LEMMA GovernanceInit == ASSUME Init PROVE GovernanceInv
<1>1. sound(registry)
  BY FirstRegistries DEF Init, sound
<1>2. files = [made |-> 0, keys |-> 0, owners |-> 0, safes |-> 0]
  BY DEF Init
<1>3. FilesMatch
  BY <1>2 DEF FilesMatch, Files
<1>4. ProcessesFit
  <2>1. NoHint \in Hints /\ 0 \in Nat
    BY DEF Hints
  <2>2. Idle(NoHint, 0) \in Process /\ Fits(Idle(NoHint, 0), files)
    BY <2>1, IdleFits
  <2>3. procs = [p \in Procs |-> Idle(NoHint, 0)]
    BY DEF Init
  <2> QED BY <2>2, <2>3 DEF ProcessesFit
<1>5. MempoolFits
  <2>1. mempool = [p \in Procs |-> << >>] /\ << >> \in Seq(Transaction) /\ DOMAIN << >> = {}
    BY DEF Init
  <2> QED BY <2>1 DEF MempoolFits
<1> QED BY <1>1, <1>3, <1>4, <1>5 DEF GovernanceInv, SafesFit, Init

\* The owners on disk stay, and with them what was made for them.
LEMMA ProcessMoves ==
    ASSUME ProcessesFit, NEW p \in Procs, NEW x,
           Fits(x, files'), procs' = [procs EXCEPT ![p] = x],
           files'.owners = files.owners \/ files.owners = 0,
           files.keys # 0 => files'.keys # 0
    PROVE  ProcessesFit'
BY DEF ProcessesFit, Fits

LEMMA TransactionsStay ==
    ASSUME MempoolFits, SafesFit, UNCHANGED <<mempool, safes>>,
           files'.owners = files.owners \/ files.owners = 0
    PROVE  MempoolFits' /\ SafesFit'
BY DEF MempoolFits, SafesFit, Made

\* A step of a process that has to do with none of the files and at most sends
\* a transaction.
Works(p, x) ==
    /\ UNCHANGED <<registry, safes, nonces, files>>
    /\ Fits(x, files) /\ procs' = [procs EXCEPT ![p] = x]
    /\ \/ UNCHANGED mempool
       \/ \E tx : Made(tx, files) /\ mempool' = [mempool EXCEPT ![p] = Append(@, tx)]
    /\ salts' \in Nat

LEMMA WorksKeeps ==
    ASSUME GovernanceInv, NEW p \in Procs, NEW x, Works(p, x)
    PROVE  GovernanceInv'
<1>1. ProcessesFit'
  BY ProcessMoves DEF Works, GovernanceInv
<1>2. MempoolFits' /\ SafesFit'
  <2>1. CASE UNCHANGED mempool
    BY <2>1, TransactionsStay DEF Works, GovernanceInv
  <2>2. CASE \E tx : Made(tx, files) /\ mempool' = [mempool EXCEPT ![p] = Append(@, tx)]
    <3>1. PICK tx : Made(tx, files) /\ mempool' = [mempool EXCEPT ![p] = Append(mempool[p], tx)]
      BY <2>2
    <3>2. PICK sent : /\ sent = mempool[p] /\ sent \in Seq(Transaction)
                      /\ Append(sent, tx) \in Seq(Transaction)
      BY <3>1 DEF GovernanceInv, MempoolFits, Made
    <3>3. PICK more : more = Append(sent, tx)
      OBVIOUS
    <3>4. /\ more \in Seq(Transaction)
          /\ \A k \in DOMAIN more : more[k] = tx \/ (k \in DOMAIN sent /\ more[k] = sent[k])
      BY <3>2, <3>3, SeqIsSequence, Appended
    <3>5. mempool' = [mempool EXCEPT ![p] = more]
      BY <3>1, <3>2, <3>3
    <3>6. mempool' \in [Procs -> Seq(Transaction)] /\ files' = files /\ safes' = safes
      BY <3>4, <3>5 DEF Works, GovernanceInv, MempoolFits
    <3>7. \A q \in Procs : \A k \in DOMAIN mempool'[q] : Made(mempool'[q][k], files)
      <4> SUFFICES ASSUME NEW q \in Procs, NEW k \in DOMAIN mempool'[q]
                   PROVE  Made(mempool'[q][k], files)
        OBVIOUS
      <4>1. CASE q = p
        BY <3>1, <3>2, <3>4, <3>5, <4>1 DEF GovernanceInv, MempoolFits
      <4>2. CASE q # p
        BY <3>5, <4>2 DEF GovernanceInv, MempoolFits
      <4> QED BY <4>1, <4>2
    <3> QED BY <3>6, <3>7 DEF GovernanceInv, MempoolFits, SafesFit
  <2> QED BY <2>1, <2>2 DEF Works
<1> QED BY <1>1, <1>2 DEF Works, GovernanceInv, FilesMatch

-----------------------------------------------------------------------------
(***************************************************************************)
(* The scripts' steps.                                                     *)
(***************************************************************************)

\* Generating and discarding keys, while there are no public owners.
LEMMA KeysKeep ==
    ASSUME GovernanceInv, NEW p \in Procs,
           startGenerate(p) \/ writeSecondFile(p)
    PROVE  GovernanceInv'
<1>1. /\ files \in Files /\ procs \in [Procs -> Process] /\ procs[p] \in Process
      /\ \A q \in Procs : Fits(procs[q], files)
  BY DEF GovernanceInv, FilesMatch, ProcessesFit
<1>2. UNCHANGED <<registry, safes, nonces, mempool>>
  BY DEF startGenerate, writeSecondFile, chain
<1>3. CASE startGenerate(p)
  <2>1. /\ files.keys = 0 /\ files.owners = 0
        /\ files' = [files EXCEPT !.made = files.made + 1, !.keys = files.made + 1]
        /\ procs' = [procs EXCEPT ![p].pc = "second file"] /\ procs[p].pc = "idle"
    BY <1>3 DEF startGenerate, generateOwners, goto, at
  <2>2. /\ files' \in Files /\ files'.made = files.made + 1 /\ files'.keys = files.made + 1
        /\ files'.owners = files.owners /\ files'.keys # 0
    <3>1. PICK m \in Nat : m = files.made + 1 /\ m # 0
      BY <1>1 DEF Files
    <3>2. files' = [files EXCEPT !.made = m, !.keys = m]
      BY <2>1, <3>1
    <3>3. /\ files' \in Files /\ files'.made = m /\ files'.keys = m
          /\ files'.owners = files.owners
      BY <1>1, <3>2 DEF Files
    <3> QED BY <3>1, <3>3
  <2> DEFINE x == [procs[p] EXCEPT !.pc = "second file"]
  <2>3. x \in Process /\ x.pc = "second file" /\ x.script = procs[p].script
    BY <1>1 DEF Process
  <2>4. procs' = [procs EXCEPT ![p] = x]
    BY <2>1
  <2> HIDE DEF x
  <2>5. Fits(x, files')
    BY <1>1, <2>2, <2>3 DEF Fits
  <2>6. ProcessesFit'
    BY <2>1, <2>2, <2>4, <2>5, ProcessMoves DEF GovernanceInv
  <2>7. MempoolFits' /\ SafesFit'
    BY <1>2, <2>2, TransactionsStay DEF GovernanceInv
  <2>8. FilesMatch' /\ salts' \in Nat
    BY <1>3, <2>1, <2>2 DEF FilesMatch, startGenerate, GovernanceInv
  <2> QED BY <1>2, <2>6, <2>7, <2>8 DEF GovernanceInv
<1>4. CASE writeSecondFile(p)
  <2>1. /\ files.keys # 0 /\ files.keys = files.made
    BY <1>1, <1>4 DEF writeSecondFile, at, Fits, GovernanceInv, FilesMatch
  <2>2. /\ files' = IF files.owners = 0 THEN [files EXCEPT !.owners = files.made] ELSE files
        /\ procs' = [procs EXCEPT ![p] = Idle(NoHint, procs[p].env)]
    BY <1>4, <2>1 DEF writeSecondFile, exit
  <2>3. /\ files' \in Files /\ files'.made = files.made /\ files'.keys = files.keys
        /\ files'.owners = files.keys \/ files' = files
        /\ files'.owners = files.owners \/ files.owners = 0
    BY <1>1, <2>1, <2>2 DEF Files
  <2>4. Fits(Idle(NoHint, procs[p].env), files')
    <3>1. NoHint \in Hints /\ procs[p].env \in Nat
      BY <1>1 DEF Hints, Process
    <3> QED BY <3>1, IdleFits
  <2>5. ProcessesFit'
    BY <2>2, <2>3, <2>4, ProcessMoves DEF GovernanceInv
  <2>6. MempoolFits' /\ SafesFit'
    BY <1>2, <2>3, TransactionsStay DEF GovernanceInv
  <2>7. FilesMatch' /\ salts' \in Nat
    BY <1>4, <2>1, <2>3 DEF FilesMatch, writeSecondFile, GovernanceInv
  <2> QED BY <1>2, <2>5, <2>6, <2>7 DEF GovernanceInv
<1> QED BY <1>3, <1>4

LEMMA DiscardKeeps == ASSUME GovernanceInv, discardKeys PROVE GovernanceInv'
<1>1. /\ files \in Files /\ procs \in [Procs -> Process]
      /\ \A q \in Procs : Fits(procs[q], files)
  BY DEF GovernanceInv, FilesMatch, ProcessesFit
<1>2. UNCHANGED <<registry, safes, nonces, mempool, salts>>
  BY DEF discardKeys, chain
<1>3. /\ files' = [files EXCEPT !.keys = 0] /\ files.owners = 0 /\ procs' = procs
      /\ \A q \in Procs : procs[q].pc # "second file"
  BY DEF discardKeys, at
<1>4. files' \in Files /\ files'.keys = 0 /\ files'.owners = 0
  BY <1>1, <1>3 DEF Files
<1>5. ProcessesFit'
  BY <1>1, <1>3, <1>4 DEF ProcessesFit, Fits
<1>6. MempoolFits' /\ SafesFit'
  BY <1>2, <1>3, <1>4, TransactionsStay DEF GovernanceInv
<1>7. FilesMatch' /\ salts' \in Nat
  BY <1>2, <1>4 DEF FilesMatch, GovernanceInv
<1> QED BY <1>2, <1>5, <1>6, <1>7 DEF GovernanceInv

\* A record of the Safes changes nothing of the owners.
LEMMA RecordKeeps ==
    ASSUME GovernanceInv, NEW p \in Procs,
           files' = [files EXCEPT !.safes = files.owners],
           \E hint \in Hints : exit(p, hint),
           UNCHANGED <<registry, safes, nonces, mempool, salts>>
    PROVE  GovernanceInv'
<1>1. files \in Files /\ procs[p] \in Process
  BY DEF GovernanceInv, FilesMatch, ProcessesFit
<1>2. /\ files' \in Files /\ files'.made = files.made /\ files'.keys = files.keys
      /\ files'.owners = files.owners
  BY <1>1 DEF Files
<1>3. PICK hint \in Hints : procs' = [procs EXCEPT ![p] = Idle(hint, procs[p].env)]
  BY DEF exit
<1>4. Fits(Idle(hint, procs[p].env), files')
  <2>1. procs[p].env \in Nat
    BY <1>1 DEF Process
  <2> QED BY <2>1, IdleFits
<1>5. ProcessesFit'
  BY <1>2, <1>3, <1>4, ProcessMoves DEF GovernanceInv
<1>6. MempoolFits' /\ SafesFit'
  BY <1>2, TransactionsStay DEF GovernanceInv
<1> QED BY <1>2, <1>5, <1>6 DEF GovernanceInv, FilesMatch

\* A process that ends.
LEMMA ExitWorks ==
    ASSUME GovernanceInv, NEW p \in Procs, NEW hint \in Hints, exit(p, hint),
           UNCHANGED <<registry, safes, nonces, files, mempool>>, salts' \in Nat
    PROVE  \E x : Works(p, x)
<1>1. procs[p].env \in Nat
  BY DEF GovernanceInv, ProcessesFit, Process
<1>2. procs' = [procs EXCEPT ![p] = Idle(hint, procs[p].env)]
  BY DEF exit
<1>3. Fits(Idle(hint, procs[p].env), files)
  BY <1>1, IdleFits
<1> QED BY <1>2, <1>3 DEF Works

\* A process that goes on with what it holds, or with another step.
Onwards == {"ensure", "verify", "timelock", "wait", "sign", "submit", "receipt", "mined", "reverted"}

LEMMA GoWorks ==
    ASSUME GovernanceInv, NEW p \in Procs, NEW pc \in Onwards, NEW step \in Steps, NEW n \in Nat, NEW t \in Nat,
           pc = "ensure" => procs[p].script = "create",
           procs' = [procs EXCEPT ![p].pc = pc, ![p].step = step, ![p].nonce = n, ![p].tries = t],
           UNCHANGED <<registry, safes, nonces, files>>, salts' \in Nat,
           \/ UNCHANGED mempool
           \/ \E tx : Made(tx, files) /\ mempool' = [mempool EXCEPT ![p] = Append(@, tx)]
    PROVE  \E x : Works(p, x)
<1> DEFINE x == [procs[p] EXCEPT !.pc = pc, !.step = step, !.nonce = n, !.tries = t]
<1>1. procs[p] \in Process /\ Fits(procs[p], files)
  BY DEF GovernanceInv, ProcessesFit
<1>2. x \in Process /\ x.pc = pc /\ x.script = procs[p].script
  BY <1>1 DEF Process, Onwards
<1>3. procs' = [procs EXCEPT ![p] = x]
  BY DEF GovernanceInv, ProcessesFit
<1> HIDE DEF x
<1>4. Fits(x, files)
  BY <1>1, <1>2 DEF Fits, Onwards
<1> QED BY <1>3, <1>4 DEF Works

\* create-safes.ts: what it sends is for the owners on disk.
LEMMA CreateKeeps ==
    ASSUME GovernanceInv, NEW p \in Procs,
           startCreate(p) \/ ensureSafe(p) \/ (at(p, "mined") /\ procs[p].script = "create" /\ receipt(p))
    PROVE  GovernanceInv'
<1> DEFINE x == procs[p]
<1>1. /\ files \in Files /\ procs \in [Procs -> Process] /\ x \in Process /\ Fits(x, files)
      /\ salts \in Nat
  BY DEF GovernanceInv, FilesMatch, ProcessesFit
<1>2. UNCHANGED <<registry, safes, nonces, salts>>
  BY DEF startCreate, ensureSafe, receipt, chain
<1>3. /\ x.step \in Steps /\ x.nonce \in Nat /\ x.tries \in Nat /\ x.env \in Nat
      /\ NoHint \in Hints /\ "gov" \in Steps /\ "guardian" \in Steps
  BY <1>1 DEF Process, Steps, Hints
<1>4. CASE startCreate(p)
  <2> DEFINE y == [Idle(NoHint, x.env) EXCEPT !.pc = "ensure", !.script = "create", !.step = "gov"]
  <2>1. files.owners # 0 /\ procs' = [procs EXCEPT ![p] = y] /\ UNCHANGED <<files, mempool>>
    BY <1>4 DEF startCreate
  <2>2. y \in Process /\ y.pc = "ensure" /\ y.script = "create"
    <3>1. Idle(NoHint, x.env) \in Process
      BY <1>3, IdleFits
    <3> QED BY <1>3, <3>1 DEF Process
  <2> HIDE DEF y
  <2>3. Works(p, y)
    BY <1>1, <1>2, <2>1, <2>2 DEF Works, Fits
  <2> QED BY <2>3, WorksKeeps
<1>5. ASSUME ensured(p), UNCHANGED mempool, x.script = "create" PROVE GovernanceInv'
  <2>1. CASE x.step = "gov"
    <3>1. /\ procs' = [procs EXCEPT ![p].pc = "ensure", ![p].step = "guardian"]
          /\ UNCHANGED files
      BY <1>5, <2>1 DEF ensured
    <3>2. procs' = [procs EXCEPT ![p].pc = "ensure", ![p].step = "guardian",
                                 ![p].nonce = x.nonce, ![p].tries = x.tries]
      BY <1>1, <3>1 DEF Process
    <3>3. "ensure" \in Onwards /\ "guardian" \in Steps
      BY DEF Onwards, Steps
    <3>4. \E y : Works(p, y)
      <4>1. salts' \in Nat /\ UNCHANGED <<registry, safes, nonces, files>>
        BY <1>1, <1>2, <3>1
      <4>2. procs[p].script = "create" /\ mempool' = mempool
        BY <1>5
      <4>3. x.nonce \in Nat /\ x.tries \in Nat
        BY <1>3
      <4> HIDE DEF x
      <4> QED BY <3>2, <3>3, <4>1, <4>2, <4>3, GoWorks
    <3> QED BY <3>4, WorksKeeps
  <2>2. CASE x.step # "gov"
    <3>1. files' = [files EXCEPT !.safes = files.owners] /\ exit(p, NoHint)
      BY <1>5, <2>2 DEF ensured
    <3> QED BY <1>2, <1>3, <1>5, <3>1, RecordKeeps
  <2> QED BY <2>1, <2>2
<1>6. CASE ensureSafe(p)
  <2>1. x.script = "create" /\ files.owners # 0
    BY <1>1, <1>6 DEF ensureSafe, at, Fits
  <2>2. CASE ensured(p) /\ UNCHANGED mempool
    BY <1>5, <2>1, <2>2
  <2>3. CASE /\ mempool' = [mempool EXCEPT ![p] = Append(@, [kind |-> "create", safe |-> SafeOf(x.step)])]
             /\ goto(p, "receipt") /\ UNCHANGED files
    <3> DEFINE tx == [kind |-> "create", safe |-> SafeOf(x.step)]
    <3>1. Made(tx, files)
      BY <1>1, <1>3, <2>1 DEF Made, Transaction, SafeOf, Files
    <3>2. mempool' = [mempool EXCEPT ![p] = Append(@, tx)]
      BY <2>3
    <3> HIDE DEF tx
    <3>3. procs' = [procs EXCEPT ![p].pc = "receipt", ![p].step = x.step,
                                 ![p].nonce = x.nonce, ![p].tries = x.tries]
      BY <1>1, <2>3 DEF Process, goto
    <3>4. "receipt" \in Onwards /\ "receipt" # "ensure"
      BY DEF Onwards
    <3>5. \E y : Works(p, y)
      BY <1>1, <1>2, <1>3, <2>3, <3>1, <3>2, <3>3, <3>4, GoWorks, ZenonT(60)
    <3> QED BY <3>5, WorksKeeps
  <2> QED BY <1>6, <2>2, <2>3 DEF ensureSafe
<1>7. CASE at(p, "mined") /\ x.script = "create" /\ receipt(p)
  <2>1. ensured(p) /\ UNCHANGED mempool
    BY <1>7 DEF receipt, at
  <2> QED BY <1>5, <1>7, <2>1
<1> QED BY <1>4, <1>6, <1>7

\* The calls the scripts make are calls of the registry.
LEMMA CallsOfNodes ==
    ASSUME NEW set, set \subseteq DOMAIN Nodes
    PROVE  forEach(registerCall, set) \in Seq(Calls) /\ forEach(unregisterCall, set) \in Seq(Calls)
<1>1. IsFiniteSet(set) /\ \A a \in set : a \in Addresses
  BY RegistryConstants, GovernanceConstants, FS_Subset DEF parseNodes
<1>2. Cardinality(set) \in Nat
  BY <1>1, FS_CardinalityType
<1>3. \A i \in 1 .. Cardinality(set) : SetToSeq(set)[i] \in set
  <2>1. PICK f \in [1 .. Cardinality(set) -> set] : IsInjective(f)
    <3>1. ExistsBijection(1 .. Cardinality(set), set)
      BY <1>1, FS_CardinalityType
    <3>2. PICK f \in Bijection(1 .. Cardinality(set), set) : TRUE
      BY <3>1 DEF ExistsBijection
    <3>3. f \in [1 .. Cardinality(set) -> set] /\ IsInjective(f)
      BY <3>2 DEF Bijection, Injection, IsInjective
    <3> QED BY <3>3
  <2>2. SetToSeq(set) \in [1 .. Cardinality(set) -> set]
    BY <2>1 DEF SetToSeq
  <2> QED BY <2>2
<1>4. \A a \in set : registerCall(a) \in Calls /\ unregisterCall(a) \in Calls
  BY <1>1, GovernanceConstants DEF registerCall, unregisterCall, Calls, parseNodes
<1>5. \A i \in 1 .. Cardinality(set) :
        registerCall(SetToSeq(set)[i]) \in Calls /\ unregisterCall(SetToSeq(set)[i]) \in Calls
  BY <1>3, <1>4
<1>6. PICK n \in Nat : n = Cardinality(set)
  BY <1>2
<1> QED BY <1>5, <1>6 DEF forEach

LEMMA CallsOfRegistration ==
    ASSUME NEW missing, missing \subseteq DOMAIN Nodes, NEW replace, replace \subseteq DOMAIN Nodes
    PROVE  registrationCalls(missing, replace) \in Seq(Calls)
BY CallsOfNodes DEF registrationCalls

\* register-nodes.ts up to its batch.
LEMMA RegisterKeeps ==
    ASSUME GovernanceInv, NEW p \in Procs,
           startRegister(p) \/ planRegistration(p) \/ verifyRegistration(p)
    PROVE  GovernanceInv'
<1> DEFINE x == procs[p]
<1>1. /\ files \in Files /\ procs \in [Procs -> Process] /\ x \in Process /\ Fits(x, files)
      /\ salts \in Nat
  BY DEF GovernanceInv, FilesMatch, ProcessesFit
<1>2. UNCHANGED <<registry, safes, nonces, files, mempool>>
  BY DEF startRegister, planRegistration, verifyRegistration, chain
<1>3. x.env \in Nat /\ x.script \in {"", "create", "register", "exec", "guardian"}
  BY <1>1 DEF Process
<1>4. NoHint \in Hints /\ Mismatch \in Hints /\ Paused \in Hints
      /\ \A owner \in Addresses : KeyTaken(owner) \in Hints
  BY DEF Hints
<1>5. CASE startRegister(p)
  <2>1. salts' \in Nat /\ nextEnv(p) \in Nat
    <3>1. takeSalt(p)
      BY <1>5 DEF startRegister
    <3>2. salts + 1 \in Nat
      BY <1>1
    <3>3. CASE x.hint = FreshSalt
      <4>1. salts' = salts + 1 /\ nextEnv(p) = salts + 1
        BY <3>1, <3>3 DEF takeSalt, nextEnv
      <4> QED BY <3>2, <4>1
    <3>4. CASE x.hint # FreshSalt
      <4>1. salts' = salts /\ nextEnv(p) = x.env
        BY <3>1, <3>4 DEF takeSalt, nextEnv
      <4> QED BY <1>1, <1>3, <4>1
    <3> QED BY <3>3, <3>4
  <2> DEFINE known == {a \in DOMAIN Nodes : isRegistered(registry, a)}
             seen == [missing |-> DOMAIN Nodes \ known,
                      replace |-> {a \in known : x.hint = Mismatch /\ ~matches(a)}]
             y == [Idle(NoHint, nextEnv(p)) EXCEPT !.pc = "owners", !.script = "register", !.seen = seen]
  <2>2. procs' = [procs EXCEPT ![p] = y]
    BY <1>5 DEF startRegister
  <2>3. seen \in NodeSets
    BY DEF NodeSets
  <2> HIDE DEF seen
  <2>4. Idle(NoHint, nextEnv(p)) \in Process
    BY <1>4, <2>1, IdleFits
  <2>5. y \in Process /\ y.pc = "owners" /\ y.script = "register" /\ y.seen = seen
    BY <2>3, <2>4 DEF Process
  <2> HIDE DEF y
  <2>6. Works(p, y)
    BY <1>2, <2>1, <2>2, <2>3, <2>5 DEF Works, Fits
  <2> QED BY <2>6, WorksKeeps
<1>6. CASE planRegistration(p)
  <2>1. salts' \in Nat /\ x.seen \in NodeSets
    BY <1>1, <1>6 DEF planRegistration, at, Fits
  <2>2. CASE \E owner \in Addresses : exit(p, KeyTaken(owner))
    <3>1. PICK owner \in Addresses : exit(p, KeyTaken(owner))
      BY <2>2
    <3>2. KeyTaken(owner) \in Hints
      BY <1>4
    <3>3. \E y : Works(p, y)
      BY <1>2, <2>1, <3>1, <3>2, ExitWorks
    <3> QED BY <3>3, WorksKeeps
  <2>3. CASE ~ \E owner \in Addresses : exit(p, KeyTaken(owner))
    <3> DEFINE missing == x.seen.missing
               replace == x.seen.replace
               none == missing \cup replace = {}
               salt == IF none THEN << >>
                       ELSE IF x.env # 0 THEN <<"env", x.env>>
                       ELSE <<"register", registry.topologyFingerprint, registry.relayerCount>>
               calls == registrationCalls(missing, replace)
               pc == IF none THEN "verify" ELSE "timelock"
               y == [x EXCEPT !.pc = pc, !.seen = << >>, !.calls = calls, !.salt = salt]
    <3>1. procs' = [procs EXCEPT ![p].pc = pc, ![p].seen = << >>, ![p].calls = calls, ![p].salt = salt]
      BY <1>6, <2>3 DEF planRegistration, keyHolders
    <3>2. procs' = [procs EXCEPT ![p] = y]
      BY <3>1
    <3>3. calls \in Seq(Calls)
      <4>1. missing \subseteq DOMAIN Nodes /\ replace \subseteq DOMAIN Nodes
        BY <2>1 DEF NodeSets
      <4> QED BY <4>1, CallsOfRegistration
    <3>4. salt \in Salts
      <4>1. registry \in Storage
        BY DEF GovernanceInv, sound
      <4>2. registry.topologyFingerprint \in SUBSET Addresses
        BY <4>1 DEF Storage
      <4>3. registry.relayerCount \in Int
        BY <4>1 DEF Storage
      <4>4. <<"register", registry.topologyFingerprint, registry.relayerCount>> \in Salts
        BY <4>2, <4>3 DEF Salts
      <4>5. << >> \in Salts
        BY DEF Salts
      <4>6. <<"env", x.env>> \in Salts
        <5>1. x.env \in Nat
          BY <1>3
        <5> HIDE DEF x
        <5>2. <<"env", x.env>> \in {<<"env", n>> : n \in Nat}
          BY <5>1
        <5> QED BY <5>2 DEF Salts
      <4> HIDE DEF none
      <4> QED BY <4>4, <4>5, <4>6
    <3>5. pc \in {"verify", "timelock"}
      OBVIOUS
    <3> HIDE DEF calls, salt, pc
    <3>6. y \in Process /\ y.pc = pc /\ y.script = x.script
      BY <1>1, <3>3, <3>4, <3>5 DEF Process
    <3> HIDE DEF y
    <3>7. Works(p, y)
      BY <1>1, <1>2, <2>1, <3>2, <3>5, <3>6 DEF Works, Fits
    <3> QED BY <3>7, WorksKeeps
  <2> QED BY <2>2, <2>3
<1>7. CASE verifyRegistration(p)
  <2>1. PICK hint \in Hints : exit(p, hint)
    BY <1>4, <1>7 DEF verifyRegistration
  <2>2. salts' \in Nat
    BY <1>1, <1>7 DEF verifyRegistration
  <2>3. \E y : Works(p, y)
    BY <1>2, <2>1, <2>2, ExitWorks
  <2> QED BY <2>3, WorksKeeps
<1> QED BY <1>5, <1>6, <1>7

\* safe-exec.ts and guardian.ts up to their batch.
LEMMA OperatorKeeps ==
    ASSUME GovernanceInv, NEW p \in Procs,
           safeExec(p) \/ guardian(p, TRUE) \/ guardian(p, FALSE)
    PROVE  GovernanceInv'
<1> DEFINE x == procs[p]
<1>1. /\ files \in Files /\ procs \in [Procs -> Process] /\ x \in Process /\ Fits(x, files)
      /\ salts \in Nat
  BY DEF GovernanceInv, FilesMatch, ProcessesFit
<1>2. UNCHANGED <<registry, safes, nonces, files, mempool, salts>>
  BY DEF safeExec, guardian, chain
<1>3. x.env \in Nat /\ x.hint \in Hints /\ NoHint \in Hints
  BY <1>1 DEF Process, Hints
<1>4. \A c \in Calls : <<c>> \in Seq(Calls)
  OBVIOUS
<1>5. CASE safeExec(p)
  <2>1. PICK calls \in callsFiles(p) :
          procs' = [procs EXCEPT ![p] =
            [Idle(NoHint, x.env) EXCEPT
               !.pc = "timelock", !.script = "exec", !.calls = calls,
               !.salt = IF x.env # 0 THEN <<"env", x.env>> ELSE <<"exec">>]]
    BY <1>5 DEF safeExec
  <2>2. calls \in Seq(Calls)
    <3>1. [fn |-> "unpause"] \in Calls /\ [fn |-> "pause"] \in Calls
      BY DEF Calls
    <3>2. \A m \in MinStakes : [fn |-> "updateConfig", minStake |-> m] \in Calls
      BY DEF Calls
    <3>3. x.hint[1] = "key taken" => unregisterCall(x.hint[2]) \in Calls
      <4>1. CASE \E o \in Addresses : x.hint = KeyTaken(o)
        <5>1. PICK o \in Addresses : x.hint = KeyTaken(o)
          BY <4>1
        <5>2. KeyTaken(o)[2] = o
          BY DEF KeyTaken
        <5>3. unregisterCall(o) \in Calls
          BY DEF unregisterCall, Calls
        <5>4. unregisterCall(KeyTaken(o)[2]) \in Calls
          BY <5>2, <5>3
        <5> QED BY <5>1, <5>4
      <4>2. CASE x.hint \in {NoHint, FreshSalt, Mismatch, Paused}
        <5>1. /\ NoHint[1] = "" /\ FreshSalt[1] = "fresh salt"
              /\ Mismatch[1] = "mismatch" /\ Paused[1] = "paused"
          BY DEF NoHint, FreshSalt, Mismatch, Paused
        <5>2. x.hint[1] \in {"", "fresh salt", "mismatch", "paused"}
          BY <4>2, <5>1
        <5> QED BY <5>2
      <4> QED BY <1>3, <4>1, <4>2 DEF Hints
    <3> QED BY <1>4, <2>1, <3>1, <3>2, <3>3 DEF callsFiles
  <2> DEFINE salt == IF x.env # 0 THEN <<"env", x.env>> ELSE <<"exec">>
             y == [Idle(NoHint, x.env) EXCEPT
                     !.pc = "timelock", !.script = "exec", !.calls = calls, !.salt = salt]
  <2>3. salt \in Salts
    BY <1>3 DEF Salts
  <2>4. procs' = [procs EXCEPT ![p] = y]
    BY <2>1
  <2> HIDE DEF salt
  <2>5. Idle(NoHint, x.env) \in Process
    BY <1>3, IdleFits
  <2>6. y \in Process /\ y.pc = "timelock" /\ y.script = "exec"
    BY <2>2, <2>3, <2>5 DEF Process
  <2> HIDE DEF y
  <2>7. Works(p, y)
    BY <1>1, <1>2, <2>4, <2>6 DEF Works, Fits
  <2> QED BY <2>7, WorksKeeps
<1>6. ASSUME NEW freeze \in BOOLEAN, guardian(p, freeze) PROVE GovernanceInv'
  <2>1. PICK a \in Addresses :
          procs' = [procs EXCEPT ![p] =
            [Idle(x.hint, x.env) EXCEPT
               !.pc = "sign", !.script = "guardian", !.step = "direct",
               !.calls = <<[fn |-> IF freeze THEN "freeze" ELSE "unfreeze", a |-> a]>>]]
    BY <1>6 DEF guardian
  <2> DEFINE call == [fn |-> IF freeze THEN "freeze" ELSE "unfreeze", a |-> a]
             calls == <<call>>
             y == [Idle(x.hint, x.env) EXCEPT
                     !.pc = "sign", !.script = "guardian", !.step = "direct", !.calls = calls]
  <2>2. call \in Calls
    BY DEF Calls
  <2>3. calls \in Seq(Calls)
    BY <1>4, <2>2
  <2>4. procs' = [procs EXCEPT ![p] = y]
    BY <2>1
  <2> HIDE DEF call, calls
  <2>5. Idle(x.hint, x.env) \in Process
    BY <1>3, IdleFits
  <2>6. y \in Process /\ y.pc = "sign" /\ y.script = "guardian"
    BY <2>3, <2>5 DEF Process, Steps
  <2> HIDE DEF y
  <2>7. Works(p, y)
    BY <1>1, <1>2, <2>4, <2>6 DEF Works, Fits
  <2> QED BY <2>7, WorksKeeps
<1> QED BY <1>5, <1>6

\* The Timelock and the Safe: a batch begins, waits, is signed and sent.
LEMMA BatchKeeps ==
    ASSUME GovernanceInv, NEW p \in Procs,
           \/ beginBatch(p) \/ leaveScheduled(p) \/ waitForDelay(p) \/ sign(p) \/ submit(p)
           \/ dryRun(p) \/ crash(p)
           \/ (receipt(p) /\ ~ (at(p, "mined") /\ procs[p].script = "create"))
    PROVE  GovernanceInv'
<1> DEFINE x == procs[p]
<1>1. /\ files \in Files /\ procs \in [Procs -> Process] /\ x \in Process /\ Fits(x, files)
      /\ salts \in Nat
  BY DEF GovernanceInv, FilesMatch, ProcessesFit
<1>2. UNCHANGED <<registry, safes, nonces, files, salts>>
  BY DEF beginBatch, leaveScheduled, waitForDelay, sign, submit, dryRun, crash, receipt, failed, chain, at
<1>3. /\ x.step \in Steps /\ x.nonce \in Nat /\ x.tries \in Nat /\ x.hint \in Hints
      /\ NoHint \in Hints /\ FreshSalt \in Hints
      /\ {"both", "schedule", "execute"} \subseteq Steps
      /\ nonces.gov \in Nat /\ nonces.guardian \in Nat
  BY <1>1 DEF Process, Steps, Hints, GovernanceInv
<1>4. ASSUME NEW hint \in Hints, exit(p, hint), UNCHANGED mempool PROVE GovernanceInv'
  <2>1. \E y : Works(p, y)
    BY <1>1, <1>2, <1>4, ExitWorks
  <2> QED BY <2>1, WorksKeeps
<1>5. ASSUME NEW pc \in Onwards \ {"ensure"}, NEW step \in Steps, NEW n \in Nat, NEW t \in Nat,
             procs' = [procs EXCEPT ![p].pc = pc, ![p].step = step, ![p].nonce = n, ![p].tries = t],
             \/ UNCHANGED mempool
             \/ \E tx : Made(tx, files) /\ mempool' = [mempool EXCEPT ![p] = Append(@, tx)]
      PROVE  GovernanceInv'
  <2>1. pc \in Onwards /\ pc # "ensure" /\ salts' \in Nat
    BY <1>1, <1>2
  <2>2. \E y : Works(p, y)
    BY <1>2, <1>5, <2>1, GoWorks
  <2> QED BY <2>2, WorksKeeps
<1>6. ASSUME NEW pc \in Onwards \ {"ensure"}, goto(p, pc),
             \/ UNCHANGED mempool
             \/ \E tx : Made(tx, files) /\ mempool' = [mempool EXCEPT ![p] = Append(@, tx)]
      PROVE  GovernanceInv'
  <2>1. procs' = [procs EXCEPT ![p].pc = pc, ![p].step = x.step, ![p].nonce = x.nonce, ![p].tries = x.tries]
    BY <1>1, <1>6 DEF goto, Process
  <2> QED BY <1>3, <1>5, <1>6, <2>1
<1>7. ASSUME failed(p), UNCHANGED mempool PROVE GovernanceInv'
  <2>1. CASE exit(p, NoHint)
    BY <1>3, <1>4, <1>7, <2>1
  <2>2. CASE procs' = [procs EXCEPT ![p].pc = "sign", ![p].tries = x.tries + 1]
    <3>1. PICK t \in Nat : t = x.tries + 1
      BY <1>3
    <3>2. procs' = [procs EXCEPT ![p].pc = "sign", ![p].step = x.step, ![p].nonce = x.nonce, ![p].tries = t]
      BY <1>1, <2>2, <3>1 DEF Process
    <3>3. "sign" \in Onwards \ {"ensure"}
      BY DEF Onwards
    <3> QED BY <1>3, <1>5, <1>7, <3>2, <3>3
  <2> QED BY <1>7, <2>1, <2>2 DEF failed
<1>8. {"wait", "sign", "submit", "receipt", "verify"} \subseteq Onwards \ {"ensure"}
  BY DEF Onwards
<1>9. CASE beginBatch(p)
  <2>1. UNCHANGED mempool
    BY <1>9 DEF beginBatch
  <2>2. CASE exit(p, FreshSalt)
    BY <1>3, <1>4, <2>1, <2>2
  <2>3. CASE goto(p, "wait")
    BY <1>6, <1>8, <2>1, <2>3
  <2>4. CASE procs' = [procs EXCEPT ![p].pc = "sign",
                                    ![p].step = IF minDelay = 0 THEN "both" ELSE "schedule"]
    <3>1. PICK step \in Steps : step = IF minDelay = 0 THEN "both" ELSE "schedule"
      BY <1>3
    <3>2. procs' = [procs EXCEPT ![p].pc = "sign", ![p].step = step, ![p].nonce = x.nonce, ![p].tries = x.tries]
      BY <1>1, <2>4, <3>1 DEF Process
    <3> QED BY <1>3, <1>5, <1>8, <2>1, <3>2
  <2> QED BY <1>9, <2>2, <2>3, <2>4 DEF beginBatch
<1>10. CASE leaveScheduled(p) \/ dryRun(p) \/ crash(p)
  BY <1>3, <1>4, <1>10 DEF leaveScheduled, dryRun, crash
<1>11. CASE waitForDelay(p)
  <2>1. procs' = [procs EXCEPT ![p].pc = "sign", ![p].step = "execute", ![p].nonce = x.nonce, ![p].tries = x.tries]
        /\ UNCHANGED mempool
    BY <1>1, <1>11 DEF waitForDelay, Process
  <2> QED BY <1>3, <1>5, <1>8, <2>1
<1>12. CASE sign(p)
  <2>1. UNCHANGED mempool
    BY <1>12 DEF sign
  <2>2. CASE exit(p, NoHint)
    BY <1>3, <1>4, <2>1, <2>2
  <2>3. CASE procs' = [procs EXCEPT ![p].pc = "submit", ![p].nonce = nonces[safeRole(p)]]
    <3>1. PICK n \in Nat : n = nonces[safeRole(p)]
      BY <1>3 DEF safeRole
    <3>2. procs' = [procs EXCEPT ![p].pc = "submit", ![p].step = x.step, ![p].nonce = n, ![p].tries = x.tries]
      BY <1>1, <2>3, <3>1 DEF Process
    <3> QED BY <1>3, <1>5, <1>8, <2>1, <3>2
  <2> QED BY <1>12, <2>2, <2>3 DEF sign
<1>13. CASE submit(p)
  <2>1. CASE failed(p) /\ UNCHANGED mempool
    BY <1>7, <2>1
  <2>2. CASE mempool' = [mempool EXCEPT ![p] = Append(@, signedTx(p))] /\ goto(p, "receipt")
    <3>1. Made(signedTx(p), files)
      BY <1>1 DEF Made, signedTx, Transaction, Process, safeRole, Steps
    <3> QED BY <1>6, <1>8, <2>2, <3>1
  <2> QED BY <1>13, <2>1, <2>2 DEF submit
<1>14. CASE receipt(p) /\ ~ (at(p, "mined") /\ x.script = "create")
  <2>1. UNCHANGED mempool
    BY <1>14 DEF receipt
  <2>2. CASE failed(p)
    BY <1>7, <2>1, <2>2
  <2>3. CASE goto(p, "wait") \/ goto(p, "verify")
    BY <1>6, <1>8, <2>1, <2>3
  <2>4. CASE exit(p, x.hint)
    BY <1>3, <1>4, <2>1, <2>4
  <2>5. at(p, "mined") \/ at(p, "reverted")
    BY <1>14 DEF receipt, at
  <2> QED BY <1>14, <2>2, <2>3, <2>4, <2>5 DEF receipt, at
<1> QED BY <1>9, <1>10, <1>11, <1>12, <1>13, <1>14

-----------------------------------------------------------------------------
(***************************************************************************)
(* The chain, the relayers, and every step.                                *)
(***************************************************************************)

\* A transaction that succeeds leaves the chain as the invariant says.
LEMMA EffectKeeps ==
    ASSUME GovernanceInv, NEW tx, Made(tx, files), takeEffect(tx)
    PROVE  /\ sound(registry') /\ nonces' \in [{"gov", "guardian"} -> Nat]
           /\ \A s \in safes' : s.gen = files.owners /\ files.owners # 0
           /\ registry' = registry \/ nonces' # nonces
<1>1. /\ sound(registry) /\ SafesFit /\ nonces \in [{"gov", "guardian"} -> Nat]
  BY DEF GovernanceInv
<1>2. CASE tx.kind = "create"
  <2>1. registry' = registry /\ nonces' = nonces /\ safes' = safes \cup {tx.safe}
    BY <1>2 DEF takeEffect
  <2>2. tx.safe.gen = files.owners /\ files.owners # 0
    BY <1>2 DEF Made
  <2> QED BY <1>1, <2>1, <2>2 DEF SafesFit
<1>3. CASE tx.kind # "create"
  <2>1. tx.safe \in {"gov", "guardian"} /\ tx.calls \in Seq(Calls)
    BY <1>3 DEF Made, Transaction
  <2>2. safes' = safes /\ nonces' = [nonces EXCEPT ![tx.safe] = nonces[tx.safe] + 1]
    BY <1>3 DEF takeEffect
  <2>3. PICK n \in Nat : n = nonces[tx.safe]
    BY <1>1, <2>1
  <2>4. n + 1 \in Nat /\ n + 1 # n /\ nonces' = [nonces EXCEPT ![tx.safe] = n + 1]
    BY <2>2, <2>3
  <2>5. nonces' \in [{"gov", "guardian"} -> Nat] /\ nonces' # nonces
    BY <1>1, <2>1, <2>3, <2>4
  <2>6. sound(runCalls(tx.calls).reg)
    BY <1>1, <2>1, BatchKeepsSound
  <2>7. registry' = registry \/ registry' = runCalls(tx.calls).reg
    BY DEF takeEffect
  <2> QED BY <1>1, <2>2, <2>5, <2>6, <2>7 DEF SafesFit
<1> QED BY <1>2, <1>3

\* The oldest transaction of a process is mined.
LEMMA MineKeeps ==
    ASSUME GovernanceInv, NEW p \in Procs, mine(p)
    PROVE  GovernanceInv' /\ (registry' = registry \/ nonces' # nonces)
<1> DEFINE x == procs[p]
<1>1. /\ mempool \in [Procs -> Seq(Transaction)] /\ files' = files /\ salts' = salts
      /\ procs \in [Procs -> Process] /\ Fits(x, files)
      /\ sound(registry) /\ SafesFit /\ nonces \in [{"gov", "guardian"} -> Nat]
  BY DEF mine, GovernanceInv, MempoolFits, ProcessesFit
<1>2. PICK sent : sent = mempool[p] /\ sent \in Seq(Transaction) /\ sent # << >>
  BY <1>1 DEF mine
<1>3. PICK tx : tx = Head(sent)
  OBVIOUS
<1>4. PICK rest : rest = Tail(sent)
  OBVIOUS
<1>5. /\ \A k \in DOMAIN sent : Made(sent[k], files)
      /\ mempool' = [mempool EXCEPT ![p] = rest]
      /\ \/ takeEffect(tx)
         \/ UNCHANGED <<registry, safes, nonces>>
  BY <1>2, <1>3, <1>4 DEF mine, chain, GovernanceInv, MempoolFits
<1>6. /\ 1 \in DOMAIN sent /\ tx = sent[1] /\ rest \in Seq(Transaction)
      /\ \A k \in DOMAIN rest : k + 1 \in DOMAIN sent /\ rest[k] = sent[k + 1]
  BY <1>2, <1>3, <1>4
<1>7. Made(tx, files)
  BY <1>5, <1>6
<1>8. /\ sound(registry') /\ nonces' \in [{"gov", "guardian"} -> Nat] /\ SafesFit'
      /\ registry' = registry \/ nonces' # nonces
  <2>1. CASE takeEffect(tx)
    BY <1>1, <1>7, <2>1, EffectKeeps DEF SafesFit
  <2>2. CASE UNCHANGED <<registry, safes, nonces>>
    BY <1>1, <2>2 DEF SafesFit
  <2> QED BY <1>5, <2>1, <2>2
<1>9. MempoolFits'
  <2>1. mempool' \in [Procs -> Seq(Transaction)]
    BY <1>1, <1>5, <1>6
  <2>2. \A k \in DOMAIN rest : Made(rest[k], files)
    BY <1>5, <1>6
  <2>3. \A q \in Procs : \A k \in DOMAIN mempool'[q] : Made(mempool'[q][k], files)
    <3> SUFFICES ASSUME NEW q \in Procs, NEW k \in DOMAIN mempool'[q]
                 PROVE  Made(mempool'[q][k], files)
      OBVIOUS
    <3>1. CASE q = p
      BY <1>1, <1>5, <2>2, <3>1
    <3>2. CASE q # p
      BY <1>1, <1>5, <3>2 DEF GovernanceInv, MempoolFits
    <3> QED BY <3>1, <3>2
  <2> QED BY <1>1, <2>1, <2>3 DEF MempoolFits
<1>10. ProcessesFit'
  <2>1. CASE procs' = procs
    BY <1>1, <2>1 DEF GovernanceInv, ProcessesFit
  <2>2. CASE \E pc \in {"mined", "reverted"} : procs' = [procs EXCEPT ![p].pc = pc]
    <3>1. PICK pc \in {"mined", "reverted"} : procs' = [procs EXCEPT ![p].pc = pc]
      BY <2>2
    <3> DEFINE y == [x EXCEPT !.pc = pc]
    <3>2. procs' = [procs EXCEPT ![p] = y]
      BY <3>1
    <3>3. y \in Process /\ y.pc = pc /\ y.script = x.script
      BY <1>1, ZenonT(60) DEF Process
    <3> HIDE DEF y
    <3>4. Fits(y, files')
      BY <1>1, <3>3 DEF Fits
    <3> QED BY <1>1, <3>2, <3>4, ProcessMoves DEF GovernanceInv
  <2> QED BY <2>1, <2>2 DEF mine
<1> QED BY <1>1, <1>8, <1>9, <1>10 DEF GovernanceInv, FilesMatch

\* The registry moves and the scripts wait.
LEMMA RegistryMoves ==
    ASSUME GovernanceInv, sound(registry'), UNCHANGED <<safes, nonces, files, mempool, procs, salts>>
    PROVE  GovernanceInv'
BY DEF GovernanceInv, FilesMatch, ProcessesFit, MempoolFits, SafesFit

\* What a step may do to a frozen relayer.
Held ==
    \A a \in Addresses :
      registry.relayers[a].frozen /\ registry'.relayers[a].stake < registry.relayers[a].stake
        => guardianSlashes(a) \/ nonces' # nonces

LEMMA SameRegistryHeld == ASSUME GovernanceInv, registry' = registry \/ nonces' # nonces PROVE Held
<1>1. \A a \in Addresses : registry.relayers[a].stake \in Nat
  BY DEF GovernanceInv, sound, Storage, Row
<1> QED BY <1>1 DEF Held

\* Relayers and the slasher.
LEMMA RelayersKeep ==
    ASSUME GovernanceInv, NEW a \in Addresses, relayerActs(a) \/ guardianSlashes(a) \/ relayerLeaves(a)
    PROVE  GovernanceInv' /\ Held
<1>1. sound(registry) /\ UNCHANGED <<safes, nonces, files, mempool, procs, salts>>
  BY DEF GovernanceInv, relayerActs, guardianSlashes, relayerLeaves, govVars
<1>2. sound(registry') /\ HeldStep
  <2>1. CASE relayerActs(a)
    BY <1>1, <2>1, RelayerKeepsSound DEF relayerActs
  <2>2. CASE guardianSlashes(a)
    BY <1>1, <2>2, RelayerKeepsSound DEF guardianSlashes
  <2>3. CASE relayerLeaves(a)
    BY <1>1, <2>3, RelayerKeepsSound DEF relayerLeaves
  <2> QED BY <2>1, <2>2, <2>3
<1>3. Held
  <2>1. CASE relayerActs(a) \/ guardianSlashes(a)
    <3>1. /\ files.safes # 0 /\ bother
          /\ UNCHANGED <<safes, nonces, minDelay, operations, files, mempool, procs, salts>>
      BY <2>1 DEF relayerActs, guardianSlashes
    <3> QED BY <1>2, <3>1 DEF HeldStep, Held, guardianSlashes
  <2>2. CASE relayerLeaves(a)
    <3>1. \A b \in Addresses : registry.relayers[b].stake \in Nat
      BY <1>1 DEF sound, Storage, Row
    <3>2. CASE unlockTimePasses(a)
      <4>1. PICK row : Writes(a, row) /\ row.stake >= registry.relayers[a].stake
        BY <1>1, <3>2, RowFunctions
      <4>2. /\ registry'.relayers[a] = row /\ row \in Row
            /\ \A b \in Addresses \ {a} : registry'.relayers[b] = registry.relayers[b]
        BY <1>1, <4>1 DEF Writes, sound, Storage
      <4>3. row.stake \in Nat
        BY <4>2 DEF Row
      <4> QED BY <3>1, <4>1, <4>2, <4>3 DEF Held
    <3>3. CASE executeUnstake(a) \/ removeUnderCollateralized(a)
      BY <1>1, <3>1, <3>3, LeavesKeepsSound DEF Held
    <3> QED BY <2>2, <3>2, <3>3 DEF relayerLeaves
  <2> QED BY <2>1, <2>2
<1> QED BY <1>1, <1>2, <1>3, RegistryMoves

\* Every step keeps the invariant, and holds the frozen.
LEMMA GovernanceStep == GovernanceInv /\ [Next]_vars => GovernanceInv' /\ Held
<1> SUFFICES ASSUME GovernanceInv, [Next]_vars PROVE GovernanceInv' /\ Held
  OBVIOUS
<1>1. ASSUME NEW p \in Procs, startGenerate(p) \/ writeSecondFile(p) PROVE GovernanceInv' /\ Held
  <2>1. registry' = registry
    BY <1>1 DEF startGenerate, writeSecondFile, chain
  <2> QED BY <1>1, <2>1, KeysKeep, SameRegistryHeld
<1>2. ASSUME NEW p \in Procs, startCreate(p) \/ ensureSafe(p) \/ receipt(p) PROVE GovernanceInv' /\ Held
  <2>1. registry' = registry
    BY <1>2 DEF startCreate, ensureSafe, receipt, chain
  <2> QED BY <1>2, <2>1, CreateKeeps, BatchKeeps, SameRegistryHeld
<1>3. ASSUME NEW p \in Procs, startRegister(p) \/ planRegistration(p) \/ verifyRegistration(p)
      PROVE  GovernanceInv' /\ Held
  <2>1. registry' = registry
    BY <1>3 DEF startRegister, planRegistration, verifyRegistration, chain
  <2> QED BY <1>3, <2>1, RegisterKeeps, SameRegistryHeld
<1>4. ASSUME NEW p \in Procs, safeExec(p) \/ guardian(p, TRUE) \/ guardian(p, FALSE)
      PROVE  GovernanceInv' /\ Held
  <2>1. registry' = registry
    BY <1>4 DEF safeExec, guardian, chain
  <2> QED BY <1>4, <2>1, OperatorKeeps, SameRegistryHeld
<1>5. ASSUME NEW p \in Procs,
             \/ beginBatch(p) \/ leaveScheduled(p) \/ waitForDelay(p) \/ sign(p) \/ submit(p)
             \/ dryRun(p) \/ crash(p)
      PROVE  GovernanceInv' /\ Held
  <2>1. registry' = registry
    BY <1>5 DEF beginBatch, leaveScheduled, waitForDelay, sign, submit, dryRun, crash, chain
  <2> QED BY <1>5, <2>1, BatchKeeps, SameRegistryHeld
<1>6. ASSUME NEW p \in Procs, mine(p) PROVE GovernanceInv' /\ Held
  BY <1>6, MineKeeps, SameRegistryHeld
<1>7. CASE discardKeys
  <2>1. registry' = registry
    BY <1>7 DEF discardKeys, chain
  <2> QED BY <1>7, <2>1, DiscardKeeps, SameRegistryHeld
<1>8. CASE \/ UNCHANGED vars
           \/ \E id \in DOMAIN operations : delayPasses(id) \/ blockMined(id) \/ cancelOperation(id)
  <2>1. UNCHANGED <<registry, safes, nonces, files, mempool, procs, salts>>
    BY <1>8 DEF vars, govVars, delayPasses, blockMined, cancelOperation
  <2>2. sound(registry')
    BY <2>1 DEF GovernanceInv
  <2> QED BY <2>1, <2>2, RegistryMoves, SameRegistryHeld
<1> QED
  BY <1>1, <1>2, <1>3, <1>4, <1>5, <1>6, <1>7, <1>8, RelayersKeep DEF Next, start, advance

LEMMA GovernanceInvariant == Spec => []GovernanceInv
<1>1. Init => GovernanceInv
  BY GovernanceInit
<1>2. GovernanceInv /\ [Next]_vars => GovernanceInv'
  BY GovernanceStep
<1> QED BY <1>1, <1>2, PTL DEF Spec

\* The indexes over the relayers agree with the rows, whatever batch, relayer or
\* slash went before, in any order: register, rotateKey, executeUnstake, slash,
\* removeUnderCollateralized and forceUnregister of NoxRegistry.sol.
THEOREM GovernanceIndexesAgree == Spec => []IndexesAgree
<1>1. GovernanceInv => IndexesAgree
  BY DEF GovernanceInv, sound, IndexesAgree
<1> QED BY <1>1, GovernanceInvariant, PTL

\* The contract holds exactly the stakes of its relayers, for any number of them
\* and any stakes.
THEOREM GovernanceStakeBacked == Spec => []StakeBacked
<1>1. GovernanceInv => StakeBacked
  BY DEF GovernanceInv, sound, StakeBacked
<1> QED BY <1>1, GovernanceInvariant, PTL

\* The Safes that create-safes.ts made open with the keys generate-owners.ts left on
\* disk, wherever either died, and although a creation may be mined long after the
\* process that sent it ended.
THEOREM GovernanceSafesOpenable == Spec => []SafesOpenable
<1>1. GovernanceInv => SafesOpenable
  BY DEF GovernanceInv, SafesFit, FilesMatch, SafesOpenable
<1> QED BY <1>1, GovernanceInvariant, PTL

\* A frozen relayer loses stake to the slasher or to a transaction of a Safe, never
\* to a call of its own or of anyone else.
THEOREM GovernanceFrozenIsHeld == Spec => FrozenIsHeld
<1>1. GovernanceInv /\ [Next]_vars => [Held]_vars
  BY GovernanceStep
<1>2. FrozenIsHeld <=> [][Held]_vars
  BY DEF FrozenIsHeld, Held
<1> QED BY <1>1, <1>2, GovernanceInvariant, PTL DEF Spec

=============================================================================
