----------------------------- MODULE PssServer ------------------------------
(***************************************************************************)
(* The private state server (pss-server): one encrypted slot per account   *)
(* and collection behind a compare-and-swap on its version, an invite gate *)
(* on the first row of an account, and a guard against repeated requests.  *)
(*                                                                         *)
(* A request is authentic (the signature names its account) and its        *)
(* signature is the tuple it signs.  A handler reads its whole body first  *)
(* and is synchronous from there on, so it is one step.  The token bucket  *)
(* is the choice `allowed`.                                                *)
(***************************************************************************)
EXTENDS Integers, SequencesExt

CONSTANTS
    Account,
    Collection,
    Invite,             \* the codes the operator issued
    NoInvite,           \* a request without a code
    NoSlot,             \* a slot that has no row
    timestampSkew,      \* timestampSkewSeconds
    maxTrackedReplays,  \* capacity of the replay guard
    MaxTime             \* bound of the model

VARIABLES
    slots,    \* the table slots: [Account \X Collection -> row]
    unspent,  \* the table invites: the codes with spent = 0
    synced,   \* both tables as of the last write that reached the disk
    seenAt,   \* the guard's map, in insertion order: <<signature, instant>>
    now

db == <<slots, unspent>>
serverVars == <<slots, unspent, synced, seenAt, now>>

ASSUME ServerAssumption ==
    /\ timestampSkew \in Nat /\ maxTrackedReplays \in Nat \ {0} /\ MaxTime \in Nat
    /\ IsFiniteSet(Invite) /\ NoInvite \notin Invite

Put(a, c, version, prevVersion, data, timestamp, invite) ==
    [route |-> <<a, c>>, version |-> version, prevVersion |-> prevVersion,
     data |-> data, timestamp |-> timestamp, invite |-> invite]

\* The invite travels with the request and is not signed.
putSig(r) == <<r.route, r.version, r.prevVersion, r.data, r.timestamp>>
deleteSig(r) == <<r.account, r.nonce, r.timestamp>>

-----------------------------------------------------------------------------
(***************************************************************************)
(* auth.ts and replayGuard.ts.                                             *)
(***************************************************************************)

withinSkew(timestamp) ==
    timestamp - now < timestampSkew /\ now - timestamp < timestampSkew

\* Slip: the guard forgets after one skew, not after two.
windowSeconds_single == timestampSkew
windowSeconds == 2 * timestampSkew

expired(at) == now - at > windowSeconds

seen(sig) == \E k \in DOMAIN seenAt : seenAt[k][1] = sig /\ ~expired(seenAt[k][2])

\* Map.delete: the entry of a signature goes, if there is one.
without(entries, sig) ==
    LET found == {k \in DOMAIN entries : entries[k][1] = sig} IN
    IF found = {} THEN entries ELSE RemoveAt(entries, CHOOSE k \in found : TRUE)

\* The expired entries at the old end are dropped, up to the first that is not.
pruned(entries) ==
    LET keep == {k \in DOMAIN entries : ~expired(entries[k][2])}
        from == CHOOSE k \in 1 .. Len(entries) + 1 :
                   /\ \A j \in 1 .. k - 1 : j \notin keep
                   /\ k \in keep \/ k = Len(entries) + 1 IN
    SubSeq(entries, from, Len(entries))

\* The oldest ones past the capacity are dropped.
withinCapacity(entries) ==
    LET over == Len(entries) - maxTrackedReplays IN
    IF over > 0 THEN SubSeq(entries, over + 1, Len(entries)) ELSE entries

\* An expired entry of the signature itself went when seen was asked.
record(sig) == seenAt' = withinCapacity(Append(pruned(without(seenAt, sig)), <<sig, now>>))

-----------------------------------------------------------------------------
(***************************************************************************)
(* sqliteSlotStore.ts.                                                     *)
(***************************************************************************)

storedVersion(route) == IF slots[route] = NoSlot THEN 0 ELSE slots[route].version
hasAccountRow(a) == \E c \in Collection : slots[<<a, c>>] # NoSlot

row(r) == [version |-> r.version, prevVersion |-> r.prevVersion, data |-> r.data]

\* UPSERT_SLOT: a first row always lands, a later one only on its predecessor.
cas(r) ==
    slots[r.route] # NoSlot => /\ slots[r.route].version < r.version
                               /\ slots[r.route].version = r.prevVersion

\* Slip: the first row of an account needs no code.
inviteAccepted_always(r) == TRUE
inviteAccepted(r) == hasAccountRow(r.route[1]) \/ r.invite \in unspent

\* The transaction of upsert: the first row of an account spends a code with it.
gatedWrite(r) ==
    /\ slots' = [slots EXCEPT ![r.route] = row(r)]
    /\ unspent' = IF hasAccountRow(r.route[1]) THEN unspent ELSE unspent \ {r.invite}

deleteAccount(a) ==
    slots' = [s \in DOMAIN slots |-> IF s[1] = a THEN NoSlot ELSE slots[s]]

-----------------------------------------------------------------------------
(***************************************************************************)
(* http/server.ts: the handlers, with the status each path answers.        *)
(***************************************************************************)

handleGet(route) == slots[route]

\* The answer to a PUT; the store's own check of the version comes after the same
\* check by the handler, and cannot fail alone.
putStatus(r, allowed) ==
    CASE ~withinSkew(r.timestamp) -> "unauthorized"
      [] withinSkew(r.timestamp) /\ (\/ r.prevVersion # storedVersion(r.route)
                                     \/ r.version <= storedVersion(r.route)
                                     \/ seen(putSig(r))) -> "version_conflict"
      [] OTHER -> CASE ~allowed -> "rate_limited"
                    [] allowed /\ ~inviteAccepted(r) -> "unauthorized"
                    [] allowed /\ inviteAccepted(r) -> "ok"

handlePut(r, allowed) ==
    IF putStatus(r, allowed) = "ok"
    THEN cas(r) /\ gatedWrite(r) /\ record(putSig(r)) /\ UNCHANGED <<synced, now>>
    ELSE UNCHANGED serverVars

\* A DELETE is remembered only if it erased something.
handleDelete(r, allowed) ==
    /\ withinSkew(r.timestamp) /\ ~seen(deleteSig(r)) /\ allowed
    /\ hasAccountRow(r.account)
    /\ deleteAccount(r.account)
    /\ record(deleteSig(r))
    /\ UNCHANGED <<unspent, synced, now>>

-----------------------------------------------------------------------------
(***************************************************************************)
(* main.ts: the process and its database, opened with synchronous = NORMAL *)
(* under WAL, so that a power loss takes the last acknowledged writes.     *)
(***************************************************************************)

startServer ==
    /\ slots = [s \in Account \X Collection |-> NoSlot]
    /\ unspent = Invite
    /\ synced = db
    /\ seenAt = <<>>
    /\ now = 0

\* The guard and the limiter live in the process only.
Restart ==
    /\ seenAt' = <<>>
    /\ UNCHANGED <<slots, unspent, synced, now>>

Checkpoint ==
    /\ synced' = db
    /\ UNCHANGED <<slots, unspent, seenAt, now>>

PowerLoss ==
    /\ slots' = synced[1] /\ unspent' = synced[2]
    /\ seenAt' = <<>>
    /\ UNCHANGED <<synced, now>>

Tick ==
    /\ now < MaxTime
    /\ now' = now + 1
    /\ UNCHANGED <<slots, unspent, synced, seenAt>>

=============================================================================
