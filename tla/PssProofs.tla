----------------------------- MODULE PssProofs ------------------------------
(***************************************************************************)
(* The state server and the installs of an account.  Whatever authentic    *)
(* requests reach the server, late, out of order and repeated, through     *)
(* restarts and losses of power: no request takes effect twice in a        *)
(* process, and the codes that are spent are the accounts that were        *)
(* created.  Whichever install believes to be the writer, dies, is         *)
(* answered late or takes over: no index is handed out twice, no install   *)
(* is locked out by its own floor, and a handover names the holder its     *)
(* user confirmed.  For all sets of accounts, collections, codes,          *)
(* timestamps and installs and any number of writes, pulls and crashes.    *)
(***************************************************************************)
EXTENDS PssRequests, StateSync, DataProofs

-----------------------------------------------------------------------------
(***************************************************************************)
(* The replay guard.                                                       *)
(***************************************************************************)

Signature == {putSig(r) : r \in Puts} \cup {deleteSig(r) : r \in Deletes}
Entry == Signature \X Int

\* Forgetting one signature keeps the entries of the others.
LEMMA WithoutKeeps ==
    ASSUME NEW s \in Seq(Entry), NEW sig
    PROVE  /\ without(s, sig) \in Seq(Entry) /\ Len(without(s, sig)) =< Len(s)
           /\ \A k \in DOMAIN s : s[k][1] # sig =>
                \E j \in DOMAIN without(s, sig) : without(s, sig)[j] = s[k]
<1> DEFINE found == {k \in DOMAIN s : s[k][1] = sig}
           i == CHOOSE k \in found : TRUE
<1>1. without(s, sig) = IF found = {} THEN s ELSE RemoveAt(s, i)
  BY DEF without
<1>2. Len(s) \in Nat
  OBVIOUS
<1>3. CASE found = {}
  BY <1>1, <1>2, <1>3
<1>4. CASE found # {}
  <2>1. i \in DOMAIN s /\ s[i][1] = sig
    BY <1>4
  <2> HIDE DEF i
  <2>2. /\ RemoveAt(s, i) \in Seq(Entry) /\ Len(RemoveAt(s, i)) = Len(s) - 1
        /\ \A k \in DOMAIN s : k # i => \E j \in DOMAIN RemoveAt(s, i) : RemoveAt(s, i)[j] = s[k]
    BY <2>1, RemovedAt
  <2>3. PICK r : r = RemoveAt(s, i)
    OBVIOUS
  <2>4. without(s, sig) = r
    BY <1>1, <1>4, <2>3
  <2> HIDE DEF found
  <2>5. Len(r) =< Len(s)
    BY <1>2, <2>2, <2>3
  <2> QED BY <2>1, <2>2, <2>3, <2>4, <2>5
<1> QED BY <1>3, <1>4

\* Pruning keeps what has not expired.
LEMMA PrunedKeeps ==
    ASSUME NEW s \in Seq(Entry)
    PROVE  /\ pruned(s) \in Seq(Entry) /\ Len(pruned(s)) =< Len(s)
           /\ \A k \in DOMAIN s : ~ expired(s[k][2]) =>
                \E j \in DOMAIN pruned(s) : pruned(s)[j] = s[k]
<1> DEFINE keep == {k \in DOMAIN s : ~ expired(s[k][2])}
           end == Len(s) + 1
           First(k) == /\ \A j \in 1 .. k - 1 : j \notin keep
                       /\ k \in keep \/ k = end
           from == CHOOSE k \in 1 .. end : First(k)
<1>1. pruned(s) = SubSeq(s, from, Len(s))
  BY DEF pruned
<1>2. Len(s) \in Nat /\ DOMAIN s = 1 .. Len(s)
  OBVIOUS
<1>3. \E k \in 1 .. end : First(k)
  <2> DEFINE S == keep \cup {end}
  <2>1. S \subseteq Nat /\ S # {} /\ S \subseteq 1 .. end
    BY <1>2
  <2> HIDE DEF S
  <2>2. Min(S) \in S /\ \A m \in S : Min(S) =< m
    BY <2>1, LeastIsMin
  <2>3. PICK m \in 1 .. end : m = Min(S)
    BY <2>1, <2>2
  <2>4. \A j \in 1 .. m - 1 : j \notin keep
    <3> SUFFICES ASSUME NEW j \in 1 .. m - 1, j \in keep PROVE FALSE
      OBVIOUS
    <3>1. j \in S
      BY DEF S
    <3> HIDE DEF keep, end
    <3> QED BY <1>2, <2>2, <2>3, <3>1 DEF end
  <2>5. m \in keep \/ m = end
    BY <2>2, <2>3 DEF S
  <2> QED BY <2>4, <2>5
<1>4. from \in 1 .. end /\ First(from)
  <2> HIDE DEF First, end
  <2> QED BY <1>3
<1> HIDE DEF from
<1>5. \A k \in keep : k >= from
  <2> SUFFICES ASSUME NEW k \in keep, ~ (k >= from) PROVE FALSE
    OBVIOUS
  <2>1. k \in 1 .. Len(s)
    BY <1>2
  <2> HIDE DEF keep
  <2>2. k \in 1 .. from - 1
    BY <1>2, <1>4, <2>1
  <2> QED BY <1>4, <2>2
<1>6. PICK r : r = SubSeq(s, from, Len(s))
  OBVIOUS
<1>7. /\ r \in Seq(Entry) /\ Len(r) =< Len(s)
      /\ \A k \in DOMAIN s : k >= from => \E j \in DOMAIN r : r[j] = s[k]
  <2> HIDE DEF keep, First
  <2> QED BY <1>4, <1>6, Dropped
<1> QED BY <1>1, <1>5, <1>6, <1>7

\* A guard with room remembers the signature, and all that is not expired.
LEMMA Recorded ==
    ASSUME seenAt \in Seq(Entry), now \in Int, NEW sig \in Signature,
           Len(seenAt) + 1 =< maxTrackedReplays, record(sig)
    PROVE  /\ seenAt' \in Seq(Entry) /\ Len(seenAt') =< Len(seenAt) + 1
           /\ \E j \in DOMAIN seenAt' : seenAt'[j] = <<sig, now>>
           /\ \A k \in DOMAIN seenAt : seenAt[k][1] # sig /\ ~ expired(seenAt[k][2]) =>
                \E j \in DOMAIN seenAt' : seenAt'[j] = seenAt[k]
<1>1. PICK u : /\ u = without(seenAt, sig) /\ u \in Seq(Entry) /\ Len(u) =< Len(seenAt)
               /\ \A k \in DOMAIN seenAt : seenAt[k][1] # sig => \E j \in DOMAIN u : u[j] = seenAt[k]
  BY WithoutKeeps
<1>2. PICK v : /\ v = pruned(u) /\ v \in Seq(Entry) /\ Len(v) =< Len(u)
               /\ \A k \in DOMAIN u : ~ expired(u[k][2]) => \E j \in DOMAIN v : v[j] = u[k]
  BY <1>1, PrunedKeeps
<1>3. PICK e : e = <<sig, now>> /\ e \in Entry
  <2>1. <<sig, now>> \in Entry
    BY DEF Entry
  <2> QED BY <2>1
<1>4. PICK w : w = Append(v, e)
  OBVIOUS
<1>5. /\ w \in Seq(Entry) /\ Len(w) = Len(v) + 1
      /\ \A k \in DOMAIN v : k \in DOMAIN w /\ w[k] = v[k]
      /\ Len(v) + 1 \in DOMAIN w /\ w[Len(v) + 1] = e
  BY <1>2, <1>3, <1>4
<1>6. Len(seenAt) \in Nat /\ Len(u) \in Nat /\ Len(v) \in Nat /\ maxTrackedReplays \in Nat
  BY <1>1, <1>2, ServerAssumption
<1>7. Len(w) =< maxTrackedReplays /\ Len(w) =< Len(seenAt) + 1
  BY <1>1, <1>2, <1>5, <1>6
<1>8. seenAt' = w
  <2>1. seenAt' = withinCapacity(w)
    BY <1>1, <1>2, <1>3, <1>4 DEF record
  <2> QED BY <1>5, <1>6, <1>7, <2>1 DEF withinCapacity
<1>9. \A k \in DOMAIN seenAt : seenAt[k][1] # sig /\ ~ expired(seenAt[k][2]) =>
        \E j \in DOMAIN w : w[j] = seenAt[k]
  <2> SUFFICES ASSUME NEW k \in DOMAIN seenAt, seenAt[k][1] # sig, ~ expired(seenAt[k][2])
               PROVE  \E j \in DOMAIN w : w[j] = seenAt[k]
    OBVIOUS
  <2>1. PICK i \in DOMAIN u : u[i] = seenAt[k]
    BY <1>1
  <2>2. PICK j \in DOMAIN v : v[j] = u[i]
    BY <1>2, <2>1
  <2> QED BY <1>5, <2>1, <2>2
<1> QED BY <1>3, <1>5, <1>7, <1>8, <1>9

-----------------------------------------------------------------------------
(***************************************************************************)
(* The inductive invariant.                                                *)
(***************************************************************************)

\* t is the timestamp the signature sig signs.
Signs(sig, t) ==
    \/ \E r \in Puts : sig = putSig(r) /\ t = r.timestamp
    \/ \E r \in Deletes : sig = deleteSig(r) /\ t = r.timestamp

Rows == [version : 1 .. MaxVersion, prevVersion : 0 .. MaxVersion - 1, data : {"data"}]

Tables == [Account \X Collection -> Rows \cup {NoSlot}]

TablesTyped == slots \in Tables /\ synced[1] \in Tables

WellTyped ==
    /\ TablesTyped
    /\ now \in Int /\ seenAt \in Seq(Entry) /\ effects \in Seq(Signature)

\* A request that took effect can come too late only: while its timestamp is fresh
\* the guard holds it, and does not forget it before.
Guarded ==
    \A j \in DOMAIN effects : \A t \in Int : Signs(effects[j], t) =>
      \/ now - t >= timestampSkew
      \/ \E k \in DOMAIN seenAt : /\ seenAt[k][1] = effects[j]
                                  /\ t - seenAt[k][2] < timestampSkew

GuardInv ==
    /\ WellTyped /\ Guarded /\ TakesEffectOnce
    /\ Len(seenAt) =< Len(effects) /\ Len(effects) =< MaxEffects

\* What the tables say of the codes, in the process and on the disk.
InvitesInv ==
    /\ unspent \subseteq Invite /\ synced[2] \subseteq Invite
    /\ InvitesConserved
    /\ rows \in [made : Int, kept : Int]
    /\ rows.kept = Cardinality(Invite \ synced[2])

\* What a PUT and a DELETE are.
LEMMA PutFields ==
    ASSUME NEW r \in Puts
    PROVE  /\ r.route \in Account \X Collection /\ r.timestamp \in Int
           /\ row(r) \in Rows /\ r.version \in Int
           /\ putSig(r) \in Signature /\ Signs(putSig(r), r.timestamp)
           /\ \A t : Signs(putSig(r), t) => t = r.timestamp
<1>1. PICK a \in Account, c \in Collection, v \in 1 .. MaxVersion, p \in 0 .. MaxVersion - 1,
           t \in Stamp, i \in Invite \cup {NoInvite} : r = Put(a, c, v, p, "data", t, i)
  BY DEF Puts
<1>2. r.route = <<a, c>> /\ r.timestamp = t /\ r.version = v /\ r.prevVersion = p /\ r.data = "data"
  BY <1>1 DEF Put
<1>3. \A q \in Puts : putSig(q) = putSig(r) => q.timestamp = r.timestamp
  BY DEF putSig
<1>4. \A q \in Deletes : deleteSig(q) # putSig(r)
  <2>1. Len(putSig(r)) = 5 /\ \A q : Len(deleteSig(q)) = 3
    BY DEF putSig, deleteSig
  <2> QED BY <2>1
<1>5. row(r) \in Rows
  BY <1>2, RequestsAssumption DEF row, Rows
<1> QED BY <1>2, <1>3, <1>4, <1>5, RequestsAssumption DEF Signs, Signature

LEMMA DeleteFields ==
    ASSUME NEW r \in Deletes
    PROVE  /\ r.account \in Account /\ r.timestamp \in Int
           /\ deleteSig(r) \in Signature /\ Signs(deleteSig(r), r.timestamp)
           /\ \A t : Signs(deleteSig(r), t) => t = r.timestamp
<1>1. r.account \in Account /\ r.timestamp \in Stamp
  BY DEF Deletes
<1>2. \A q \in Deletes : deleteSig(q) = deleteSig(r) => q.timestamp = r.timestamp
  BY DEF deleteSig
<1>3. \A q \in Puts : putSig(q) # deleteSig(r)
  <2>1. Len(deleteSig(r)) = 3 /\ \A q : Len(putSig(q)) = 5
    BY DEF putSig, deleteSig
  <2> QED BY <2>1
<1> QED BY <1>1, <1>2, <1>3, RequestsAssumption DEF Signs, Signature

\* A request that is fresh and that the guard has not seen takes effect: the
\* invariant holds when it has.
LEMMA EffectGuarded ==
    ASSUME MaxEffects =< maxTrackedReplays, GuardInv,
           NEW sig \in Signature, NEW t \in Int, Signs(sig, t), \A u : Signs(sig, u) => u = t,
           withinSkew(t), ~ seen(sig), Len(effects) < MaxEffects,
           record(sig), effects' = Append(effects, sig),
           now' = now, slots' \in Tables, synced' = synced
    PROVE  GuardInv'
<1>1. /\ WellTyped /\ Guarded /\ now \in Int /\ seenAt \in Seq(Entry) /\ effects \in Seq(Signature)
      /\ Len(seenAt) =< Len(effects)
  BY DEF GuardInv, WellTyped, TablesTyped
<1>2. /\ Len(seenAt) \in Nat /\ Len(effects) \in Nat /\ MaxEffects \in Nat
      /\ maxTrackedReplays \in Nat /\ timestampSkew \in Nat
  BY <1>1, ServerAssumption, RequestsAssumption
<1>3. /\ seenAt' \in Seq(Entry) /\ Len(seenAt') =< Len(seenAt) + 1
      /\ \E j \in DOMAIN seenAt' : seenAt'[j] = <<sig, now>>
      /\ \A k \in DOMAIN seenAt : seenAt[k][1] # sig /\ ~ expired(seenAt[k][2]) =>
           \E j \in DOMAIN seenAt' : seenAt'[j] = seenAt[k]
  BY <1>1, <1>2, Recorded
<1>4. t - now < timestampSkew /\ now - t < timestampSkew
  BY DEF withinSkew
<1>5. \A k \in DOMAIN seenAt : seenAt[k][2] \in Int
  BY <1>1 DEF Entry
<1>6. \A k \in DOMAIN seenAt, u \in Int :
        u - seenAt[k][2] < timestampSkew /\ now - u < timestampSkew => ~ expired(seenAt[k][2])
  <2>1. \A at, u \in Int : u - at < timestampSkew /\ now - u < timestampSkew => ~ expired(at)
    BY <1>1, <1>2 DEF expired, windowSeconds
  <2> QED BY <1>5, <2>1
<1>7. \A j \in DOMAIN effects : effects[j] # sig
  <2> SUFFICES ASSUME NEW j \in DOMAIN effects, effects[j] = sig PROVE FALSE
    OBVIOUS
  <2>1. ~ (now - t >= timestampSkew)
    BY <1>1, <1>2, <1>4
  <2>2. PICK k \in DOMAIN seenAt : seenAt[k][1] = sig /\ t - seenAt[k][2] < timestampSkew
    BY <1>1, <2>1 DEF Guarded
  <2>3. ~ expired(seenAt[k][2])
    BY <1>4, <1>6, <2>2
  <2> QED BY <2>2, <2>3 DEF seen
<1>8. /\ effects' \in Seq(Signature) /\ Len(effects') = Len(effects) + 1
      /\ DOMAIN effects' = 1 .. Len(effects) + 1 /\ DOMAIN effects = 1 .. Len(effects)
      /\ \A j \in DOMAIN effects : effects'[j] = effects[j]
      /\ effects'[Len(effects) + 1] = sig
  BY <1>1
<1>9. \A j \in DOMAIN effects' : j \in DOMAIN effects \/ j = Len(effects) + 1
  BY <1>2, <1>8
<1>10. Guarded'
  <2> SUFFICES ASSUME NEW j \in DOMAIN effects', NEW u \in Int, Signs(effects'[j], u),
                      ~ (now - u >= timestampSkew)
               PROVE  \E k \in DOMAIN seenAt' : /\ seenAt'[k][1] = effects'[j]
                                                /\ u - seenAt'[k][2] < timestampSkew
    BY DEF Guarded, Signs
  <2>1. CASE effects'[j] = sig
    <3>1. u = t
      BY <2>1
    <3>2. PICK k \in DOMAIN seenAt' : seenAt'[k] = <<sig, now>>
      BY <1>3
    <3>3. seenAt'[k][1] = sig /\ seenAt'[k][2] = now
      BY <3>2
    <3> QED BY <1>4, <2>1, <3>1, <3>3
  <2>2. CASE effects'[j] # sig
    <3>1. j \in DOMAIN effects /\ effects'[j] = effects[j]
      BY <1>8, <1>9, <2>2
    <3>2. PICK k \in DOMAIN seenAt : /\ seenAt[k][1] = effects[j]
                                     /\ u - seenAt[k][2] < timestampSkew
      BY <1>1, <3>1 DEF Guarded
    <3>3. now - u < timestampSkew
      BY <1>1, <1>2
    <3>4. ~ expired(seenAt[k][2])
      BY <1>6, <3>2, <3>3
    <3>5. PICK i \in DOMAIN seenAt' : seenAt'[i] = seenAt[k]
      BY <1>3, <2>2, <3>1, <3>2, <3>4
    <3> QED BY <3>1, <3>2, <3>5
  <2> QED BY <2>1, <2>2
<1>11. TakesEffectOnce'
  <2> SUFFICES ASSUME NEW j \in DOMAIN effects', NEW k \in DOMAIN effects', effects'[j] = effects'[k]
               PROVE  j = k
    BY DEF TakesEffectOnce
  <2> QED BY <1>7, <1>8, <1>9 DEF GuardInv, TakesEffectOnce
<1>12. WellTyped'
  BY <1>1, <1>3, <1>8 DEF WellTyped, TablesTyped
<1>13. Len(seenAt') =< Len(effects') /\ Len(effects') =< MaxEffects
  <2>1. Len(seenAt') \in Nat
    BY <1>3
  <2> QED BY <1>1, <1>2, <1>3, <1>8, <2>1
<1> QED BY <1>10, <1>11, <1>12, <1>13 DEF GuardInv

-----------------------------------------------------------------------------
(***************************************************************************)
(* Every step.                                                             *)
(***************************************************************************)

\* A PUT that the server takes changes its slot, and is the first row of its
\* account only with an unspent code.
LEMMA PutTaken ==
    ASSUME TablesTyped, NEW r \in Puts, putStatus(r, TRUE) = "ok", handlePut(r, TRUE)
    PROVE  /\ withinSkew(r.timestamp) /\ ~ seen(putSig(r)) /\ record(putSig(r))
           /\ now' = now /\ synced' = synced
           /\ slots' \in Tables /\ slots' # slots
           /\ hasAccountRow(r.route[1]) => unspent' = unspent
           /\ ~ hasAccountRow(r.route[1]) => r.invite \in unspent /\ unspent' = unspent \ {r.invite}
<1>1. /\ withinSkew(r.timestamp) /\ ~ seen(putSig(r)) /\ inviteAccepted(r)
      /\ r.prevVersion = storedVersion(r.route) /\ ~ (r.version <= storedVersion(r.route))
  BY DEF putStatus
<1>2. gatedWrite(r) /\ record(putSig(r)) /\ now' = now /\ synced' = synced
  BY DEF handlePut
<1>3. slots' = [slots EXCEPT ![r.route] = row(r)] /\ slots \in Tables
  BY <1>2 DEF gatedWrite, TablesTyped
<1>4. r.route \in Account \X Collection /\ row(r) \in Rows /\ r.version \in Int
  BY PutFields
<1>5. slots' \in Tables /\ slots'[r.route] = row(r)
  BY <1>3, <1>4 DEF Tables
<1>6. row(r) # slots[r.route]
  <2>1. CASE slots[r.route] = NoSlot
    BY <1>4, <2>1, RequestsAssumption DEF Rows
  <2>2. CASE slots[r.route] # NoSlot
    <3>1. ~ (r.version <= slots[r.route].version) /\ row(r).version = r.version
      BY <1>1, <2>2 DEF storedVersion, row
    <3> QED BY <1>4, <3>1
  <2> QED BY <2>1, <2>2
<1>7. slots' # slots
  BY <1>5, <1>6
<1> QED BY <1>1, <1>2, <1>5, <1>7 DEF gatedWrite, inviteAccepted

\* A DELETE that the server takes changes a slot.
LEMMA DeleteTaken ==
    ASSUME TablesTyped, NEW r \in Deletes, handleDelete(r, TRUE)
    PROVE  /\ withinSkew(r.timestamp) /\ ~ seen(deleteSig(r)) /\ record(deleteSig(r))
           /\ now' = now /\ synced' = synced /\ unspent' = unspent
           /\ slots' \in Tables /\ slots' # slots
<1>1. /\ slots' = [s \in DOMAIN slots |-> IF s[1] = r.account THEN NoSlot ELSE slots[s]]
      /\ hasAccountRow(r.account) /\ slots \in Tables
  BY DEF handleDelete, deleteAccount, TablesTyped
<1>2. slots' \in Tables
  BY <1>1 DEF Tables
<1>3. PICK c \in Collection : slots[<<r.account, c>>] # NoSlot
  BY <1>1 DEF hasAccountRow
<1>4. <<r.account, c>> \in Account \X Collection /\ <<r.account, c>>[1] = r.account
  BY DeleteFields
<1>5. slots'[<<r.account, c>>] = NoSlot
  BY <1>1, <1>4 DEF Tables
<1> QED BY <1>2, <1>3, <1>5 DEF handleDelete

LEMMA GuardInit == ASSUME InitRequests PROVE GuardInv
<1>1. /\ slots = [s \in Account \X Collection |-> NoSlot] /\ synced[1] = slots
      /\ seenAt = << >> /\ now = 0 /\ effects = << >>
  BY DEF InitRequests, startServer, db
<1>2. WellTyped
  BY <1>1 DEF WellTyped, TablesTyped, Tables
<1>3. DOMAIN effects = {} /\ Len(effects) = 0 /\ Len(seenAt) = 0
  BY <1>1
<1> QED BY <1>2, <1>3, RequestsAssumption DEF GuardInv, Guarded, TakesEffectOnce

\* The guard's invariant is kept as long as the guard has room for every request
\* that takes effect.
LEMMA GuardStep ==
    ASSUME MaxEffects =< maxTrackedReplays, GuardInv, [NextRequests]_requestVars
    PROVE  GuardInv'
<1>1. /\ WellTyped /\ Guarded /\ TakesEffectOnce
      /\ now \in Int /\ timestampSkew \in Nat /\ MaxEffects \in Nat
      /\ Len(seenAt) =< Len(effects) /\ Len(effects) =< MaxEffects
  BY ServerAssumption, RequestsAssumption DEF GuardInv, WellTyped, TablesTyped
<1>2. ASSUME UNCHANGED <<seenAt, effects, now>>, slots' \in Tables, synced'[1] \in Tables PROVE GuardInv'
  BY <1>1, <1>2 DEF GuardInv, WellTyped, TablesTyped, Guarded, TakesEffectOnce, Signs
<1>3. ASSUME seenAt' = << >>, effects' = << >>, now' = now, synced' = synced, slots' \in Tables
      PROVE  GuardInv'
  <2>1. WellTyped'
    BY <1>1, <1>3 DEF WellTyped, TablesTyped
  <2>2. DOMAIN effects' = {} /\ Len(effects') = 0 /\ Len(seenAt') = 0
    BY <1>3
  <2> QED BY <1>1, <2>1, <2>2 DEF GuardInv, Guarded, TakesEffectOnce
<1>4. ASSUME NEW r \in Puts, PutArrives(r), Len(effects) < MaxEffects PROVE GuardInv'
  <2>1. handlePut(r, TRUE) /\ tookEffect(putSig(r))
    BY <1>4 DEF PutArrives
  <2>2. CASE putStatus(r, TRUE) = "ok"
    <3>1. /\ withinSkew(r.timestamp) /\ ~ seen(putSig(r)) /\ record(putSig(r))
          /\ now' = now /\ synced' = synced /\ slots' \in Tables /\ slots' # slots
      BY <1>1, <2>1, <2>2, PutTaken DEF WellTyped
    <3>2. effects' = Append(effects, putSig(r))
      BY <2>1, <3>1 DEF tookEffect
    <3> QED BY <1>4, <3>1, <3>2, PutFields, EffectGuarded
  <2>3. CASE putStatus(r, TRUE) # "ok"
    <3>1. UNCHANGED serverVars /\ effects' = effects
      BY <2>1, <2>3 DEF handlePut, serverVars, tookEffect
    <3> QED BY <1>1, <1>2, <3>1 DEF serverVars, WellTyped, TablesTyped
  <2> QED BY <2>2, <2>3
<1>5. ASSUME NEW r \in Deletes, DeleteArrives(r), Len(effects) < MaxEffects PROVE GuardInv'
  <2>1. handleDelete(r, TRUE) /\ tookEffect(deleteSig(r))
    BY <1>5 DEF DeleteArrives
  <2>2. /\ withinSkew(r.timestamp) /\ ~ seen(deleteSig(r)) /\ record(deleteSig(r))
        /\ now' = now /\ synced' = synced /\ slots' \in Tables /\ slots' # slots
    BY <1>1, <2>1, DeleteTaken DEF WellTyped
  <2>3. effects' = Append(effects, deleteSig(r))
    BY <2>1, <2>2 DEF tookEffect
  <2> QED BY <1>5, <2>2, <2>3, DeleteFields, EffectGuarded
<1>6. CASE Tick /\ UNCHANGED <<effects, rows>>
  <2>1. now' = now + 1 /\ UNCHANGED <<slots, synced, seenAt, effects>>
    BY <1>6 DEF Tick
  <2>2. WellTyped' /\ TakesEffectOnce'
    BY <1>1, <2>1 DEF WellTyped, TablesTyped, TakesEffectOnce
  <2>3. Guarded'
    <3> SUFFICES ASSUME NEW j \in DOMAIN effects, NEW t \in Int, Signs(effects[j], t)
                 PROVE  \/ now' - t >= timestampSkew
                        \/ \E k \in DOMAIN seenAt : /\ seenAt[k][1] = effects[j]
                                                    /\ t - seenAt[k][2] < timestampSkew
      BY <2>1 DEF Guarded, Signs
    <3>1. now - t >= timestampSkew => now' - t >= timestampSkew
      BY <1>1, <2>1
    <3> QED BY <1>1, <3>1 DEF Guarded
  <2> QED BY <1>1, <2>1, <2>2, <2>3 DEF GuardInv
<1>7. CASE Operate
  <2>1. CASE Restart /\ effects' = << >> /\ UNCHANGED rows
    <3>1. seenAt' = << >> /\ effects' = << >> /\ now' = now /\ synced' = synced /\ slots' = slots
      BY <2>1 DEF Restart
    <3> QED BY <1>1, <1>3, <3>1 DEF WellTyped, TablesTyped
  <2>2. CASE PowerLoss /\ effects' = << >> /\ rows' = [rows EXCEPT !.made = rows.kept]
    <3>1. seenAt' = << >> /\ effects' = << >> /\ now' = now /\ synced' = synced /\ slots' = synced[1]
      BY <2>2 DEF PowerLoss
    <3> QED BY <1>1, <1>3, <3>1 DEF WellTyped, TablesTyped
  <2>3. CASE Checkpoint /\ UNCHANGED effects
    <3>1. UNCHANGED <<seenAt, effects, now, slots>> /\ synced'[1] = slots
      BY <2>3 DEF Checkpoint, db
    <3> QED BY <1>1, <1>2, <3>1 DEF WellTyped, TablesTyped
  <2> QED BY <1>7, <2>1, <2>2, <2>3 DEF Operate
<1>8. CASE UNCHANGED requestVars
  BY <1>1, <1>2, <1>8 DEF requestVars, serverVars, WellTyped, TablesTyped
<1> QED BY <1>4, <1>5, <1>6, <1>7, <1>8 DEF NextRequests

\* No request takes effect twice in one process of the server, whatever the clocks,
\* the deletions and the order of arrival, as long as no more requests take effect
\* than the guard can hold: the window of main.ts:75 outlives every timestamp that
\* withinSkew still takes.
THEOREM PssTakesEffectOnce ==
    ASSUME MaxEffects =< maxTrackedReplays
    PROVE  SpecRequests => []TakesEffectOnce
<1>1. InitRequests => GuardInv
  BY GuardInit
<1>2. GuardInv /\ [NextRequests]_requestVars => GuardInv'
  BY GuardStep
<1>3. GuardInv => TakesEffectOnce
  BY DEF GuardInv
<1> QED BY <1>1, <1>2, <1>3, PTL DEF SpecRequests

\* One more code is spent.
LEMMA Spent ==
    ASSUME NEW U, U \subseteq Invite, NEW i \in U
    PROVE  /\ Cardinality(Invite \ (U \ {i})) = Cardinality(Invite \ U) + 1
           /\ Cardinality(Invite \ U) \in Int
<1>1. IsFiniteSet(Invite)
  BY ServerAssumption
<1>2. IsFiniteSet(Invite \ U) /\ i \notin Invite \ U
  BY <1>1, FS_Difference
<1>3. Invite \ (U \ {i}) = (Invite \ U) \cup {i}
  OBVIOUS
<1>4. Cardinality(Invite \ U) \in Nat
  BY <1>2, FS_CardinalityType
<1> QED BY <1>2, <1>3, <1>4, FS_AddElement

\* Every step keeps the account of the codes.
LEMMA InvitesStep ==
    ASSUME TablesTyped, InvitesInv, [NextRequests]_requestVars
    PROVE  InvitesInv'
<1>1. /\ unspent \subseteq Invite /\ synced[2] \subseteq Invite
      /\ rows \in [made : Int, kept : Int]
      /\ Cardinality(Invite \ unspent) = rows.made
      /\ Cardinality(Invite \ synced[2]) = rows.kept
  BY DEF InvitesInv, InvitesConserved
<1>2. ASSUME UNCHANGED <<unspent, rows>>, synced' = synced PROVE InvitesInv'
  BY <1>1, <1>2 DEF InvitesInv, InvitesConserved
<1>3. ASSUME NEW r \in Puts, PutArrives(r) PROVE InvitesInv'
  <2>1. /\ handlePut(r, TRUE)
        /\ rows' = IF slots' # slots /\ ~ hasAccountRow(r.route[1])
                   THEN [rows EXCEPT !.made = rows.made + 1] ELSE rows
    BY <1>3 DEF PutArrives
  <2>2. CASE putStatus(r, TRUE) = "ok" /\ hasAccountRow(r.route[1])
    <3>1. unspent' = unspent /\ synced' = synced
      BY <2>1, <2>2, PutTaken
    <3> QED BY <1>2, <2>1, <2>2, <3>1
  <2>3. CASE putStatus(r, TRUE) = "ok" /\ ~ hasAccountRow(r.route[1])
    <3>1. slots' # slots /\ r.invite \in unspent /\ unspent' = unspent \ {r.invite} /\ synced' = synced
      BY <2>1, <2>3, PutTaken
    <3>2. rows' = [rows EXCEPT !.made = rows.made + 1]
      BY <2>1, <2>3, <3>1
    <3>3. rows' \in [made : Int, kept : Int] /\ rows'.made = rows.made + 1 /\ rows'.kept = rows.kept
      BY <1>1, <3>2
    <3>4. Cardinality(Invite \ unspent') = Cardinality(Invite \ unspent) + 1
      BY <1>1, <3>1, Spent
    <3> QED BY <1>1, <3>1, <3>3, <3>4 DEF InvitesInv, InvitesConserved
  <2>4. CASE putStatus(r, TRUE) # "ok"
    <3>1. UNCHANGED serverVars /\ rows' = rows
      BY <2>1, <2>4 DEF handlePut, serverVars
    <3> QED BY <1>2, <3>1 DEF serverVars
  <2> QED BY <2>2, <2>3, <2>4
<1>4. ASSUME NEW r \in Deletes, DeleteArrives(r) PROVE InvitesInv'
  <2>1. UNCHANGED <<unspent, rows, synced>>
    BY <1>4 DEF DeleteArrives, handleDelete
  <2> QED BY <1>2, <2>1
<1>5. CASE Tick /\ UNCHANGED <<effects, rows>>
  BY <1>2, <1>5 DEF Tick
<1>6. CASE Restart /\ UNCHANGED rows
  BY <1>2, <1>6 DEF Restart
<1>7. CASE PowerLoss /\ rows' = [rows EXCEPT !.made = rows.kept]
  <2>1. unspent' = synced[2] /\ synced' = synced
    BY <1>7 DEF PowerLoss
  <2>2. rows' \in [made : Int, kept : Int] /\ rows'.made = rows.kept /\ rows'.kept = rows.kept
    BY <1>1, <1>7
  <2> QED BY <1>1, <2>1, <2>2 DEF InvitesInv, InvitesConserved
<1>8. CASE Checkpoint /\ rows' = [rows EXCEPT !.kept = rows.made]
  <2>1. unspent' = unspent /\ synced'[2] = unspent
    BY <1>8 DEF Checkpoint, db
  <2>2. rows' \in [made : Int, kept : Int] /\ rows'.made = rows.made /\ rows'.kept = rows.made
    BY <1>1, <1>8
  <2> QED BY <1>1, <2>1, <2>2 DEF InvitesInv, InvitesConserved
<1>9. CASE UNCHANGED requestVars
  BY <1>2, <1>9 DEF requestVars, serverVars
<1> QED BY <1>3, <1>4, <1>5, <1>6, <1>7, <1>8, <1>9 DEF NextRequests, Operate

\* The tables keep their types.
LEMMA TablesStep == ASSUME TablesTyped, [NextRequests]_requestVars PROVE TablesTyped'
<1>1. ASSUME UNCHANGED <<slots, synced>> PROVE TablesTyped'
  BY <1>1 DEF TablesTyped
<1>2. ASSUME NEW r \in Puts, PutArrives(r) PROVE TablesTyped'
  <2>1. UNCHANGED serverVars \/ (gatedWrite(r) /\ synced' = synced)
    BY <1>2 DEF PutArrives, handlePut
  <2>2. CASE gatedWrite(r) /\ synced' = synced
    <3>1. slots' = [slots EXCEPT ![r.route] = row(r)]
      BY <2>2 DEF gatedWrite
    <3> QED BY <2>2, <3>1, PutFields DEF TablesTyped, Tables
  <2> QED BY <1>1, <2>1, <2>2 DEF serverVars
<1>3. ASSUME NEW r \in Deletes, DeleteArrives(r) PROVE TablesTyped'
  <2>1. /\ slots' = [s \in DOMAIN slots |-> IF s[1] = r.account THEN NoSlot ELSE slots[s]]
        /\ synced' = synced
    BY <1>3 DEF DeleteArrives, handleDelete, deleteAccount
  <2> QED BY <2>1 DEF TablesTyped, Tables
<1>4. CASE Operate
  BY <1>4 DEF Operate, Restart, PowerLoss, Checkpoint, db, TablesTyped
<1> QED BY <1>1, <1>2, <1>3, <1>4 DEF NextRequests, Tick, requestVars, serverVars

\* Each account that exists, or existed and was deleted, cost exactly one code, and
\* no code was burnt without an account, through restarts and losses of power: the
\* transaction of sqliteSlotStore.ts writes the row and spends the code together.
THEOREM PssInvitesConserved == SpecRequests => []InvitesConserved
<1>1. InitRequests => TablesTyped /\ InvitesInv
  <2> SUFFICES ASSUME InitRequests PROVE TablesTyped /\ InvitesInv
    OBVIOUS
  <2>1. /\ slots = [s \in Account \X Collection |-> NoSlot] /\ synced[1] = slots
        /\ unspent = Invite /\ synced[2] = Invite /\ rows = [made |-> 0, kept |-> 0]
    BY DEF InitRequests, startServer, db
  <2>2. Invite \ Invite = {} /\ Cardinality({}) = 0
    BY FS_EmptySet
  <2>3. TablesTyped
    BY <2>1 DEF TablesTyped, Tables
  <2>4. rows \in [made : Int, kept : Int] /\ rows.made = 0 /\ rows.kept = 0
    BY <2>1
  <2>5. Cardinality(Invite \ unspent) = 0 /\ Cardinality(Invite \ synced[2]) = 0
    BY <2>1, <2>2
  <2>6. unspent \subseteq Invite /\ synced[2] \subseteq Invite
    BY <2>1
  <2> QED BY <2>3, <2>4, <2>5, <2>6 DEF InvitesInv, InvitesConserved
<1>2. TablesTyped /\ InvitesInv /\ [NextRequests]_requestVars => (TablesTyped /\ InvitesInv)'
  BY TablesStep, InvitesStep
<1>3. InvitesInv => InvitesConserved
  BY DEF InvitesInv
<1> QED BY <1>1, <1>2, <1>3, PTL DEF SpecRequests

-----------------------------------------------------------------------------
(***************************************************************************)
(* The installs: types.                                                    *)
(***************************************************************************)

Row == [version : Nat \ {0}, prevVersion : Nat, data : Payload]

Outcome == {"absent", "missing", "present"} \X Nat

Session ==
    [up : {TRUE}, mode : {"writer", "readonly"}, createEligible : BOOLEAN,
     remote : Payload \cup {None}, storedVersion : Nat, lastPull : Outcome,
     grant : Install \cup {None}]

Request ==
    [route : {route}, version : Nat \ {0}, prevVersion : Nat, data : Payload,
     timestamp : Int, invite : Invite \cup {NoInvite}]

Message == [from : Install, awaited : BOOLEAN, req : Request]

Status == {"none", "ok", "unauthorized", "version_conflict", "rate_limited"}

Operation ==
    [kind : {"reserve", "push"}, pc : {"pull", "turn", "put", "accept"}, attempt : Nat,
     outcome : Outcome \cup {None}, base : Nat, answer : Status, req : Request \cup {None}]

Get == [by : {"user", "queue"}, answer : Row \cup {NoSlot, Pending}, late : BOOLEAN]

-----------------------------------------------------------------------------
(***************************************************************************)
(* The inductive invariant: what holds of one install and of one message,  *)
(* when the slot holds r, rc raced and cf was confirmed.                   *)
(***************************************************************************)

versionOf(r) == IF r = NoSlot THEN 0 ELSE r.version

\* The high-water mark of the local payload.
kept(p) == IF p = None THEN 0 ELSE p.counter

at(o, pc) == o.kind # "idle" /\ o.pc = pc

\* The install whose pulled version is the slot's has the slot's counter.
CaughtUp(r, p, s) ==
    s.up => /\ s.storedVersion <= versionOf(r)
            /\ r # NoSlot /\ s.storedVersion = r.version => kept(p) >= r.data.counter

\* It also knows who holds the slot, between its own writes.
KnowsHolder(r, rc, i, s, o) ==
    s.up /\ i \notin rc =>
      IF at(o, "accept") THEN s.storedVersion = o.req.version
      ELSE r # NoSlot /\ s.storedVersion = r.version => s.remote = r.data

Entitled(cf, i, j) == \E c \in cf : c[1] = i /\ c[2] = j

\* A grant is what a user confirmed.
Granted(cf, i, s) == s.up /\ s.grant # None => Entitled(cf, i, s.grant)

\* An answer is the slot's row, or an older one.
AnswersTrue(r, q) ==
    \A k \in DOMAIN q : q[k].answer \in Row =>
      q[k].answer.version <= versionOf(r) /\ (q[k].answer.version = versionOf(r) => q[k].answer = r)

\* The queue waits for one pull at most, and for nothing else meanwhile.
QueuePulls(o, q) ==
    /\ \A k \in DOMAIN q : q[k].by = "queue" => at(o, "pull")
    /\ \A j, k \in DOMAIN q : q[j].by = "queue" /\ q[k].by = "queue" => j = k

\* The write under way: what it writes over, and what the server took.
WriteTrue(r, p, o) ==
    /\ at(o, "pull") \/ at(o, "turn") => o.answer = "none"
    /\ at(o, "turn") /\ o.kind = "push" => o.outcome \in Outcome
    /\ at(o, "put") \/ at(o, "accept") => o.req \in Request
    /\ at(o, "put") => o.req.prevVersion <= versionOf(r) /\ kept(p) >= o.req.data.counter
    /\ at(o, "put") /\ o.kind = "reserve" =>
         /\ o.req.data.counter = o.base + 1
         /\ o.answer = "none" /\ r # NoSlot /\ o.req.prevVersion = r.version => o.base >= r.data.counter
    /\ (at(o, "put") /\ o.answer = "ok") \/ at(o, "accept") =>
         o.req.version <= versionOf(r) /\ (o.req.version = versionOf(r) => r.data = o.req.data)
    /\ at(o, "accept") => o.answer = "ok"

InstallOk(r, rc, cf, i, f, p, s, o, q) ==
    /\ f \in Nat /\ p \in Payload \cup {None} /\ s \in Session \cup {Down}
    /\ o \in Operation \cup {Idle} /\ q \in Seq(Get)
    /\ f <= versionOf(r)
    /\ ~ s.up => o = Idle /\ q = << >>
    /\ CaughtUp(r, p, s) /\ KnowsHolder(r, rc, i, s, o) /\ Granted(cf, i, s)
    /\ AnswersTrue(r, q) /\ QueuePulls(o, q) /\ WriteTrue(r, p, o)

\* A PUT under way that would be taken has the slot's counter, and a right to it.
MessageOk(r, rc, cf, w) ==
    /\ w \in Message /\ w.req.data.installId = w.from
    /\ w.req.prevVersion <= versionOf(r)
    /\ r # NoSlot /\ w.req.prevVersion = r.version =>
         /\ w.req.data.counter >= r.data.counter
         /\ w.from = r.data.installId \/ w.from \in rc \/ Entitled(cf, w.from, r.data.installId)

\* The queue waits for the answer to this request.
Waits(o, req) == at(o, "put") /\ o.answer = "none" /\ o.req = req

\* The server took the reservation, and its index is not handed out yet.
Claims(o) == o.kind = "reserve" /\ o.pc \in {"put", "accept"} /\ o.answer = "ok"

\* Indices handed out, or about to be, are below the slot's counter, and distinct.
IssuedOk(r, out, ops) ==
    /\ out \in [0 .. 2 * MaxOps -> Nat]
    /\ \A n \in DOMAIN out : out[n] <= 1 /\ (out[n] > 0 => r # NoSlot /\ n < r.data.counter)
    /\ \A i \in Install : Claims(ops[i]) =>
         /\ r # NoSlot /\ ops[i].base < r.data.counter
         /\ ops[i].base \in DOMAIN out => out[ops[i].base] = 0
    /\ \A i, j \in Install :
         Claims(ops[i]) /\ Claims(ops[j]) /\ ops[i].base = ops[j].base => i = j

SyncInv ==
    /\ slots \in [Account \X Collection -> Row \cup {NoSlot}] /\ now \in Int
    /\ floor = [i \in Install |-> floor[i]] /\ saved = [i \in Install |-> saved[i]]
    /\ sess = [i \in Install |-> sess[i]] /\ op = [i \in Install |-> op[i]]
    /\ pulls = [i \in Install |-> pulls[i]]
    /\ \A i \in Install : InstallOk(slot, raced, confirmed, i, floor[i], saved[i], sess[i], op[i], pulls[i])
    /\ \A w \in wire : MessageOk(slot, raced, confirmed, w) /\ (w.awaited => Waits(op[w.from], w.req))
    /\ IssuedOk(slot, issued, op)

-----------------------------------------------------------------------------
(***************************************************************************)
(* Helpers.                                                                *)
(***************************************************************************)

\* The slot of the account is one of the server's.
LEMMA RouteIsOne == route \in Account \X Collection
<1>1. PICK a \in Account, c \in Collection : TRUE
  BY SyncAssumption DEF SyncAssumption
<1>2. <<a, c>> \in Account \X Collection
  OBVIOUS
<1> QED BY <1>2 DEF route

\* Nothing that is absent is a row, a payload, an install or an answer.
LEMMA Absences ==
    /\ NoSlot \notin Row /\ None \notin Payload /\ None \notin Install
    /\ Pending \notin Row /\ \A m \in Row : m.version \in Nat \ {0} /\ m.data \in Payload
    /\ \A s \in Session : s.up /\ s # Down
    /\ ~ Down.up
    /\ \A o \in Operation : o.kind # "idle" /\ o # Idle
    /\ Idle.kind = "idle"
<1>1. NoSlot \notin Row
  BY SyncAssumption DEF SyncAssumption, Row
<1>2. Pending \notin Row
  BY DEF Row, Pending
<1>3. \A s \in Session : s.up /\ s # Down
  <2>1. \A s \in Session : s.up = TRUE
    BY DEF Session
  <2>2. Down.up = FALSE
    BY DEF Down
  <2> QED BY <2>1, <2>2
<1>4. \A o \in Operation : o.kind # "idle" /\ o # Idle
  BY DEF Operation, Idle
<1> QED BY <1>1, <1>2, <1>3, <1>4, SyncAssumption DEF SyncAssumption, Row, Down, Idle

\* G differs from F at i at most.
OnlyAt(F, G, i) ==
    /\ G = [j \in Install |-> G[j]]
    /\ \A j \in Install : j # i => G[j] = F[j]

LEMMA Changed ==
    ASSUME NEW F, F = [j \in Install |-> F[j]], NEW i \in Install, NEW v
    PROVE  /\ OnlyAt(F, [F EXCEPT ![i] = v], i) /\ [F EXCEPT ![i] = v][i] = v
           /\ OnlyAt(F, F, i)
BY DEF OnlyAt

\* More races and more confirmations only allow more.
LEMMA Monotone ==
    ASSUME NEW r, NEW rc, NEW cf, NEW rc2, NEW cf2, rc \subseteq rc2, cf \subseteq cf2
    PROVE  /\ \A i, f, p, s, o, q :
                 InstallOk(r, rc, cf, i, f, p, s, o, q) => InstallOk(r, rc2, cf2, i, f, p, s, o, q)
           /\ \A w : MessageOk(r, rc, cf, w) => MessageOk(r, rc2, cf2, w)
<1>1. \A i, j : Entitled(cf, i, j) => Entitled(cf2, i, j)
  BY DEF Entitled
<1>2. \A i, s, o : KnowsHolder(r, rc, i, s, o) => KnowsHolder(r, rc2, i, s, o)
  BY DEF KnowsHolder
<1>3. \A i, s : Granted(cf, i, s) => Granted(cf2, i, s)
  BY <1>1 DEF Granted
<1> QED BY <1>1, <1>2, <1>3 DEF InstallOk, MessageOk

\* What a judgement changes, and what it says of the writer.
LEMMA Judged ==
    ASSUME NEW s \in Session, NEW i \in Install, NEW m \in Payload \cup {None},
           NEW e, e = evaluate(s, i, m)
    PROVE  /\ e \in Session /\ e.remote = s.remote /\ e.storedVersion = s.storedVersion
           /\ e.grant = s.grant \/ e.grant = None
           /\ e.mode = "writer" => m = None \/ m.installId = i \/ m.installId = s.grant
<1>1. CASE m = None
  <2>1. e = [s EXCEPT !.mode = "writer"]
    BY <1>1 DEF evaluate
  <2> QED BY <1>1, <2>1 DEF Session
<1>2. CASE m # None /\ m.installId = i
  <2>1. e = [s EXCEPT !.mode = "writer", !.grant = None]
    BY <1>2 DEF evaluate
  <2> QED BY <1>2, <2>1 DEF Session
<1>3. CASE m # None /\ m.installId # i
  <2>1. e = IF m.installId = s.grant THEN [s EXCEPT !.mode = "writer"]
            ELSE [s EXCEPT !.mode = "readonly", !.grant = None]
    BY <1>3 DEF evaluate
  <2>2. CASE m.installId = s.grant
    BY <2>1, <2>2 DEF Session
  <2>3. CASE m.installId # s.grant
    BY <2>1, <2>3 DEF Session
  <2> QED BY <2>2, <2>3
<1> QED BY <1>1, <1>2, <1>3

-----------------------------------------------------------------------------
(***************************************************************************)
(* A step of one install.                                                  *)
(***************************************************************************)

Mine(i) ==
    InstallOk(slot, raced, confirmed, i, floor[i], saved[i], sess[i], op[i], pulls[i])

\* Only what is of install i changes, and the server does not.
Local(i) ==
    /\ slots' = slots /\ now' = now
    /\ raced \subseteq raced' /\ confirmed \subseteq confirmed'
    /\ OnlyAt(floor, floor', i) /\ OnlyAt(saved, saved', i) /\ OnlyAt(sess, sess', i)
    /\ OnlyAt(op, op', i) /\ OnlyAt(pulls, pulls', i)

\* The messages are those there were, but for the new ones of i.
Sent(i) ==
    \A w \in wire' :
      /\ MessageOk(slot, raced', confirmed', w)
      /\ w.awaited => IF w.from = i THEN Waits(op'[i], w.req) ELSE w \in wire

LEMMA LocalStep ==
    ASSUME SyncInv, NEW i \in Install, Local(i), Mine(i)', Sent(i), IssuedOk(slot, issued', op')
    PROVE  SyncInv'
<1>1. slot' = slot /\ slots' = slots /\ now' = now
  BY DEF Local, slot
<1>2. \A j \in Install : Mine(j)'
  <2> SUFFICES ASSUME NEW j \in Install, j # i PROVE Mine(j)'
    OBVIOUS
  <2>1. InstallOk(slot, raced, confirmed, j, floor[j], saved[j], sess[j], op[j], pulls[j])
    BY DEF SyncInv
  <2>2. InstallOk(slot, raced', confirmed', j, floor[j], saved[j], sess[j], op[j], pulls[j])
    BY <2>1, Monotone DEF Local
  <2>3. /\ floor'[j] = floor[j] /\ saved'[j] = saved[j] /\ sess'[j] = sess[j]
        /\ op'[j] = op[j] /\ pulls'[j] = pulls[j]
    BY DEF Local, OnlyAt
  <2> QED BY <1>1, <2>2, <2>3 DEF Mine
<1>3. \A w \in wire' : MessageOk(slot', raced', confirmed', w) /\ (w.awaited => Waits(op'[w.from], w.req))
  <2> SUFFICES ASSUME NEW w \in wire', w.awaited, w.from # i PROVE Waits(op'[w.from], w.req)
    BY <1>1 DEF Sent
  <2>1. w \in wire /\ w.from \in Install
    BY DEF Sent, MessageOk, Message
  <2>2. Waits(op[w.from], w.req)
    BY <2>1 DEF SyncInv
  <2>3. op'[w.from] = op[w.from]
    BY <2>1 DEF Local, OnlyAt
  <2> QED BY <2>2, <2>3
<1>4. IssuedOk(slot', issued', op')
  BY <1>1
<1>5. slots' \in [Account \X Collection -> Row \cup {NoSlot}] /\ now' \in Int
  BY <1>1 DEF SyncInv
<1>6. /\ floor' = [j \in Install |-> floor'[j]] /\ saved' = [j \in Install |-> saved'[j]]
      /\ sess' = [j \in Install |-> sess'[j]] /\ op' = [j \in Install |-> op'[j]]
      /\ pulls' = [j \in Install |-> pulls'[j]]
  BY DEF Local, OnlyAt
<1> QED BY <1>2, <1>3, <1>4, <1>5, <1>6 DEF SyncInv, Mine

\* An install that claims no more than it did leaves the indices as they were.
LEMMA NoNewClaim ==
    ASSUME SyncInv, NEW i \in Install, OnlyAt(op, op', i),
           Claims(op'[i]) => Claims(op[i]) /\ op'[i].base = op[i].base
    PROVE  IssuedOk(slot, issued, op')
<1>1. IssuedOk(slot, issued, op)
  BY DEF SyncInv
<1>2. \A j \in Install : Claims(op'[j]) => Claims(op[j]) /\ op'[j].base = op[j].base
  BY DEF OnlyAt
<1> QED BY <1>1, <1>2 DEF IssuedOk

\* Nothing is sent, and what waited still waits.
LEMMA SameWire ==
    ASSUME SyncInv, NEW i \in Install, wire' \subseteq wire,
           raced \subseteq raced', confirmed \subseteq confirmed',
           \A req : Waits(op[i], req) => Waits(op'[i], req)
    PROVE  Sent(i)
<1> SUFFICES ASSUME NEW w \in wire'
             PROVE  /\ MessageOk(slot, raced', confirmed', w)
                    /\ w.awaited => IF w.from = i THEN Waits(op'[i], w.req) ELSE w \in wire
  BY DEF Sent
<1>1. w \in wire /\ MessageOk(slot, raced, confirmed, w) /\ (w.awaited => Waits(op[w.from], w.req))
  BY DEF SyncInv
<1>2. MessageOk(slot, raced', confirmed', w)
  BY <1>1, Monotone
<1> QED BY <1>1, <1>2

\* Nobody waits for what i had sent.
LEMMA Abandoned ==
    ASSUME SyncInv, NEW i \in Install, wire' = abandoned(i),
           raced' = raced, confirmed' = confirmed
    PROVE  Sent(i)
<1> DEFINE Fine(w) == /\ MessageOk(slot, raced', confirmed', w)
                      /\ w.awaited => IF w.from = i THEN Waits(op'[i], w.req) ELSE w \in wire
<1> SUFFICES ASSUME NEW v \in wire
             PROVE  Fine([v EXCEPT !.awaited = v.awaited /\ v.from # i])
  <2> HIDE DEF Fine
  <2>1. \A w \in wire' : \E v \in wire : w = [v EXCEPT !.awaited = v.awaited /\ v.from # i]
    BY DEF abandoned
  <2>2. \A w \in wire' : Fine(w)
    BY <2>1
  <2> QED BY <2>2 DEF Sent, Fine
<1> DEFINE w == [v EXCEPT !.awaited = v.awaited /\ v.from # i]
<1>1. MessageOk(slot, raced, confirmed, v) /\ v \in Message
  BY DEF SyncInv, MessageOk
<1>2. w \in Message /\ w.from = v.from /\ w.req = v.req /\ w.awaited = (v.awaited /\ v.from # i)
  BY <1>1 DEF Message
<1>3. ASSUME w.awaited PROVE w = v /\ w.from # i
  BY <1>1, <1>2, <1>3 DEF Message
<1> HIDE DEF w
<1>4. MessageOk(slot, raced, confirmed, w)
  BY <1>1, <1>2 DEF MessageOk
<1>5. w.awaited => w.from # i /\ w \in wire
  BY <1>3
<1> QED BY <1>4, <1>5 DEF w

\* What SyncInv says of install i.
LEMMA Own ==
    ASSUME SyncInv, NEW i \in Install
    PROVE  /\ Mine(i)
           /\ OnlyAt(floor, floor, i) /\ OnlyAt(saved, saved, i) /\ OnlyAt(sess, sess, i)
           /\ OnlyAt(op, op, i) /\ OnlyAt(pulls, pulls, i)
           /\ \A v : /\ OnlyAt(floor, [floor EXCEPT ![i] = v], i) /\ [floor EXCEPT ![i] = v][i] = v
                    /\ OnlyAt(saved, [saved EXCEPT ![i] = v], i) /\ [saved EXCEPT ![i] = v][i] = v
                    /\ OnlyAt(sess, [sess EXCEPT ![i] = v], i) /\ [sess EXCEPT ![i] = v][i] = v
                    /\ OnlyAt(op, [op EXCEPT ![i] = v], i) /\ [op EXCEPT ![i] = v][i] = v
                    /\ OnlyAt(pulls, [pulls EXCEPT ![i] = v], i) /\ [pulls EXCEPT ![i] = v][i] = v
           /\ slot \in Row \cup {NoSlot}
<1>1. slot \in Row \cup {NoSlot}
  BY RouteIsOne DEF SyncInv, slot
<1>2. Mine(i)
  BY DEF SyncInv, Mine
<1>3. /\ floor = [j \in Install |-> floor[j]] /\ saved = [j \in Install |-> saved[j]]
      /\ sess = [j \in Install |-> sess[j]] /\ op = [j \in Install |-> op[j]]
      /\ pulls = [j \in Install |-> pulls[j]]
  BY DEF SyncInv
<1>4. /\ OnlyAt(floor, floor, i) /\ OnlyAt(saved, saved, i) /\ OnlyAt(sess, sess, i)
      /\ OnlyAt(op, op, i) /\ OnlyAt(pulls, pulls, i)
  BY <1>3, Changed
<1> SUFFICES ASSUME NEW v
             PROVE  /\ OnlyAt(floor, [floor EXCEPT ![i] = v], i) /\ [floor EXCEPT ![i] = v][i] = v
                    /\ OnlyAt(saved, [saved EXCEPT ![i] = v], i) /\ [saved EXCEPT ![i] = v][i] = v
                    /\ OnlyAt(sess, [sess EXCEPT ![i] = v], i) /\ [sess EXCEPT ![i] = v][i] = v
                    /\ OnlyAt(op, [op EXCEPT ![i] = v], i) /\ [op EXCEPT ![i] = v][i] = v
                    /\ OnlyAt(pulls, [pulls EXCEPT ![i] = v], i) /\ [pulls EXCEPT ![i] = v][i] = v
  BY <1>1, <1>2, <1>4
<1> QED BY <1>3, Changed

-----------------------------------------------------------------------------
(***************************************************************************)
(* A process starts and dies; the embedder's calls.                        *)
(***************************************************************************)

\* open
LEMMA OpenKeeps == ASSUME SyncInv, NEW i \in Install, open(i) PROVE SyncInv'
<1> DEFINE s == session(i)
<1>1. ~ sess[i].up /\ sess' = [sess EXCEPT ![i] = s] /\ sess'[i] = s
  BY Own DEF open
<1>2. /\ UNCHANGED <<slots, now, floor, saved, pulls, op, wire, issued, confirmed, raced>> /\ slot' = slot
  BY DEF open, serverVars, history, slot
<1>3. /\ s \in Session /\ s.up /\ s.storedVersion = 0 /\ s.grant = None
  BY DEF session, Session, Outcome
<1>4. Mine(i) /\ slot \in Row \cup {NoSlot} /\ op[i] = Idle
  BY <1>1, Own DEF Mine, InstallOk
<1> HIDE DEF s
<1>5. /\ CaughtUp(slot, saved[i], s) /\ KnowsHolder(slot, raced, i, s, op[i])
      /\ Granted(confirmed, i, s)
  BY <1>3, <1>4, Absences DEF CaughtUp, KnowsHolder, Granted, versionOf, at
<1>6. Mine(i)'
  BY <1>1, <1>2, <1>3, <1>4, <1>5 DEF Mine, InstallOk
<1>7. Local(i)
  BY <1>1, <1>2, Own DEF Local
<1>8. Sent(i)
  BY <1>2, SameWire
<1>9. IssuedOk(slot, issued', op')
  BY <1>2, Own, NoNewClaim
<1> QED BY <1>6, <1>7, <1>8, <1>9, LocalStep

\* A process that is down has nothing under way, whatever its floor.
LEMMA DownKeeps ==
    ASSUME SyncInv, NEW i \in Install,
           UNCHANGED <<slots, now, saved, issued, confirmed, raced>>,
           NEW f \in Nat, f <= versionOf(slot), floor' = [floor EXCEPT ![i] = f],
           sess' = [sess EXCEPT ![i] = Down], pulls' = [pulls EXCEPT ![i] = << >>],
           op' = [op EXCEPT ![i] = Idle], wire' = abandoned(i)
    PROVE  SyncInv'
<1>1. sess'[i] = Down /\ pulls'[i] = << >> /\ op'[i] = Idle /\ floor'[i] = f /\ slot' = slot
  BY Own DEF slot
<1>2. Mine(i)
  BY Own
<1>3. /\ CaughtUp(slot, saved[i], Down) /\ KnowsHolder(slot, raced, i, Down, Idle)
      /\ Granted(confirmed, i, Down) /\ AnswersTrue(slot, << >>) /\ QueuePulls(Idle, << >>)
      /\ WriteTrue(slot, saved[i], Idle) /\ << >> \in Seq(Get)
  BY Absences DEF CaughtUp, KnowsHolder, Granted, AnswersTrue, QueuePulls, WriteTrue, at
<1>4. Mine(i)'
  BY <1>1, <1>2, <1>3, Absences DEF Mine, InstallOk
<1>5. Local(i)
  BY Own DEF Local
<1>6. Sent(i)
  BY Abandoned
<1>7. IssuedOk(slot, issued', op')
  <2>1. ~ Claims(Idle)
    BY Absences DEF Claims, Idle
  <2> QED BY <1>1, <2>1, Own, NoNewClaim
<1> QED BY <1>4, <1>5, <1>6, <1>7, LocalStep

\* Crash
LEMMA CrashKeeps == ASSUME SyncInv, NEW i \in Install, Crash(i) PROVE SyncInv'
<1>1. floor[i] \in Nat /\ floor[i] <= versionOf(slot)
  BY Own DEF Mine, InstallOk
<1>2. floor' = [floor EXCEPT ![i] = floor[i]]
  BY DEF Crash, SyncInv
<1> QED BY <1>1, <1>2, DownKeeps DEF Crash, serverVars, history

\* update
LEMMA UpdateKeeps == ASSUME SyncInv, NEW i \in Install, update(i) PROVE SyncInv'
<1> DEFINE p == local(i)
<1>1. saved' = [saved EXCEPT ![i] = p] /\ saved'[i] = p
  BY Own DEF update
<1>2. UNCHANGED <<slots, now, floor, sess, pulls, op, wire, issued, confirmed, raced>> /\ slot' = slot
  BY DEF update, serverVars, history, slot
<1>3. Mine(i) /\ saved[i] \in Payload \cup {None}
  BY Own DEF Mine, InstallOk
<1>4. p \in Payload \cup {None} /\ kept(p) = kept(saved[i])
  BY <1>3, SyncAssumption DEF local, emptyStatePayload, kept, Payload, SyncAssumption
<1> HIDE DEF p
<1>5. CaughtUp(slot, p, sess[i]) /\ WriteTrue(slot, p, op[i])
  BY <1>3, <1>4 DEF Mine, InstallOk, CaughtUp, WriteTrue
<1>6. Mine(i)'
  BY <1>1, <1>2, <1>3, <1>4, <1>5 DEF Mine, InstallOk
<1>7. Local(i)
  BY <1>1, <1>2, Own DEF Local
<1>8. Sent(i)
  BY <1>2, SameWire
<1>9. IssuedOk(slot, issued', op')
  BY <1>2, Own, NoNewClaim
<1> QED BY <1>6, <1>7, <1>8, <1>9, LocalStep

\* A pull more, of the embedder or of a queue that had none.
LEMMA PullsMore ==
    ASSUME NEW r \in Row \cup {NoSlot}, NEW q \in Seq(Get), NEW o \in Operation \cup {Idle},
           NEW g, g.by \in {"user", "queue"}, g = [by |-> g.by, answer |-> Pending, late |-> FALSE],
           AnswersTrue(r, q), QueuePulls(o, q),
           g.by = "queue" => at(o, "pull") /\ \A k \in DOMAIN q : q[k].by # "queue"
    PROVE  /\ Append(q, g) \in Seq(Get)
           /\ AnswersTrue(r, Append(q, g)) /\ QueuePulls(o, Append(q, g))
<1> DEFINE t == Append(q, g)
<1>1. g \in Get /\ g.answer = Pending
  <2>1. PICK b \in {"user", "queue"} : b = g.by /\ g = [by |-> b, answer |-> Pending, late |-> FALSE]
    OBVIOUS
  <2>2. Pending \in Row \cup {NoSlot, Pending}
    OBVIOUS
  <2> QED BY ONLY <2>1, <2>2 DEF Get
<1>2. t \in Seq(Get)
  BY <1>1
<1>3. PICK n \in Nat : /\ DOMAIN q = 1 .. n /\ DOMAIN t = 1 .. n + 1 /\ t[n + 1] = g
                       /\ \A k \in 1 .. n : t[k] = q[k]
  <2>1. IsSequence(q)
    BY SeqIsSequence
  <2> QED BY <2>1, Appended
<1> HIDE DEF t
<1>4. \A k \in 1 .. n + 1 : k \in 1 .. n \/ k = n + 1
  OBVIOUS
<1>5. \A k \in DOMAIN t : (t[k] = g /\ k = n + 1) \/ (k \in DOMAIN q /\ t[k] = q[k])
  BY <1>3, <1>4
<1>6. AnswersTrue(r, t)
  BY <1>1, <1>5, Absences DEF AnswersTrue
<1>7. QueuePulls(o, t)
  BY <1>5 DEF QueuePulls
<1> QED BY <1>2, <1>6, <1>7 DEF t

\* pull
LEMMA PullKeeps == ASSUME SyncInv, NEW i \in Install, pull(i) PROVE SyncInv'
<1> DEFINE q == Append(pulls[i], [by |-> "user", answer |-> Pending, late |-> FALSE])
<1>1. pulls' = [pulls EXCEPT ![i] = q] /\ pulls'[i] = q /\ sess[i].up
  BY Own DEF pull
<1>2. UNCHANGED <<slots, now, floor, saved, sess, op, wire, issued, confirmed, raced>> /\ slot' = slot
  BY DEF pull, serverVars, history, slot
<1>3. Mine(i)
  BY Own
<1>4. q \in Seq(Get) /\ AnswersTrue(slot, q) /\ QueuePulls(op[i], q)
  <2>1. /\ slot \in Row \cup {NoSlot} /\ pulls[i] \in Seq(Get) /\ op[i] \in Operation \cup {Idle}
        /\ AnswersTrue(slot, pulls[i]) /\ QueuePulls(op[i], pulls[i])
    BY <1>3, Own DEF Mine, InstallOk
  <2> DEFINE g == [by |-> "user", answer |-> Pending, late |-> FALSE]
  <2>2. g.by = "user" /\ g = [by |-> g.by, answer |-> Pending, late |-> FALSE]
    OBVIOUS
  <2> HIDE DEF g
  <2>3. /\ Append(pulls[i], g) \in Seq(Get)
        /\ AnswersTrue(slot, Append(pulls[i], g)) /\ QueuePulls(op[i], Append(pulls[i], g))
    BY <2>1, <2>2, PullsMore
  <2> QED BY <2>3 DEF g
<1> HIDE DEF q
<1>5. Mine(i)'
  BY <1>1, <1>2, <1>3, <1>4 DEF Mine, InstallOk
<1>6. Local(i)
  BY <1>1, <1>2, Own DEF Local
<1>7. Sent(i)
  BY <1>2, SameWire
<1>8. IssuedOk(slot, issued', op')
  BY <1>2, Own, NoNewClaim
<1> QED BY <1>5, <1>6, <1>7, <1>8, LocalStep

\* confirmTakeover
LEMMA ConfirmKeeps == ASSUME SyncInv, NEW i \in Install, confirmTakeover(i) PROVE SyncInv'
<1> DEFINE s == [sess[i] EXCEPT !.grant = sess[i].remote.installId]
           e == applyTakeoverDecision(s, i)
<1>1. sess' = [sess EXCEPT ![i] = e] /\ sess'[i] = e /\ sess[i].up /\ sess[i].remote # None
  BY Own DEF confirmTakeover
<1>2. /\ UNCHANGED <<slots, now, floor, saved, op, pulls, wire, issued, raced>> /\ slot' = slot
      /\ confirmed' = confirmed \cup {<<i, sess[i].remote.installId, sess[i].storedVersion>>}
  BY DEF confirmTakeover, serverVars, slot
<1>3. Mine(i) /\ sess[i] \in Session
  BY <1>1, Own, Absences DEF Mine, InstallOk
<1>4. /\ s \in Session /\ s.grant = sess[i].remote.installId
      /\ s.remote = sess[i].remote /\ s.storedVersion = sess[i].storedVersion
  BY <1>1, <1>3 DEF Session, Payload
<1> HIDE DEF s
<1>5. s.remote \in Payload \cup {None}
  BY <1>4 DEF Session
<1>6. /\ e \in Session /\ e.remote = sess[i].remote /\ e.storedVersion = sess[i].storedVersion
      /\ e.grant = sess[i].remote.installId \/ e.grant = None
  BY <1>4, <1>5, Judged DEF applyTakeoverDecision
<1> HIDE DEF e
<1>7. Granted(confirmed', i, e)
  <2>1. <<i, sess[i].remote.installId, sess[i].storedVersion>> \in confirmed'
    BY <1>2
  <2> QED BY <1>6, <2>1 DEF Granted, Entitled
<1>8. CaughtUp(slot, saved[i], e) /\ KnowsHolder(slot, raced, i, e, op[i])
  BY <1>1, <1>3, <1>6, Absences DEF Mine, InstallOk, CaughtUp, KnowsHolder
<1>9. Mine(i)'
  BY <1>1, <1>2, <1>3, <1>6, <1>7, <1>8, Absences DEF Mine, InstallOk
<1>10. Local(i)
  BY <1>1, <1>2, Own DEF Local
<1>11. Sent(i)
  BY <1>2, SameWire
<1>12. IssuedOk(slot, issued', op')
  BY <1>2, Own, NoNewClaim
<1> QED BY <1>9, <1>10, <1>11, <1>12, LocalStep

-----------------------------------------------------------------------------
(***************************************************************************)
(* The queue asks, and gives up.                                           *)
(***************************************************************************)

\* A queue that waits for nothing, or has its answer, starts with a pull.
LEMMA QueueAsks ==
    ASSUME SyncInv, NEW i \in Install, sess[i].up, NEW o \in Operation,
           o.pc = "pull", o.answer = "none",
           op[i] = Idle \/ (at(op[i], "put") /\ op[i].answer # "none"),
           op' = [op EXCEPT ![i] = o], queuePull(i),
           UNCHANGED <<slots, now, floor, saved, sess, wire, issued, confirmed, raced>>
    PROVE  SyncInv'
<1> DEFINE g == [by |-> "queue", answer |-> Pending, late |-> FALSE]
<1>1. /\ g.by = "queue" /\ g = [by |-> g.by, answer |-> Pending, late |-> FALSE]
      /\ pulls' = [pulls EXCEPT ![i] = Append(pulls[i], g)]
  BY DEF queuePull
<1> HIDE DEF g
<1>2. pulls'[i] = Append(pulls[i], g) /\ op'[i] = o /\ slot' = slot
  BY <1>1, Own DEF slot
<1>3. /\ Mine(i) /\ slot \in Row \cup {NoSlot} /\ pulls[i] \in Seq(Get)
      /\ AnswersTrue(slot, pulls[i]) /\ QueuePulls(op[i], pulls[i])
  BY Own DEF Mine, InstallOk
<1>4. at(o, "pull") /\ ~ at(o, "put") /\ ~ at(o, "accept") /\ ~ at(o, "turn") /\ ~ at(op[i], "accept")
  BY Absences DEF at
<1>5. \A k \in DOMAIN pulls[i] : pulls[i][k].by # "queue"
  BY <1>3, Absences DEF QueuePulls, at
<1>6. QueuePulls(o, pulls[i])
  BY <1>5 DEF QueuePulls
<1>7. /\ Append(pulls[i], g) \in Seq(Get)
      /\ AnswersTrue(slot, Append(pulls[i], g)) /\ QueuePulls(o, Append(pulls[i], g))
  <2>1. g.by \in {"user", "queue"} /\ g = [by |-> g.by, answer |-> Pending, late |-> FALSE]
    BY <1>1
  <2>2. g.by = "queue" => at(o, "pull") /\ \A k \in DOMAIN pulls[i] : pulls[i][k].by # "queue"
    BY <1>4, <1>5
  <2>3. o \in Operation \cup {Idle}
    OBVIOUS
  <2> QED BY ONLY <1>3, <1>6, <2>1, <2>2, <2>3, PullsMore
<1>8. WriteTrue(slot, saved[i], o)
  BY <1>4 DEF WriteTrue
<1>9. KnowsHolder(slot, raced, i, sess[i], o)
  BY <1>3, <1>4 DEF Mine, InstallOk, KnowsHolder
<1>10. Mine(i)'
  BY <1>2, <1>3, <1>7, <1>8, <1>9 DEF Mine, InstallOk
<1>11. Local(i)
  BY <1>1, Own DEF Local
<1>12. Sent(i)
  <2>1. \A req : ~ Waits(op[i], req)
    BY Absences DEF Waits, at
  <2> QED BY <2>1, SameWire
<1>13. IssuedOk(slot, issued', op')
  <2>1. ~ Claims(o)
    BY DEF Claims
  <2> QED BY <1>2, <2>1, Own, NoNewClaim, ZenonT(60)
<1> QED BY <1>10, <1>11, <1>12, <1>13, LocalStep

LEMMA OpTyped ==
    ASSUME NEW kind \in {"reserve", "push"}, NEW pc \in {"pull", "turn", "put", "accept"}
    PROVE  /\ Op(kind, pc) \in Operation /\ Op(kind, pc).pc = pc /\ Op(kind, pc).answer = "none"
           /\ Op(kind, pc).kind = kind
           /\ LET o == [Op(kind, pc) EXCEPT !.attempt = 2] IN
                o \in Operation /\ o.pc = pc /\ o.answer = "none"
BY DEF Op, Operation, Status

\* reserve
LEMMA ReserveKeeps == ASSUME SyncInv, NEW i \in Install, reserve(i) PROVE SyncInv'
<1> DEFINE o == Op("reserve", "pull")
<1>1. o \in Operation /\ o.pc = "pull" /\ o.answer = "none"
  BY OpTyped
<1>2. /\ sess[i].up /\ op[i] = Idle /\ op' = [op EXCEPT ![i] = o] /\ queuePull(i)
      /\ UNCHANGED <<slots, now, floor, saved, sess, wire, issued, confirmed, raced>>
  BY DEF reserve, serverVars, history
<1> HIDE DEF o
<1> QED BY <1>1, <1>2, QueueAsks

\* A queue that waits for no pull is idle again.
LEMMA QueueIdle ==
    ASSUME SyncInv, NEW i \in Install, at(op[i], "put"), op' = [op EXCEPT ![i] = Idle],
           UNCHANGED <<slots, now, floor, saved, sess, pulls, issued, confirmed, raced>>,
           wire' = abandoned(i) \/ (wire' = wire /\ op[i].answer # "none")
    PROVE  SyncInv'
<1>1. op'[i] = Idle /\ slot' = slot
  BY Own DEF slot
<1>2. /\ ~ at(Idle, "pull") /\ ~ at(Idle, "turn") /\ ~ at(Idle, "put") /\ ~ at(Idle, "accept")
      /\ ~ at(op[i], "accept") /\ ~ at(op[i], "pull")
  BY Absences DEF at
<1>3. Mine(i)
  BY Own
<1>4. QueuePulls(Idle, pulls[i]) /\ WriteTrue(slot, saved[i], Idle)
  BY <1>2, <1>3 DEF Mine, InstallOk, QueuePulls, WriteTrue
<1>5. KnowsHolder(slot, raced, i, sess[i], Idle)
  BY <1>2, <1>3 DEF Mine, InstallOk, KnowsHolder
<1>6. ~ sess[i].up => pulls[i] = << >>
  BY <1>3 DEF Mine, InstallOk
<1>7. Mine(i)'
  BY <1>1, <1>3, <1>4, <1>5, <1>6 DEF Mine, InstallOk
<1>8. Local(i)
  BY Own DEF Local
<1>9. Sent(i)
  <2>1. CASE wire' = abandoned(i)
    BY <2>1, Abandoned
  <2>2. CASE wire' = wire /\ op[i].answer # "none"
    <3>1. \A req : ~ Waits(op[i], req)
      BY <2>2 DEF Waits
    <3> QED BY <2>2, <3>1, SameWire
  <2> QED BY <2>1, <2>2
<1>10. IssuedOk(slot, issued', op')
  <2>1. ~ Claims(Idle)
    BY Absences DEF Claims, Idle
  <2> QED BY <1>1, <2>1, Own, NoNewClaim
<1> QED BY <1>7, <1>8, <1>9, <1>10, LocalStep

\* writeConflicts
LEMMA ConflictKeeps == ASSUME SyncInv, NEW i \in Install, writeConflicts(i) PROVE SyncInv'
<1>1. /\ at(op[i], "put") /\ op[i].answer = "version_conflict"
      /\ UNCHANGED <<slots, now, floor, saved, sess, wire, issued, confirmed, raced>>
  BY DEF writeConflicts, at, serverVars, history
<1>2. /\ op[i] \in Operation /\ sess[i].up
  BY <1>1, Own, Absences DEF Mine, InstallOk, at
<1>3. CASE op[i].attempt = 1
  <2> DEFINE o == [Op(op[i].kind, "pull") EXCEPT !.attempt = 2]
  <2>1. o \in Operation /\ o.pc = "pull" /\ o.answer = "none"
    <3>1. op[i].kind \in {"reserve", "push"}
      BY <1>2 DEF Operation
    <3> QED BY <3>1, OpTyped
  <2>2. op' = [op EXCEPT ![i] = o] /\ queuePull(i)
    BY <1>3 DEF writeConflicts
  <2> HIDE DEF o
  <2> QED BY <1>1, <1>2, <2>1, <2>2, QueueAsks
<1>4. CASE op[i].attempt # 1
  <2>1. op' = [op EXCEPT ![i] = Idle] /\ pulls' = pulls
    BY <1>4 DEF writeConflicts
  <2> QED BY <1>1, <2>1, QueueIdle
<1> QED BY <1>3, <1>4

\* writeFails
LEMMA FailKeeps == ASSUME SyncInv, NEW i \in Install, writeFails(i) PROVE SyncInv'
<1>1. /\ at(op[i], "put") /\ op' = [op EXCEPT ![i] = Idle] /\ wire' = abandoned(i)
      /\ UNCHANGED <<slots, now, floor, saved, sess, pulls, issued, confirmed, raced>>
  BY DEF writeFails, at, serverVars, history
<1> QED BY <1>1, QueueIdle

-----------------------------------------------------------------------------
(***************************************************************************)
(* The turns of a pull.                                                    *)
(***************************************************************************)

\* Pull k leaves the list, and the others stay true.
LEMMA Remaining ==
    ASSUME NEW r, NEW o, NEW i \in Install, pulls[i] \in Seq(Get), NEW k \in DOMAIN pulls[i],
           NEW applied \in BOOLEAN, AnswersTrue(r, pulls[i]), QueuePulls(o, pulls[i])
    PROVE  LET t == remaining(i, k, applied) IN
           /\ t \in Seq(Get) /\ AnswersTrue(r, t) /\ QueuePulls(o, t)
           /\ pulls[i][k].by = "queue" => \A o2 : QueuePulls(o2, t)
<1> DEFINE q == pulls[i]
           t == remaining(i, k, applied)
           place(j) == IF j < k THEN j ELSE j + 1
<1>1. PICK n \in Nat : n = Len(q) /\ DOMAIN q = 1 .. n /\ \A j \in 1 .. n : q[j] \in Get
  OBVIOUS
<1>2. t = [j \in 1 .. n - 1 |-> IF j < k THEN [q[j] EXCEPT !.late = @ \/ applied] ELSE q[j + 1]]
  BY <1>1 DEF remaining
<1> HIDE DEF q, t
<1>3. k \in 1 .. n
  BY <1>1 DEF q
<1>4. \A j \in 1 .. n - 1 : place(j) \in 1 .. n /\ place(j) # k
  BY <1>3
<1>5. \A j, l \in 1 .. n - 1 : place(j) = place(l) => j = l
  BY <1>3
<1>6. \A j \in 1 .. n - 1 :
        t[j] \in Get /\ t[j].by = q[place(j)].by /\ t[j].answer = q[place(j)].answer
  <2> SUFFICES ASSUME NEW j \in 1 .. n - 1
               PROVE  t[j] \in Get /\ t[j].by = q[place(j)].by /\ t[j].answer = q[place(j)].answer
    OBVIOUS
  <2>1. j \in 1 .. n /\ j + 1 \in 1 .. n /\ q[j] \in Get /\ q[j + 1] \in Get
    BY <1>1
  <2>2. CASE j < k
    <3>1. t[j] = [q[j] EXCEPT !.late = q[j].late \/ applied]
      BY <1>2, <2>2
    <3> QED BY <2>1, <2>2, <3>1 DEF Get
  <2>3. CASE ~ (j < k)
    BY <1>2, <2>1, <2>3
  <2> QED BY <2>2, <2>3
<1>7. t \in Seq(Get) /\ DOMAIN t = 1 .. n - 1
  <2>1. n - 1 \in Nat
    BY <1>3
  <2>2. t \in [1 .. n - 1 -> Get]
    BY <1>2, <1>6
  <2> QED BY <2>1, <2>2
<1> HIDE DEF place
<1>8. AnswersTrue(r, t)
  BY <1>1, <1>4, <1>6, <1>7 DEF AnswersTrue, q
<1>9. QueuePulls(o, t)
  <2>1. \A j \in DOMAIN t : t[j].by = "queue" => at(o, "pull")
    BY <1>1, <1>4, <1>6, <1>7 DEF QueuePulls, q
  <2>2. ASSUME NEW j \in DOMAIN t, NEW l \in DOMAIN t, t[j].by = "queue", t[l].by = "queue" PROVE j = l
    <3>1. q[place(j)].by = "queue" /\ q[place(l)].by = "queue"
      BY <1>6, <1>7, <2>2
    <3>2. place(j) = place(l)
      BY <1>1, <1>4, <1>7, <3>1 DEF QueuePulls, q
    <3> QED BY <1>5, <1>7, <3>2
  <2> QED BY <2>1, <2>2 DEF QueuePulls
<1>10. q[k].by = "queue" => \A j \in DOMAIN t : t[j].by # "queue"
  BY <1>1, <1>3, <1>4, <1>6, <1>7 DEF QueuePulls, q
<1>11. q[k].by = "queue" => \A o2 : QueuePulls(o2, t)
  BY <1>10 DEF QueuePulls
<1> QED BY <1>7, <1>8, <1>9, <1>11 DEF q, t

\* The turn of a pull that leaves the floor f, the payload p and the session s.
LEMMA TurnKeeps ==
    ASSUME SyncInv, NEW i \in Install, NEW k \in DOMAIN pulls[i], NEW applied \in BOOLEAN,
           sess[i].up, NEW f \in Nat, NEW p \in Payload \cup {None}, NEW s \in Session,
           floor' = [floor EXCEPT ![i] = f], saved' = [saved EXCEPT ![i] = p],
           pulls' = [pulls EXCEPT ![i] = remaining(i, k, applied)], resume(i, k, s),
           f <= versionOf(slot), kept(p) >= kept(saved[i]),
           CaughtUp(slot, p, s), KnowsHolder(slot, raced', i, s, op[i]),
           s.grant = sess[i].grant \/ s.grant = None
    PROVE  SyncInv'
<1> DEFINE q == remaining(i, k, applied)
           o == [op[i] EXCEPT !.pc = "turn",
                              !.outcome = IF op[i].kind = "push" THEN s.lastPull ELSE None]
<1>1. /\ UNCHANGED <<slots, now, wire, issued, confirmed>> /\ slot' = slot
      /\ sess' = [sess EXCEPT ![i] = s] /\ raced \subseteq raced'
  BY DEF resume, serverVars, slot
<1>2. floor'[i] = f /\ saved'[i] = p /\ sess'[i] = s /\ pulls'[i] = q
  BY <1>1, Own, ZenonT(60)
<1>3. /\ Mine(i) /\ op[i] \in Operation \cup {Idle} /\ pulls[i] \in Seq(Get)
      /\ AnswersTrue(slot, pulls[i]) /\ QueuePulls(op[i], pulls[i]) /\ WriteTrue(slot, saved[i], op[i])
  BY Own DEF Mine, InstallOk
<1>4. kept(p) \in Nat /\ kept(saved[i]) \in Nat
  BY <1>3 DEF Mine, InstallOk, kept, Payload
<1>5. /\ q \in Seq(Get) /\ AnswersTrue(slot, q) /\ QueuePulls(op[i], q)
      /\ pulls[i][k].by = "queue" => \A o2 : QueuePulls(o2, q)
  BY <1>3, Remaining
<1> HIDE DEF q
<1>6. Granted(confirmed, i, s)
  BY <1>3 DEF Mine, InstallOk, Granted
<1>7. WriteTrue(slot, p, op[i])
  <2>1. /\ slot \in Row \cup {NoSlot}
        /\ at(op[i], "put") => kept(saved[i]) >= op[i].req.data.counter /\ op[i].req \in Request
    BY <1>3, Own DEF WriteTrue
  <2>2. at(op[i], "put") => kept(p) >= op[i].req.data.counter
    BY <1>4, <2>1 DEF Request, Payload
  <2> QED BY <1>3, <2>2 DEF WriteTrue
<1>8. CASE pulls[i][k].by = "user"
  <2>1. op' = op /\ op'[i] = op[i]
    BY <1>8 DEF resume
  <2>2. Mine(i)'
    BY <1>1, <1>2, <1>3, <1>5, <1>6, <1>7, <2>1, Absences DEF Mine, InstallOk
  <2>3. Local(i)
    BY <1>1, <2>1, Own DEF Local
  <2>4. Sent(i)
    BY <1>1, <2>1, SameWire
  <2>5. IssuedOk(slot, issued', op')
    BY <1>1, <2>1, Own, NoNewClaim
  <2> QED BY <2>2, <2>3, <2>4, <2>5, LocalStep
<1>9. CASE pulls[i][k].by = "queue"
  <2>1. at(op[i], "pull") /\ op[i] \in Operation
    BY <1>3, <1>9, Absences DEF QueuePulls, at
  <2>2. op' = [op EXCEPT ![i] = o]
    BY <1>9 DEF resume
  <2>3. op'[i] = o
    <3> HIDE DEF o
    <3> QED BY <2>2, Own
  <2>4. /\ o \in Operation /\ o.kind = op[i].kind /\ o.answer = "none" /\ o.pc = "turn"
        /\ o.kind = "push" => o.outcome \in Outcome
    <3>1. op[i].answer = "none"
      BY <1>3, <2>1 DEF WriteTrue
    <3>2. s.lastPull \in Outcome
      BY DEF Session
    <3> QED BY <2>1, <3>1, <3>2 DEF Operation
  <2> HIDE DEF o
  <2>5. /\ ~ at(o, "put") /\ ~ at(o, "accept") /\ ~ at(op[i], "accept") /\ ~ at(op[i], "put")
    BY <2>1, <2>4 DEF at
  <2>6. WriteTrue(slot, p, o) /\ KnowsHolder(slot, raced', i, s, o)
    BY <2>4, <2>5 DEF WriteTrue, KnowsHolder
  <2>7. Mine(i)'
    BY <1>1, <1>2, <1>3, <1>5, <1>6, <1>9, <2>3, <2>4, <2>6, Absences DEF Mine, InstallOk
  <2>8. Local(i)
    BY <1>1, <2>2, Own DEF Local
  <2>9. Sent(i)
    <3>1. \A req : ~ Waits(op[i], req)
      BY <2>5 DEF Waits
    <3> QED BY <1>1, <3>1, SameWire
  <2>10. IssuedOk(slot, issued', op')
    <3>1. ~ Claims(op'[i])
      BY <2>3, <2>4 DEF Claims
    <3>2. OnlyAt(op, op', i)
      BY <2>8 DEF Local
    <3>3. IssuedOk(slot, issued, op')
      BY <3>1, <3>2, NoNewClaim
    <3> QED BY <1>1, <3>3
  <2> QED BY <2>7, <2>8, <2>9, <2>10, LocalStep
<1>10. pulls[i][k].by = "user" \/ pulls[i][k].by = "queue"
  <2>1. pulls[i][k] \in Get
    BY <1>3
  <2> QED BY <2>1 DEF Get
<1> QED BY <1>8, <1>9, <1>10

\* What one knows at the turn of a pull.
LEMMA AtTurn ==
    ASSUME SyncInv, NEW i \in Install, sess[i].up
    PROVE  /\ sess[i] \in Session /\ saved[i] \in Payload \cup {None} /\ pulls[i] \in Seq(Get)
           /\ floor[i] \in Nat /\ floor[i] <= versionOf(slot) /\ kept(saved[i]) \in Nat
           /\ CaughtUp(slot, saved[i], sess[i]) /\ KnowsHolder(slot, raced, i, sess[i], op[i])
           /\ AnswersTrue(slot, pulls[i]) /\ slot \in Row \cup {NoSlot}
           /\ floor = [floor EXCEPT ![i] = floor[i]] /\ saved = [saved EXCEPT ![i] = saved[i]]
<1>1. Mine(i) /\ slot \in Row \cup {NoSlot}
  BY Own
<1>2. /\ floor = [floor EXCEPT ![i] = floor[i]] /\ saved = [saved EXCEPT ![i] = saved[i]]
  BY DEF SyncInv
<1>3. kept(saved[i]) \in Nat
  BY <1>1 DEF Mine, InstallOk, kept, Payload
<1> QED BY <1>1, <1>2, <1>3, Absences DEF Mine, InstallOk

\* pullLate
LEMMA LateKeeps ==
    ASSUME SyncInv, NEW i \in Install, NEW k \in DOMAIN pulls[i], pullLate(i, k)
    PROVE  SyncInv'
<1>1. /\ sess[i].up /\ resume(i, k, sess[i]) /\ floor' = floor /\ saved' = saved
      /\ pulls' = [pulls EXCEPT ![i] = remaining(i, k, FALSE)]
  BY DEF pullLate, answered
<1>2. KnowsHolder(slot, raced', i, sess[i], op[i])
  <2>1. raced \subseteq raced'
    BY <1>1 DEF resume
  <2> QED BY <1>1, <2>1, AtTurn DEF KnowsHolder
<1>3. kept(saved[i]) >= kept(saved[i])
  BY <1>1, AtTurn
<1> QED BY <1>1, <1>2, <1>3, AtTurn, TurnKeeps

\* pullAbsent
LEMMA AbsentKeeps ==
    ASSUME SyncInv, NEW i \in Install, NEW k \in DOMAIN pulls[i], pullAbsent(i, k)
    PROVE  SyncInv'
<1> DEFINE s == afterAbsent(i)
<1>1. /\ sess[i].up /\ resume(i, k, s) /\ floor' = floor /\ saved' = saved
      /\ pulls' = [pulls EXCEPT ![i] = remaining(i, k, TRUE)]
  BY DEF pullAbsent, answered
<1>2. sess[i] \in Session /\ floor[i] \in Nat
  BY <1>1, AtTurn
<1>3. /\ s \in Session /\ s.up /\ s.grant = sess[i].grant
      /\ \/ s.storedVersion = 0
         \/ s.storedVersion = sess[i].storedVersion /\ s.remote = sess[i].remote
  <2> DEFINE e == [sess[i] EXCEPT !.createEligible = i \in Invite]
  <2>1. /\ e \in Session /\ e.grant = sess[i].grant
        /\ e.storedVersion = sess[i].storedVersion /\ e.remote = sess[i].remote
    <3>1. CASE i \in Invite
      <4>1. e = [sess[i] EXCEPT !.createEligible = TRUE]
        BY <3>1
      <4> HIDE DEF e
      <4> QED BY ONLY <1>2, <4>1 DEF Session
    <3>2. CASE i \notin Invite
      <4>1. (i \in Invite) = FALSE
        BY <3>2
      <4>2. e = [sess[i] EXCEPT !.createEligible = FALSE]
        BY <4>1
      <4> HIDE DEF e
      <4> QED BY ONLY <1>2, <4>2 DEF Session
    <3> QED BY <3>1, <3>2
  <2>2. <<"absent", 0>> \in Outcome /\ <<"missing", floor[i]>> \in Outcome
    BY <1>2 DEF Outcome
  <2>3. CASE floor[i] = 0
    <3>1. s = [e EXCEPT !.remote = None, !.storedVersion = 0, !.mode = "readonly",
                        !.lastPull = <<"absent", 0>>]
      BY <2>3 DEF afterAbsent
    <3> HIDE DEF e, s
    <3> QED BY <2>1, <2>2, <3>1 DEF Session
  <2>4. CASE floor[i] # 0
    <3>1. s = [e EXCEPT !.lastPull = <<"missing", floor[i]>>]
      BY <2>4 DEF afterAbsent
    <3> HIDE DEF e, s
    <3> QED BY <2>1, <2>2, <3>1 DEF Session
  <2> QED BY <2>3, <2>4
<1> HIDE DEF s
<1>4. CaughtUp(slot, saved[i], s)
  BY <1>1, <1>2, <1>3, AtTurn, Absences DEF CaughtUp, versionOf
<1>5. KnowsHolder(slot, raced', i, s, op[i])
  <2>1. raced \subseteq raced' /\ (at(op[i], "accept") => i \in raced')
    BY <1>1 DEF resume, at
  <2> QED BY <1>1, <1>3, <2>1, AtTurn, Absences DEF KnowsHolder
<1>6. kept(saved[i]) >= kept(saved[i])
  BY <1>1, AtTurn
<1> QED BY <1>1, <1>3, <1>4, <1>5, <1>6, AtTurn, TurnKeeps

\* pullPresent
LEMMA PresentKeeps ==
    ASSUME SyncInv, NEW i \in Install, NEW k \in DOMAIN pulls[i], pullPresent(i, k)
    PROVE  SyncInv'
<1> DEFINE r == pulls[i][k].answer
           s == afterPresent(i, r)
           f == bootstrap(floor[i], r.version)
<1>1. /\ sess[i].up /\ resume(i, k, s) /\ floor' = [floor EXCEPT ![i] = f]
      /\ r # NoSlot /\ r # Pending
      /\ pulls' = [pulls EXCEPT ![i] = remaining(i, k, TRUE)]
  BY DEF pullPresent, answered
<1>2. PICK p \in mergeStatePayloads(local(i), r.data) : saved' = [saved EXCEPT ![i] = p]
  BY DEF pullPresent
<1>3. /\ r \in Row /\ r.version \in Nat \ {0} /\ r.data \in Payload
      /\ r.version <= versionOf(slot) /\ (r.version = versionOf(slot) => r = slot)
  <2>1. r \in Row
    <3>1. pulls[i] \in Seq(Get)
      BY <1>1, AtTurn
    <3>2. pulls[i][k] \in Get
      BY <3>1
    <3> QED BY <1>1, <3>2 DEF Get
  <2>2. AnswersTrue(slot, pulls[i])
    BY <1>1, AtTurn
  <2> QED BY <2>1, <2>2, Absences DEF AnswersTrue
<1>4. sess[i] \in Session /\ floor[i] \in Nat /\ saved[i] \in Payload \cup {None}
  BY <1>1, AtTurn
<1>5. /\ s \in Session /\ s.up /\ s.remote = r.data /\ s.storedVersion = r.version
      /\ s.grant = sess[i].grant \/ s.grant = None
  <2> DEFINE b == [sess[i] EXCEPT !.createEligible = FALSE, !.remote = r.data,
                                  !.storedVersion = r.version, !.lastPull = <<"present", 0>>]
  <2>1. /\ b \in Session /\ b.remote = r.data /\ b.storedVersion = r.version
        /\ b.grant = sess[i].grant
    <3>1. <<"present", 0>> \in Outcome
      BY DEF Outcome
    <3> HIDE DEF r
    <3> QED BY <1>3, <1>4, <3>1 DEF Session
  <2>2. s = evaluate(b, i, b.remote)
    BY DEF afterPresent, applyTakeoverDecision
  <2> HIDE DEF b, s, r
  <2>3. b.remote \in Payload \cup {None}
    BY <1>3, <2>1
  <2>4. s \in Session /\ s.remote = b.remote /\ s.storedVersion = b.storedVersion
        /\ (s.grant = b.grant \/ s.grant = None)
    BY <2>1, <2>2, <2>3, Judged
  <2> QED BY <2>1, <2>4, Absences
<1>6. f \in Nat /\ f <= versionOf(slot)
  <2> HIDE DEF r
  <2> QED BY <1>1, <1>3, <1>4, AtTurn DEF bootstrap
<1>7. p \in Payload \cup {None} /\ kept(p) >= kept(saved[i]) /\ kept(p) >= r.data.counter
  <2> DEFINE l == local(i)
  <2>1. l \in Payload /\ l.counter = kept(saved[i])
    BY <1>4, SyncAssumption DEF local, emptyStatePayload, kept, Payload, SyncAssumption
  <2>2. PICK x \in {l.installId, r.data.installId} :
          p = [counter |-> mergeEphemeralCounterSnapshots(l.counter, r.data.counter), installId |-> x]
    BY <1>2 DEF mergeStatePayloads
  <2> HIDE DEF l, r
  <2>3. PICK a \in Nat, c \in Nat : a = l.counter /\ c = r.data.counter
    BY <1>3, <2>1 DEF Payload
  <2>4. p \in Payload /\ p.counter >= a /\ p.counter >= c
    BY <1>3, <2>1, <2>2, <2>3 DEF Payload, mergeEphemeralCounterSnapshots
  <2>5. kept(p) = p.counter
    BY <2>4, Absences DEF kept
  <2> QED BY <2>1, <2>3, <2>4, <2>5
<1> HIDE DEF r, s, f
<1>8. CaughtUp(slot, p, s)
  BY <1>3, <1>5, <1>7, Absences DEF CaughtUp, versionOf
<1>9. KnowsHolder(slot, raced', i, s, op[i])
  <2>1. at(op[i], "accept") => i \in raced'
    BY <1>1 DEF resume, at
  <2> QED BY <1>3, <1>5, <2>1 DEF KnowsHolder, versionOf
<1> QED BY <1>1, <1>2, <1>5, <1>6, <1>7, <1>8, <1>9, TurnKeeps

\* getServed
LEMMA GetServedKeeps ==
    ASSUME SyncInv, NEW i \in Install, NEW k \in DOMAIN pulls[i], getServed(i, k)
    PROVE  SyncInv'
<1> DEFINE g == [pulls[i][k] EXCEPT !.answer = slot]
           q == [pulls[i] EXCEPT ![k] = g]
<1>1. /\ pulls' = [pulls EXCEPT ![i] = q]
      /\ UNCHANGED <<slots, now, floor, saved, sess, op, wire, issued, confirmed, raced>> /\ slot' = slot
  BY DEF getServed, handleGet, slot, serverVars, history
<1>2. /\ Mine(i) /\ slot \in Row \cup {NoSlot} /\ pulls[i] \in Seq(Get) /\ pulls[i] # << >>
      /\ AnswersTrue(slot, pulls[i]) /\ QueuePulls(op[i], pulls[i])
  BY Own DEF Mine, InstallOk
<1>3. PICK n \in Nat : n = Len(pulls[i]) /\ DOMAIN pulls[i] = 1 .. n /\ \A j \in 1 .. n : pulls[i][j] \in Get
  BY <1>2
<1>4. g \in Get /\ g.by = pulls[i][k].by /\ g.answer = slot
  BY <1>2, <1>3 DEF Get
<1> HIDE DEF g
<1>5. /\ DOMAIN q = 1 .. n /\ q[k] = g /\ \A j \in 1 .. n : j # k => q[j] = pulls[i][j]
  BY <1>3
<1>6. q \in Seq(Get)
  <2>1. q = [j \in 1 .. n |-> q[j]]
    BY <1>3
  <2>2. \A j \in 1 .. n : q[j] \in Get
    BY <1>3, <1>4, <1>5
  <2> HIDE DEF q
  <2>3. q \in [1 .. n -> Get]
    BY <2>1, <2>2
  <2> QED BY <2>3
<1> HIDE DEF q
<1>7. AnswersTrue(slot, q)
  BY <1>2, <1>3, <1>4, <1>5, Absences DEF AnswersTrue, versionOf
<1>8. QueuePulls(op[i], q)
  BY <1>2, <1>3, <1>4, <1>5 DEF QueuePulls
<1>9. sess[i].up
  BY <1>2 DEF Mine, InstallOk
<1>10. Mine(i)'
  <2>1. pulls'[i] = q
    BY <1>1, Own
  <2> QED BY <1>1, <1>2, <1>6, <1>7, <1>8, <1>9, <2>1 DEF Mine, InstallOk
<1>11. Local(i)
  BY <1>1, Own DEF Local
<1>12. Sent(i)
  BY <1>1, SameWire
<1>13. IssuedOk(slot, issued', op')
  BY <1>1, Own, NoNewClaim
<1> QED BY <1>10, <1>11, <1>12, <1>13, LocalStep

\* pullFails
LEMMA PullFailsKeeps ==
    ASSUME SyncInv, NEW i \in Install, NEW k \in DOMAIN pulls[i], pullFails(i, k)
    PROVE  SyncInv'
<1> DEFINE q == remaining(i, k, FALSE)
<1>1. /\ pulls' = [pulls EXCEPT ![i] = q] /\ pulls'[i] = q /\ sess[i].up
      /\ UNCHANGED <<slots, now, floor, saved, sess, wire, issued, confirmed, raced>> /\ slot' = slot
  BY Own DEF pullFails, slot, serverVars, history
<1>2. /\ Mine(i) /\ pulls[i] \in Seq(Get) /\ op[i] \in Operation \cup {Idle}
      /\ AnswersTrue(slot, pulls[i]) /\ QueuePulls(op[i], pulls[i])
  BY Own DEF Mine, InstallOk
<1>3. /\ q \in Seq(Get) /\ AnswersTrue(slot, q) /\ QueuePulls(op[i], q)
      /\ pulls[i][k].by = "queue" => \A o2 : QueuePulls(o2, q)
  BY <1>2, Remaining
<1> HIDE DEF q
<1>4. Local(i) /\ OnlyAt(op, op', i)
  <2>1. op' = op \/ op' = [op EXCEPT ![i] = Idle]
    BY DEF pullFails
  <2>2. OnlyAt(op, op, i) /\ OnlyAt(op, [op EXCEPT ![i] = Idle], i)
    BY Own
  <2>3. OnlyAt(op, op', i)
    BY <2>1, <2>2
  <2> QED BY <1>1, <2>3, Own DEF Local
<1>5. CASE pulls[i][k].by # "queue"
  <2>1. op' = op
    BY <1>5 DEF pullFails
  <2>2. Mine(i)'
    BY <1>1, <1>2, <1>3, <2>1 DEF Mine, InstallOk
  <2>3. Sent(i)
    BY <1>1, <2>1, SameWire
  <2>4. IssuedOk(slot, issued', op')
    BY <1>1, <1>4, <2>1, NoNewClaim
  <2> QED BY <1>4, <2>2, <2>3, <2>4, LocalStep
<1>6. CASE pulls[i][k].by = "queue"
  <2>1. op'[i] = Idle
    BY <1>6, Own DEF pullFails
  <2>2. /\ ~ at(Idle, "pull") /\ ~ at(Idle, "turn") /\ ~ at(Idle, "put") /\ ~ at(Idle, "accept")
        /\ ~ at(op[i], "put") /\ ~ at(op[i], "accept")
    BY <1>2, <1>6, Absences DEF at, QueuePulls
  <2>3. WriteTrue(slot, saved[i], Idle) /\ KnowsHolder(slot, raced, i, sess[i], Idle)
    BY <1>2, <2>2 DEF Mine, InstallOk, WriteTrue, KnowsHolder
  <2>4. Mine(i)'
    BY <1>1, <1>2, <1>3, <1>6, <2>1, <2>3 DEF Mine, InstallOk
  <2>5. Sent(i)
    <3>1. \A req : ~ Waits(op[i], req)
      BY <2>2 DEF Waits
    <3> QED BY <1>1, <3>1, SameWire
  <2>6. IssuedOk(slot, issued', op')
    <3>1. ~ Claims(op'[i])
      BY <2>1, Absences DEF Claims, Idle
    <3> QED BY <1>1, <1>4, <3>1, NoNewClaim
  <2> QED BY <1>4, <2>4, <2>5, <2>6, LocalStep
<1> QED BY <1>5, <1>6

\* pullTorn
LEMMA TornKeeps ==
    ASSUME SyncInv, NEW i \in Install, NEW k \in DOMAIN pulls[i], pullTorn(i, k)
    PROVE  SyncInv'
<1> DEFINE r == pulls[i][k].answer
           f == bootstrap(floor[i], r.version)
<1>1. /\ sess[i].up /\ r # NoSlot /\ r # Pending /\ floor' = [floor EXCEPT ![i] = f]
      /\ UNCHANGED <<slots, now, saved, issued, confirmed, raced>>
      /\ sess' = [sess EXCEPT ![i] = Down] /\ pulls' = [pulls EXCEPT ![i] = << >>]
      /\ op' = [op EXCEPT ![i] = Idle] /\ wire' = abandoned(i)
  BY DEF pullTorn, answered, serverVars, history
<1>2. r.version \in Nat /\ r.version <= versionOf(slot)
  <2>1. pulls[i] \in Seq(Get)
    BY <1>1, AtTurn
  <2>2. pulls[i][k] \in Get
    BY <2>1
  <2>3. r \in Row
    BY <1>1, <2>2 DEF Get
  <2>4. AnswersTrue(slot, pulls[i])
    BY <1>1, AtTurn
  <2> QED BY <2>3, <2>4, Absences DEF AnswersTrue
<1> HIDE DEF r
<1>3. f \in Nat /\ f <= versionOf(slot)
  BY <1>1, <1>2, AtTurn DEF bootstrap
<1> HIDE DEF f
<1> QED BY <1>1, <1>3, DownKeeps

-----------------------------------------------------------------------------
(***************************************************************************)
(* What the queue sends.                                                   *)
(***************************************************************************)

\* A write of the queue at the version it pulled, or at the first one.
LEMMA SendKeeps ==
    ASSUME SyncInv, NEW i \in Install, sess[i].up,
           op[i] = Idle \/ at(op[i], "turn"),
           NEW payload \in Payload, NEW p \in Payload \cup {None},
           NEW v \in (Nat \ {0}) \X Nat, v[2] = 0 \/ v[2] = sess[i].storedVersion,
           NEW o \in Operation, o.answer = "none",
           writeOnce(i, payload, v, o), saved' = [saved EXCEPT ![i] = p],
           payload.counter >= kept(saved[i]), kept(p) >= kept(saved[i]),
           writerOrCreate(sess[i]) => kept(p) >= payload.counter,
           o.kind = "reserve" => payload.counter = o.base + 1 /\ o.base = kept(saved[i]),
           UNCHANGED <<slots, now, floor, pulls, issued, confirmed, raced>>
    PROVE  SyncInv'
<1> DEFINE s == sess[i]
           judged == evaluate(s, i, s.remote)
           w == sent(i, payload, v)
           o2 == [o EXCEPT !.pc = "put", !.outcome = None, !.req = w.req]
           s2 == [s EXCEPT !.grant = judged.grant]
<1>1. /\ s \in Session /\ slot \in Row \cup {NoSlot} /\ CaughtUp(slot, saved[i], s)
      /\ KnowsHolder(slot, raced, i, s, op[i]) /\ Granted(confirmed, i, s) /\ Mine(i)
      /\ kept(saved[i]) \in Nat /\ slot' = slot
  BY AtTurn, Own DEF Mine, InstallOk, slot
<1>2. /\ ~ at(op[i], "accept") /\ ~ at(op[i], "pull") /\ ~ at(op[i], "put")
  BY Absences DEF at
<1>3. /\ judged \in Session /\ (judged.grant = s.grant \/ judged.grant = None)
      /\ judged.mode = "writer" =>
           s.remote = None \/ s.remote.installId = i \/ s.remote.installId = s.grant
  <2>1. s.remote \in Payload \cup {None}
    BY <1>1 DEF Session
  <2> HIDE DEF judged
  <2> QED BY <1>1, <2>1, Judged DEF judged
<1>4. /\ s2 \in Session /\ s2.grant = judged.grant /\ s2.remote = s.remote
      /\ s2.storedVersion = s.storedVersion
  <2> HIDE DEF s, judged
  <2> QED BY <1>1, <1>3 DEF Session
<1>5. /\ w.from = i /\ w.awaited /\ w \in Message
      /\ w.req \in Request /\ w.req.prevVersion = v[2] /\ w.req.version = v[1]
      /\ w.req.data.installId = i /\ w.req.data.counter = payload.counter
  <2> DEFINE inv == IF v[2] = 0 /\ i \in Invite THEN i ELSE NoInvite
             d == stamp(i, payload)
             req == [route |-> route, version |-> v[1], prevVersion |-> v[2], data |-> d,
                     timestamp |-> now, invite |-> inv]
  <2>1. inv \in Invite \cup {NoInvite} /\ now \in Int /\ v[1] \in Nat \ {0} /\ v[2] \in Nat
    BY DEF SyncInv
  <2>2. d \in Payload /\ d.installId = i /\ d.counter = payload.counter
    BY DEF stamp, Payload
  <2>3. w = [from |-> i, awaited |-> TRUE, req |-> req]
    <3>1. <<route[1], route[2]>> = route
      BY RouteIsOne
    <3> QED BY <3>1 DEF sent, Put
  <2> HIDE DEF inv, d
  <2>4. req \in Request
    BY <2>1, <2>2 DEF Request
  <2>5. w.req = req /\ w.from = i /\ w.awaited
    BY <2>3
  <2>6. w \in Message
    <3> HIDE DEF w, req
    <3> QED BY <2>3, <2>4 DEF Message
  <2>7. req.prevVersion = v[2] /\ req.version = v[1] /\ req.data = d
    OBVIOUS
  <2> HIDE DEF w, req
  <2> QED BY <2>2, <2>4, <2>5, <2>6, <2>7
<1>6. /\ o2 \in Operation /\ o2.kind = o.kind /\ o2.pc = "put" /\ o2.req = w.req
      /\ o2.answer = "none" /\ o2.base = o.base
  <2> HIDE DEF w
  <2> QED BY <1>5 DEF Operation
<1>7. /\ OnlyAt(sess, sess', i) /\ (sess'[i] = s \/ sess'[i] = s2)
  <2>1. sess' = sess \/ sess' = [sess EXCEPT ![i] = s2]
    BY DEF writeOnce
  <2>2. /\ OnlyAt(sess, sess, i) /\ OnlyAt(sess, [sess EXCEPT ![i] = s2], i)
        /\ [sess EXCEPT ![i] = s2][i] = s2
    BY Own
  <2> HIDE DEF s2
  <2> QED BY <2>1, <2>2
<1>8. \/ writerOrCreate(s) /\ judged.mode = "writer" /\ wire' = wire \cup {w} /\ op' = [op EXCEPT ![i] = o2]
      \/ wire' = wire /\ op' = [op EXCEPT ![i] = Idle]
  BY DEF writeOnce
<1> HIDE DEF judged, w, o2, s2
<1>9. /\ s.storedVersion \in Nat /\ payload.counter \in Nat /\ kept(p) \in Nat /\ v[2] \in Nat
      /\ v[2] = 0 \/ v[2] = s.storedVersion
  BY <1>1 DEF Session, Payload, kept
<1> HIDE DEF s
<1>10. s.up
  BY DEF s
<1>11. v[2] <= versionOf(slot)
  BY <1>1, <1>9, <1>10, Absences DEF CaughtUp, versionOf
<1>12. ASSUME slot # NoSlot, v[2] = slot.version
       PROVE  /\ s.storedVersion = slot.version /\ kept(saved[i]) >= slot.data.counter
              /\ i \notin raced => s.remote = slot.data
  <2>1. s.storedVersion = slot.version
    BY <1>1, <1>9, <1>12, Absences
  <2> QED BY <1>1, <1>2, <1>10, <1>12, <2>1 DEF CaughtUp, KnowsHolder
<1>13. ASSUME NEW t \in Session, t = s \/ t = s2, NEW a,
              ~ at(a, "accept")
       PROVE  /\ CaughtUp(slot, p, t) /\ KnowsHolder(slot, raced, i, t, a) /\ Granted(confirmed, i, t)
              /\ t \in Session /\ t.up
  <2>1. t.storedVersion = s.storedVersion /\ t.remote = s.remote /\ t.up
        /\ (t.grant = s.grant \/ t.grant = None)
    BY <1>3, <1>4, <1>13, Absences
  <2>2. Granted(confirmed, i, t)
    BY <1>1, <1>10, <2>1 DEF Granted
  <2>3. KnowsHolder(slot, raced, i, t, a)
    BY <1>1, <1>2, <1>10, <1>13, <2>1 DEF KnowsHolder
  <2>4. CaughtUp(slot, p, t)
    <3>1. slot # NoSlot => slot.data.counter \in Nat
      BY <1>1, Absences DEF Payload
    <3> QED BY <1>1, <1>9, <1>10, <2>1, <3>1 DEF CaughtUp
  <2> QED BY <2>1, <2>2, <2>3, <2>4
<1>14. OnlyAt(op, op', i) /\ Local(i)
  <2>1. OnlyAt(op, [op EXCEPT ![i] = Idle], i) /\ OnlyAt(op, [op EXCEPT ![i] = o2], i)
    BY Own
  <2>2. OnlyAt(op, op', i) /\ OnlyAt(saved, saved', i)
    BY <1>8, <2>1, Own
  <2> QED BY <1>7, <2>2, Own DEF Local
<1>15. saved'[i] = p /\ sess'[i] \in Session
  BY <1>1, <1>4, <1>7, Own
<1>16. CASE wire' = wire /\ op' = [op EXCEPT ![i] = Idle]
  <2>1. op'[i] = Idle
    BY <1>16, Own
  <2>2. /\ ~ at(Idle, "pull") /\ ~ at(Idle, "turn") /\ ~ at(Idle, "put") /\ ~ at(Idle, "accept")
    BY Absences DEF at
  <2>3. QueuePulls(Idle, pulls[i]) /\ WriteTrue(slot, p, Idle)
    BY <1>1, <1>2, <2>2 DEF Mine, InstallOk, QueuePulls, WriteTrue
  <2>4. CaughtUp(slot, p, sess'[i]) /\ KnowsHolder(slot, raced, i, sess'[i], Idle) /\ Granted(confirmed, i, sess'[i]) /\ sess'[i].up
    BY <1>7, <1>13, <1>15, <2>2
  <2>5. Mine(i)'
    BY <1>1, <1>15, <2>1, <2>3, <2>4 DEF Mine, InstallOk
  <2>6. Sent(i)
    <3>1. \A req : ~ Waits(op[i], req)
      BY <1>2 DEF Waits
    <3> QED BY <1>16, <3>1, SameWire
  <2>7. IssuedOk(slot, issued', op')
    <3>1. ~ Claims(op'[i])
      BY <2>1, Absences DEF Claims, Idle
    <3> QED BY <1>14, <3>1, NoNewClaim
  <2> QED BY <1>14, <2>5, <2>6, <2>7, LocalStep
<1>17. CASE writerOrCreate(s) /\ judged.mode = "writer" /\ wire' = wire \cup {w} /\ op' = [op EXCEPT ![i] = o2]
  <2>1. op'[i] = o2
    BY <1>17, Own
  <2>2. /\ ~ at(o2, "pull") /\ ~ at(o2, "turn") /\ at(o2, "put") /\ ~ at(o2, "accept")
    BY <1>6, Absences DEF at
  <2>3. QueuePulls(o2, pulls[i])
    BY <1>1, <1>2 DEF Mine, InstallOk, QueuePulls
  <2>4. kept(p) >= payload.counter
    BY <1>17 DEF s
  <2>5. ASSUME o.kind = "reserve"
        PROVE  /\ w.req.data.counter = o2.base + 1
               /\ slot # NoSlot /\ w.req.prevVersion = slot.version => o2.base >= slot.data.counter
    BY <1>5, <1>6, <1>12, <2>5
  <2>6. WriteTrue(slot, p, o2)
    BY <1>5, <1>6, <1>11, <2>2, <2>4, <2>5 DEF WriteTrue
  <2>7. CaughtUp(slot, p, sess'[i]) /\ KnowsHolder(slot, raced, i, sess'[i], o2) /\ Granted(confirmed, i, sess'[i]) /\ sess'[i].up
    BY <1>7, <1>13, <1>15, <2>2
  <2>8. Mine(i)'
    BY <1>1, <1>6, <1>15, <2>1, <2>3, <2>6, <2>7 DEF Mine, InstallOk
  <2>9. MessageOk(slot, raced, confirmed, w)
    <3>1. ASSUME slot # NoSlot, w.req.prevVersion = slot.version
          PROVE  /\ w.req.data.counter >= slot.data.counter
                 /\ i = slot.data.installId \/ i \in raced \/ Entitled(confirmed, i, slot.data.installId)
      <4>1. slot.data \in Payload /\ slot.data # None /\ slot.data.counter \in Nat
            /\ slot.data.installId \in Install
        BY <1>1, <3>1, Absences DEF Payload
      <4>2. /\ kept(saved[i]) >= slot.data.counter /\ (i \notin raced => s.remote = slot.data)
        BY <1>5, <1>12, <3>1
      <4>3. w.req.data.counter >= slot.data.counter
        BY <1>1, <1>5, <1>9, <4>1, <4>2
      <4>4. i \notin raced => slot.data.installId = i \/ slot.data.installId = s.grant
        BY <1>3, <1>17, <4>1, <4>2
      <4>5. slot.data.installId = s.grant => Entitled(confirmed, i, slot.data.installId)
        BY <1>1, <1>10, <4>1, Absences DEF Granted
      <4> QED BY <4>3, <4>4, <4>5
    <3> QED BY <1>5, <1>11, <3>1 DEF MessageOk
  <2>10. Sent(i)
    <3> SUFFICES ASSUME NEW x \in wire'
                 PROVE  /\ MessageOk(slot, raced', confirmed', x)
                        /\ x.awaited => IF x.from = i THEN Waits(op'[i], x.req) ELSE x \in wire
      BY DEF Sent
    <3>1. CASE x = w
      <4>1. Waits(o2, w.req)
        BY <1>6, <2>2 DEF Waits
      <4> QED BY <1>5, <2>1, <2>9, <3>1, <4>1
    <3>2. CASE x \in wire
      <4>1. MessageOk(slot, raced, confirmed, x) /\ (x.awaited => Waits(op[x.from], x.req))
        BY <3>2 DEF SyncInv
      <4>2. x.awaited => x.from # i
        BY <1>2, <4>1 DEF Waits
      <4> QED BY <3>2, <4>1, <4>2
    <3> QED BY <1>17, <3>1, <3>2
  <2>11. IssuedOk(slot, issued', op')
    <3>1. ~ Claims(op'[i])
      BY <1>6, <2>1 DEF Claims
    <3> QED BY <1>14, <3>1, NoNewClaim
  <2> QED BY <1>14, <2>8, <2>10, <2>11, LocalStep
<1> QED BY <1>8, <1>16, <1>17

LEMMA LocalTyped ==
    ASSUME SyncInv, NEW i \in Install
    PROVE  /\ local(i) \in Payload /\ local(i).counter = kept(saved[i]) /\ kept(saved[i]) \in Nat
           /\ saved[i] \in Payload \cup {None} /\ saved = [saved EXCEPT ![i] = saved[i]]
<1>1. saved[i] \in Payload \cup {None}
  BY Own DEF Mine, InstallOk
<1>2. saved = [saved EXCEPT ![i] = saved[i]]
  BY DEF SyncInv
<1> QED BY <1>1, <1>2, SyncAssumption DEF local, emptyStatePayload, kept, Payload, SyncAssumption

\* A write is over nothing or over what was pulled.
LEMMA VersionsTyped ==
    ASSUME NEW s \in Session
    PROVE  /\ \A u \in Outcome : LET v == nextWrite(s, u) IN
                 v \in (Nat \ {0}) \X Nat /\ (v[2] = 0 \/ v[2] = s.storedVersion)
           /\ LET v == pushedVersion(s) IN
                 v \in (Nat \ {0}) \X Nat /\ (v[2] = 0 \/ v[2] = s.storedVersion)
<1>1. s.storedVersion \in Nat /\ s.lastPull \in Outcome
  BY DEF Session
<1>2. ASSUME NEW u \in Outcome
      PROVE  LET v == nextWrite(s, u) IN
               v \in (Nat \ {0}) \X Nat /\ (v[2] = 0 \/ v[2] = s.storedVersion)
  <2>1. u[2] \in Nat /\ (u[1] = "absent" \/ u[1] = "missing" \/ u[1] = "present")
    BY DEF Outcome
  <2>2. CASE u[1] = "absent"
    <3>1. nextWrite(s, u) = <<1, 0>>
      BY <2>2 DEF nextWrite
    <3> QED BY <3>1
  <2>3. CASE u[1] = "missing"
    <3>1. nextWrite(s, u) = <<u[2] + 1, 0>>
      BY <2>3 DEF nextWrite
    <3> QED BY <2>1, <3>1
  <2>4. CASE u[1] = "present"
    <3>1. nextWrite(s, u) = <<s.storedVersion + 1, s.storedVersion>>
      BY <2>4 DEF nextWrite
    <3> QED BY <1>1, <3>1
  <2> QED BY <2>1, <2>2, <2>3, <2>4
<1>3. LET v == pushedVersion(s) IN
        v \in (Nat \ {0}) \X Nat /\ (v[2] = 0 \/ v[2] = s.storedVersion)
  BY <1>1, <1>2 DEF pushedVersion
<1> QED BY <1>2, <1>3

\* push
LEMMA PushKeeps == ASSUME SyncInv, NEW i \in Install, push(i) PROVE SyncInv'
<1> DEFINE v == pushedVersion(sess[i])
           o == Op("push", "turn")
           l == local(i)
<1>1. /\ sess[i].up /\ op[i] = Idle /\ writeOnce(i, l, v, o)
      /\ UNCHANGED <<slots, now, floor, saved, pulls, issued, confirmed, raced>>
  BY DEF push, serverVars, history
<1>2. o \in Operation /\ o.kind = "push" /\ o.answer = "none"
  BY OpTyped
<1>3. v \in (Nat \ {0}) \X Nat /\ (v[2] = 0 \/ v[2] = sess[i].storedVersion)
  BY <1>1, AtTurn, VersionsTyped
<1>4. /\ l \in Payload /\ l.counter >= kept(saved[i]) /\ kept(saved[i]) >= kept(saved[i])
      /\ kept(saved[i]) >= l.counter /\ saved[i] \in Payload \cup {None}
      /\ saved' = [saved EXCEPT ![i] = saved[i]]
  BY <1>1, LocalTyped
<1> HIDE DEF v, o, l
<1>5. o.kind # "reserve"
  BY <1>2
<1> QED BY <1>1, <1>2, <1>3, <1>4, <1>5, SendKeeps

\* What the queue has under way.
LEMMA AtWork ==
    ASSUME SyncInv, NEW i \in Install, op[i].kind # "idle"
    PROVE  /\ op[i] \in Operation /\ sess[i].up /\ sess[i] \in Session
           /\ WriteTrue(slot, saved[i], op[i])
BY Own, Absences DEF Mine, InstallOk

\* pushAgain
LEMMA PushAgainKeeps == ASSUME SyncInv, NEW i \in Install, pushAgain(i) PROVE SyncInv'
<1> DEFINE v == nextWrite(sess[i], op[i].outcome)
           l == local(i)
<1>1. /\ op[i].kind = "push" /\ op[i].pc = "turn" /\ writeOnce(i, l, v, op[i])
      /\ UNCHANGED <<slots, now, floor, saved, pulls, issued, confirmed, raced>>
  BY DEF pushAgain, serverVars, history
<1>2. /\ op[i] \in Operation /\ sess[i].up /\ sess[i] \in Session
      /\ op[i].answer = "none" /\ op[i].outcome \in Outcome /\ at(op[i], "turn")
  BY <1>1, AtWork DEF WriteTrue, at
<1>3. v \in (Nat \ {0}) \X Nat /\ (v[2] = 0 \/ v[2] = sess[i].storedVersion)
  BY <1>2, VersionsTyped
<1>4. /\ l \in Payload /\ l.counter >= kept(saved[i]) /\ kept(saved[i]) >= kept(saved[i])
      /\ kept(saved[i]) >= l.counter /\ saved[i] \in Payload \cup {None}
      /\ saved' = [saved EXCEPT ![i] = saved[i]]
  BY <1>1, LocalTyped
<1> HIDE DEF v, l
<1>5. op[i].kind # "reserve"
  BY <1>1
<1> QED BY <1>1, <1>2, <1>3, <1>4, <1>5, SendKeeps

\* reserveTurn
LEMMA ReserveTurnKeeps == ASSUME SyncInv, NEW i \in Install, reserveTurn(i) PROVE SyncInv'
<1> DEFINE v == pushedVersion(sess[i])
           raised == [local(i) EXCEPT !.counter = @ + 1]
           p == IF writerOrCreate(sess[i]) THEN raised ELSE saved[i]
           o == [op[i] EXCEPT !.base = local(i).counter]
<1>1. /\ op[i].kind = "reserve" /\ op[i].pc = "turn" /\ writeOnce(i, raised, v, o)
      /\ UNCHANGED <<slots, now, floor, pulls, issued, confirmed, raced>>
  BY DEF reserveTurn, serverVars, history
<1>2. /\ op[i] \in Operation /\ sess[i].up /\ sess[i] \in Session
      /\ op[i].answer = "none" /\ at(op[i], "turn")
  BY <1>1, AtWork DEF WriteTrue, at
<1>3. v \in (Nat \ {0}) \X Nat /\ (v[2] = 0 \/ v[2] = sess[i].storedVersion)
  BY <1>2, VersionsTyped
<1>4. PICK n \in Nat : n = kept(saved[i]) /\ n = local(i).counter
  BY LocalTyped
<1>5. raised \in Payload /\ raised.counter = n + 1
  BY <1>4, LocalTyped DEF Payload
<1>6. o \in Operation /\ o.answer = "none" /\ o.kind = "reserve" /\ o.base = n
  BY <1>1, <1>2, <1>4 DEF Operation
<1>7. saved' = [saved EXCEPT ![i] = p]
  BY LocalTyped DEF reserveTurn
<1> HIDE DEF v, raised, o
<1>8. /\ p \in Payload \cup {None} /\ kept(p) >= kept(saved[i])
      /\ writerOrCreate(sess[i]) => kept(p) >= raised.counter
  <2>1. kept(raised) = n + 1
    BY <1>5, Absences DEF kept
  <2> QED BY <1>4, <1>5, <2>1, LocalTyped
<1>9. raised.counter >= kept(saved[i])
  BY <1>4, <1>5
<1>10. raised.counter = o.base + 1 /\ o.base = kept(saved[i])
  BY <1>4, <1>5, <1>6
<1> HIDE DEF p
<1> QED BY <1>1, <1>2, <1>3, <1>5, <1>6, <1>7, <1>8, <1>9, <1>10, SendKeeps

-----------------------------------------------------------------------------
(***************************************************************************)
(* The server took the write.                                              *)
(***************************************************************************)

\* writeAccepted
LEMMA AcceptedKeeps == ASSUME SyncInv, NEW i \in Install, writeAccepted(i) PROVE SyncInv'
<1> DEFINE s == [sess[i] EXCEPT !.storedVersion = op[i].req.version]
           o == [op[i] EXCEPT !.pc = "accept"]
<1>1. /\ op[i].kind # "idle" /\ op[i].pc = "put" /\ op[i].answer = "ok"
      /\ sess' = [sess EXCEPT ![i] = s] /\ op' = [op EXCEPT ![i] = o]
      /\ UNCHANGED <<slots, now, floor, saved, pulls, wire, issued, confirmed, raced>> /\ slot' = slot
  BY DEF writeAccepted, serverVars, history, slot
<1>2. /\ op[i] \in Operation /\ sess[i].up /\ sess[i] \in Session /\ WriteTrue(slot, saved[i], op[i])
      /\ Mine(i) /\ slot \in Row \cup {NoSlot} /\ kept(saved[i]) \in Nat
  BY <1>1, AtWork, AtTurn, Own
<1>3. /\ op[i].req \in Request /\ op[i].req.version \in Nat /\ op[i].req.version <= versionOf(slot)
      /\ op[i].req.version = versionOf(slot) => slot.data = op[i].req.data
      /\ kept(saved[i]) >= op[i].req.data.counter
  BY <1>1, <1>2 DEF WriteTrue, at, Request
<1>4. /\ s \in Session /\ s.storedVersion = op[i].req.version /\ s.grant = sess[i].grant /\ s.up
  BY <1>2, <1>3 DEF Session
<1>5. /\ o \in Operation /\ o.pc = "accept" /\ o.kind = op[i].kind /\ o.answer = "ok"
      /\ o.req = op[i].req /\ o.base = op[i].base
  BY <1>1, <1>2 DEF Operation
<1> HIDE DEF s, o
<1>6. /\ ~ at(o, "pull") /\ ~ at(o, "turn") /\ ~ at(o, "put") /\ at(o, "accept") /\ ~ at(op[i], "pull")
  BY <1>1, <1>5, Absences DEF at
<1>7. CaughtUp(slot, saved[i], s)
  BY <1>2, <1>3, <1>4, Absences DEF CaughtUp, versionOf
<1>8. KnowsHolder(slot, raced, i, s, o) /\ WriteTrue(slot, saved[i], o)
  BY <1>3, <1>4, <1>5, <1>6 DEF KnowsHolder, WriteTrue
<1>9. Granted(confirmed, i, s) /\ QueuePulls(o, pulls[i])
  BY <1>2, <1>4, <1>6 DEF Mine, InstallOk, Granted, QueuePulls
<1>10. Mine(i)'
  <2>1. sess'[i] = s /\ op'[i] = o
    BY <1>1, Own
  <2> QED BY <1>1, <1>2, <1>4, <1>5, <1>7, <1>8, <1>9, <2>1 DEF Mine, InstallOk
<1>11. Local(i)
  BY <1>1, Own DEF Local
<1>12. Sent(i)
  <2>1. \A req : ~ Waits(op[i], req)
    BY <1>1 DEF Waits
  <2> QED BY <1>1, <2>1, SameWire
<1>13. IssuedOk(slot, issued', op')
  <2>1. op'[i] = o /\ OnlyAt(op, op', i)
    BY <1>1, Own
  <2>2. Claims(o) => Claims(op[i])
    BY <1>1, <1>5 DEF Claims
  <2>3. IssuedOk(slot, issued, op')
    BY <1>5, <2>1, <2>2, NoNewClaim
  <2> QED BY <1>1, <2>3
<1> QED BY <1>10, <1>11, <1>12, <1>13, LocalStep

\* acceptOwnWrite
LEMMA OwnWriteKeeps == ASSUME SyncInv, NEW i \in Install, acceptOwnWrite(i) PROVE SyncInv'
<1> DEFINE b == [sess[i] EXCEPT !.remote = op[i].req.data, !.createEligible = FALSE]
           s == applyTakeoverDecision(b, i)
           f == bootstrap(floor[i], op[i].req.version)
<1>1. /\ op[i].kind # "idle" /\ op[i].pc = "accept"
      /\ sess' = [sess EXCEPT ![i] = s] /\ op' = [op EXCEPT ![i] = Idle]
      /\ floor' = [floor EXCEPT ![i] = f]
      /\ UNCHANGED <<slots, now, saved, pulls, wire, confirmed, raced>> /\ slot' = slot
  BY DEF acceptOwnWrite, serverVars, slot
<1>2. /\ op[i] \in Operation /\ sess[i].up /\ sess[i] \in Session /\ WriteTrue(slot, saved[i], op[i])
      /\ Mine(i) /\ slot \in Row \cup {NoSlot} /\ floor[i] \in Nat /\ floor[i] <= versionOf(slot)
      /\ CaughtUp(slot, saved[i], sess[i]) /\ KnowsHolder(slot, raced, i, sess[i], op[i])
  BY <1>1, AtWork, AtTurn, Own
<1>3. /\ op[i].req \in Request /\ op[i].req.version \in Nat /\ op[i].req.version <= versionOf(slot)
      /\ op[i].req.version = versionOf(slot) => slot.data = op[i].req.data
      /\ op[i].answer = "ok" /\ op[i].req.data \in Payload
  BY <1>1, <1>2 DEF WriteTrue, at, Request
<1>4. /\ b \in Session /\ b.remote = op[i].req.data /\ b.storedVersion = sess[i].storedVersion
      /\ b.grant = sess[i].grant
  BY <1>2, <1>3 DEF Session
<1> HIDE DEF b
<1>5. /\ s \in Session /\ s.up /\ s.remote = op[i].req.data /\ s.storedVersion = sess[i].storedVersion
      /\ s.grant = sess[i].grant \/ s.grant = None
  <2>1. b.remote \in Payload \cup {None}
    BY <1>3, <1>4
  <2>2. s = evaluate(b, i, b.remote)
    BY DEF applyTakeoverDecision
  <2> HIDE DEF s
  <2> QED BY <1>4, <2>1, <2>2, Judged, Absences
<1>6. f \in Nat /\ f <= versionOf(slot)
  BY <1>2, <1>3 DEF bootstrap
<1> HIDE DEF s, f
<1>7. CaughtUp(slot, saved[i], s) /\ Granted(confirmed, i, s)
  BY <1>2, <1>5 DEF CaughtUp, Granted, Mine, InstallOk
<1>8. KnowsHolder(slot, raced, i, s, Idle)
  <2>1. ~ at(Idle, "accept") /\ at(op[i], "accept")
    BY <1>1, Absences DEF at
  <2> QED BY <1>2, <1>3, <1>5, <2>1 DEF KnowsHolder, versionOf
<1>9. QueuePulls(Idle, pulls[i]) /\ WriteTrue(slot, saved[i], Idle)
  <2>1. ~ at(op[i], "pull")
    BY <1>1 DEF at
  <2>2. ~ at(Idle, "pull") /\ ~ at(Idle, "turn") /\ ~ at(Idle, "put") /\ ~ at(Idle, "accept")
    BY Absences DEF at
  <2> QED BY <1>2, <2>1, <2>2 DEF Mine, InstallOk, QueuePulls, WriteTrue
<1>10. Mine(i)'
  <2>1. sess'[i] = s /\ op'[i] = Idle /\ floor'[i] = f
    BY <1>1, Own
  <2> QED BY <1>1, <1>2, <1>5, <1>6, <1>7, <1>8, <1>9, <2>1 DEF Mine, InstallOk
<1>11. Local(i)
  BY <1>1, Own DEF Local
<1>12. Sent(i)
  <2>1. \A req : ~ Waits(op[i], req)
    BY <1>1 DEF Waits, at
  <2> QED BY <1>1, <2>1, SameWire
<1>13. IssuedOk(slot, issued', op')
  <2>1. op'[i] = Idle /\ ~ Claims(op'[i]) /\ \A j \in Install : j # i => op'[j] = op[j]
    BY <1>1, Own, Absences DEF Claims, Idle, OnlyAt
  <2>2. IssuedOk(slot, issued, op)
    BY DEF SyncInv
  <2>3. CASE op[i].kind # "reserve"
    <3>1. issued' = issued
      BY <2>3 DEF acceptOwnWrite
    <3> QED BY <2>1, <2>2, <3>1 DEF IssuedOk
  <2>4. CASE op[i].kind = "reserve"
    <3> DEFINE n == op[i].base
    <3>1. issued' = [issued EXCEPT ![n] = @ + 1]
      BY <2>4 DEF acceptOwnWrite
    <3>2. Claims(op[i])
      BY <1>1, <1>3, <2>4 DEF Claims
    <3>3. slot # NoSlot /\ n < slot.data.counter /\ (n \in DOMAIN issued => issued[n] = 0)
      BY <2>2, <3>2 DEF IssuedOk
    <3>4. \A j \in Install : j # i /\ Claims(op[j]) => op[j].base # n
      BY <2>2, <3>2 DEF IssuedOk
    <3> HIDE DEF n
    <3>5. issued \in [0 .. 2 * MaxOps -> Nat]
      BY <2>2 DEF IssuedOk
    <3>6. /\ issued' \in [0 .. 2 * MaxOps -> Nat]
          /\ \A m \in DOMAIN issued' : m # n => issued'[m] = issued[m]
          /\ n \in DOMAIN issued' => issued'[n] = 1
          /\ DOMAIN issued' = DOMAIN issued
      <4> DEFINE D == 0 .. 2 * MaxOps
      <4> HIDE DEF D
      <4>1. issued \in [D -> Nat] /\ DOMAIN issued = D
        BY <3>5 DEF D
      <4>2. CASE n \in D
        <5>1. issued[n] = 0
          BY <3>3, <4>1, <4>2
        <5>2. issued' = [issued EXCEPT ![n] = 1]
          BY <3>1, <5>1
        <5> QED BY <4>1, <4>2, <5>2 DEF D
      <4>3. CASE n \notin D
        <5>1. issued' = issued
          BY <3>1, <4>1, <4>3
        <5> QED BY <4>1, <4>3, <5>1 DEF D
      <4> QED BY <4>2, <4>3
    <3>7. \A m \in DOMAIN issued' :
            issued'[m] <= 1 /\ (issued'[m] > 0 => slot # NoSlot /\ m < slot.data.counter)
      BY <2>2, <3>3, <3>6 DEF IssuedOk
    <3>8. \A j \in Install : Claims(op'[j]) =>
            /\ slot # NoSlot /\ op'[j].base < slot.data.counter
            /\ op'[j].base \in DOMAIN issued' => issued'[op'[j].base] = 0
      BY <2>1, <2>2, <3>4, <3>6 DEF IssuedOk
    <3>9. \A j, l \in Install :
            Claims(op'[j]) /\ Claims(op'[l]) /\ op'[j].base = op'[l].base => j = l
      BY <2>1, <2>2 DEF IssuedOk
    <3> QED BY <3>6, <3>7, <3>8, <3>9 DEF IssuedOk
  <2> QED BY <2>3, <2>4
<1> QED BY <1>10, <1>11, <1>12, <1>13, LocalStep

\* putServed: the new row is above all that was pulled, sent or claimed before.
LEMMA PutServedKeeps == ASSUME SyncInv, NEW w \in wire, putServed(w) PROVE SyncInv'
<1> DEFINE j == w.from
           o == [op[j] EXCEPT !.answer = putStatus(w.req, TRUE)]
           r == row(w.req)
<1>1. /\ MessageOk(slot, raced, confirmed, w) /\ w \in Message /\ j \in Install /\ w.req \in Request
      /\ w.awaited => Waits(op[j], w.req)
  BY DEF SyncInv, MessageOk, Message
<1>2. /\ wire' = wire \ {w} /\ op' = IF w.awaited THEN [op EXCEPT ![j] = o] ELSE op
      /\ UNCHANGED <<now, floor, saved, sess, pulls, issued, confirmed, raced>>
  BY DEF putServed, handlePut, serverVars
<1>3. /\ w.req.version \in Nat \ {0} /\ w.req.prevVersion \in Nat /\ w.req.data \in Payload
      /\ w.req.route = route /\ slot \in Row \cup {NoSlot}
  BY <1>1, Own DEF Request
<1>4. \/ putStatus(w.req, TRUE) \in Status \ {"none", "ok"} /\ slots' = slots
      \/ /\ putStatus(w.req, TRUE) = "ok" /\ slots' = [slots EXCEPT ![route] = r]
         /\ w.req.prevVersion = versionOf(slot) /\ w.req.version > versionOf(slot)
  <2>1. storedVersion(route) = versionOf(slot)
    BY DEF storedVersion, versionOf, slot
  <2>2. putStatus(w.req, TRUE) = "ok" =>
          w.req.prevVersion = storedVersion(route) /\ ~ (w.req.version <= storedVersion(route))
    BY <1>3 DEF putStatus
  <2>3. versionOf(slot) \in Nat
    BY <1>3, Absences DEF versionOf
  <2>4. putStatus(w.req, TRUE) \in Status \ {"none"}
    BY DEF putStatus, Status
  <2>5. CASE putStatus(w.req, TRUE) = "ok"
    <3>1. slots' = [slots EXCEPT ![route] = r]
      BY <1>3, <2>5 DEF putServed, handlePut, gatedWrite
    <3>2. w.req.prevVersion = versionOf(slot) /\ ~ (w.req.version <= versionOf(slot))
      BY <2>1, <2>2, <2>5
    <3>3. w.req.version > versionOf(slot)
      BY <1>3, <2>3, <3>2
    <3> HIDE DEF r
    <3> QED BY <2>5, <3>1, <3>2, <3>3
  <2>6. CASE putStatus(w.req, TRUE) # "ok"
    <3>1. slots' = slots
      BY <2>6 DEF putServed, handlePut, serverVars
    <3> QED BY <2>4, <2>6, <3>1
  <2> QED BY <2>5, <2>6
\* Whom the answer reaches.
<1>5. w.awaited =>
        /\ op[j] \in Operation /\ op[j].pc = "put" /\ op[j].answer = "none" /\ op[j].req = w.req
        /\ WriteTrue(slot, saved[j], op[j])
  <2>1. w.awaited => op[j].kind # "idle"
    BY <1>1 DEF Waits, at
  <2> QED BY <1>1, <2>1, AtWork DEF Waits, at
<1>6. putStatus(w.req, TRUE) \in Status
  BY <1>4 DEF Status
<1>7. w.awaited => /\ o \in Operation /\ o.pc = "put" /\ o.kind = op[j].kind /\ o.req = w.req
                   /\ o.base = op[j].base /\ o.answer = putStatus(w.req, TRUE)
  BY <1>5, <1>6 DEF Operation
<1> HIDE DEF o
<1>8. /\ op' = [k \in Install |-> op'[k]]
      /\ \A k \in Install : (w.awaited /\ k = j /\ op'[k] = o) \/ ((~ w.awaited \/ k # j) /\ op'[k] = op[k])
  <2>1. OnlyAt(op, [op EXCEPT ![j] = o], j) /\ [op EXCEPT ![j] = o][j] = o /\ OnlyAt(op, op, j)
    BY <1>1, Own
  <2> QED BY <1>2, <2>1 DEF OnlyAt
\* No other message of the same write is on its way.
<1>9. \A x \in wire' : x \in wire /\ MessageOk(slot, raced, confirmed, x) /\ x \in Message
                      /\ (x.awaited => Waits(op'[x.from], x.req))
  <2> SUFFICES ASSUME NEW x \in wire' PROVE x.awaited => Waits(op'[x.from], x.req)
    BY <1>2 DEF SyncInv, MessageOk
  <2>1. x \in wire /\ x # w /\ x \in Message /\ (x.awaited => Waits(op[x.from], x.req))
    BY <1>2 DEF SyncInv, MessageOk
  <2>2. x.awaited /\ w.awaited => x.from # j
    <3>1. x.awaited /\ w.awaited /\ x.from = j => x.req = w.req
      BY <1>1, <2>1 DEF Waits
    <3>2. x.awaited /\ w.awaited /\ x.from = j /\ x.req = w.req => x = w
      BY <1>1, <2>1 DEF Message
    <3> QED BY <2>1, <3>1, <3>2
  <2>3. x.from \in Install
    BY <2>1 DEF Message
  <2> QED BY <1>8, <2>1, <2>2, <2>3
<1>10. CASE putStatus(w.req, TRUE) \in Status \ {"none", "ok"} /\ slots' = slots
  <2>1. slot' = slot
    BY <1>10 DEF slot
  <2>2. w.awaited => /\ ~ Claims(o) /\ WriteTrue(slot, saved[j], o) /\ o.answer # "none"
                     /\ \A pc : at(o, pc) <=> at(op[j], pc)
    <3>1. w.awaited => o.answer # "ok" /\ o.answer # "none"
      BY <1>7, <1>10
    <3>2. w.awaited => \A pc : at(o, pc) <=> at(op[j], pc)
      BY <1>5, <1>7 DEF at
    <3> QED BY <1>5, <1>7, <3>1, <3>2, Absences DEF Claims, WriteTrue, at
  <2>3. \A k \in Install : Mine(k)'
    <3> SUFFICES ASSUME NEW k \in Install PROVE Mine(k)'
      OBVIOUS
    <3>1. Mine(k)
      BY Own
    <3>2. CASE op'[k] = op[k]
      BY <1>2, <2>1, <3>1, <3>2 DEF Mine
    <3>3. CASE w.awaited /\ k = j /\ op'[k] = o
      <4>1. KnowsHolder(slot, raced, k, sess[k], o) /\ QueuePulls(o, pulls[k])
        <5>1. ~ at(o, "accept") /\ ~ at(op[k], "accept")
          BY <1>7, <2>2, <3>3 DEF at
        <5> QED BY <2>2, <3>1, <3>3, <5>1 DEF Mine, InstallOk, KnowsHolder, QueuePulls
      <4>2. sess[k].up
        BY <1>5, <3>1, <3>3, Absences DEF Mine, InstallOk
      <4> QED BY <1>2, <1>7, <2>1, <2>2, <3>1, <3>3, <4>1, <4>2 DEF Mine, InstallOk
    <3> QED BY <1>8, <3>2, <3>3
  <2>4. IssuedOk(slot', issued', op')
    <3>1. \A k \in Install : Claims(op'[k]) => Claims(op[k]) /\ op'[k].base = op[k].base
      BY <1>8, <2>2
    <3>2. IssuedOk(slot, issued, op)
      BY DEF SyncInv
    <3> QED BY <1>2, <2>1, <3>1, <3>2 DEF IssuedOk
  <2>5. \A x \in wire' : MessageOk(slot', raced', confirmed', x) /\ (x.awaited => Waits(op'[x.from], x.req))
    BY <1>2, <1>9, <2>1
  <2> QED BY <1>2, <1>8, <1>10, <2>3, <2>4, <2>5 DEF SyncInv, Mine
<1>11. CASE /\ putStatus(w.req, TRUE) = "ok" /\ slots' = [slots EXCEPT ![route] = r]
            /\ w.req.prevVersion = versionOf(slot) /\ w.req.version > versionOf(slot)
  <2>1. /\ slot' = r /\ r \in Row /\ r.version = w.req.version /\ r.data = w.req.data
        /\ slots' \in [Account \X Collection -> Row \cup {NoSlot}]
    <3>1. r \in Row /\ r.version = w.req.version /\ r.data = w.req.data
      BY <1>3 DEF row, Row
    <3> HIDE DEF r
    <3> QED BY <1>11, <3>1, RouteIsOne DEF SyncInv, slot
  <2> HIDE DEF r
  <2>2. /\ r # NoSlot /\ versionOf(r) = r.version /\ r.version \in Nat /\ versionOf(slot) \in Nat
        /\ r.version > versionOf(slot) /\ r.data.counter \in Nat
    BY <1>3, <1>11, <2>1, Absences DEF versionOf, Payload
  <2>3. slot # NoSlot => r.data.counter >= slot.data.counter /\ slot.data.counter \in Nat
    BY <1>1, <1>3, <1>11, <2>1, Absences DEF MessageOk, versionOf, Payload
  <2>4. \A x \in wire' : MessageOk(r, raced, confirmed, x)
    <3> SUFFICES ASSUME NEW x \in wire' PROVE MessageOk(r, raced, confirmed, x)
      OBVIOUS
    <3>1. MessageOk(slot, raced, confirmed, x) /\ x.req.prevVersion \in Nat
      BY <1>9 DEF Message, Request
    <3>2. x.req.prevVersion < r.version
      BY <2>2, <3>1 DEF MessageOk
    <3> QED BY <2>2, <3>1, <3>2 DEF MessageOk
  <2>5. ASSUME NEW k \in Install
        PROVE  Mine(k)'
    <3>1. Mine(k) /\ kept(saved[k]) \in Nat
      BY Own, LocalTyped
    <3>2. floor[k] \in Nat /\ floor[k] <= versionOf(r)
      BY <2>2, <3>1 DEF Mine, InstallOk
    <3>3. sess[k].up => sess[k].storedVersion \in Nat /\ sess[k].storedVersion < r.version
      <4>1. sess[k].up => sess[k].storedVersion \in Nat /\ sess[k].storedVersion <= versionOf(slot)
        BY <3>1, Absences DEF Mine, InstallOk, CaughtUp, Session
      <4> QED BY <2>2, <4>1
    <3>4. CaughtUp(r, saved[k], sess[k])
      BY <2>2, <3>3 DEF CaughtUp
    <3>5. AnswersTrue(r, pulls[k])
      <4> SUFFICES ASSUME NEW n \in DOMAIN pulls[k], pulls[k][n].answer \in Row
                   PROVE  pulls[k][n].answer.version < r.version
        BY <2>2, Absences DEF AnswersTrue
      <4>1. pulls[k][n].answer.version \in Nat /\ pulls[k][n].answer.version <= versionOf(slot)
        BY <3>1, Absences DEF Mine, InstallOk, AnswersTrue
      <4> QED BY <2>2, <4>1
    <3>6. CASE op'[k] = op[k]
      <4>1. KnowsHolder(r, raced, k, sess[k], op[k])
        BY <3>1, <3>3 DEF Mine, InstallOk, KnowsHolder
      <4>2. at(op[k], "put") \/ at(op[k], "accept") =>
              op[k].req \in Request /\ op[k].req.version \in Nat /\ op[k].req.prevVersion \in Nat
        BY <3>1 DEF Mine, InstallOk, WriteTrue, Request
      <4>3. WriteTrue(r, saved[k], op[k])
        <5>1. WriteTrue(slot, saved[k], op[k])
          BY <3>1 DEF Mine, InstallOk
        <5>2. at(op[k], "put") => op[k].req.prevVersion < r.version
          BY <2>2, <4>2, <5>1 DEF WriteTrue
        <5>3. (at(op[k], "put") /\ op[k].answer = "ok") \/ at(op[k], "accept") => op[k].req.version < r.version
          BY <2>2, <4>2, <5>1 DEF WriteTrue
        <5> QED BY <2>2, <4>2, <5>1, <5>2, <5>3 DEF WriteTrue
      <4> QED BY <1>2, <2>1, <3>1, <3>2, <3>4, <3>5, <3>6, <4>1, <4>3 DEF Mine, InstallOk
    <3>7. CASE w.awaited /\ k = j /\ op'[k] = o
      <4>1. \A pc : at(o, pc) <=> at(op[k], pc)
        BY <1>5, <1>7, <3>7 DEF at
      <4>2. ~ at(o, "accept") /\ at(o, "put") /\ ~ at(o, "pull") /\ ~ at(o, "turn")
        BY <1>7, <3>7, Absences DEF at
      <4>3. KnowsHolder(r, raced, k, sess[k], o) /\ QueuePulls(o, pulls[k]) /\ sess[k].up
        BY <1>5, <3>1, <3>3, <3>7, <4>1, <4>2, Absences DEF Mine, InstallOk, KnowsHolder, QueuePulls
      <4>4. WriteTrue(r, saved[k], o)
        <5>1. /\ WriteTrue(slot, saved[k], op[k]) /\ at(op[k], "put") /\ op[k].req = w.req /\ o.req = w.req
              /\ o.kind = op[k].kind /\ o.base = op[k].base /\ o.answer = "ok"
          BY <1>5, <1>7, <1>11, <3>7, <4>1, <4>2
        <5>2. o.req.prevVersion <= versionOf(r) /\ o.req.version = versionOf(r) /\ r.data = o.req.data
              /\ o.req.version <= versionOf(r) /\ o.req \in Request
          BY <1>1, <1>3, <1>11, <2>1, <2>2, <5>1
        <5> QED BY <4>2, <5>1, <5>2 DEF WriteTrue
      <4> QED BY <1>2, <1>7, <2>1, <3>1, <3>2, <3>4, <3>5, <3>7, <4>3, <4>4 DEF Mine, InstallOk
    <3> QED BY <1>8, <3>6, <3>7
  <2>6. IssuedOk(r, issued', op')
    <3>1. IssuedOk(slot, issued, op) /\ issued' = issued
      BY <1>2 DEF SyncInv
    <3>2. w.awaited /\ o.kind = "reserve" =>
            /\ o.base \in Nat /\ r.data.counter = o.base + 1
            /\ slot # NoSlot => o.base >= slot.data.counter
      <4>1. w.awaited => at(op[j], "put")
        BY <1>1 DEF Waits
      <4>2. slot # NoSlot => w.req.prevVersion = slot.version
        BY <1>11 DEF versionOf
      <4>3. w.awaited => op[j].base \in Nat
        BY <1>5 DEF Operation
      <4> QED BY <1>5, <1>7, <2>1, <4>1, <4>2, <4>3 DEF WriteTrue
    <3>3. \A n \in DOMAIN issued :
            issued[n] <= 1 /\ (issued[n] > 0 => n \in Int /\ n < r.data.counter /\ slot # NoSlot /\ n < slot.data.counter)
      <4> SUFFICES ASSUME NEW n \in DOMAIN issued, issued[n] > 0
                   PROVE  n \in Int /\ n < r.data.counter /\ slot # NoSlot /\ n < slot.data.counter
        BY <3>1 DEF IssuedOk
      <4>1. n \in Int
        BY <3>1, SyncAssumption DEF IssuedOk, SyncAssumption
      <4>2. slot # NoSlot /\ n < slot.data.counter
        BY <3>1 DEF IssuedOk
      <4> QED BY <2>2, <2>3, <4>1, <4>2
    <3>4. \A n \in DOMAIN issued : issued[n] \in Nat
      BY <3>1 DEF IssuedOk
    <3>5. \A k \in Install : Claims(op[k]) =>
            /\ slot # NoSlot /\ op[k].base \in Nat /\ op[k].base < slot.data.counter
            /\ op[k].base \in DOMAIN issued => issued[op[k].base] = 0
      <4> SUFFICES ASSUME NEW k \in Install, Claims(op[k]) PROVE op[k].base \in Nat
        BY <3>1 DEF IssuedOk
      <4>1. op[k] \in Operation
        BY Own, Absences DEF Mine, InstallOk, Claims, Idle
      <4> QED BY <4>1 DEF Operation
    <3>6. \A k \in Install : Claims(op'[k]) =>
            /\ op'[k].base \in Nat /\ op'[k].base < r.data.counter
            /\ op'[k].base \in DOMAIN issued => issued[op'[k].base] = 0
      <4> SUFFICES ASSUME NEW k \in Install, Claims(op'[k])
                   PROVE  /\ op'[k].base \in Nat /\ op'[k].base < r.data.counter
                          /\ op'[k].base \in DOMAIN issued => issued[op'[k].base] = 0
        OBVIOUS
      <4>1. CASE op'[k] = op[k]
        BY <2>2, <2>3, <3>5, <4>1
      <4>2. CASE w.awaited /\ k = j /\ op'[k] = o
        <5>1. o.kind = "reserve"
          BY <4>2 DEF Claims
        <5>2. o.base \in DOMAIN issued => ~ (issued[o.base] > 0)
          BY <2>3, <3>2, <3>3, <4>2, <5>1
        <5> QED BY <2>2, <3>2, <3>4, <4>2, <5>1, <5>2
      <4> QED BY <1>8, <4>1, <4>2
    <3>7. \A k, l \in Install :
            Claims(op'[k]) /\ Claims(op'[l]) /\ op'[k].base = op'[l].base => k = l
      <4>1. \A k \in Install : Claims(op[k]) /\ w.awaited /\ o.kind = "reserve" => op[k].base # o.base
        BY <2>3, <3>2, <3>5
      <4>2. \A k, l \in Install :
              Claims(op[k]) /\ Claims(op[l]) /\ op[k].base = op[l].base => k = l
        BY <3>1 DEF IssuedOk
      <4>3. Claims(o) => o.kind = "reserve"
        BY DEF Claims
      <4> QED BY <1>8, <4>1, <4>2, <4>3
    <3> QED BY <2>2, <3>1, <3>3, <3>6, <3>7 DEF IssuedOk
  <2> QED BY <1>2, <1>8, <1>9, <2>1, <2>4, <2>5, <2>6 DEF SyncInv, Mine
<1> QED BY <1>4, <1>10, <1>11

-----------------------------------------------------------------------------
(***************************************************************************)
(* The theorems.                                                           *)
(***************************************************************************)

LEMMA SyncInit == Init => SyncInv
<1> SUFFICES ASSUME Init PROVE SyncInv
  OBVIOUS
<1>1. slot = NoSlot /\ slots \in [Account \X Collection -> Row \cup {NoSlot}] /\ now \in Int
  BY RouteIsOne DEF Init, startServer, slot
<1>2. ASSUME NEW i \in Install
      PROVE  InstallOk(slot, raced, confirmed, i, floor[i], saved[i], sess[i], op[i], pulls[i])
  <2>1. floor[i] = 0 /\ saved[i] = None /\ sess[i] = Down /\ op[i] = Idle /\ pulls[i] = << >>
    BY DEF Init
  <2>2. \A pc : ~ at(Idle, pc)
    BY Absences DEF at
  <2>3. << >> \in Seq(Get) /\ DOMAIN << >> = {}
    OBVIOUS
  <2>4. /\ CaughtUp(slot, None, Down) /\ KnowsHolder(slot, raced, i, Down, Idle)
        /\ Granted(confirmed, i, Down)
    BY Absences DEF CaughtUp, KnowsHolder, Granted
  <2>5. AnswersTrue(slot, << >>) /\ QueuePulls(Idle, << >>) /\ WriteTrue(slot, None, Idle)
    BY <2>2, <2>3 DEF AnswersTrue, QueuePulls, WriteTrue
  <2> QED BY <1>1, <2>1, <2>3, <2>4, <2>5 DEF InstallOk, versionOf
<1>3. IssuedOk(slot, issued, op)
  <2>1. \A i \in Install : ~ Claims(op[i])
    BY Absences DEF Init, Claims, Idle
  <2>2. issued \in [0 .. 2 * MaxOps -> Nat] /\ \A n \in DOMAIN issued : issued[n] = 0
    BY DEF Init
  <2> QED BY <2>1, <2>2 DEF IssuedOk
<1>4. /\ floor = [i \in Install |-> floor[i]] /\ saved = [i \in Install |-> saved[i]]
      /\ sess = [i \in Install |-> sess[i]] /\ op = [i \in Install |-> op[i]]
      /\ pulls = [i \in Install |-> pulls[i]] /\ wire = {}
  BY DEF Init
<1> QED BY <1>1, <1>2, <1>3, <1>4 DEF SyncInv

LEMMA SyncStep == SyncInv /\ [Next]_vars => SyncInv'
<1> SUFFICES ASSUME SyncInv, [Next]_vars PROVE SyncInv'
  OBVIOUS
<1>1. CASE UNCHANGED vars
  BY <1>1 DEF vars, serverVars, clientVars, history, SyncInv, slot
<1>2. ASSUME NEW i \in Install, Lives(i) PROVE SyncInv'
  BY <1>2, OpenKeeps, CrashKeeps DEF Lives
<1>3. ASSUME NEW i \in Install, Acts(i) PROVE SyncInv'
  BY <1>3, UpdateKeeps, PullKeeps, ReserveKeeps, PushKeeps, ConfirmKeeps DEF Acts
<1>4. ASSUME NEW i \in Install, NEW k \in DOMAIN pulls[i], Pulled(i, k) PROVE SyncInv'
  BY <1>4, GetServedKeeps, LateKeeps, AbsentKeeps, PresentKeeps, PullFailsKeeps, TornKeeps DEF Pulled
<1>5. ASSUME NEW i \in Install, Writes(i) PROVE SyncInv'
  BY <1>5, ReserveTurnKeeps, PushAgainKeeps, AcceptedKeeps, OwnWriteKeeps, ConflictKeeps, FailKeeps
  DEF Writes
<1>6. ASSUME NEW w \in wire, putServed(w) PROVE SyncInv'
  BY <1>6, PutServedKeeps
<1> QED BY <1>1, <1>2, <1>3, <1>4, <1>5, <1>6 DEF Next

LEMMA SyncAlways == Spec => []SyncInv
<1> QED BY SyncInit, SyncStep, PTL DEF Spec

\* No index is handed out twice and the server's copy stays above every index handed
\* out (stateSync.ts mutateAsWriterDurably, #pushOnce, #writeOnce), for any installs
\* and any order of their turns, crashes, conflicts, lost and late answers.
THEOREM SyncIndexNeverIssuedTwice == Spec => []IndexNeverIssuedTwice
<1>1. SyncInv => IndexNeverIssuedTwice
  BY DEF SyncInv, IssuedOk, IndexNeverIssuedTwice
<1> QED BY <1>1, SyncAlways, PTL

\* No install's durable floor passes the server's version (floor.ts bootstrap), though
\* the floor is written before the payload and a process may die in between.
THEOREM SyncNeverWedged == Spec => []NeverWedged
<1>1. SyncInv => NeverWedged
  <2> SUFFICES ASSUME SyncInv, NEW i \in Install PROVE floor[i] <= storedVersion(route)
    BY DEF NeverWedged
  <2>1. floor[i] <= versionOf(slot)
    BY Own DEF Mine, InstallOk
  <2> QED BY <2>1 DEF versionOf, slot, storedVersion
<1> QED BY <1>1, SyncAlways, PTL

\* Only a PUT the server takes hands the slot over, and its sender's user confirmed a
\* takeover from the holder it replaces (takeover.ts evaluate, stateSync.ts #writeOnce),
\* unless the sender applied a pull in the middle of taking in a write of its own.
THEOREM SyncTakeoverNamesHolder == Spec => TakeoverNamesHolder
<1> DEFINE Named == Handover => holder' \in raced \/ \E c \in confirmed : Confirmed(c)
<1>1. ASSUME SyncInv, [Next]_vars, Handover PROVE Named
  <2>1. slots' # slots
    BY <1>1 DEF Handover, holder, slot
  <2>2. \A i \in Install : ~ Lives(i) /\ ~ Acts(i) /\ ~ Writes(i)
    BY <2>1 DEF Lives, Acts, Writes, open, Crash, update, pull, reserve, push, confirmTakeover,
                reserveTurn, pushAgain, writeAccepted, acceptOwnWrite, writeConflicts, writeFails,
                serverVars
  <2>3. \A i \in Install : \A k : ~ Pulled(i, k)
    <3> SUFFICES ASSUME NEW i \in Install, NEW k, Pulled(i, k) PROVE slots' = slots
      BY <2>1
    <3>1. \A s : resume(i, k, s) => slots' = slots
      BY DEF resume, serverVars
    <3>2. CASE pullLate(i, k)
      BY <3>1, <3>2 DEF pullLate
    <3>3. CASE pullAbsent(i, k)
      BY <3>1, <3>3 DEF pullAbsent
    <3>4. CASE pullPresent(i, k)
      BY <3>1, <3>4 DEF pullPresent
    <3>5. CASE getServed(i, k) \/ pullFails(i, k) \/ pullTorn(i, k)
      BY <3>5 DEF getServed, pullFails, pullTorn, serverVars
    <3> QED BY <3>2, <3>3, <3>4, <3>5 DEF Pulled
  <2>4. PICK w \in wire : putServed(w)
    BY <1>1, <2>1, <2>2, <2>3 DEF Next, vars, serverVars
  <2>5. MessageOk(slot, raced, confirmed, w) /\ w.req.route = route /\ w.from \in Install
    BY <1>1 DEF SyncInv, MessageOk, Message, Request
  <2>6. /\ slots' = [slots EXCEPT ![route] = row(w.req)] /\ w.req.prevVersion = storedVersion(route)
    <3>1. putStatus(w.req, TRUE) = "ok"
      BY <2>1, <2>4 DEF putServed, handlePut, serverVars
    <3> QED BY <2>4, <2>5, <3>1 DEF putServed, handlePut, gatedWrite, putStatus
  <2>7. slot' = row(w.req) /\ row(w.req).data.installId = w.from
    BY <1>1, <2>5, <2>6, RouteIsOne DEF SyncInv, slot, row, MessageOk
  <2>8. slot # NoSlot /\ holder = slot.data.installId /\ w.req.prevVersion = slot.version
    BY <1>1, <2>6 DEF Handover, holder, slot, storedVersion
  <2>9. holder' = w.from
    <3>1. row(w.req) # NoSlot
      BY <1>1, <2>5, Absences DEF row, Row, MessageOk, Message, Request
    <3> QED BY <2>7, <3>1 DEF holder
  <2> QED BY <1>1, <2>5, <2>8, <2>9 DEF Handover, MessageOk, Entitled, Confirmed
<1>2. SyncInv /\ [Next]_vars => [Named]_vars
  BY <1>1
<1> HIDE DEF Named
<1>3. Spec => [][Named]_vars
  BY <1>2, SyncAlways, PTL DEF Spec
<1> QED BY <1>3 DEF TakeoverNamesHolder, Named

=============================================================================
