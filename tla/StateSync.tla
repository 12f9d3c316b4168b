----------------------------- MODULE StateSync ------------------------------
(***************************************************************************)
(* The installs of one account (pss-client, pss-integration) and their     *)
(* server.  Each install keeps a payload and a version floor in its own    *)
(* store, reserves ephemeral indices through a compare-and-swap of the     *)
(* server's slot, and takes the account over from another install when     *)
(* its user confirms it.                                                   *)
(*                                                                         *)
(* Abstractions.                                                           *)
(*  - A payload is the high-water mark of one counter scope and the        *)
(*    install it names; `update` changes neither.                          *)
(*  - #mutate is a queue and its turns are steps; a turn that changes the  *)
(*    local payload writes it to the store in the same turn, so the store  *)
(*    holds the local payload as soon as there has been one such turn.     *)
(*    What #inFlight does between two awaits is a step of its own: turns   *)
(*    of #mutate come between them.                                        *)
(*  - updatedAt is read from each device's own clock: either of two        *)
(*    payloads may be the newest.                                          *)
(*  - Sealing and opening a cell cannot fail, and the server is honest.    *)
(***************************************************************************)
EXTENDS PssServer

CONSTANTS
    Install,   \* the installs of the account
    None,      \* absence of a payload or a grant
    MaxOps,    \* bound: writes begun
    MaxUpsets  \* bound: updates and pulls of the embedder, and processes that die

\* What a payload is; absence is not one, and a row that was written is one.
Payload == [counter : Nat, installId : Install]

ASSUME SyncAssumption ==
    /\ Account # {} /\ Collection # {} /\ MaxOps \in Nat
    /\ None \notin Install /\ None \notin Payload
    /\ NoSlot \notin [version : Nat, prevVersion : Nat, data : Payload]

VARIABLES
    floor,     \* durable: VersionFloor of each install
    saved,     \* durable: the payload in each install's store
    sess,      \* the StateSync object of each running install
    pulls,     \* its GETs under way, in the order of #pullSequence
    op,        \* what its #inFlight queue is doing
    wire,      \* PUTs that have not reached the server
    issued,    \* how often each index was handed out
    confirmed, \* <<install, holder, version>> of each takeover a user confirmed
    since,     \* version at which the slot's holder took it
    raced,     \* installs that applied a pull while they took in an accepted write
    begun      \* how many of each so far

history == <<issued, confirmed, since, raced>>
clientVars == <<floor, saved, sess, pulls, op, wire, history, begun>>
vars == <<serverVars, clientVars>>

\* The account is one of the server's, its slot the one of collection "state".
route == CHOOSE r \in Account \X Collection : TRUE
slot == slots[route]
holder == IF slot = NoSlot THEN None ELSE slot.data.installId

Idle == [kind |-> "idle"]
Down == [up |-> FALSE]
Pending == [pending |-> TRUE]

begins(what, bound) == begun[what] < bound /\ begun' = [begun EXCEPT ![what] = @ + 1]

-----------------------------------------------------------------------------
(***************************************************************************)
(* payload.ts, merge.ts, floor.ts and takeover.ts.                         *)
(***************************************************************************)

emptyStatePayload(i) == [counter |-> 0, installId |-> i]
local(i) == IF saved[i] = None THEN emptyStatePayload(i) ELSE saved[i]

\* Slip: the local high-water is kept and the remote one dropped.
mergeEphemeralCounterSnapshots_local(a, b) == a
mergeEphemeralCounterSnapshots(a, b) == IF a >= b THEN a ELSE b

mergeStatePayloads(mine, theirs) ==
    {[counter |-> mergeEphemeralCounterSnapshots(mine.counter, theirs.counter),
      installId |-> newest] : newest \in {mine.installId, theirs.installId}}

\* Slip: the floor is the version to write next.
bootstrap_next(f, version) == IF version + 1 > f THEN version + 1 ELSE f
bootstrap(f, version) == IF version > f THEN version ELSE f

\* Slip: the grant is a bare flag.
evaluate_flag(s, i, remote) ==
    IF remote = None \/ remote.installId = i \/ s.grant # None
    THEN [s EXCEPT !.mode = "writer"]
    ELSE [s EXCEPT !.mode = "readonly"]

\* InstallGuard.evaluate: the mode, and what is left of the grant.
evaluate(s, i, remote) ==
    CASE remote = None -> [s EXCEPT !.mode = "writer"]
      [] remote # None /\ remote.installId = i ->
            [s EXCEPT !.mode = "writer", !.grant = None]
      [] remote # None /\ remote.installId # i ->
            IF remote.installId = s.grant
            THEN [s EXCEPT !.mode = "writer"]
            ELSE [s EXCEPT !.mode = "readonly", !.grant = None]

applyTakeoverDecision(s, i) == evaluate(s, i, s.remote)

-----------------------------------------------------------------------------
(***************************************************************************)
(* stateSync.ts: the session of one install.                               *)
(***************************************************************************)

\* The session of a process that starts, before its first pull.
session(i) ==
    [up |-> TRUE,
     mode |-> IF saved[i] # None /\ saved[i].installId = i THEN "writer" ELSE "readonly",
     createEligible |-> FALSE, remote |-> None, storedVersion |-> 0,
     lastPull |-> <<"absent", 0>>, grant |-> None]

open(i) ==
    /\ ~sess[i].up
    /\ sess' = [sess EXCEPT ![i] = session(i)]
    /\ UNCHANGED <<serverVars, floor, saved, pulls, op, wire, history, begun>>

\* What was sent before stays on its way, and nobody waits for its answer.
abandoned(i) ==
    {[w EXCEPT !.awaited = w.awaited /\ w.from # i] : w \in wire}

\* The process of an install dies.
Crash(i) ==
    /\ sess[i].up
    /\ begins("upsets", MaxUpsets)
    /\ sess' = [sess EXCEPT ![i] = Down]
    /\ pulls' = [pulls EXCEPT ![i] = <<>>]
    /\ op' = [op EXCEPT ![i] = Idle]
    /\ wire' = abandoned(i)
    /\ UNCHANGED <<serverVars, floor, saved, history>>

writerOrCreate(s) == s.mode = "writer" \/ s.createEligible

nextWrite(s, outcome) ==
    CASE outcome[1] = "missing" -> <<outcome[2] + 1, 0>>
      [] outcome[1] = "absent" -> <<1, 0>>
      [] outcome[1] = "present" -> <<s.storedVersion + 1, s.storedVersion>>

\* The version #pushOnce writes, and the one it writes over.
pushedVersion(s) ==
    IF s.lastPull[1] = "missing" THEN nextWrite(s, s.lastPull)
    ELSE <<s.storedVersion + 1, s.storedVersion>>

stamp(i, payload) == [payload EXCEPT !.installId = i]

\* #writeOnce: seal, sign and send the stamped payload.
sent(i, payload, v) ==
    [from |-> i, awaited |-> TRUE,
     req |-> Put(route[1], route[2], v[1], v[2], stamp(i, payload), now,
                 IF v[2] = 0 /\ i \in Invite THEN i ELSE NoInvite)]

\* What the queue does: o.pc is the await it stands at.
Op(kind, pc) == [kind |-> kind, pc |-> pc, attempt |-> 1, outcome |-> None,
                 base |-> 0, answer |-> "none", req |-> None]

\* The queue sends the payload at the version v and waits for the answer, in state
\* o.  A session the guard does not hold for the writer gives up.
writeOnce(i, payload, v, o) ==
    LET s == sess[i]
        judged == evaluate(s, i, s.remote)
        w == sent(i, payload, v) IN
    /\ IF writerOrCreate(s) /\ judged.mode = "writer"
       THEN /\ wire' = wire \cup {w}
            /\ op' = [op EXCEPT ![i] = [o EXCEPT !.pc = "put", !.outcome = None, !.req = w.req]]
       ELSE /\ op' = [op EXCEPT ![i] = Idle]
            /\ UNCHANGED wire
    /\ sess' = IF writerOrCreate(s) THEN [sess EXCEPT ![i].grant = judged.grant] ELSE sess

\* A local change without a counter; it arms the debounced push.
update(i) ==
    /\ sess[i].up
    /\ begins("upsets", MaxUpsets)
    /\ saved' = [saved EXCEPT ![i] = local(i)]
    /\ UNCHANGED <<serverVars, floor, sess, pulls, op, wire, history>>

\* pull() of the embedder, besides the one the queue may have under way.
pull(i) ==
    /\ sess[i].up
    /\ begins("upsets", MaxUpsets)
    /\ \A k \in DOMAIN pulls[i] : pulls[i][k].by = "queue"
    /\ pulls' = [pulls EXCEPT ![i] = Append(@, [by |-> "user", answer |-> Pending, late |-> FALSE])]
    /\ UNCHANGED <<serverVars, floor, saved, sess, op, wire, history>>

queuePull(i) ==
    pulls' = [pulls EXCEPT ![i] = Append(@, [by |-> "queue", answer |-> Pending, late |-> FALSE])]

\* The queue takes up a reservation (mutateAsWriterDurably).
reserve(i) ==
    /\ sess[i].up /\ op[i] = Idle
    /\ begins("writes", MaxOps)
    /\ op' = [op EXCEPT ![i] = Op("reserve", "pull")]
    /\ queuePull(i)
    /\ UNCHANGED <<serverVars, floor, saved, sess, wire, history>>

\* The queue takes up a push, of the debounce, of the flush timer or of flushNow.
push(i) ==
    /\ sess[i].up /\ op[i] = Idle
    /\ begins("writes", MaxOps)
    /\ writerOrCreate(sess[i])
    /\ writeOnce(i, local(i), pushedVersion(sess[i]), Op("push", "turn"))
    /\ UNCHANGED <<serverVars, floor, saved, pulls, history>>

\* The user of i confirms, against the holder the last pull showed; no chain
\* quantity yields a version, so the floors it is given are 0.
confirmTakeover(i) ==
    /\ sess[i].up /\ sess[i].remote # None
    /\ sess' = [sess EXCEPT ![i] =
                  applyTakeoverDecision([@ EXCEPT !.grant = sess[i].remote.installId], i)]
    /\ confirmed' = confirmed \cup {<<i, sess[i].remote.installId, sess[i].storedVersion>>}
    /\ UNCHANGED <<serverVars, floor, saved, pulls, op, wire, issued, since, raced, begun>>

-----------------------------------------------------------------------------
(***************************************************************************)
(* The answer of a GET, and what the queue does with it.                   *)
(***************************************************************************)

getServed(i, k) ==
    /\ pulls[i][k].answer = Pending
    /\ pulls' = [pulls EXCEPT ![i][k].answer = handleGet(route)]
    /\ UNCHANGED <<serverVars, floor, saved, sess, op, wire, history, begun>>

\* The session after a pull that found no slot.
afterAbsent(i) ==
    LET eligible == [sess[i] EXCEPT !.createEligible = i \in Invite] IN
    IF floor[i] = 0
    THEN [eligible EXCEPT !.remote = None, !.storedVersion = 0, !.mode = "readonly",
                          !.lastPull = <<"absent", 0>>]
    ELSE [eligible EXCEPT !.lastPull = <<"missing", floor[i]>>]

\* The session after a pull that found the row r.
afterPresent(i, r) ==
    applyTakeoverDecision(
        [sess[i] EXCEPT !.createEligible = FALSE, !.remote = r.data,
                        !.storedVersion = r.version, !.lastPull = <<"present", 0>>], i)

\* The pulls still under way once pull k is applied: the earlier ones are late.
remaining(i, k, applied) ==
    [j \in 1 .. Len(pulls[i]) - 1 |->
        IF j < k THEN [pulls[i][j] EXCEPT !.late = @ \/ applied] ELSE pulls[i][j + 1]]

\* The turn of pull k leaves the session s; the queue goes on if it was its own.
resume(i, k, s) ==
    /\ sess' = [sess EXCEPT ![i] = s]
    /\ op' = IF pulls[i][k].by = "user" THEN op
             ELSE [op EXCEPT ![i].pc = "turn",
                             ![i].outcome = IF op[i].kind = "push" THEN s.lastPull ELSE None]
    /\ raced' = IF op[i].kind # "idle" /\ op[i].pc = "accept" THEN raced \cup {i} ELSE raced
    /\ UNCHANGED <<serverVars, wire, issued, confirmed, since>>

answered(i, k) == sess[i].up /\ pulls[i][k].answer # Pending

\* An answer overtaken by a later pull: its caller gets that pull's outcome.
pullLate(i, k) ==
    /\ answered(i, k) /\ pulls[i][k].late
    /\ pulls' = [pulls EXCEPT ![i] = remaining(i, k, FALSE)]
    /\ resume(i, k, sess[i])
    /\ UNCHANGED <<floor, saved, begun>>

pullAbsent(i, k) ==
    /\ answered(i, k) /\ ~pulls[i][k].late /\ pulls[i][k].answer = NoSlot
    /\ pulls' = [pulls EXCEPT ![i] = remaining(i, k, TRUE)]
    /\ resume(i, k, afterAbsent(i))
    /\ UNCHANGED <<floor, saved, begun>>

\* The floor, the session and the payload take the row in.
pullPresent(i, k) ==
    LET r == pulls[i][k].answer IN
    /\ answered(i, k) /\ ~pulls[i][k].late /\ r # NoSlot
    /\ r.version >= floor[i]
    /\ floor' = [floor EXCEPT ![i] = bootstrap(@, r.version)]
    /\ pulls' = [pulls EXCEPT ![i] = remaining(i, k, TRUE)]
    /\ \E p \in mergeStatePayloads(local(i), r.data) : saved' = [saved EXCEPT ![i] = p]
    /\ resume(i, k, afterPresent(i, r))
    /\ UNCHANGED begun

\* A transport error, a timeout, or a row below the floor: the pull rejects, and
\* with it the operation that waits for it.
pullFails(i, k) ==
    /\ sess[i].up
    /\ pulls' = [pulls EXCEPT ![i] = remaining(i, k, FALSE)]
    /\ op' = IF pulls[i][k].by = "queue" THEN [op EXCEPT ![i] = Idle] ELSE op
    /\ UNCHANGED <<floor, saved, sess, wire, serverVars, history, begun>>

\* The process dies between the two writes of a pull, the floor's and the payload's.
pullTorn(i, k) ==
    LET r == pulls[i][k].answer IN
    /\ answered(i, k) /\ ~pulls[i][k].late /\ r # NoSlot
    /\ r.version > floor[i]
    /\ begins("upsets", MaxUpsets)
    /\ floor' = [floor EXCEPT ![i] = bootstrap(@, r.version)]
    /\ sess' = [sess EXCEPT ![i] = Down]
    /\ pulls' = [pulls EXCEPT ![i] = <<>>]
    /\ op' = [op EXCEPT ![i] = Idle]
    /\ wire' = abandoned(i)
    /\ UNCHANGED <<saved, serverVars, history>>

-----------------------------------------------------------------------------
(***************************************************************************)
(* A PUT reaches the server, and its answer the install.                   *)
(***************************************************************************)

putServed(w) ==
    /\ handlePut(w.req, TRUE)
    /\ wire' = wire \ {w}
    /\ op' = IF w.awaited
             THEN [op EXCEPT ![w.from].answer = putStatus(w.req, TRUE)] ELSE op
    /\ since' = IF slots' # slots /\ holder # w.from THEN w.req.version ELSE since
    /\ UNCHANGED <<floor, saved, sess, pulls, issued, confirmed, raced, begun>>

\* The turn of a reservation: it takes its index, raises the high-water and sends it
\* off.  #pushOnce goes on from the turn before the next one can start.
reserveTurn(i) ==
    LET o == op[i]
        raised == [local(i) EXCEPT !.counter = @ + 1] IN
    /\ o.kind = "reserve" /\ o.pc = "turn"
    /\ saved' = IF writerOrCreate(sess[i]) THEN [saved EXCEPT ![i] = raised] ELSE saved
    /\ writeOnce(i, raised, pushedVersion(sess[i]), [o EXCEPT !.base = local(i).counter])
    /\ UNCHANGED <<serverVars, floor, pulls, history, begun>>

\* The second write of a push that met a conflict, after its pull.
pushAgain(i) ==
    LET o == op[i] IN
    /\ o.kind = "push" /\ o.pc = "turn"
    /\ writeOnce(i, local(i), nextWrite(sess[i], o.outcome), o)
    /\ UNCHANGED <<serverVars, floor, saved, pulls, history, begun>>

\* The server took the write: its version is the stored one at once ...
writeAccepted(i) ==
    LET o == op[i] IN
    /\ o.kind # "idle" /\ o.pc = "put" /\ o.answer = "ok"
    /\ sess' = [sess EXCEPT ![i].storedVersion = o.req.version]
    /\ op' = [op EXCEPT ![i].pc = "accept"]
    /\ UNCHANGED <<serverVars, floor, saved, pulls, wire, history, begun>>

\* ... and once the floor is raised it is what the remote is taken to be, and the
\* index it reserved is handed out.
acceptOwnWrite(i) ==
    LET o == op[i] IN
    /\ o.kind # "idle" /\ o.pc = "accept"
    /\ floor' = [floor EXCEPT ![i] = bootstrap(@, o.req.version)]
    /\ sess' = [sess EXCEPT ![i] =
                  applyTakeoverDecision(
                      [@ EXCEPT !.remote = o.req.data, !.createEligible = FALSE], i)]
    /\ issued' = IF o.kind = "reserve" THEN [issued EXCEPT ![o.base] = @ + 1] ELSE issued
    /\ op' = [op EXCEPT ![i] = Idle]
    /\ UNCHANGED <<serverVars, saved, pulls, wire, confirmed, since, raced, begun>>

\* Another write came first: pull again, once.
writeConflicts(i) ==
    LET o == op[i] IN
    /\ o.kind # "idle" /\ o.pc = "put" /\ o.answer = "version_conflict"
    /\ IF o.attempt = 1
       THEN /\ op' = [op EXCEPT ![i] = [Op(o.kind, "pull") EXCEPT !.attempt = 2]]
            /\ queuePull(i)
       ELSE /\ op' = [op EXCEPT ![i] = Idle]
            /\ UNCHANGED pulls
    /\ UNCHANGED <<serverVars, floor, saved, sess, wire, history, begun>>

\* Any other answer, a lost one, or a timeout: the caller is told it failed, while
\* the request may have been served, or may be served yet.
writeFails(i) ==
    /\ op[i].kind # "idle" /\ op[i].pc = "put"
    /\ op[i].answer # "version_conflict"
    /\ op' = [op EXCEPT ![i] = Idle]
    /\ wire' = abandoned(i)
    /\ UNCHANGED <<serverVars, floor, saved, sess, pulls, history, begun>>

-----------------------------------------------------------------------------
Init ==
    /\ startServer
    /\ floor = [i \in Install |-> 0]
    /\ saved = [i \in Install |-> None]
    /\ sess = [i \in Install |-> Down]
    /\ pulls = [i \in Install |-> <<>>]
    /\ op = [i \in Install |-> Idle]
    /\ wire = {}
    /\ issued = [n \in 0 .. 2 * MaxOps |-> 0]
    /\ confirmed = {}
    /\ since = 0 /\ raced = {}
    /\ begun = [what \in {"writes", "upsets"} |-> 0]

Lives(i) == open(i) \/ Crash(i)

Acts(i) == update(i) \/ pull(i) \/ reserve(i) \/ push(i) \/ confirmTakeover(i)

Pulled(i, k) ==
    \/ getServed(i, k) \/ pullLate(i, k) \/ pullAbsent(i, k) \/ pullPresent(i, k)
    \/ pullFails(i, k) \/ pullTorn(i, k)

Writes(i) ==
    \/ reserveTurn(i) \/ pushAgain(i) \/ writeAccepted(i) \/ acceptOwnWrite(i)
    \/ writeConflicts(i) \/ writeFails(i)

Next ==
    \/ \E i \in Install :
         \/ Lives(i)
         \/ Acts(i)
         \/ \E k \in DOMAIN pulls[i] : Pulled(i, k)
         \/ Writes(i)
    \/ \E w \in wire : putServed(w)

Spec == Init /\ [][Next]_vars

\* The account as install h leaves it when it pulled nothing and wrote version 1,
\* and the other installs have just started.
Held(h) ==
    LET r == sent(h, emptyStatePayload(h), <<1, 0>>).req IN
    /\ now = 0
    /\ slots = [s \in Account \X Collection |-> IF s = route THEN row(r) ELSE NoSlot]
    /\ unspent = Invite \ {h} /\ synced = <<slots, unspent>>
    /\ seenAt = <<<<putSig(r), 0>>>>
    /\ floor = [i \in Install |-> IF i = h THEN 1 ELSE 0]
    /\ saved = [i \in Install |-> None]
    /\ sess = [i \in Install |->
                 IF i # h THEN session(i)
                 ELSE [session(h) EXCEPT !.mode = "writer", !.remote = r.data, !.storedVersion = 1]]
    /\ pulls = [i \in Install |-> <<>>]
    /\ op = [i \in Install |-> Idle]
    /\ wire = {} /\ confirmed = {} /\ since = 1 /\ raced = {}
    /\ issued = [n \in 0 .. 2 * MaxOps |-> 0]
    /\ begun = [what \in {"writes", "upsets"} |-> 0]

\* Installs, with their codes, are interchangeable.
InstallSymmetry == Permutations(Install)

InitHeld == \E h \in Invite : Held(h)

SpecHeld == InitHeld /\ [][Next]_vars

-----------------------------------------------------------------------------
\* No index is handed out twice, to whichever installs: not when two of them
\* believe to be the writer, not after a crash, a lost answer, a late write or a
\* takeover.  (A second use of an index reuses the key of a note's encryption.)
\* And once one is handed out the server's copy stays above it whoever writes
\* next: a device that starts from nothing cannot get it again.
IndexNeverIssuedTwice ==
    \A n \in DOMAIN issued :
        /\ issued[n] <= 1
        /\ issued[n] > 0 => slot # NoSlot /\ n < slot.data.counter

\* The durable floor never gets ahead of the server: what an honest server
\* answers is not taken for a rollback, so no install locks itself out.
NeverWedged == \A i \in Install : floor[i] <= storedVersion(route)

Handover == holder # None /\ holder' # holder
Confirmed(c) == c[1] = holder' /\ c[2] = holder

\* The slot passes from one install to another only to one whose user confirmed
\* a takeover from that very install, unless the new holder applied a pull between
\* #storedVersion and #remote of a write of its own (#pushOnce).
TakeoverNamesHolder ==
    [][Handover => holder' \in raced \/ \E c \in confirmed : Confirmed(c)]_vars

\* A confirmation is good for one handover: it was given while the install it names
\* held the account.
TakeoverNeverAutomatic ==
    [][Handover => \E c \in confirmed : Confirmed(c) /\ c[3] >= since]_vars

=============================================================================
