------------------------------ MODULE Multisig ------------------------------
(***************************************************************************)
(* What a group made by a key ceremony does with its key.  Compliance: the *)
(* committee opens notes.  Signing: members answer a coordinator who may   *)
(* ask again, for other signers or another message, and hears from members *)
(* who cheat.  Treasury: members mint notes to the group, others pay it,   *)
(* and whoever holds the view secret finds it all on the chain.            *)
(*                                                                         *)
(* The three uses share nothing but the group, so a behaviour follows one. *)
(***************************************************************************)
EXTENDS Threshold, Functions

CONSTANTS
  Coefficients,    \* what a dealer may draw: [a, b], two sequences of T scalars
  AccountDraws,    \* what the dealers of an account draw
  Messages,        \* what the group is asked to sign
  Cheaters,        \* members whose signature shares are wrong
  MaxHandles,      \* bound: commitments the members make together
  MaxRequests,     \* bound: lists the coordinator sends out
  Members,         \* memberIds of the treasury
  OddY,            \* pairs <<member, j>> whose ephemeral has odd y
  OddAddress,      \* indices whose receiving key has odd y
  SelfWindow, IncomingWindow,
  MaxJ,            \* bound: indices a member takes, and addresses in use
  MaxNotes,        \* bound: notes on the chain
  MaxVersion,      \* bound: versions of the compliance key
  MaxUnopenable    \* bound: failures the application reads on after

ASSUME MultisigConstants ==
  /\ {MaxHandles, MaxRequests, MaxJ, MaxNotes, MaxVersion, MaxUnopenable, SelfWindow, IncomingWindow} \subseteq Nat
  /\ AccountDraws \subseteq [participants -> Coefficients]
  /\ Cheaters \subseteq participants /\ Members \subseteq Nat
  /\ OddY \subseteq Members \X Nat /\ OddAddress \subseteq Nat /\ IsFiniteSet(OddAddress)

VARIABLES
  use,        \* "ceremony", then "committee", "signers" or "treasury", or "failed"
  honest,     \* dealers without a fault
  group,      \* DkgResult
  handles,    \* per member: its NonceHandles [nonces, commitment, consumed]
  requests,   \* what the coordinator asked for: [msg, list], list: signer -> handle
  released,   \* signature shares sent: [id, handle, request, z]
  counters,   \* durable: per member, the high-water of its self indices
  inHand,     \* self-mint candidates not yet on the chain: [member, j]
  version,    \* of the pool's compliance key
  chain,      \* notes of the group on the chain, in order
  scanner     \* the MultisigScanner the treasury keeps running

signing == <<handles, requests, released>>
treasury == <<counters, inHand, version, chain, scanner>>
vars == <<use, honest, group, signing, treasury>>

(***************************************************************************)
(* The ceremony                                                            *)
(***************************************************************************)
Draws == [participants -> Coefficients]

\* A zero share, which no run of the real ceremony meets, is left out.
UsableGroup(g) == g.error = "none" => \A i \in participants : g.shares[i] # 0

Start(g, next) ==
  /\ UsableGroup(g)
  /\ use' = IF g.error = "none" THEN next ELSE "failed"
  /\ group' = g

Part(draw, x) == [i \in participants |-> draw[i][x]]

\* The compliance key, by either ceremony, some dealers at fault.
formCommittee ==
  /\ use = "ceremony"
  /\ \E draw \in Draws, bad \in SUBSET participants :
       \/ /\ honest' = participants \ bad
          /\ Start(runGjkrDkg(Part(draw, "a"), Part(draw, "b"), bad), "committee")
       \/ \E badPop \in SUBSET participants :
            /\ honest' = participants \ (bad \union badPop)
            /\ Start(runDkg(Part(draw, "a"), bad, badPop), "committee")
  /\ UNCHANGED <<signing, treasury>>

\* A group account; its view key is the creator's to derive.
frostAccountDkg ==
  /\ use = "ceremony"
  /\ \E draw \in AccountDraws, next \in {"signers", "treasury"} :
       Start(runDkg(Part(draw, "a"), {}, {}), next)
  /\ UNCHANGED <<honest, signing, treasury>>

(***************************************************************************)
(* Signing                                                                 *)
(***************************************************************************)
Public(i, h) == handles[i][h].commitment
Listed(list) == [i \in DOMAIN list |-> Public(i, list[i])]

\* Round 1: the randomness is fresh in every call.
commitRound(i) ==
  /\ use = "signers" /\ SumFunction([k \in participants |-> Len(handles[k])]) < MaxHandles
  /\ LET made == commit(i, group.shares[i], 2 * Len(handles[i])) IN
     handles' = [handles EXCEPT ![i] = Append(@, [nonces |-> made.nonces, consumed |-> FALSE,
                                                  commitment |-> made.commitment])]
  /\ UNCHANGED <<use, honest, group, requests, released, treasury>>

\* The coordinator makes up its list from commitments it has, old ones too.
ask ==
  /\ use = "signers" /\ Len(requests) < MaxRequests
  /\ \E signers \in (SUBSET participants) \ {{}}, msg \in Messages :
       /\ \A i \in signers : handles[i] # << >>
       /\ \E list \in [signers -> UNION {DOMAIN handles[i] : i \in signers}] :
            /\ \A i \in signers : list[i] \in DOMAIN handles[i]
            /\ requests' = Append(requests, [msg |-> msg, list |-> list])
  /\ UNCHANGED <<use, honest, group, handles, released, treasury>>

\* Slip: the unguarded path.
markConsumed_never(handle) == [handle EXCEPT !.consumed = FALSE]

\* A handle is consumed before anything is computed with it.
markConsumed(handle) == [handle EXCEPT !.consumed = TRUE]

\* Round 2.  A request may reach a member any number of times.
signShare(i, r) ==
  /\ use = "signers" /\ r \in DOMAIN requests /\ i \in DOMAIN requests[r].list
  /\ LET h == requests[r].list[i]
         z == signShareUnchecked(i, handles[i][h].nonces, group.shares[i], group.C,
                                 requests[r].msg, Listed(requests[r].list)) IN
     /\ ~handles[i][h].consumed
     /\ handles' = [handles EXCEPT ![i][h] = markConsumed(@)]
     /\ released' = released \union
          {[id |-> i, handle |-> h, request |-> r, z |-> IF i \in Cheaters THEN modSub(z + 1) ELSE z]}
  /\ UNCHANGED <<use, honest, group, requests, treasury>>

\* Asked with a list it is not on, a member loses the handle for nothing.
signShareUnlisted(i, r) ==
  /\ use = "signers" /\ r \in DOMAIN requests /\ i \notin DOMAIN requests[r].list
  /\ \E h \in DOMAIN handles[i] :
       /\ ~handles[i][h].consumed
       /\ handles' = [handles EXCEPT ![i][h] = markConsumed(@)]
  /\ UNCHANGED <<use, honest, group, requests, released, treasury>>

(***************************************************************************)
(* The treasury: minting                                                   *)
(***************************************************************************)
isEvenY(member, j) == <<member, j>> \notin OddY

\* The shared view secret, the member and the index make the ephemeral.
deriveSelfEph(member, j) == <<member, j>>

\* Slip: the index is written back when the note is sent.
reserved_late(member, j) == counters

\* The high-water passes an index before the index is handed out.
reserved(member, j) == [counters EXCEPT ![member] = j + 1]

\* Reserves one index after the other; those of odd y stay burned.
multisigDepositEph(member) ==
  /\ use = "treasury" /\ Len(chain) + Cardinality(inHand) < MaxNotes
  /\ LET open == {j \in counters[member] .. MaxJ : isEvenY(member, j)} IN
     /\ open # {}
     /\ counters' = reserved(member, Min(open))
     /\ inHand' = inHand \union {[member |-> member, j |-> Min(open), nth |-> Cardinality(inHand)]}
  /\ UNCHANGED <<use, honest, group, signing, version, chain, scanner>>

\* The process dies, or gives the candidate up.
forget(c) ==
  /\ use = "treasury" /\ c \in inHand
  /\ inHand' = inHand \ {c}
  /\ UNCHANGED <<use, honest, group, signing, counters, version, chain, scanner>>

(***************************************************************************)
(* The treasury: MultisigScanner                                           *)
(***************************************************************************)
Higher(a, b) == IF a > b THEN a ELSE b

\* The address of index i is the first of even y from i on.
multisigIncomingKeyAt(i) == Min({k \in i .. i + Cardinality(OddAddress) : k \notin OddAddress})

\* Both counted in raw indices.
create(ring) ==
  [ring |-> ring,
   selfTags |-> {deriveSelfEph(mj[1], mj[2]) : mj \in
                   {mj \in Members \X (0 .. SelfWindow - 1) : isEvenY(mj[1], mj[2])}},
   selfScanJ |-> [m \in Members |-> SelfWindow],
   highestMatchedSelf |-> [m \in Members |-> -1],
   incomingTags |-> (0 .. IncomingWindow - 1) \ OddAddress,
   incomingScanIndex |-> IncomingWindow,
   highestMatchedIncoming |-> -1,
   unopenable |-> 0,
   found |-> {}]

ensureSelfLookahead(s) ==
  LET target(m) == s.highestMatchedSelf[m] + 1 + SelfWindow
      new == UNION {{<<m, j>> : j \in {j \in s.selfScanJ[m] .. target(m) - 1 : isEvenY(m, j)}}
                    : m \in Members} IN
  [s EXCEPT !.selfTags = @ \union {deriveSelfEph(mj[1], mj[2]) : mj \in new},
            !.selfScanJ = [m \in Members |-> Higher(@[m], target(m))]]

\* The roll may end past the target; the scan goes on behind it.
ensureIncomingLookahead(s) ==
  LET target == s.highestMatchedIncoming + 1 + IncomingWindow
      new == {multisigIncomingKeyAt(i) : i \in s.incomingScanIndex .. target - 1} IN
  [s EXCEPT !.incomingTags = @ \union new,
            !.incomingScanIndex = Max({@} \union {i + 1 : i \in new})]

\* The leaf rebuilt from what was decrypted is the one on the chain, and the note
\* is of the group's type and owner.  A self note opens with the compliance key
\* it was minted under.
recover(ring, note) ==
  CASE note.type = "NEW_MEMO" -> note.toGroup
    [] note.type = "NEW_NOTE" -> note.version \in 1 .. ring

\* A payment is opened with the address's own key and needs no compliance key.
readIncoming(s, note) ==
  IF note.index \notin s.incomingTags THEN s
  ELSE [s EXCEPT !.highestMatchedIncoming = Higher(@, note.index),
                 !.found = IF recover(s.ring, note) THEN @ \union {note} ELSE @]

\* The tag says the note is the group's; a compliance key of the ring has to
\* open it.
readSelf(s, note) ==
  IF note.tag \notin s.selfTags THEN s
  ELSE LET matched == [s EXCEPT !.highestMatchedSelf[note.tag[1]] = Higher(@, note.tag[2])] IN
       IF recover(s.ring, note) THEN [matched EXCEPT !.found = @ \union {note}]
       ELSE [matched EXCEPT !.unopenable = @ + 1]

readNote(s, note) ==
  CASE note.type = "NEW_MEMO" -> readIncoming(s, note)
    [] note.type = "NEW_NOTE" -> readSelf(s, note)

\* The chain is read and the lookahead widened, in turns.
pass(s) == ensureIncomingLookahead(ensureSelfLookahead(FoldLeft(readNote, s, chain)))

\* The note is read by the wallet's own scanner before it is sent; one it
\* cannot open is not sent.
assertSelfNoteDiscoverable(s, note) == note \in readNote(s, note).found

selfNote(c) == [type |-> "NEW_NOTE", tag |-> deriveSelfEph(c.member, c.j), version |-> version,
                leaf |-> Len(chain)]

\* Built with the pool's key, checked, sent.
mint(c) ==
  /\ use = "treasury" /\ c \in inHand
  /\ inHand' = inHand \ {c}
  /\ LET read == readNote(scanner, selfNote(c)) IN
     /\ scanner' = [read EXCEPT !.found = scanner.found]
     /\ chain' = IF assertSelfNoteDiscoverable(scanner, selfNote(c)) THEN Append(chain, selfNote(c)) ELSE chain
  /\ UNCHANGED <<use, honest, group, signing, counters, version>>

\* Somebody pays an address of the group, perhaps with a note of another type.
buildIncomingMultisigNote ==
  /\ use = "treasury" /\ Len(chain) + Cardinality(inHand) < MaxNotes
  /\ \E i \in 0 .. MaxJ, toGroup \in BOOLEAN :
       chain' = Append(chain, [type |-> "NEW_MEMO", index |-> multisigIncomingKeyAt(i),
                               toGroup |-> toGroup, leaf |-> Len(chain)])
  /\ UNCHANGED <<use, honest, group, signing, counters, inHand, version, scanner>>

\* The application feeds the scanner and widens its lookahead.
scan ==
  /\ use = "treasury"
  /\ scanner' = pass(scanner)
  /\ scanner'.unopenable <= MaxUnopenable
  /\ UNCHANGED <<use, honest, group, signing, counters, inHand, version, chain>>

\* The application restarts with the ring it can read by then.
rescan ==
  /\ use = "treasury"
  /\ scanner' = create(version) /\ inHand' = {}
  /\ UNCHANGED <<use, honest, group, signing, counters, version, chain>>

rotateComplianceKey ==
  /\ use = "treasury" /\ version < MaxVersion
  /\ version' = version + 1
  /\ UNCHANGED <<use, honest, group, signing, counters, inHand, chain, scanner>>

Init ==
  /\ use = "ceremony" /\ honest = participants /\ group = Failed("none yet")
  /\ handles = [i \in participants |-> << >>] /\ requests = << >> /\ released = {}
  /\ counters = [m \in Members |-> 0] /\ inHand = {} /\ version = 1 /\ chain = << >>
  /\ scanner = create(1)

Next ==
  \/ formCommittee \/ frostAccountDkg
  \/ ask
  \/ \E i \in participants : \/ commitRound(i)
                             \/ \E r \in DOMAIN requests : signShare(i, r) \/ signShareUnlisted(i, r)
  \/ \E m \in Members : multisigDepositEph(m)
  \/ \E c \in inHand : forget(c) \/ mint(c)
  \/ buildIncomingMultisigNote \/ scan \/ rescan \/ rotateComplianceKey

Spec == Init /\ [][Next]_vars

(***************************************************************************)
(* Properties                                                              *)
(***************************************************************************)
\* The ceremony fails only when no dealer is honest, keeps out exactly those
\* who are not, and the committee then opens what was encrypted to C, as long as
\* T of its members answer well: whatever else comes - wrong, foreign, repeated -
\* and in whatever order.  With fewer it opens nothing.
CommitteeOpens ==
  /\ use = "failed" => honest = {}
  /\ use = "committee" =>
       LET eph == 2
           ephPub == scalarBaseMul(eph)
           answer == [i \in participants |-> partialDecrypt(i, group.shares[i], ephPub, i)]
           poisoned == [answer[1] EXCEPT !.proof.D = pointAdd(@, ephPub)]
           offSubgroup == [answer[2] EXCEPT !.proof.D = OffSubgroupPoint]
           foreign == [answer[1] EXCEPT !.id = N + 1]
           arrive == {answer[i] : i \in participants} \union {poisoned, offSubgroup, foreign} IN
       /\ ToSet(group.qual) = honest
       /\ \A partials \in BoundedSeq(arrive, N) :
            LET well == {i \in participants : answer[i] \in ToSet(partials)}
                opened == thresholdCekRobust(ephPub, partials, group.V) IN
            /\ opened.error <=> Cardinality(well) < T
            /\ ~opened.error => /\ opened.cek = scalarMul(eph, group.C)[1]
                                /\ opened.used \subseteq well
                                /\ combine(ephPub, partials, group.V).S = scalarMul(eph, group.C)

\* No member sends two signature shares made with the same nonces, which
\* together would give its secret share away, however often it is asked.
NonceOnce ==
  \A p, q \in released : p.id = q.id /\ p.handle = q.handle => p = q

\* Whatever shares of a request a coordinator aggregates: if every listed signer's
\* is among them the result is a signature of the group, and a failure blames
\* nobody but a cheater.
AggregateSound ==
  \A r \in DOMAIN requests :
    LET list == Listed(requests[r].list)
        sent == {p \in released : p.request = r} IN
    \A partials \in BoundedSeq(sent, N) :
      LET result == coordinatorAggregate(group.C, requests[r].msg, list, partials, group.V) IN
      /\ result.blamed \subseteq Cheaters
      /\ result.error = "none" /\ {p.id : p \in ToSet(partials)} = DOMAIN list =>
           verify(group.C, requests[r].msg, result.signature)

Gap(js, window) == \A j \in js : \E k \in js \union {-1} : k < j /\ j - k <= window

SelfNotes == {n \in ToSet(chain) : n.type = "NEW_NOTE"}

\* Every note the group minted to itself carries a tag of its own: a candidate
\* that is given up, or dies with its process, leaves its index burned.
TagsOnce == \A n, m \in SelfNotes : n.tag = m.tag => n = m

\* From the view secret alone, by reading the chain and widening the lookahead
\* in turns, the group finds every note it ever got, each under a tag of its own;
\* a ring that lacks a version finds less and says so.  Provided no more than a
\* window of indices was burned or left unused in a row.
RecoveryFindsNotes ==
  LET self == SelfNotes
      memos == {n \in ToSet(chain) : n.type = "NEW_MEMO"}
      recovered(ring) == FoldLeft(LAMBDA s, k : pass(s), create(ring), [k \in 1 .. Len(chain) + 1 |-> k]) IN
  /\ TagsOnce
  /\ (/\ \A m \in Members : Gap({n.tag[2] : n \in {n \in self : n.tag[1] = m}}, SelfWindow)
      /\ Gap({n.index : n \in memos}, IncomingWindow)) =>
       \A ring \in 1 .. version :
         LET s == recovered(ring) IN
         /\ s.found = {n \in self : n.version <= ring} \union {n \in memos : n.toGroup}
         /\ s.unopenable > 0 <=> \E n \in self : n.version > ring

=============================================================================
