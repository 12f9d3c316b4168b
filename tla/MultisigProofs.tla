--------------------------- MODULE MultisigProofs ---------------------------
(***************************************************************************)
(* Whatever a group is asked to sign and however often, no member uses a   *)
(* nonce twice; whatever candidates are forgotten, sent or found, no two   *)
(* notes to the group carry the same tag; and what was burned or left      *)
(* unused within the windows does not keep the group from finding all its  *)
(* notes again.  For every group, threshold, field, set of messages, bound *)
(* and lookahead.                                                          *)
(***************************************************************************)
EXTENDS Multisig, DataProofs

-----------------------------------------------------------------------------
(***************************************************************************)
(* Signing.                                                                *)
(***************************************************************************)

\* Handles are only ever added, and lists name handles their signers made.
HandlesKept ==
    /\ DOMAIN handles = participants
    /\ \A i \in participants :
         /\ IsSequence(handles[i])
         /\ \A h \in DOMAIN handles[i] : "consumed" \in DOMAIN handles[i][h]

ListsName ==
    /\ IsSequence(requests)
    /\ \A r \in DOMAIN requests : \A i \in DOMAIN requests[r].list :
         i \in participants /\ requests[r].list[i] \in DOMAIN handles[i]

\* What was sent was computed with a handle that is consumed since, and is the
\* answer to a request whose list has that handle.
SentIsConsumed ==
    \A p \in released :
      /\ p.id \in participants /\ p.handle \in DOMAIN handles[p.id]
      /\ handles[p.id][p.handle].consumed
      /\ p.request \in DOMAIN requests /\ p.id \in DOMAIN requests[p.request].list
      /\ requests[p.request].list[p.id] = p.handle

SigningInv == HandlesKept /\ ListsName /\ SentIsConsumed /\ NonceOnce

\* It holds at the start.
LEMMA SigningInit == ASSUME Init PROVE SigningInv
<1>1. /\ handles = [i \in participants |-> << >>] /\ requests = << >> /\ released = {}
  BY DEF Init
<1>a. DOMAIN << >> = {}
  OBVIOUS
<1>2. HandlesKept
  BY <1>1, <1>a, EmptySequence DEF HandlesKept
<1>3. ListsName
  BY <1>1, <1>a, EmptySequence DEF ListsName
<1> QED BY <1>1, <1>2, <1>3 DEF SigningInv, SentIsConsumed, NonceOnce

\* A new handle disturbs nothing.
LEMMA CommitKeeps ==
    ASSUME SigningInv, NEW i \in participants, commitRound(i)
    PROVE  SigningInv'
<1> DEFINE made == commit(i, group.shares[i], 2 * Len(handles[i]))
           handle == [nonces |-> made.nonces, consumed |-> FALSE, commitment |-> made.commitment]
<1>1. /\ handles' = [handles EXCEPT ![i] = Append(handles[i], handle)]
      /\ UNCHANGED <<requests, released>> /\ "consumed" \in DOMAIN handle
  BY DEF commitRound
<1> HIDE DEF handle
<1>2. /\ IsSequence(Append(handles[i], handle))
      /\ Len(handles[i]) \in Nat /\ DOMAIN handles[i] = 1 .. Len(handles[i])
      /\ DOMAIN Append(handles[i], handle) = 1 .. Len(handles[i]) + 1
      /\ \A k \in DOMAIN handles[i] : Append(handles[i], handle)[k] = handles[i][k]
      /\ Append(handles[i], handle)[Len(handles[i]) + 1] = handle
  <2>1. IsSequence(handles[i])
    BY DEF SigningInv, HandlesKept
  <2> QED BY <2>1, Appended
<1>3. /\ DOMAIN handles' = participants
      /\ \A k \in participants : k # i => handles'[k] = handles[k]
      /\ handles'[i] = Append(handles[i], handle)
  BY <1>1 DEF SigningInv, HandlesKept
<1>4. \A k \in participants : \A h \in DOMAIN handles[k] :
         h \in DOMAIN handles'[k] /\ handles'[k][h] = handles[k][h]
  BY <1>2, <1>3
<1>5. HandlesKept'
  <2>1. \A h \in DOMAIN handles'[i] : "consumed" \in DOMAIN handles'[i][h]
    <3> SUFFICES ASSUME NEW h \in 1 .. Len(handles[i]) + 1
                 PROVE  "consumed" \in DOMAIN handles'[i][h]
      BY <1>2, <1>3
    <3>1. CASE h \in DOMAIN handles[i]
      BY <1>4, <3>1 DEF SigningInv, HandlesKept
    <3>2. CASE h = Len(handles[i]) + 1
      BY <1>1, <1>2, <1>3, <3>2
    <3> QED BY <1>2, <3>1, <3>2
  <2> QED BY <1>2, <1>3, <2>1 DEF SigningInv, HandlesKept
<1> QED BY <1>1, <1>4, <1>5 DEF SigningInv, ListsName, SentIsConsumed, NonceOnce

\* A new request disturbs nothing.
LEMMA AskKeeps == ASSUME SigningInv, ask PROVE SigningInv'
<1>1. PICK signers \in SUBSET participants, msg \in Messages :
        \E list \in [signers -> UNION {DOMAIN handles[i] : i \in signers}] :
          /\ \A i \in signers : list[i] \in DOMAIN handles[i]
          /\ requests' = Append(requests, [msg |-> msg, list |-> list])
  BY DEF ask
<1>a. PICK list \in [signers -> UNION {DOMAIN handles[i] : i \in signers}] :
        /\ \A i \in signers : list[i] \in DOMAIN handles[i]
        /\ requests' = Append(requests, [msg |-> msg, list |-> list])
  BY <1>1
<1> DEFINE request == [msg |-> msg, list |-> list]
<1>2. /\ IsSequence(requests') /\ DOMAIN requests = 1 .. Len(requests) /\ Len(requests) \in Nat
      /\ DOMAIN requests' = 1 .. Len(requests) + 1
      /\ \A k \in DOMAIN requests : requests'[k] = requests[k]
      /\ requests'[Len(requests) + 1] = request
  <2> HIDE DEF request
  <2>1. IsSequence(requests) /\ requests' = Append(requests, request)
    BY <1>a DEF SigningInv, ListsName, request
  <2> QED BY <2>1, Appended
<1>3. UNCHANGED <<handles, released>>
  BY DEF ask
<1>4. ListsName'
  <2> SUFFICES ASSUME NEW r \in DOMAIN requests', NEW i \in DOMAIN requests'[r].list
               PROVE  i \in participants /\ requests'[r].list[i] \in DOMAIN handles[i]
    BY <1>2, <1>3 DEF ListsName
  <2>1. CASE r \in DOMAIN requests
    BY <1>2, <2>1 DEF SigningInv, ListsName
  <2>2. CASE r = Len(requests) + 1
    BY <1>a, <1>2, <2>2
  <2> QED BY <1>2, <2>1, <2>2
<1> QED BY <1>2, <1>3, <1>4 DEF SigningInv, HandlesKept, SentIsConsumed, NonceOnce

\* Consuming a handle changes nothing else.
LEMMA Consuming ==
    ASSUME SigningInv, NEW i \in participants, NEW h \in DOMAIN handles[i],
           handles' = [handles EXCEPT ![i][h] = markConsumed(@)]
    PROVE  /\ HandlesKept'
           /\ handles'[i][h].consumed
           /\ \A k \in participants :
                /\ DOMAIN handles'[k] = DOMAIN handles[k]
                /\ \A g \in DOMAIN handles[k] : handles[k][g].consumed => handles'[k][g].consumed
<1> DEFINE e == markConsumed(handles[i][h])
<1>1. "consumed" \in DOMAIN e /\ e.consumed
  BY DEF SigningInv, HandlesKept, markConsumed
<1>2. IsSequence(handles[i])
  BY DEF SigningInv, HandlesKept
<1>3. handles' = [handles EXCEPT ![i] = [handles[i] EXCEPT ![h] = e]]
  OBVIOUS
<1> HIDE DEF e
<1>4. /\ IsSequence([handles[i] EXCEPT ![h] = e])
      /\ DOMAIN [handles[i] EXCEPT ![h] = e] = DOMAIN handles[i]
      /\ [handles[i] EXCEPT ![h] = e][h] = e
      /\ \A k \in DOMAIN handles[i] : k # h => [handles[i] EXCEPT ![h] = e][k] = handles[i][k]
  BY <1>2, Replaced
<1>5. /\ DOMAIN handles' = participants
      /\ \A k \in participants : k # i => handles'[k] = handles[k]
      /\ handles'[i] = [handles[i] EXCEPT ![h] = e]
  BY <1>3 DEF SigningInv, HandlesKept
<1>6. HandlesKept'
  BY <1>1, <1>4, <1>5 DEF SigningInv, HandlesKept
<1> QED BY <1>1, <1>4, <1>5, <1>6

\* Signing takes a handle nothing was sent for.
LEMMA SignKeeps ==
    ASSUME SigningInv, NEW i \in participants, NEW r \in DOMAIN requests, signShare(i, r)
    PROVE  SigningInv'
<1> DEFINE h == requests[r].list[i]
<1>1. /\ i \in DOMAIN requests[r].list /\ ~ handles[i][h].consumed
      /\ handles' = [handles EXCEPT ![i][h] = markConsumed(@)]
      /\ UNCHANGED requests
  BY DEF signShare
<1>2. PICK z : released' = released \cup {[id |-> i, handle |-> h, request |-> r, z |-> z]}
  BY DEF signShare
<1>3. h \in DOMAIN handles[i]
  BY <1>1 DEF SigningInv, ListsName
<1>4. /\ HandlesKept'
      /\ handles'[i][h].consumed
      /\ \A k \in participants :
           /\ DOMAIN handles'[k] = DOMAIN handles[k]
           /\ \A g \in DOMAIN handles[k] : handles[k][g].consumed => handles'[k][g].consumed
  BY <1>1, <1>3, Consuming
<1>5. ListsName'
  BY <1>1, <1>4 DEF SigningInv, ListsName
<1>6. SentIsConsumed'
  BY <1>1, <1>2, <1>3, <1>4 DEF SigningInv, SentIsConsumed
<1>7. \A p \in released : ~ (p.id = i /\ p.handle = h)
  BY <1>1 DEF SigningInv, SentIsConsumed
<1>8. NonceOnce'
  BY <1>2, <1>7 DEF SigningInv, NonceOnce
<1> QED BY <1>4, <1>5, <1>6, <1>8 DEF SigningInv

\* Neither does a member that is not on the list send anything.
LEMMA UnlistedKeeps ==
    ASSUME SigningInv, NEW i \in participants, NEW r \in DOMAIN requests, signShareUnlisted(i, r)
    PROVE  SigningInv'
<1>1. PICK h \in DOMAIN handles[i] : handles' = [handles EXCEPT ![i][h] = markConsumed(@)]
  BY DEF signShareUnlisted
<1>2. UNCHANGED <<requests, released>>
  BY DEF signShareUnlisted
<1>3. /\ HandlesKept'
      /\ \A k \in participants :
           /\ DOMAIN handles'[k] = DOMAIN handles[k]
           /\ \A g \in DOMAIN handles[k] : handles[k][g].consumed => handles'[k][g].consumed
  BY <1>1, Consuming
<1> QED BY <1>2, <1>3 DEF SigningInv, ListsName, SentIsConsumed, NonceOnce

\* The ceremony and the treasury leave the signers alone.
LEMMA SigningElsewhere ==
    ASSUME SigningInv, UNCHANGED signing
    PROVE  SigningInv'
BY DEF signing, SigningInv, HandlesKept, ListsName, SentIsConsumed, NonceOnce

\* Every step keeps it.
LEMMA SigningStep == ASSUME SigningInv, [Next]_vars PROVE SigningInv'
<1>1. CASE \E i \in participants : commitRound(i)
  BY <1>1, CommitKeeps
<1>2. CASE ask
  BY <1>2, AskKeeps
<1>3. CASE \E i \in participants : \E r \in DOMAIN requests : signShare(i, r)
  BY <1>3, SignKeeps
<1>4. CASE \E i \in participants : \E r \in DOMAIN requests : signShareUnlisted(i, r)
  BY <1>4, UnlistedKeeps
<1>5. CASE UNCHANGED signing
  BY <1>5, SigningElsewhere
<1>6. CASE formCommittee \/ frostAccountDkg
  BY <1>6, <1>5 DEF formCommittee, frostAccountDkg
<1>7. CASE \E m \in Members : multisigDepositEph(m)
  BY <1>7, <1>5 DEF multisigDepositEph
<1>8. CASE \E c \in inHand : forget(c) \/ mint(c)
  BY <1>8, <1>5 DEF forget, mint
<1>9. CASE buildIncomingMultisigNote \/ scan \/ rescan \/ rotateComplianceKey
  BY <1>9, <1>5 DEF buildIncomingMultisigNote, scan, rescan, rotateComplianceKey
<1>10. CASE UNCHANGED vars
  BY <1>10, <1>5 DEF vars
<1> QED BY <1>1, <1>2, <1>3, <1>4, <1>6, <1>7, <1>8, <1>9, <1>10 DEF Next

\* No member sends two signature shares made with the same nonces, however often
\* signShare is called and with whatever lists (frost.ts, NonceHandle).
THEOREM MultisigNonceOnce == Spec => []NonceOnce
<1>1. SigningInv => NonceOnce
  BY DEF SigningInv
<1>2. Init => SigningInv
  BY SigningInit
<1>3. SigningInv /\ [Next]_vars => SigningInv'
  BY SigningStep
<1> QED BY <1>1, <1>2, <1>3, PTL DEF Spec

-----------------------------------------------------------------------------
(***************************************************************************)
(* Minting.                                                                *)
(***************************************************************************)

\* Candidates are below the high-water of their member's indices, one of each.
Reserved ==
    /\ counters \in [Members -> Nat]
    /\ \A c \in inHand : c.member \in Members /\ c.j \in Nat /\ c.j < counters[c.member]
    /\ \A c, d \in inHand : c.member = d.member /\ c.j = d.j => c = d

\* So are the self notes on the chain, which no candidate repeats.
Spent ==
    /\ IsSequence(chain)
    /\ \A k \in DOMAIN chain : chain[k].type = "NEW_NOTE" =>
         \E m \in Members, j \in Nat :
           /\ chain[k].tag = <<m, j>> /\ j < counters[m]
           /\ \A c \in inHand : ~ (c.member = m /\ c.j = j)
    /\ \A k, l \in DOMAIN chain :
         chain[k].type = "NEW_NOTE" /\ chain[l].type = "NEW_NOTE" /\ chain[k].tag = chain[l].tag
           => k = l

TreasuryInv == Reserved /\ Spent

\* Nothing is in hand at the start.
LEMMA TreasuryInit == ASSUME Init PROVE TreasuryInv
<1>1. counters = [m \in Members |-> 0] /\ inHand = {} /\ chain = << >>
  BY DEF Init
<1>2. DOMAIN << >> = {}
  OBVIOUS
<1>3. Spent
  BY <1>1, <1>2, EmptySequence DEF Spent
<1> QED BY <1>1, <1>3 DEF TreasuryInv, Reserved

\* The index reserved for a candidate was never anybody's.
LEMMA ReserveKeeps ==
    ASSUME TreasuryInv, NEW member \in Members, multisigDepositEph(member)
    PROVE  TreasuryInv'
<1> DEFINE open == {j \in counters[member] .. MaxJ : isEvenY(member, j)}
           n == Cardinality(inHand)
<1>1. /\ open # {} /\ counters' = [counters EXCEPT ![member] = Min(open) + 1]
      /\ inHand' = inHand \cup {[member |-> member, j |-> Min(open), nth |-> n]}
      /\ chain' = chain
  BY DEF multisigDepositEph, reserved
<1>2. counters \in [Members -> Nat] /\ MaxJ \in Nat
  BY MultisigConstants DEF TreasuryInv, Reserved
<1>3. Min(open) \in open
  <2>1. open \subseteq Nat
    BY <1>2
  <2> HIDE DEF open
  <2> QED BY <1>1, <2>1, LeastIsMin
<1>4. PICK top \in Nat : top = Min(open)
  BY <1>2, <1>3
<1>5. top >= counters[member]
  BY <1>2, <1>3, <1>4
<1> HIDE DEF open, n
<1>6. /\ counters' \in [Members -> Nat] /\ counters'[member] = top + 1
      /\ \A m \in Members : counters'[m] >= counters[m]
  BY <1>1, <1>2, <1>4, <1>5
<1>7. Reserved'
  BY <1>1, <1>2, <1>4, <1>5, <1>6 DEF TreasuryInv, Reserved
<1>8. Spent'
  <2>1. \A m \in Members, j \in Nat : j < counters[m] =>
           j < counters'[m] /\ ~ (member = m /\ top = j)
    BY <1>2, <1>5, <1>6
  <2>2. ASSUME NEW k \in DOMAIN chain, chain[k].type = "NEW_NOTE"
        PROVE  \E m \in Members, j \in Nat :
                 /\ chain[k].tag = <<m, j>> /\ j < counters'[m]
                 /\ \A c \in inHand' : ~ (c.member = m /\ c.j = j)
    <3>1. PICK m \in Members, j \in Nat :
            /\ chain[k].tag = <<m, j>> /\ j < counters[m]
            /\ \A c \in inHand : ~ (c.member = m /\ c.j = j)
      BY <2>2 DEF TreasuryInv, Spent
    <3> QED BY <1>1, <1>4, <2>1, <3>1
  <2> QED BY <1>1, <2>2 DEF TreasuryInv, Spent
<1> QED BY <1>7, <1>8 DEF TreasuryInv

\* Giving a candidate up leaves the notes alone.
LEMMA ForgetKeeps ==
    ASSUME TreasuryInv, inHand' \subseteq inHand, UNCHANGED <<counters, chain>>
    PROVE  TreasuryInv'
BY DEF TreasuryInv, Reserved, Spent

\* A candidate that is sent is no longer in hand.
LEMMA MintKeeps ==
    ASSUME TreasuryInv, NEW c \in inHand, mint(c)
    PROVE  TreasuryInv'
<1> DEFINE note == selfNote(c)
<1>1. /\ inHand' = inHand \ {c} /\ UNCHANGED counters
      /\ chain' = chain \/ chain' = Append(chain, note)
  BY DEF mint
<1>2. CASE chain' = chain
  BY <1>1, <1>2, ForgetKeeps
<1>3. CASE chain' = Append(chain, note)
  <2>1. note.type = "NEW_NOTE" /\ note.tag = <<c.member, c.j>>
    BY DEF selfNote, deriveSelfEph
  <2> HIDE DEF note
  <2>2. /\ IsSequence(chain') /\ Len(chain) \in Nat /\ DOMAIN chain = 1 .. Len(chain)
        /\ DOMAIN chain' = 1 .. Len(chain) + 1
        /\ \A k \in DOMAIN chain : chain'[k] = chain[k]
        /\ chain'[Len(chain) + 1] = note
    <3>1. IsSequence(chain)
      BY DEF TreasuryInv, Spent
    <3> QED BY <1>3, <3>1, Appended
  <2>3. /\ c.member \in Members /\ c.j \in Nat /\ c.j < counters[c.member]
        /\ \A d \in inHand' : ~ (d.member = c.member /\ d.j = c.j)
    BY <1>1 DEF TreasuryInv, Reserved
  <2>4. \A k \in DOMAIN chain' : chain'[k].type = "NEW_NOTE" =>
          \E m \in Members, j \in Nat :
            /\ chain'[k].tag = <<m, j>> /\ j < counters'[m]
            /\ \A d \in inHand' : ~ (d.member = m /\ d.j = j)
    <3> SUFFICES ASSUME NEW k \in 1 .. Len(chain) + 1, chain'[k].type = "NEW_NOTE"
                 PROVE  \E m \in Members, j \in Nat :
                          /\ chain'[k].tag = <<m, j>> /\ j < counters'[m]
                          /\ \A d \in inHand' : ~ (d.member = m /\ d.j = j)
      BY <2>2
    <3>1. CASE k \in DOMAIN chain
      BY <1>1, <2>2, <3>1 DEF TreasuryInv, Spent
    <3>2. CASE k = Len(chain) + 1
      BY <1>1, <2>1, <2>2, <2>3, <3>2
    <3> QED BY <2>2, <3>1, <3>2
  <2>5. \A k \in DOMAIN chain : chain[k].type = "NEW_NOTE" => chain[k].tag # note.tag
    <3> SUFFICES ASSUME NEW k \in DOMAIN chain, chain[k].type = "NEW_NOTE"
                 PROVE  chain[k].tag # note.tag
      OBVIOUS
    <3>1. PICK m \in Members, j \in Nat :
            /\ chain[k].tag = <<m, j>>
            /\ \A d \in inHand : ~ (d.member = m /\ d.j = j)
      BY DEF TreasuryInv, Spent
    <3> QED BY <2>1, <3>1
  <2>6. \A k \in DOMAIN chain' : k \in DOMAIN chain \/ k = Len(chain) + 1
    BY <2>2
  <2>7. Spent'
    BY <2>2, <2>4, <2>5, <2>6 DEF TreasuryInv, Spent
  <2> QED BY <1>1, <2>7 DEF TreasuryInv, Reserved
<1> QED BY <1>1, <1>2, <1>3

\* A payment has no tag of the group's.
LEMMA PaidKeeps ==
    ASSUME TreasuryInv, buildIncomingMultisigNote
    PROVE  TreasuryInv'
<1>1. UNCHANGED <<counters, inHand>>
  BY DEF buildIncomingMultisigNote
<1>2. PICK i \in 0 .. MaxJ, toGroup \in BOOLEAN :
        chain' = Append(chain, [type |-> "NEW_MEMO", index |-> multisigIncomingKeyAt(i),
                                toGroup |-> toGroup, leaf |-> Len(chain)])
  BY DEF buildIncomingMultisigNote
<1> DEFINE note == [type |-> "NEW_MEMO", index |-> multisigIncomingKeyAt(i),
                    toGroup |-> toGroup, leaf |-> Len(chain)]
<1>3. note.type # "NEW_NOTE" /\ chain' = Append(chain, note)
  BY <1>2
<1> HIDE DEF note
<1>4. /\ IsSequence(chain') /\ Len(chain) \in Nat /\ DOMAIN chain = 1 .. Len(chain)
      /\ DOMAIN chain' = 1 .. Len(chain) + 1
      /\ \A k \in DOMAIN chain : chain'[k] = chain[k]
      /\ chain'[Len(chain) + 1] = note
  <2>1. IsSequence(chain)
    BY DEF TreasuryInv, Spent
  <2> QED BY <1>3, <2>1, Appended
<1>5. \A k \in DOMAIN chain' : chain'[k].type = "NEW_NOTE" =>
        k \in DOMAIN chain /\ chain'[k] = chain[k]
  <2> SUFFICES ASSUME NEW k \in 1 .. Len(chain) + 1, chain'[k].type = "NEW_NOTE"
               PROVE  k \in DOMAIN chain
    BY <1>4
  <2> QED BY <1>3, <1>4
<1>6. Spent'
  BY <1>1, <1>4, <1>5 DEF TreasuryInv, Spent
<1> QED BY <1>1, <1>6 DEF TreasuryInv, Reserved

\* Every step keeps it.
LEMMA TreasuryStep == ASSUME TreasuryInv, [Next]_vars PROVE TreasuryInv'
<1>1. CASE inHand' \subseteq inHand /\ UNCHANGED <<counters, chain>>
  BY <1>1, ForgetKeeps
<1>2. CASE formCommittee \/ frostAccountDkg \/ ask
  BY <1>2, <1>1 DEF formCommittee, frostAccountDkg, ask, treasury
<1>3. CASE \E i \in participants : \/ commitRound(i)
                                   \/ \E r \in DOMAIN requests : signShare(i, r) \/ signShareUnlisted(i, r)
  BY <1>3, <1>1 DEF commitRound, signShare, signShareUnlisted, treasury
<1>4. CASE \E m \in Members : multisigDepositEph(m)
  BY <1>4, ReserveKeeps
<1>5. CASE \E c \in inHand : forget(c)
  BY <1>5, <1>1 DEF forget
<1>6. CASE \E c \in inHand : mint(c)
  BY <1>6, MintKeeps
<1>7. CASE buildIncomingMultisigNote
  BY <1>7, PaidKeeps
<1>8. CASE scan \/ rescan \/ rotateComplianceKey
  BY <1>8, <1>1 DEF scan, rescan, rotateComplianceKey
<1>9. CASE UNCHANGED vars
  BY <1>9, <1>1 DEF vars, treasury
<1> QED BY <1>2, <1>3, <1>4, <1>5, <1>6, <1>7, <1>8, <1>9 DEF Next

\* No two notes the group minted to itself carry the same tag, however many
\* candidates were forgotten, given up or refused, and however often the wallet was
\* restarted without them (multisigDepositEph reserves an index before it hands it
\* out).
THEOREM MultisigTagsOnce == Spec => []TagsOnce
<1>1. TreasuryInv => TagsOnce
  <2> SUFFICES ASSUME TreasuryInv PROVE TagsOnce
    OBVIOUS
  <2>1. \A k, l \in DOMAIN chain :
          chain[k].type = "NEW_NOTE" /\ chain[l].type = "NEW_NOTE" /\ chain[k].tag = chain[l].tag
            => k = l
    BY DEF TreasuryInv, Spent
  <2> QED BY <2>1 DEF TagsOnce, SelfNotes, ToSet
<1>2. Init => TreasuryInv
  BY TreasuryInit
<1>3. TreasuryInv /\ [Next]_vars => TreasuryInv'
  BY TreasuryStep
<1> QED BY <1>1, <1>2, <1>3, PTL DEF Spec

-----------------------------------------------------------------------------
(***************************************************************************)
(* Recovery.  First, what is on the chain.                                 *)
(***************************************************************************)

\* What a scanner is told of a note.
SelfShaped(n, top) ==
    /\ n.type = "NEW_NOTE" /\ n.tag[1] \in Members /\ n.tag[2] \in Nat
    /\ n.tag = <<n.tag[1], n.tag[2]>> /\ isEvenY(n.tag[1], n.tag[2])
    /\ n.version \in 1 .. top

MemoShaped(n) ==
    /\ n.type = "NEW_MEMO" /\ n.index \in Nat \ OddAddress /\ n.toGroup \in BOOLEAN

\* The notes on the chain are of one of these shapes, and the candidates have
\* ephemerals of even y.
NotesShaped ==
    /\ version \in Nat \ {0}
    /\ \A c \in inHand : isEvenY(c.member, c.j)
    /\ \A k \in DOMAIN chain : SelfShaped(chain[k], version) \/ MemoShaped(chain[k])

NotesInv == TreasuryInv /\ NotesShaped

LEMMA NotesInit == ASSUME Init PROVE NotesInv
<1>1. version = 1 /\ inHand = {} /\ chain = << >>
  BY DEF Init
<1>2. DOMAIN << >> = {}
  OBVIOUS
<1> QED BY <1>1, <1>2, TreasuryInit DEF NotesInv, NotesShaped

\* The address an index stands for has a receiving key of even y.
LEMMA KeyAt ==
    ASSUME NEW i \in Nat
    PROVE  LET k == multisigIncomingKeyAt(i) IN
           k \in Nat \ OddAddress /\ k >= i /\ \A x \in i .. k - 1 : x \in OddAddress
<1> DEFINE c == Cardinality(OddAddress)
           I == i .. i + c
           E == {k \in I : k \notin OddAddress}
<1>1. IsFiniteSet(OddAddress) /\ c \in Nat
  BY MultisigConstants, FS_CardinalityType
<1> HIDE DEF c
<1>2. IsFiniteSet(I) /\ Cardinality(I) = c + 1
  <2>1. i \in Int /\ i + c \in Int
    BY <1>1
  <2> QED BY <1>1, <2>1, FS_Interval
<1>3. E # {}
  <2> SUFFICES ASSUME I \subseteq OddAddress PROVE FALSE
    BY <1>1
  <2>1. Cardinality(I) <= Cardinality(OddAddress)
    <3> HIDE DEF I
    <3> QED BY <1>1, FS_Subset
  <2> QED BY <1>1, <1>2, <2>1 DEF c
<1>4. Min(E) \in E /\ \A m \in E : Min(E) <= m
  <2>1. E \subseteq Nat
    BY <1>1
  <2> HIDE DEF E
  <2> QED BY <1>3, <2>1, LeastIsMin
<1>5. multisigIncomingKeyAt(i) = Min(E)
  BY DEF multisigIncomingKeyAt, c
<1>6. \A x \in i .. Min(E) - 1 : x \in OddAddress
  BY <1>1, <1>4
<1>7. Min(E) \in Nat \ OddAddress /\ Min(E) >= i
  BY <1>1, <1>4
<1> QED BY <1>5, <1>6, <1>7

\* What is appended is of a shape.
LEMMA ShapedAppend ==
    ASSUME NotesInv, NEW note, SelfShaped(note, version') \/ MemoShaped(note),
           version' = version, \A c \in inHand' : isEvenY(c.member, c.j), chain' = Append(chain, note)
    PROVE  NotesShaped'
<1>1. IsSequence(chain)
  BY DEF NotesInv, TreasuryInv, Spent
<1>2. \A k \in DOMAIN chain' : chain'[k] = note \/ (k \in DOMAIN chain /\ chain'[k] = chain[k])
  BY <1>1, Appended
<1>3. \A k \in DOMAIN chain' : SelfShaped(chain'[k], version') \/ MemoShaped(chain'[k])
  BY <1>2 DEF NotesInv, NotesShaped
<1> QED BY <1>3 DEF NotesInv, NotesShaped

LEMMA NotesStep == ASSUME NotesInv, [Next]_vars PROVE NotesInv'
<1> SUFFICES NotesShaped'
  BY TreasuryStep DEF NotesInv
<1>2. ASSUME UNCHANGED <<version, chain>>, inHand' \subseteq inHand PROVE NotesShaped'
  BY <1>2 DEF NotesInv, NotesShaped
<1>3. CASE formCommittee \/ frostAccountDkg \/ ask
  BY <1>3, <1>2 DEF formCommittee, frostAccountDkg, ask, treasury
<1>4. CASE \E i \in participants : \/ commitRound(i)
                                   \/ \E r \in DOMAIN requests : signShare(i, r) \/ signShareUnlisted(i, r)
  BY <1>4, <1>2 DEF commitRound, signShare, signShareUnlisted, treasury
<1>5. ASSUME NEW m \in Members, multisigDepositEph(m) PROVE NotesShaped'
  <2> DEFINE open == {j \in counters[m] .. MaxJ : isEvenY(m, j)}
             n == Cardinality(inHand)
  <2>1. /\ open # {} /\ inHand' = inHand \cup {[member |-> m, j |-> Min(open), nth |-> n]}
        /\ UNCHANGED <<version, chain>>
    BY <1>5 DEF multisigDepositEph
  <2>2. Min(open) \in open
    <3>1. open \subseteq Nat
      BY MultisigConstants DEF NotesInv, TreasuryInv, Reserved
    <3> HIDE DEF open
    <3> QED BY <2>1, <3>1, LeastIsMin
  <2>3. isEvenY(m, Min(open))
    BY <2>2
  <2> HIDE DEF open, n
  <2> QED BY <2>1, <2>3 DEF NotesInv, NotesShaped
<1>6. CASE \E c \in inHand : forget(c)
  BY <1>6, <1>2 DEF forget
<1>7. ASSUME NEW c \in inHand, mint(c) PROVE NotesShaped'
  <2>1. /\ inHand' = inHand \ {c} /\ version' = version
        /\ chain' = chain \/ chain' = Append(chain, selfNote(c))
    BY <1>7 DEF mint
  <2>2. CASE chain' = chain
    BY <2>1, <2>2, <1>2
  <2>3. CASE chain' = Append(chain, selfNote(c))
    <3>1. c.member \in Members /\ c.j \in Nat /\ isEvenY(c.member, c.j)
      BY DEF NotesInv, TreasuryInv, Reserved, NotesShaped
    <3>2. SelfShaped(selfNote(c), version')
      BY <2>1, <3>1 DEF SelfShaped, selfNote, deriveSelfEph, NotesInv, NotesShaped
    <3>3. \A d \in inHand' : isEvenY(d.member, d.j)
      BY <2>1 DEF NotesInv, NotesShaped
    <3> QED BY <2>1, <2>3, <3>2, <3>3, ShapedAppend
  <2> QED BY <2>1, <2>2, <2>3
<1>8. CASE buildIncomingMultisigNote
  <2>1. PICK i \in 0 .. MaxJ, toGroup \in BOOLEAN :
          chain' = Append(chain, [type |-> "NEW_MEMO", index |-> multisigIncomingKeyAt(i),
                                  toGroup |-> toGroup, leaf |-> Len(chain)])
    BY <1>8 DEF buildIncomingMultisigNote
  <2> DEFINE note == [type |-> "NEW_MEMO", index |-> multisigIncomingKeyAt(i),
                      toGroup |-> toGroup, leaf |-> Len(chain)]
  <2>2. i \in Nat
    BY MultisigConstants
  <2>3. multisigIncomingKeyAt(i) \in Nat \ OddAddress
    BY <2>2, KeyAt
  <2>4. MemoShaped(note)
    BY <2>3 DEF MemoShaped
  <2>5. UNCHANGED <<inHand, version>>
    BY <1>8 DEF buildIncomingMultisigNote
  <2>6. \A d \in inHand' : isEvenY(d.member, d.j)
    BY <2>5 DEF NotesInv, NotesShaped
  <2>7. chain' = Append(chain, note)
    BY <2>1
  <2> HIDE DEF note
  <2> QED BY <2>4, <2>5, <2>6, <2>7, ShapedAppend
<1>9. CASE scan \/ rescan
  BY <1>9, <1>2 DEF scan, rescan
<1>10. CASE rotateComplianceKey
  <2>1. version' = version + 1 /\ UNCHANGED <<inHand, chain>>
    BY <1>10 DEF rotateComplianceKey
  <2>2. version \in Nat \ {0} /\ version' \in Nat \ {0}
    BY <2>1 DEF NotesInv, NotesShaped
  <2>3. \A n : SelfShaped(n, version) => SelfShaped(n, version')
    BY <2>1, <2>2 DEF SelfShaped
  <2> QED BY <2>1, <2>2, <2>3 DEF NotesInv, NotesShaped
<1>11. CASE UNCHANGED vars
  BY <1>11, <1>2 DEF vars, treasury
<1> QED
  BY <1>3, <1>4, <1>5, <1>6, <1>7, <1>8, <1>9, <1>10, <1>11 DEF Next

(***************************************************************************)
(* What reading does to a scanner.                                         *)
(***************************************************************************)
Notes == ToSet(chain)

Scanner ==
    [ring : Nat, selfTags : SUBSET (Members \X Nat), selfScanJ : [Members -> Nat],
     highestMatchedSelf : [Members -> Int], incomingTags : SUBSET Nat,
     incomingScanIndex : Nat, highestMatchedIncoming : Int, unopenable : Nat,
     found : SUBSET Notes]

\* The scanner knows the tag of n, and opens it.
Matches(s, n) ==
    \/ n.type = "NEW_MEMO" /\ n.index \in s.incomingTags
    \/ n.type = "NEW_NOTE" /\ n.tag \in s.selfTags

Opens(s, n) == Matches(s, n) /\ recover(s.ring, n)
Sealed(s, n) == n.type = "NEW_NOTE" /\ Matches(s, n) /\ ~ recover(s.ring, n)

\* It has been as far as the index of n.
Reached(s, n) ==
    /\ n.type = "NEW_MEMO" => s.highestMatchedIncoming >= n.index
    /\ n.type = "NEW_NOTE" => s.highestMatchedSelf[n.tag[1]] >= n.tag[2]

SameLook(s, r) ==
    /\ r.ring = s.ring
    /\ r.selfTags = s.selfTags /\ r.selfScanJ = s.selfScanJ
    /\ r.incomingTags = s.incomingTags /\ r.incomingScanIndex = s.incomingScanIndex

Further(s, r) ==
    /\ r.highestMatchedIncoming >= s.highestMatchedIncoming
    /\ \A m \in Members : r.highestMatchedSelf[m] >= s.highestMatchedSelf[m]

\* One note.
LEMMA ReadOne ==
    ASSUME NotesInv, NEW s \in Scanner, NEW k \in DOMAIN chain
    PROVE  LET n == chain[k]
               r == readNote(s, n) IN
           /\ r \in Scanner /\ SameLook(s, r) /\ Further(s, r)
           /\ Matches(s, n) => Reached(r, n)
           /\ r.found = s.found \cup {x \in {n} : Opens(s, x)}
           /\ r.unopenable = IF Sealed(s, n) THEN s.unopenable + 1 ELSE s.unopenable
<1> DEFINE n == chain[k]
           r == readNote(s, n)
<1>1. SelfShaped(n, version) \/ MemoShaped(n)
  BY DEF NotesInv, NotesShaped
<1>2. n \in Notes
  BY DEF Notes, ToSet
<1> HIDE DEF n
<1>3. ASSUME MemoShaped(n)
      PROVE  /\ r \in Scanner /\ SameLook(s, r) /\ Further(s, r)
             /\ Matches(s, n) => Reached(r, n)
             /\ r.found = s.found \cup {x \in {n} : Opens(s, x)}
             /\ r.unopenable = IF Sealed(s, n) THEN s.unopenable + 1 ELSE s.unopenable
  <2>1. n.type = "NEW_MEMO" /\ n.type # "NEW_NOTE" /\ n.index \in Nat /\ r = readIncoming(s, n)
    BY <1>3 DEF MemoShaped, readNote
  <2>2. CASE n.index \notin s.incomingTags
    BY <2>1, <2>2 DEF readIncoming, SameLook, Further, Matches, Opens, Sealed, Scanner
  <2>3. CASE n.index \in s.incomingTags
    <3> DEFINE high == Higher(s.highestMatchedIncoming, n.index)
               kept == IF recover(s.ring, n) THEN s.found \cup {n} ELSE s.found
    <3>1. /\ high \in Int /\ high >= s.highestMatchedIncoming /\ high >= n.index
          /\ kept \in SUBSET Notes
          /\ r = [s EXCEPT !.highestMatchedIncoming = high, !.found = kept]
      BY <1>2, <2>1, <2>3 DEF readIncoming, Higher, Scanner
    <3>2. kept = s.found \cup {x \in {n} : Opens(s, x)}
      BY <2>1, <2>3 DEF Opens, Matches
    <3> HIDE DEF high, kept, r
    <3>3. /\ r \in Scanner /\ SameLook(s, r) /\ Further(s, r)
          /\ r.highestMatchedIncoming = high /\ r.found = kept /\ r.unopenable = s.unopenable
      <4>1. s.highestMatchedIncoming \in Int /\ s.highestMatchedSelf \in [Members -> Int]
        BY DEF Scanner
      <4>2. r \in Scanner
        BY <3>1 DEF Scanner
      <4>3. /\ r.ring = s.ring /\ r.selfTags = s.selfTags /\ r.selfScanJ = s.selfScanJ
            /\ r.incomingTags = s.incomingTags /\ r.incomingScanIndex = s.incomingScanIndex
            /\ r.highestMatchedSelf = s.highestMatchedSelf /\ r.unopenable = s.unopenable
            /\ r.highestMatchedIncoming = high /\ r.found = kept
        BY <3>1 DEF Scanner
      <4> QED BY <3>1, <4>1, <4>2, <4>3 DEF SameLook, Further
    <3> QED BY <2>1, <3>1, <3>2, <3>3 DEF Reached, Sealed
  <2> QED BY <2>2, <2>3
<1>4. ASSUME SelfShaped(n, version)
      PROVE  /\ r \in Scanner /\ SameLook(s, r) /\ Further(s, r)
             /\ Matches(s, n) => Reached(r, n)
             /\ r.found = s.found \cup {x \in {n} : Opens(s, x)}
             /\ r.unopenable = IF Sealed(s, n) THEN s.unopenable + 1 ELSE s.unopenable
  <2>1. /\ n.type # "NEW_MEMO" /\ n.type = "NEW_NOTE" /\ n.tag[1] \in Members /\ n.tag[2] \in Nat
        /\ r = readSelf(s, n)
    BY <1>4 DEF SelfShaped, readNote
  <2>2. CASE n.tag \notin s.selfTags
    BY <2>1, <2>2 DEF readSelf, SameLook, Further, Matches, Opens, Sealed, Scanner
  <2>3. CASE n.tag \in s.selfTags
    <3> DEFINE m == n.tag[1]
               high == Higher(s.highestMatchedSelf[m], n.tag[2])
               highs == [s.highestMatchedSelf EXCEPT ![m] = high]
               matched == [s EXCEPT !.highestMatchedSelf = highs]
    <3>1. /\ high \in Int /\ high >= s.highestMatchedSelf[m] /\ high >= n.tag[2]
          /\ highs \in [Members -> Int] /\ highs[m] = high
          /\ \A x \in Members : highs[x] >= s.highestMatchedSelf[x]
      BY <2>1 DEF Higher, Scanner
    <3>2. r = IF recover(s.ring, n) THEN [matched EXCEPT !.found = @ \cup {n}]
              ELSE [matched EXCEPT !.unopenable = @ + 1]
      BY <2>1, <2>3 DEF readSelf, Scanner
    <3> HIDE DEF high, highs, r, m
    <3>3. /\ matched \in Scanner /\ SameLook(s, matched) /\ Further(s, matched)
          /\ matched.highestMatchedSelf = highs /\ matched.found = s.found
          /\ matched.unopenable = s.unopenable /\ s.unopenable \in Nat /\ s.found \in SUBSET Notes
      BY <3>1 DEF Scanner, SameLook, Further
    <3> HIDE DEF matched
    <3>4. CASE recover(s.ring, n)
      <4>1. r = [matched EXCEPT !.found = s.found \cup {n}]
        BY <3>2, <3>3, <3>4
      <4>2. /\ r \in Scanner /\ SameLook(s, r) /\ Further(s, r)
            /\ r.highestMatchedSelf = highs /\ r.found = s.found \cup {n}
            /\ r.unopenable = s.unopenable
        BY <1>2, <3>3, <4>1 DEF Scanner, SameLook, Further
      <4> QED BY <2>1, <2>3, <3>1, <3>4, <4>2 DEF Reached, Sealed, Opens, Matches, m
    <3>5. CASE ~ recover(s.ring, n)
      <4>1. r = [matched EXCEPT !.unopenable = s.unopenable + 1]
        BY <3>2, <3>3, <3>5
      <4>2. /\ r \in Scanner /\ SameLook(s, r) /\ Further(s, r)
            /\ r.highestMatchedSelf = highs /\ r.found = s.found
            /\ r.unopenable = s.unopenable + 1
        BY <3>3, <4>1 DEF Scanner, SameLook, Further
      <4> QED BY <2>1, <2>3, <3>1, <3>5, <4>2 DEF Reached, Sealed, Opens, Matches, m
    <3> QED BY <3>4, <3>5
  <2> QED BY <2>2, <2>3
<1> QED BY <1>1, <1>3, <1>4 DEF n

\* What a scanner that started as s is after the notes at the positions in U.
HasRead(s, r, U) ==
    /\ r \in Scanner /\ SameLook(s, r) /\ Further(s, r)
    /\ \A k \in U : Matches(s, chain[k]) => Reached(r, chain[k])
    /\ r.found = s.found \cup {chain[k] : k \in {k \in U : Opens(s, chain[k])}}
    /\ r.unopenable >= s.unopenable
    /\ r.unopenable = s.unopenable <=> \A k \in U : ~ Sealed(s, chain[k])

\* One more.
LEMMA ReadMore ==
    ASSUME NotesInv, NEW s \in Scanner, NEW r, NEW U \in SUBSET DOMAIN chain, HasRead(s, r, U),
           NEW k \in DOMAIN chain
    PROVE  HasRead(s, readNote(r, chain[k]), U \cup {k})
<1> DEFINE n == chain[k]
           q == readNote(r, n)
<1>1. r \in Scanner /\ SameLook(s, r) /\ Further(s, r)
  BY DEF HasRead
<1>2. /\ q \in Scanner /\ SameLook(r, q) /\ Further(r, q)
      /\ Matches(r, n) => Reached(q, n)
      /\ q.found = r.found \cup {x \in {n} : Opens(r, x)}
      /\ q.unopenable = IF Sealed(r, n) THEN r.unopenable + 1 ELSE r.unopenable
  BY <1>1, ReadOne
<1>3. \A x : /\ Matches(r, x) <=> Matches(s, x)
             /\ Opens(r, x) <=> Opens(s, x)
             /\ Sealed(r, x) <=> Sealed(s, x)
  BY <1>1 DEF SameLook, Matches, Opens, Sealed
<1> HIDE DEF q
<1>4. SameLook(s, q)
  BY <1>1, <1>2 DEF SameLook
<1>5. /\ r.highestMatchedIncoming \in Int /\ q.highestMatchedIncoming \in Int
      /\ s.highestMatchedIncoming \in Int
      /\ \A m \in Members : /\ r.highestMatchedSelf[m] \in Int /\ q.highestMatchedSelf[m] \in Int
                            /\ s.highestMatchedSelf[m] \in Int
  BY <1>1, <1>2 DEF Scanner
<1>6. Further(s, q)
  BY <1>1, <1>2, <1>5 DEF Further
<1>7. \A x \in U \cup {k} : Matches(s, chain[x]) => Reached(q, chain[x])
  <2> SUFFICES ASSUME NEW x \in U, Matches(s, chain[x]) PROVE Reached(q, chain[x])
    BY <1>2, <1>3
  <2>1. Reached(r, chain[x])
    BY DEF HasRead
  <2>2. SelfShaped(chain[x], version) \/ MemoShaped(chain[x])
    BY DEF NotesInv, NotesShaped
  <2>3. CASE SelfShaped(chain[x], version)
    <3>1. chain[x].type = "NEW_NOTE" /\ chain[x].tag[1] \in Members /\ chain[x].tag[2] \in Nat
      BY <2>3 DEF SelfShaped
    <3> QED BY <1>2, <1>5, <2>1, <3>1 DEF Reached, Further
  <2>4. CASE MemoShaped(chain[x])
    <3>1. chain[x].type = "NEW_MEMO" /\ chain[x].index \in Nat
      BY <2>4 DEF MemoShaped
    <3> QED BY <1>2, <1>5, <2>1, <3>1 DEF Reached, Further
  <2> QED BY <2>2, <2>3, <2>4
<1>8. q.found = s.found \cup {chain[x] : x \in {x \in U \cup {k} : Opens(s, chain[x])}}
  <2>1. r.found = s.found \cup {chain[x] : x \in {x \in U : Opens(s, chain[x])}}
    BY DEF HasRead
  <2>2. q.found = r.found \cup {x \in {n} : Opens(s, x)}
    BY <1>2, <1>3
  <2> QED BY <2>1, <2>2
<1>9. /\ q.unopenable >= s.unopenable
      /\ q.unopenable = s.unopenable <=> \A x \in U \cup {k} : ~ Sealed(s, chain[x])
  <2>1. r.unopenable \in Nat /\ s.unopenable \in Nat
    BY <1>1 DEF Scanner
  <2>2. /\ r.unopenable >= s.unopenable
        /\ r.unopenable = s.unopenable <=> \A x \in U : ~ Sealed(s, chain[x])
    BY DEF HasRead
  <2>3. q.unopenable = IF Sealed(s, n) THEN r.unopenable + 1 ELSE r.unopenable
    BY <1>2, <1>3
  <2>4. CASE Sealed(s, n)
    BY <2>1, <2>2, <2>3, <2>4
  <2>5. CASE ~ Sealed(s, n)
    <3>1. (\A x \in U \cup {k} : ~ Sealed(s, chain[x])) <=> \A x \in U : ~ Sealed(s, chain[x])
      BY <2>5
    <3> QED BY <2>2, <2>3, <2>5, <3>1
  <2> QED BY <2>4, <2>5
<1> QED BY <1>2, <1>4, <1>6, <1>7, <1>8, <1>9 DEF HasRead, q

\* The whole chain.
LEMMA ReadChain ==
    ASSUME NotesInv, NEW s \in Scanner
    PROVE  HasRead(s, FoldLeft(readNote, s, chain), DOMAIN chain)
<1> DEFINE n == Len(chain)
           P == 1 .. n
           W == Scanner
           step == [lx \in Notes \X W |-> readNote(lx[2], lx[1])]
           F(f) == f = [U \in SUBSET P |->
                          IF U = {} THEN s ELSE readNote(f[U \ {Max(U)}], chain[Max(U)])]
           all == FoldLeft(readNote, s, chain)
<1>1. n \in Nat /\ DOMAIN chain = P /\ chain \in Seq(Notes) /\ \A k \in P : chain[k] \in Notes
  <2>1. IsSequence(chain)
    BY DEF NotesInv, TreasuryInv, Spent
  <2>2. chain \in Seq({chain[k] : k \in DOMAIN chain})
    BY <2>1, SequenceOf
  <2>3. Notes = {chain[k] : k \in DOMAIN chain}
    BY DEF Notes, ToSet
  <2>4. chain \in Seq(Notes)
    BY <2>2, <2>3
  <2> QED BY <2>4
<1>2. all = (CHOOSE f : F(f))[P]
  BY <1>1 DEF FoldLeft, MapThenFoldSet
<1> HIDE DEF all, n
<1>3. \A l \in Notes, x \in W : readNote(x, l) \in W
  <2> SUFFICES ASSUME NEW l \in Notes, NEW x \in W PROVE readNote(x, l) \in W
    OBVIOUS
  <2>1. PICK k \in DOMAIN chain : l = chain[k]
    BY DEF Notes, ToSet
  <2> QED BY <2>1, ReadOne
<1> HIDE DEF W
<1>4. \A l \in Notes, x \in W : <<l, x>> \in Notes \X W /\ step[<<l, x>>] = readNote(x, l)
  OBVIOUS
<1>5. step \in [Notes \X W -> W]
  BY <1>3
<1>6. \E f : F(f)
  <2> HIDE DEF step
  <2>1. PICK f : FoldsTo(f, step, s, chain, W)
    <3>1. s \in W
      BY DEF W
    <3> QED BY <1>1, <1>5, <3>1, FoldOver
  <2>2. \A U \in SUBSET P : f[U] = IF U = {} THEN s ELSE readNote(f[U \ {Max(U)}], chain[Max(U)])
    <3> SUFFICES ASSUME NEW U \in SUBSET P, U # {}
                 PROVE  f[U] = readNote(f[U \ {Max(U)}], chain[Max(U)])
      BY <2>1 DEF n, FoldsTo
    <3>1. /\ Max(U) \in U /\ U \ {Max(U)} \in SUBSET P
          /\ f[U] = step[<<chain[Max(U)], f[U \ {Max(U)}]>>]
      BY <2>1 DEF n, FoldsTo
    <3>2. f[U \ {Max(U)}] \in W /\ chain[Max(U)] \in Notes
      BY <1>1, <2>1, <3>1 DEF n, FoldsTo
    <3> QED BY <1>4, <3>1, <3>2
  <2>3. F(f)
    BY <2>1, <2>2 DEF n, FoldsTo
  <2> QED BY <2>3
<1> DEFINE g == CHOOSE f : F(f)
<1>7. F(g)
  <2> HIDE DEF F
  <2> QED BY <1>6
<1> HIDE DEF g
<1> DEFINE Fine == {U \in SUBSET P : HasRead(s, g[U], U)}
<1>8. {} \in Fine
  <2>1. g[{}] = s
    BY <1>7
  <2>2. s.highestMatchedIncoming \in Int /\ s.highestMatchedSelf \in [Members -> Int] /\ s.unopenable \in Nat
    BY DEF Scanner
  <2>3. HasRead(s, s, {})
    BY <2>2 DEF HasRead, SameLook, Further
  <2> QED BY <2>1, <2>3
<1>9. \A U \in SUBSET P : U # {} /\ Max(U) \in U /\ U \ {Max(U)} \in Fine => U \in Fine
  <2> SUFFICES ASSUME NEW U \in SUBSET P, U # {}, Max(U) \in U, U \ {Max(U)} \in Fine
               PROVE  U \in Fine
    OBVIOUS
  <2> DEFINE V == U \ {Max(U)}
  <2>1. g[U] = readNote(g[V], chain[Max(U)])
    BY <1>7
  <2>2. /\ HasRead(s, g[V], V) /\ V \in SUBSET DOMAIN chain /\ Max(U) \in DOMAIN chain
        /\ V \cup {Max(U)} = U
    BY <1>1
  <2> HIDE DEF V
  <2>3. HasRead(s, readNote(g[V], chain[Max(U)]), V \cup {Max(U)})
    BY <2>2, ReadMore
  <2> QED BY <2>1, <2>2, <2>3
<1>10. P \in Fine
  <2> HIDE DEF Fine
  <2> QED BY <1>1, <1>8, <1>9, RoundInduction
<1>11. HasRead(s, g[P], P)
  BY <1>10
<1>12. HasRead(s, all, P)
  <2> HIDE DEF F
  <2> QED BY <1>2, <1>11 DEF g
<1> QED BY <1>1, <1>12 DEF all

-----------------------------------------------------------------------------
(***************************************************************************)
(* The lookahead.                                                          *)
(***************************************************************************)

\* A scanner knows all tags up to where its lookahead is.
Looks(s) ==
    /\ \A m \in Members : s.selfScanJ[m] >= SelfWindow
    /\ \A m \in Members, j \in Nat : j < s.selfScanJ[m] /\ isEvenY(m, j) => <<m, j>> \in s.selfTags
    /\ s.incomingScanIndex >= IncomingWindow
    /\ \A i \in Nat \ OddAddress : i < s.incomingScanIndex => i \in s.incomingTags

\* It starts so.
LEMMA CreateLooks ==
    ASSUME NEW ring \in Nat
    PROVE  LET s == create(ring) IN
           /\ s \in Scanner /\ Looks(s) /\ s.ring = ring /\ s.found = {} /\ s.unopenable = 0
<1> DEFINE s == create(ring)
<1>1. SelfWindow \in Nat /\ IncomingWindow \in Nat /\ Members \subseteq Nat
  BY MultisigConstants
<1>2. /\ s.ring = ring /\ s.found = {} /\ s.unopenable = 0
      /\ s.selfScanJ = [m \in Members |-> SelfWindow] /\ s.incomingScanIndex = IncomingWindow
      /\ s.incomingTags = (0 .. IncomingWindow - 1) \ OddAddress
      /\ s.selfTags = {<<mj[1], mj[2]>> : mj \in
                         {mj \in Members \X (0 .. SelfWindow - 1) : isEvenY(mj[1], mj[2])}}
  BY DEF create, deriveSelfEph
<1>3. s.selfTags \subseteq Members \X Nat
  BY <1>1, <1>2
<1>4. \A m \in Members, j \in Nat : j < SelfWindow /\ isEvenY(m, j) => <<m, j>> \in s.selfTags
  <2> SUFFICES ASSUME NEW m \in Members, NEW j \in Nat, j < SelfWindow, isEvenY(m, j)
               PROVE  <<m, j>> \in s.selfTags
    OBVIOUS
  <2> DEFINE mj == <<m, j>>
  <2>1. mj \in Members \X (0 .. SelfWindow - 1) /\ mj[1] = m /\ mj[2] = j
    BY <1>1
  <2> HIDE DEF mj
  <2>2. <<mj[1], mj[2]>> \in s.selfTags
    BY <1>2, <2>1
  <2> QED BY <2>1, <2>2
<1>5. s \in Scanner
  <2>1. s = [ring |-> ring, selfTags |-> s.selfTags, selfScanJ |-> [m \in Members |-> SelfWindow],
             highestMatchedSelf |-> [m \in Members |-> -1],
             incomingTags |-> (0 .. IncomingWindow - 1) \ OddAddress,
             incomingScanIndex |-> IncomingWindow, highestMatchedIncoming |-> -1,
             unopenable |-> 0, found |-> {}]
    BY DEF create
  <2> HIDE DEF s
  <2> QED BY <1>1, <1>3, <2>1 DEF Scanner
<1>6. Looks(s)
  <2> HIDE DEF s
  <2> QED BY <1>1, <1>2, <1>4 DEF Looks
<1> QED BY <1>2, <1>5, <1>6

\* The lookahead of the self tags.
LEMMA SelfWidened ==
    ASSUME NEW s \in Scanner, Looks(s)
    PROVE  LET r == ensureSelfLookahead(s) IN
           /\ r \in Scanner /\ Looks(r)
           /\ s.selfTags \subseteq r.selfTags
           /\ \A m \in Members, j \in Nat :
                j < s.highestMatchedSelf[m] + 1 + SelfWindow /\ isEvenY(m, j) => <<m, j>> \in r.selfTags
           /\ r.ring = s.ring /\ r.incomingTags = s.incomingTags
           /\ r.highestMatchedIncoming = s.highestMatchedIncoming
           /\ r.found = s.found /\ r.unopenable = s.unopenable
<1> DEFINE r == ensureSelfLookahead(s)
           target(m) == s.highestMatchedSelf[m] + 1 + SelfWindow
           row(m) == {<<m, j>> : j \in {j \in s.selfScanJ[m] .. target(m) - 1 : isEvenY(m, j)}}
           new == UNION {row(m) : m \in Members}
           added == {deriveSelfEph(mj[1], mj[2]) : mj \in new}
           tags == s.selfTags \cup added
           ends == [m \in Members |-> Higher(s.selfScanJ[m], target(m))]
<1>1. /\ SelfWindow \in Nat /\ s.selfScanJ \in [Members -> Nat] /\ s.highestMatchedSelf \in [Members -> Int]
      /\ s.selfTags \in SUBSET (Members \X Nat)
  BY MultisigConstants DEF Scanner
<1>2. r = [s EXCEPT !.selfTags = tags, !.selfScanJ = ends]
  BY DEF ensureSelfLookahead, Scanner
<1>3. added = new
  <2>1. \A mj \in new : deriveSelfEph(mj[1], mj[2]) = mj
    BY DEF deriveSelfEph
  <2> HIDE DEF new
  <2> QED BY <2>1
<1>4. \A m \in Members : target(m) \in Int
  BY <1>1
<1>5. new \subseteq Members \X Nat
  BY <1>1, <1>4
<1>6. \A m \in Members, j \in Nat :
         j >= s.selfScanJ[m] /\ j < target(m) /\ isEvenY(m, j) => <<m, j>> \in new
  BY <1>1, <1>4
<1>7. /\ ends \in [Members -> Nat]
      /\ \A m \in Members : /\ ends[m] >= s.selfScanJ[m] /\ ends[m] >= target(m)
                            /\ ends[m] = s.selfScanJ[m] \/ ends[m] = target(m)
  BY <1>1, <1>4 DEF Higher
<1> HIDE DEF new, ends, target, added
<1>8. tags \in SUBSET (Members \X Nat)
  BY <1>1, <1>3, <1>5
<1>9. \A m \in Members, j \in Nat :
        (j < s.selfScanJ[m] \/ j < target(m)) /\ isEvenY(m, j) => <<m, j>> \in tags
  BY <1>1, <1>3, <1>4, <1>6 DEF Looks
<1> HIDE DEF tags, r
<1>10. /\ r.ring = s.ring /\ r.incomingTags = s.incomingTags
       /\ r.incomingScanIndex = s.incomingScanIndex
       /\ r.highestMatchedIncoming = s.highestMatchedIncoming
       /\ r.found = s.found /\ r.unopenable = s.unopenable
       /\ r.selfTags = tags /\ r.selfScanJ = ends
  BY <1>2 DEF Scanner
<1>11. r \in Scanner
  BY <1>2, <1>7, <1>8 DEF Scanner
<1>12. Looks(r)
  <2>1. \A m \in Members : ends[m] \in Nat /\ s.selfScanJ[m] \in Nat /\ s.selfScanJ[m] >= SelfWindow
    BY <1>1, <1>7 DEF Looks
  <2>2. \A m \in Members : ends[m] >= SelfWindow
    BY <1>1, <1>7, <2>1
  <2>3. \A m \in Members, j \in Nat : j < ends[m] /\ isEvenY(m, j) => <<m, j>> \in tags
    BY <1>7, <1>9
  <2> QED BY <1>10, <2>2, <2>3 DEF Looks
<1>13. s.selfTags \subseteq tags
  BY DEF tags
<1> QED BY <1>9, <1>10, <1>11, <1>12, <1>13 DEF r, target

\* The lookahead of the addresses.
LEMMA IncomingWidened ==
    ASSUME NEW s \in Scanner, Looks(s)
    PROVE  LET r == ensureIncomingLookahead(s) IN
           /\ r \in Scanner /\ Looks(r)
           /\ s.incomingTags \subseteq r.incomingTags
           /\ \A i \in Nat \ OddAddress :
                i < s.highestMatchedIncoming + 1 + IncomingWindow => i \in r.incomingTags
           /\ r.ring = s.ring /\ r.selfTags = s.selfTags
           /\ r.found = s.found /\ r.unopenable = s.unopenable
<1> DEFINE r == ensureIncomingLookahead(s)
           target == s.highestMatchedIncoming + 1 + IncomingWindow
           from == s.incomingScanIndex
           I == from .. target - 1
           new == {multisigIncomingKeyAt(i) : i \in I}
           E == {from} \cup {i + 1 : i \in new}
           tags == s.incomingTags \cup new
<1>1. /\ IncomingWindow \in Nat /\ from \in Nat /\ s.highestMatchedIncoming \in Int
      /\ s.incomingTags \in SUBSET Nat /\ target \in Int
  BY MultisigConstants DEF Scanner
<1>2. r = [s EXCEPT !.incomingTags = tags, !.incomingScanIndex = Max(E)]
  BY DEF ensureIncomingLookahead, Scanner
<1> HIDE DEF target, r
<1>3. \A i \in I : i \in Nat
  BY <1>1
<1>4. \A i \in I : /\ multisigIncomingKeyAt(i) \in Nat \ OddAddress /\ multisigIncomingKeyAt(i) >= i
                   /\ \A x \in i .. multisigIncomingKeyAt(i) - 1 : x \in OddAddress
  BY <1>3, KeyAt
<1>5. \A i \in I : i \notin OddAddress => i \in new
  <2> SUFFICES ASSUME NEW i \in I, i \notin OddAddress PROVE multisigIncomingKeyAt(i) = i
    OBVIOUS
  <2>1. multisigIncomingKeyAt(i) \in Nat /\ multisigIncomingKeyAt(i) >= i /\ i \in Nat
    BY <1>3, <1>4
  <2>2. ~ (i \in i .. multisigIncomingKeyAt(i) - 1)
    BY <1>4
  <2> QED BY <2>1, <2>2
<1>6. new \subseteq Nat
  BY <1>4
<1>7. Max(E) \in E /\ \A y \in E : Max(E) >= y
  <2>1. IsFiniteSet(I)
    BY <1>1, FS_Interval
  <2> DEFINE f == [i \in I |-> multisigIncomingKeyAt(i) + 1]
             Y == {i + 1 : i \in new}
  <2>2. f \in Surjection(I, Y)
    BY DEF Surjection
  <2> HIDE DEF f, I
  <2>3. IsFiniteSet(Y)
    <3> HIDE DEF Y
    <3> QED BY <2>1, <2>2, FS_Surjection
  <2>4. E = Y \cup {from} /\ E \subseteq Int /\ E # {}
    BY <1>1, <1>6
  <2> HIDE DEF Y, E
  <2>5. IsFiniteSet(E)
    BY <2>3, <2>4, FS_AddElement
  <2> QED BY <2>4, <2>5, FiniteMax
<1>8. Max(E) \in Nat /\ Max(E) >= from
  BY <1>1, <1>6, <1>7
<1>9. \A i \in Nat \ OddAddress : i < Max(E) => i \in tags
  <2> SUFFICES ASSUME NEW i \in Nat \ OddAddress, i < Max(E), ~ (i < from) PROVE i \in new
    BY DEF Looks
  <2>1. PICK x \in I : Max(E) = multisigIncomingKeyAt(x) + 1
    BY <1>1, <1>7
  <2>2. CASE i \in I
    BY <1>5, <2>2
  <2>3. CASE i \notin I
    <3>1. i >= target /\ x \in Nat /\ x < target
      BY <1>1, <2>1, <2>3
    <3>2. i >= x /\ i <= multisigIncomingKeyAt(x) /\ multisigIncomingKeyAt(x) \in Nat
      BY <1>1, <1>4, <2>1, <3>1
    <3>3. ~ (i \in x .. multisigIncomingKeyAt(x) - 1)
      BY <1>4
    <3>4. i = multisigIncomingKeyAt(x)
      BY <3>1, <3>2, <3>3
    <3> QED BY <3>4
  <2> QED BY <2>2, <2>3
<1>10. \A i \in Nat \ OddAddress : i < target => i \in tags
  <2> SUFFICES ASSUME NEW i \in Nat \ OddAddress, i < target PROVE i \in tags
    OBVIOUS
  <2>1. CASE i < from
    BY <2>1 DEF Looks
  <2>2. CASE ~ (i < from)
    BY <1>1, <1>5, <2>2
  <2> QED BY <2>1, <2>2
<1>11. tags \in SUBSET Nat
  BY <1>1, <1>6
<1> HIDE DEF tags, E, new, I
<1>12. /\ r.ring = s.ring /\ r.selfTags = s.selfTags /\ r.selfScanJ = s.selfScanJ
       /\ r.found = s.found /\ r.unopenable = s.unopenable
       /\ r.incomingTags = tags /\ r.incomingScanIndex = Max(E)
  BY <1>2 DEF Scanner
<1>13. r \in Scanner
  BY <1>2, <1>8, <1>11 DEF Scanner
<1>14. Looks(r)
  <2>1. Max(E) >= IncomingWindow
    BY <1>1, <1>8 DEF Looks
  <2> QED BY <1>9, <1>12, <2>1 DEF Looks
<1>15. s.incomingTags \subseteq tags
  BY DEF tags
<1> QED BY <1>10, <1>12, <1>13, <1>14, <1>15 DEF r, target

-----------------------------------------------------------------------------
(***************************************************************************)
(* Passes over the chain.                                                  *)
(***************************************************************************)

\* A pass knows what was known before, and what is within a window of it.
LEMMA Passed ==
    ASSUME NotesInv, NEW s \in Scanner, Looks(s)
    PROVE  LET p == pass(s) IN
           /\ p \in Scanner /\ Looks(p) /\ p.ring = s.ring
           /\ s.selfTags \subseteq p.selfTags /\ s.incomingTags \subseteq p.incomingTags
           /\ \A k \in DOMAIN chain : chain[k].type = "NEW_NOTE" /\ Matches(s, chain[k]) =>
                \A j \in Nat : j < chain[k].tag[2] + 1 + SelfWindow /\ isEvenY(chain[k].tag[1], j) =>
                  <<chain[k].tag[1], j>> \in p.selfTags
           /\ \A k \in DOMAIN chain : chain[k].type = "NEW_MEMO" /\ Matches(s, chain[k]) =>
                \A i \in Nat \ OddAddress : i < chain[k].index + 1 + IncomingWindow => i \in p.incomingTags
           /\ p.found = s.found \cup {chain[k] : k \in {k \in DOMAIN chain : Opens(s, chain[k])}}
           /\ p.unopenable >= s.unopenable
           /\ p.unopenable = s.unopenable <=> \A k \in DOMAIN chain : ~ Sealed(s, chain[k])
<1> DEFINE r == FoldLeft(readNote, s, chain)
           q == ensureSelfLookahead(r)
           p == ensureIncomingLookahead(q)
<1>1. HasRead(s, r, DOMAIN chain)
  BY ReadChain
<1>2. pass(s) = p
  BY DEF pass
<1> HIDE DEF r
<1>3. /\ r \in Scanner /\ SameLook(s, r)
      /\ \A k \in DOMAIN chain : Matches(s, chain[k]) => Reached(r, chain[k])
      /\ r.found = s.found \cup {chain[k] : k \in {k \in DOMAIN chain : Opens(s, chain[k])}}
      /\ r.unopenable >= s.unopenable
      /\ r.unopenable = s.unopenable <=> \A k \in DOMAIN chain : ~ Sealed(s, chain[k])
  BY <1>1 DEF HasRead
<1>4. Looks(r)
  BY <1>3 DEF SameLook, Looks
<1>5. /\ q \in Scanner /\ Looks(q)
      /\ r.selfTags \subseteq q.selfTags
      /\ \A m \in Members, j \in Nat :
           j < r.highestMatchedSelf[m] + 1 + SelfWindow /\ isEvenY(m, j) => <<m, j>> \in q.selfTags
      /\ q.ring = r.ring /\ q.incomingTags = r.incomingTags
      /\ q.highestMatchedIncoming = r.highestMatchedIncoming
      /\ q.found = r.found /\ q.unopenable = r.unopenable
  BY <1>3, <1>4, SelfWidened
<1> HIDE DEF q
<1>6. /\ p \in Scanner /\ Looks(p)
      /\ q.incomingTags \subseteq p.incomingTags
      /\ \A i \in Nat \ OddAddress :
           i < q.highestMatchedIncoming + 1 + IncomingWindow => i \in p.incomingTags
      /\ p.ring = q.ring /\ p.selfTags = q.selfTags
      /\ p.found = q.found /\ p.unopenable = q.unopenable
  BY <1>5, IncomingWidened
<1> HIDE DEF p
<1>7. /\ SelfWindow \in Nat /\ IncomingWindow \in Nat
      /\ r.highestMatchedSelf \in [Members -> Int] /\ r.highestMatchedIncoming \in Int
  BY <1>3, MultisigConstants DEF Scanner
<1>8. ASSUME NEW k \in DOMAIN chain, chain[k].type = "NEW_NOTE", Matches(s, chain[k]),
             NEW j \in Nat, j < chain[k].tag[2] + 1 + SelfWindow, isEvenY(chain[k].tag[1], j)
      PROVE  <<chain[k].tag[1], j>> \in p.selfTags
  <2> DEFINE m == chain[k].tag[1]
  <2>1. m \in Members /\ chain[k].tag[2] \in Nat
    BY <1>8 DEF NotesInv, NotesShaped, SelfShaped, MemoShaped
  <2>2. r.highestMatchedSelf[m] >= chain[k].tag[2]
    BY <1>3, <1>8 DEF Reached
  <2>3. j < r.highestMatchedSelf[m] + 1 + SelfWindow
    BY <1>7, <1>8, <2>1, <2>2
  <2> QED BY <1>5, <1>6, <1>8, <2>1, <2>3
<1>9. ASSUME NEW k \in DOMAIN chain, chain[k].type = "NEW_MEMO", Matches(s, chain[k]),
             NEW i \in Nat \ OddAddress, i < chain[k].index + 1 + IncomingWindow
      PROVE  i \in p.incomingTags
  <2>1. chain[k].index \in Nat
    BY <1>9 DEF NotesInv, NotesShaped, SelfShaped, MemoShaped
  <2>2. r.highestMatchedIncoming >= chain[k].index
    BY <1>3, <1>9 DEF Reached
  <2>3. i < r.highestMatchedIncoming + 1 + IncomingWindow
    BY <1>7, <1>9, <2>1, <2>2
  <2> QED BY <1>5, <1>6, <2>3
<1>10. p.ring = s.ring /\ s.selfTags \subseteq p.selfTags /\ s.incomingTags \subseteq p.incomingTags
  BY <1>3, <1>5, <1>6 DEF SameLook
<1>11. p.found = r.found /\ p.unopenable = r.unopenable
  BY <1>5, <1>6
<1> QED BY <1>2, <1>3, <1>6, <1>8, <1>9, <1>10, <1>11

\* No more than a window of indices was burned or left unused in a row.
Memos == {n \in Notes : n.type = "NEW_MEMO"}
GapsFit ==
    /\ \A m \in Members : Gap({n.tag[2] : n \in {n \in SelfNotes : n.tag[1] = m}}, SelfWindow)
    /\ Gap({n.index : n \in Memos}, IncomingWindow)

Known(s) == {k \in DOMAIN chain : Matches(s, chain[k])}

\* A pass finds a tag it did not know while there is one.
LEMMA NewlyKnown ==
    ASSUME NotesInv, GapsFit, NEW s \in Scanner, Looks(s), Known(s) # DOMAIN chain
    PROVE  \E k \in DOMAIN chain : k \notin Known(s) /\ k \in Known(pass(s))
<1> DEFINE p == pass(s)
<1>1. PICK x \in DOMAIN chain : ~ Matches(s, chain[x])
  BY DEF Known
<1>2. \A k \in DOMAIN chain : SelfShaped(chain[k], version) \/ MemoShaped(chain[k])
  BY DEF NotesInv, NotesShaped
<1>3. SelfWindow \in Nat /\ IncomingWindow \in Nat
  BY MultisigConstants
<1>4. /\ \A k \in DOMAIN chain : chain[k].type = "NEW_NOTE" /\ Matches(s, chain[k]) =>
           \A j \in Nat : j < chain[k].tag[2] + 1 + SelfWindow /\ isEvenY(chain[k].tag[1], j) =>
             <<chain[k].tag[1], j>> \in p.selfTags
      /\ \A k \in DOMAIN chain : chain[k].type = "NEW_MEMO" /\ Matches(s, chain[k]) =>
           \A i \in Nat \ OddAddress : i < chain[k].index + 1 + IncomingWindow => i \in p.incomingTags
  BY Passed
<1> HIDE DEF p
<1>5. CASE SelfShaped(chain[x], version)
  <2> DEFINE m == chain[x].tag[1]
             mine == {k \in DOMAIN chain : chain[k].type = "NEW_NOTE" /\ chain[k].tag[1] = m}
             J == {chain[k].tag[2] : k \in mine}
             missed == {chain[k].tag[2] : k \in {k \in mine : ~ Matches(s, chain[k])}}
             j == Min(missed)
  <2>1. m \in Members /\ x \in mine
    BY <1>5 DEF SelfShaped
  <2>2. \A k \in mine : SelfShaped(chain[k], version)
    BY <1>2 DEF MemoShaped
  <2>3. missed \subseteq Nat /\ missed # {}
    BY <1>1, <2>1, <2>2 DEF SelfShaped
  <2>4. j \in missed /\ \A i \in missed : j <= i
    <3> HIDE DEF missed
    <3> QED BY <2>3, LeastIsMin
  <2>5. PICK y \in mine : ~ Matches(s, chain[y]) /\ j = chain[y].tag[2]
    BY <2>4
  <2> HIDE DEF j
  <2>6. chain[y].tag = <<m, j>> /\ isEvenY(m, j) /\ j \in Nat /\ chain[y].type = "NEW_NOTE"
    BY <2>2, <2>5 DEF SelfShaped
  <2>7. {n.tag[2] : n \in {n \in SelfNotes : n.tag[1] = m}} = J
    BY DEF SelfNotes, ToSet
  <2>8. PICK i \in J \cup {-1} : i < j /\ j - i <= SelfWindow
    <3>1. Gap(J, SelfWindow)
      BY <2>1, <2>7 DEF GapsFit
    <3>2. j \in J
      BY <2>5
    <3> HIDE DEF J
    <3> QED BY <3>1, <3>2 DEF Gap
  <2>9. <<m, j>> \in p.selfTags
    <3>1. CASE i = -1
      <4>1. s.selfScanJ[m] \in Nat /\ s.selfScanJ[m] >= SelfWindow
        BY <2>1 DEF Looks, Scanner
      <4>2. j < s.selfScanJ[m]
        BY <1>3, <2>6, <2>8, <3>1, <4>1
      <4>3. <<m, j>> \in s.selfTags
        BY <2>1, <2>6, <4>2 DEF Looks
      <4> QED BY <4>3, Passed DEF p
    <3>2. CASE i # -1
      <4>1. PICK z \in mine : i = chain[z].tag[2]
        BY <2>8, <3>2
      <4>2. i \in Nat /\ chain[z].type = "NEW_NOTE" /\ chain[z].tag[1] = m
        BY <2>2, <4>1 DEF SelfShaped
      <4>3. Matches(s, chain[z])
        <5> SUFFICES ASSUME ~ Matches(s, chain[z]) PROVE FALSE
          OBVIOUS
        <5>1. i \in missed
          BY <4>1
        <5>2. j <= i
          BY <2>4, <5>1 DEF j
        <5> QED BY <2>6, <2>8, <4>2, <5>2
      <4>4. j < i + 1 + SelfWindow
        BY <1>3, <2>6, <2>8, <4>2
      <4> QED BY <1>4, <2>6, <4>1, <4>2, <4>3, <4>4
    <3> QED BY <3>1, <3>2
  <2>10. Matches(p, chain[y])
    BY <2>6, <2>9 DEF Matches
  <2> QED BY <2>5, <2>10 DEF Known, p
<1>6. CASE MemoShaped(chain[x])
  <2> DEFINE mine == {k \in DOMAIN chain : chain[k].type = "NEW_MEMO"}
             J == {chain[k].index : k \in mine}
             missed == {chain[k].index : k \in {k \in mine : ~ Matches(s, chain[k])}}
             j == Min(missed)
  <2>1. x \in mine
    BY <1>6 DEF MemoShaped
  <2>2. \A k \in mine : MemoShaped(chain[k])
    BY <1>2 DEF SelfShaped
  <2>3. missed \subseteq Nat /\ missed # {}
    BY <1>1, <2>1, <2>2 DEF MemoShaped
  <2>4. j \in missed /\ \A i \in missed : j <= i
    <3> HIDE DEF missed
    <3> QED BY <2>3, LeastIsMin
  <2>5. PICK y \in mine : ~ Matches(s, chain[y]) /\ j = chain[y].index
    BY <2>4
  <2> HIDE DEF j
  <2>6. j \in Nat \ OddAddress /\ chain[y].type = "NEW_MEMO"
    BY <2>2, <2>5 DEF MemoShaped
  <2>7. {n.index : n \in Memos} = J
    BY DEF Memos, Notes, ToSet
  <2>8. PICK i \in J \cup {-1} : i < j /\ j - i <= IncomingWindow
    <3>1. Gap(J, IncomingWindow)
      BY <2>7 DEF GapsFit
    <3>2. j \in J
      BY <2>5
    <3> HIDE DEF J
    <3> QED BY <3>1, <3>2 DEF Gap
  <2>9. j \in p.incomingTags
    <3>1. CASE i = -1
      <4>1. s.incomingScanIndex \in Nat /\ s.incomingScanIndex >= IncomingWindow
        BY DEF Looks, Scanner
      <4>2. j < s.incomingScanIndex
        BY <1>3, <2>6, <2>8, <3>1, <4>1
      <4>3. j \in s.incomingTags
        BY <2>6, <4>2 DEF Looks
      <4> QED BY <4>3, Passed DEF p
    <3>2. CASE i # -1
      <4>1. PICK z \in mine : i = chain[z].index
        BY <2>8, <3>2
      <4>2. i \in Nat /\ chain[z].type = "NEW_MEMO"
        BY <2>2, <4>1 DEF MemoShaped
      <4>3. Matches(s, chain[z])
        <5> SUFFICES ASSUME ~ Matches(s, chain[z]) PROVE FALSE
          OBVIOUS
        <5>1. i \in missed
          BY <4>1
        <5>2. j <= i
          BY <2>4, <5>1 DEF j
        <5> QED BY <2>6, <2>8, <4>2, <5>2
      <4>4. j < i + 1 + IncomingWindow
        BY <1>3, <2>6, <2>8, <4>2
      <4> QED BY <1>4, <2>6, <4>1, <4>2, <4>3, <4>4
    <3> QED BY <3>1, <3>2
  <2>10. Matches(p, chain[y])
    BY <2>5, <2>6, <2>9 DEF Matches
  <2> QED BY <2>5, <2>10 DEF Known, p
<1> QED BY <1>1, <1>2, <1>5, <1>6

\* The notes a ring of compliance keys opens, and those it does not.
Openable(ring) == {chain[k] : k \in {k \in DOMAIN chain : recover(ring, chain[k])}}
Shut(ring, n) == n.type = "NEW_NOTE" /\ ~ recover(ring, n)

\* After c passes, all tags are known or at least c notes are.
AfterPasses(ring, s, c) ==
    /\ s \in Scanner /\ Looks(s) /\ s.ring = ring
    /\ s.found \subseteq Openable(ring)
    /\ s.unopenable > 0 => \E k \in DOMAIN chain : Shut(ring, chain[k])
    /\ Known(s) = DOMAIN chain \/ c <= Cardinality(Known(s))

LEMMA OnePassMore ==
    ASSUME NotesInv, GapsFit, NEW ring, NEW s, NEW c \in Nat, AfterPasses(ring, s, c)
    PROVE  AfterPasses(ring, pass(s), c + 1)
<1> DEFINE p == pass(s)
<1>1. /\ s \in Scanner /\ Looks(s) /\ s.ring = ring /\ s.unopenable \in Nat
      /\ s.found \subseteq Openable(ring)
      /\ s.unopenable > 0 => \E k \in DOMAIN chain : Shut(ring, chain[k])
  BY DEF AfterPasses, Scanner
<1>2. /\ p \in Scanner /\ Looks(p) /\ p.ring = s.ring
      /\ s.selfTags \subseteq p.selfTags /\ s.incomingTags \subseteq p.incomingTags
      /\ p.found = s.found \cup {chain[k] : k \in {k \in DOMAIN chain : Opens(s, chain[k])}}
      /\ p.unopenable >= s.unopenable
      /\ p.unopenable = s.unopenable <=> \A k \in DOMAIN chain : ~ Sealed(s, chain[k])
  BY <1>1, Passed
<1>3. Known(s) # DOMAIN chain => \E k \in DOMAIN chain : k \notin Known(s) /\ k \in Known(p)
  BY <1>1, NewlyKnown
<1> HIDE DEF p
<1>4. p.found \subseteq Openable(ring)
  BY <1>1, <1>2 DEF Opens, Openable
<1>5. p.unopenable > 0 => \E k \in DOMAIN chain : Shut(ring, chain[k])
  <2> SUFFICES ASSUME p.unopenable > 0, \A k \in DOMAIN chain : ~ Shut(ring, chain[k]) PROVE FALSE
    OBVIOUS
  <2>1. \A k \in DOMAIN chain : ~ Sealed(s, chain[k])
    BY <1>1 DEF Sealed, Shut
  <2>2. p.unopenable = s.unopenable
    BY <1>2, <2>1
  <2> QED BY <1>1, <2>2
<1>6. Known(s) \subseteq Known(p) /\ Known(p) \subseteq DOMAIN chain
  BY <1>2 DEF Known, Matches
<1>7. Known(p) = DOMAIN chain \/ c + 1 <= Cardinality(Known(p))
  <2>1. CASE Known(s) = DOMAIN chain
    BY <1>6, <2>1
  <2>2. CASE Known(s) # DOMAIN chain
    <3>1. IsFiniteSet(DOMAIN chain)
      <4>1. IsSequence(chain)
        BY DEF NotesInv, TreasuryInv, Spent
      <4>2. PICK n \in Nat : DOMAIN chain = 1 .. n
        BY <4>1 DEF IsSequence
      <4> QED BY <4>2, Positions
    <3>2. IsFiniteSet(Known(p)) /\ IsFiniteSet(Known(s))
      <4>1. Known(p) \in SUBSET DOMAIN chain /\ Known(s) \in SUBSET DOMAIN chain
        BY <1>6
      <4> QED BY <3>1, <4>1, FS_Subset
    <3>3. /\ Cardinality(Known(s)) <= Cardinality(Known(p))
          /\ Cardinality(Known(s)) = Cardinality(Known(p)) => Known(s) = Known(p)
      <4>1. Known(s) \in SUBSET Known(p)
        BY <1>6
      <4> QED BY <3>2, <4>1, FS_Subset
    <3>4. Cardinality(Known(s)) \in Nat /\ Cardinality(Known(p)) \in Nat
      BY <3>2, FS_CardinalityType
    <3>5. Known(s) # Known(p)
      BY <1>3, <2>2
    <3>6. c <= Cardinality(Known(s))
      BY <2>2 DEF AfterPasses
    <3> QED BY <3>3, <3>4, <3>5, <3>6
  <2> QED BY <2>1, <2>2
<1> QED BY <1>1, <1>2, <1>4, <1>5, <1>7 DEF AfterPasses, p

\* With all tags known, a pass finds all there is.
LEMMA LastPass ==
    ASSUME NotesInv, NEW ring \in Nat, NEW s \in Scanner, Looks(s), s.ring = ring,
           s.found \subseteq Openable(ring),
           s.unopenable > 0 => \E k \in DOMAIN chain : Shut(ring, chain[k]),
           Known(s) = DOMAIN chain
    PROVE  /\ pass(s).found = Openable(ring)
           /\ pass(s).unopenable > 0 <=> \E k \in DOMAIN chain : Shut(ring, chain[k])
<1> DEFINE p == pass(s)
<1>1. /\ p.found = s.found \cup {chain[k] : k \in {k \in DOMAIN chain : Opens(s, chain[k])}}
      /\ p.unopenable >= s.unopenable
      /\ p.unopenable = s.unopenable <=> \A k \in DOMAIN chain : ~ Sealed(s, chain[k])
      /\ p \in Scanner
  BY Passed
<1> HIDE DEF p
<1>2. \A k \in DOMAIN chain : /\ Opens(s, chain[k]) <=> recover(ring, chain[k])
                              /\ Sealed(s, chain[k]) <=> Shut(ring, chain[k])
  BY DEF Known, Opens, Sealed, Shut
<1>3. p.found = Openable(ring)
  BY <1>1, <1>2 DEF Openable
<1>4. p.unopenable \in Nat /\ s.unopenable \in Nat
  BY <1>1 DEF Scanner
<1>5. (p.unopenable > 0) <=> \E k \in DOMAIN chain : Shut(ring, chain[k])
  <2>1. CASE \E k \in DOMAIN chain : Shut(ring, chain[k])
    <3>1. p.unopenable # s.unopenable
      BY <1>1, <1>2, <2>1
    <3> QED BY <1>1, <1>4, <2>1, <3>1
  <2>2. CASE ~ \E k \in DOMAIN chain : Shut(ring, chain[k])
    <3>1. p.unopenable = s.unopenable
      BY <1>1, <1>2, <2>2
    <3> QED BY <1>4, <2>2, <3>1
  <2> QED BY <2>1, <2>2
<1> QED BY <1>3, <1>5 DEF p

\* As many passes as there are notes, and one.
LEMMA AllPasses ==
    ASSUME NotesInv, GapsFit, NEW ring \in Nat
    PROVE  LET s == FoldLeft(LAMBDA s, k : pass(s), create(ring), [k \in 1 .. Len(chain) + 1 |-> k]) IN
           /\ s.found = Openable(ring)
           /\ s.unopenable > 0 <=> \E k \in DOMAIN chain : Shut(ring, chain[k])
<1> DEFINE n == Len(chain)
           P == 1 .. n + 1
           base == create(ring)
           seq == [k \in P |-> k]
           W == {s \in Scanner : Looks(s)}
           step == [lx \in P \X W |-> pass(lx[2])]
           F(f) == f = [U \in SUBSET P |-> IF U = {} THEN base ELSE pass(f[U \ {Max(U)}])]
           all == FoldLeft(LAMBDA s, k : pass(s), create(ring), [k \in 1 .. Len(chain) + 1 |-> k])
<1>1. n \in Nat /\ DOMAIN chain = 1 .. n
  <2>1. IsSequence(chain)
    BY DEF NotesInv, TreasuryInv, Spent
  <2> QED BY <2>1, Appended
<1>2. all = (CHOOSE f : F(f))[P]
  BY <1>1 DEF FoldLeft, MapThenFoldSet
<1> HIDE DEF all, n
<1>3. seq \in Seq(P) /\ Len(seq) = n + 1 /\ DOMAIN seq = P
  BY <1>1
<1>4. /\ base \in Scanner /\ Looks(base) /\ base.ring = ring /\ base.found = {} /\ base.unopenable = 0
  BY CreateLooks
<1> HIDE DEF base, seq
<1>5. \A s \in W : pass(s) \in W
  BY Passed
<1>6. base \in W
  BY <1>4
<1> HIDE DEF W
<1>7. \A l \in P, x \in W : <<l, x>> \in P \X W /\ step[<<l, x>>] = pass(x)
  OBVIOUS
<1>8. step \in [P \X W -> W]
  BY <1>5
<1>9. \E f : F(f)
  <2> HIDE DEF step
  <2>1. PICK f : FoldsTo(f, step, base, seq, W)
    BY <1>3, <1>6, <1>8, FoldOver
  <2>2. 1 .. Len(seq) = P
    BY <1>3
  <2>3. \A U \in SUBSET P : f[U] = IF U = {} THEN base ELSE pass(f[U \ {Max(U)}])
    <3> SUFFICES ASSUME NEW U \in SUBSET P, U # {} PROVE f[U] = pass(f[U \ {Max(U)}])
      BY <2>1, <2>2 DEF FoldsTo
    <3>1. /\ Max(U) \in U /\ U \ {Max(U)} \in SUBSET P
          /\ f[U] = step[<<seq[Max(U)], f[U \ {Max(U)}]>>]
      BY <2>1, <2>2 DEF FoldsTo
    <3>2. f[U \ {Max(U)}] \in W /\ seq[Max(U)] \in P
      <4>1. Max(U) \in P
        BY <3>1
      <4>2. seq[Max(U)] \in P
        <5> HIDE DEF P
        <5> QED BY <1>3, <4>1
      <4>3. f[U \ {Max(U)}] \in W
        <5>1. \A V \in SUBSET P : f[V] \in W
          BY <2>1, <2>2 DEF FoldsTo
        <5> QED BY <3>1, <5>1
      <4> QED BY <4>2, <4>3
    <3> QED BY <1>7, <3>1, <3>2
  <2>4. f = [U \in SUBSET P |-> f[U]]
    BY <2>1, <2>2 DEF FoldsTo
  <2>5. F(f)
    BY <2>3, <2>4
  <2> QED BY <2>5
<1> DEFINE g == CHOOSE f : F(f)
<1>10. F(g)
  <2> HIDE DEF F
  <2> QED BY <1>9
<1> HIDE DEF g
<1> DEFINE Fine == {U \in SUBSET (1 .. n) : AfterPasses(ring, g[U], Cardinality(U))}
<1>11. {} \in Fine
  <2>1. g[{}] = base
    BY <1>10
  <2>2. Cardinality({}) = 0
    BY FS_EmptySet
  <2>3. 0 <= Cardinality(Known(base))
    <3>1. Known(base) \in SUBSET (1 .. n) /\ IsFiniteSet(1 .. n)
      BY <1>1, Positions DEF Known
    <3>2. IsFiniteSet(Known(base))
      BY <3>1, FS_Subset
    <3>3. Cardinality(Known(base)) \in Nat
      BY <3>2, FS_CardinalityType
    <3> QED BY <3>3
  <2>4. AfterPasses(ring, base, 0)
    BY <1>4, <2>3 DEF AfterPasses
  <2> QED BY <2>1, <2>2, <2>4
<1>12. \A U \in SUBSET (1 .. n) : U # {} /\ Max(U) \in U /\ U \ {Max(U)} \in Fine => U \in Fine
  <2> SUFFICES ASSUME NEW U \in SUBSET (1 .. n), U # {}, Max(U) \in U, U \ {Max(U)} \in Fine
               PROVE  AfterPasses(ring, g[U], Cardinality(U))
    OBVIOUS
  <2> DEFINE V == U \ {Max(U)}
             c == Cardinality(V)
  <2>1. g[U] = pass(g[V])
    <3>1. U \in SUBSET P
      BY <1>1
    <3> QED BY <1>10, <3>1
  <2>2. c \in Nat /\ Cardinality(U) = c + 1
    <3>1. IsFiniteSet(U)
      BY <1>1, Positions, FS_Subset
    <3>2. IsFiniteSet(V) /\ c = Cardinality(U) - 1 /\ Cardinality(U) \in Nat
      BY <3>1, FS_RemoveElement, FS_CardinalityType
    <3>3. c \in Nat
      <4> HIDE DEF V
      <4> QED BY <3>2, FS_CardinalityType
    <3> QED BY <3>2, <3>3
  <2>3. AfterPasses(ring, g[V], c)
    OBVIOUS
  <2> HIDE DEF c, V
  <2>4. AfterPasses(ring, pass(g[V]), c + 1)
    BY <2>2, <2>3, OnePassMore
  <2> QED BY <2>1, <2>2, <2>4
<1>13. 1 .. n \in Fine
  <2> HIDE DEF Fine
  <2> QED BY <1>1, <1>11, <1>12, RoundInduction
<1> DEFINE s == g[1 .. n]
<1>14. AfterPasses(ring, s, n)
  <2>1. Cardinality(1 .. n) = n
    <3>1. 1 \in Int /\ n \in Int
      BY <1>1
    <3>2. Cardinality(1 .. n) = IF 1 > n THEN 0 ELSE n - 1 + 1
      BY <3>1, FS_Interval
    <3> QED BY <1>1, <3>2
  <2> QED BY <1>13, <2>1
<1>15. g[P] = pass(s)
  <2>1. P # {} /\ IsFiniteSet(P) /\ P \subseteq Int /\ n + 1 \in P
    <3>1. n + 1 \in Nat /\ n + 1 >= 1
      BY <1>1
    <3>2. IsFiniteSet(P)
      BY <3>1, Positions
    <3> QED BY <3>1, <3>2
  <2>2. Max(P) \in P /\ \A y \in P : Max(P) >= y
    <3> HIDE DEF P
    <3> QED BY <2>1, FiniteMax
  <2>3. Max(P) = n + 1
    BY <1>1, <2>1, <2>2
  <2>4. P \ {Max(P)} = 1 .. n
    BY <1>1, <2>3
  <2>5. g[P] = pass(g[P \ {Max(P)}])
    BY <1>10, <2>1
  <2> QED BY <2>4, <2>5
<1> HIDE DEF s
<1>16. Known(s) = DOMAIN chain
  <2>1. Known(s) \in SUBSET (1 .. n) /\ IsFiniteSet(1 .. n)
    BY <1>1, Positions DEF Known
  <2>2. Cardinality(1 .. n) = n
    <3>1. 1 \in Int /\ n \in Int
      BY <1>1
    <3>2. Cardinality(1 .. n) = IF 1 > n THEN 0 ELSE n - 1 + 1
      BY <3>1, FS_Interval
    <3> QED BY <1>1, <3>2
  <2>3. /\ IsFiniteSet(Known(s)) /\ Cardinality(Known(s)) <= n
        /\ Cardinality(Known(s)) = n => Known(s) = 1 .. n
    BY <2>1, <2>2, FS_Subset
  <2>4. Cardinality(Known(s)) \in Nat
    BY <2>3, FS_CardinalityType
  <2>5. Known(s) = DOMAIN chain \/ n <= Cardinality(Known(s))
    BY <1>14 DEF AfterPasses
  <2> QED BY <1>1, <2>3, <2>4, <2>5
<1>17. /\ pass(s).found = Openable(ring)
       /\ pass(s).unopenable > 0 <=> \E k \in DOMAIN chain : Shut(ring, chain[k])
  BY <1>14, <1>16, LastPass DEF AfterPasses
<1>18. all = pass(s)
  <2> HIDE DEF F
  <2> QED BY <1>2, <1>15 DEF g
<1> QED BY <1>17, <1>18 DEF all, n

\* The invariant says what recovery finds.
LEMMA InvRecovers == NotesInv => RecoveryFindsNotes
<1> SUFFICES ASSUME NotesInv PROVE RecoveryFindsNotes
  OBVIOUS
<1>1. TagsOnce
  <2>1. \A k, l \in DOMAIN chain :
          chain[k].type = "NEW_NOTE" /\ chain[l].type = "NEW_NOTE" /\ chain[k].tag = chain[l].tag
            => k = l
    BY DEF NotesInv, TreasuryInv, Spent
  <2> QED BY <2>1 DEF TagsOnce, SelfNotes, ToSet
<1>2. \A k \in DOMAIN chain : SelfShaped(chain[k], version) \/ MemoShaped(chain[k])
  BY DEF NotesInv, NotesShaped
<1>3. version \in Nat
  BY DEF NotesInv, NotesShaped
<1>4. ASSUME NEW ring \in 1 .. version
      PROVE  /\ Openable(ring) = {n \in SelfNotes : n.version <= ring} \cup {n \in Memos : n.toGroup}
             /\ (\E k \in DOMAIN chain : Shut(ring, chain[k])) <=> \E n \in SelfNotes : n.version > ring
  <2>1. ring \in Nat
    BY <1>3
  <2>2. \A k \in DOMAIN chain :
          \/ /\ chain[k].type = "NEW_NOTE" /\ chain[k].type # "NEW_MEMO"
             /\ chain[k].version \in Nat
             /\ recover(ring, chain[k]) <=> chain[k].version <= ring
          \/ /\ chain[k].type = "NEW_MEMO" /\ chain[k].type # "NEW_NOTE"
             /\ recover(ring, chain[k]) <=> chain[k].toGroup
    <3> SUFFICES ASSUME NEW k \in DOMAIN chain
                 PROVE  \/ /\ chain[k].type = "NEW_NOTE" /\ chain[k].type # "NEW_MEMO"
                           /\ chain[k].version \in Nat
                           /\ recover(ring, chain[k]) <=> chain[k].version <= ring
                        \/ /\ chain[k].type = "NEW_MEMO" /\ chain[k].type # "NEW_NOTE"
                           /\ recover(ring, chain[k]) <=> chain[k].toGroup
      OBVIOUS
    <3>1. CASE SelfShaped(chain[k], version)
      BY <1>3, <2>1, <3>1 DEF SelfShaped, recover
    <3>2. CASE MemoShaped(chain[k])
      BY <3>2 DEF MemoShaped, recover
    <3> QED BY <1>2, <3>1, <3>2
  <2>3. /\ \A n : n \in SelfNotes <=> \E k \in DOMAIN chain : n = chain[k] /\ n.type = "NEW_NOTE"
        /\ \A n : n \in Memos <=> \E k \in DOMAIN chain : n = chain[k] /\ n.type = "NEW_MEMO"
        /\ \A n : n \in Openable(ring) <=> \E k \in DOMAIN chain : n = chain[k] /\ recover(ring, n)
    BY DEF SelfNotes, Memos, Notes, ToSet, Openable
  <2>4. Openable(ring) = {n \in SelfNotes : n.version <= ring} \cup {n \in Memos : n.toGroup}
    BY <2>2, <2>3
  <2>5. (\E k \in DOMAIN chain : Shut(ring, chain[k])) <=> \E n \in SelfNotes : n.version > ring
    BY <2>1, <2>2, <2>3 DEF Shut
  <2> QED BY <2>4, <2>5
<1>5. ASSUME GapsFit, NEW ring \in 1 .. version
      PROVE  LET s == FoldLeft(LAMBDA s, k : pass(s), create(ring), [k \in 1 .. Len(chain) + 1 |-> k]) IN
             /\ s.found = {n \in SelfNotes : n.version <= ring} \cup {n \in Memos : n.toGroup}
             /\ s.unopenable > 0 <=> \E n \in SelfNotes : n.version > ring
  <2>1. ring \in Nat
    BY <1>3
  <2> QED BY <1>4, <1>5, <2>1, AllPasses
<1> QED BY <1>1, <1>5 DEF RecoveryFindsNotes, GapsFit, Memos, Notes

\* From the view secret alone a group finds every note it got, once no more than a
\* window of indices was burned or left unused in a row, in as many passes of
\* MultisigScanner and ensureLookahead as there are notes; and the scanner counts
\* as unopenable exactly when the ring lacks a version.
THEOREM MultisigRecovers == Spec => []RecoveryFindsNotes
<1>1. Init => NotesInv
  BY NotesInit
<1>2. NotesInv /\ [Next]_vars => NotesInv'
  BY NotesStep
<1> QED BY <1>1, <1>2, InvRecovers, PTL DEF Spec

=============================================================================
