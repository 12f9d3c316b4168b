--------------------------- MODULE DarkPoolProofs ---------------------------
(***************************************************************************)
(* Safety of the pool for every set of assets, owners, keys and terms and  *)
(* every tree depth: types, no double spend, what the compliance key can   *)
(* open, what a note's parents and a swap's record say, the freeze of a    *)
(* paused pool, the timelocks of public memos, the books (in each asset the*)
(* balance is exactly what the unspent notes and unclaimed memos are worth,*)
(* and the pool is a ledger of coins), the truth of what the committee     *)
(* traces through it, and that notes, memos and what the wallet builds and *)
(* finds of them pass every check on the way in and out.                   *)
(***************************************************************************)
EXTENDS ChainTrace, PublicMemos, DataProofs

-----------------------------------------------------------------------------
(***************************************************************************)
(* The inductive invariant.                                                *)
(***************************************************************************)

\* An intent spends a note of the tree.  The notes it will insert are what that
\* note leaves of its value and what the taker asked for, both name it as their
\* parent, and both carry the intent's own compliance key.
IntentHonest(t) ==
    /\ t.input \in NoteIndex
    /\ t.change.key = t.key /\ t.received.key = t.key
    /\ t.change.asset = Leaf(t.input).asset
    /\ Leaf(t.input).value = t.change.value + t.terms.fromAmount
    /\ t.received.asset = t.terms.toAsset
    /\ t.received.value = t.terms.expectedReturn
    /\ t.change.parents = <<t.input, 0>> /\ t.received.parents = <<t.input, 0>>

\* The tree is the genesis leaf followed by notes, the memos are finitely many
\* and the intents are what their circuit lets through.
WellFormed ==
    /\ TypeOK
    /\ nextLeafIndex >= 1
    /\ Leaf(0) = GENESIS
    /\ \A i \in NoteIndex : Leaf(i) \in Note
    /\ IsFiniteSet(memos)
    /\ \A t \in intents : IntentHonest(t)

\* Only leaves that are already in the tree have been spent, and only notes.
SpentAreLeaves ==
    /\ \A nf \in nullifiers : nf[2] \in NoteIndex
    /\ \A k \in DOMAIN log : Inputs(k) \subseteq NoteIndex /\ log[k].outs \subseteq NoteIndex

\* What ParentsTellTruth says of output o of transaction k.
TellsTruth(k, o) ==
    LET p == Leaf(o).parents
        named == {p[1], p[2]} \ {0} IN
    /\ p = PARENTS_NONE <=> log[k].op \in {"deposit", "claim"}
    /\ p = PARENTS_HIDDEN => log[k].op = "transfer"
    /\ p \notin {PARENTS_NONE, PARENTS_HIDDEN} =>
         /\ named \subseteq Inputs(k) /\ named \subseteq NoteIndex
         /\ \A i \in named : i < o
    /\ log[k].op = "join" => named = Inputs(k)

\* What KageSettlesIntent says of transaction k, whose first output is leaf s.
SettlesAt(k, s) ==
    LET t == log[k].terms
        taker == Leaf(log[k].ins[1])
        maker == Leaf(log[k].ins[2]) IN
    /\ log[k].at < t.expiry + TOLERANCE
    /\ Leaf(s + 1).asset = maker.asset /\ Leaf(s + 1).value = t.expectedReturn
    /\ taker.value - Leaf(s).value = Leaf(s + 2).value
    /\ maker.value - Leaf(s + 3).value = Leaf(s + 1).value
    /\ \E q \in intents : q.input = log[k].ins[1] /\ q.terms = t

RowsSettle ==
    \A k \in DOMAIN log : log[k].op = "kage" =>
        \A s \in NoteIndex : log[k].outs = s .. s + 3 => SettlesAt(k, s)

\* A swap has two inputs and inserts four notes in a row.
KageShape ==
    \A k \in DOMAIN log : log[k].op = "kage" =>
        /\ DOMAIN log[k].ins = 1 .. 2
        /\ \E s \in NoteIndex : s + 3 \in NoteIndex /\ log[k].outs = s .. s + 3

PoolInv == /\ WellFormed /\ SpentAreLeaves /\ NoDoubleSpend /\ ComplianceCanOpen
           /\ ParentsTellTruth /\ KageShape /\ KageSettlesIntent

-----------------------------------------------------------------------------
(***************************************************************************)
(* What every entrypoint does to the tree, the nullifiers and the log.     *)
(***************************************************************************)

Terms == Swap \cup Memo \cup {NoTerms}

\* A note that says which notes it was made of.
NamesParents(n) == n.parents \notin {PARENTS_NONE, PARENTS_HIDDEN}

\* The parents of the notes outs are what the operation reveals of ins; the note
\* after one that hides them names them.
HonestParents(op, ins, outs) ==
    LET In == {ins[r] : r \in DOMAIN ins} IN
    \A p \in DOMAIN outs :
        LET q == outs[p].parents
            named == {q[1], q[2]} \ {0} IN
        /\ q = PARENTS_NONE <=> op \in {"deposit", "claim"}
        /\ q = PARENTS_HIDDEN =>
             op = "transfer" /\ p + 1 \in DOMAIN outs /\ NamesParents(outs[p + 1])
        /\ q \notin {PARENTS_NONE, PARENTS_HIDDEN} => named \subseteq In /\ q[1] # 0
        /\ op = "join" => named = In

\* The swap of notes ins into notes outs is the one an intent asked for, in time.
Settles(ins, outs, terms) ==
    /\ Len(ins) = 2 /\ Len(outs) = 4
    /\ now < terms.expiry + TOLERANCE
    /\ outs[2].asset = Leaf(ins[2]).asset /\ outs[2].value = terms.expectedReturn
    /\ Leaf(ins[1]).value - outs[1].value = outs[3].value
    /\ Leaf(ins[2]).value - outs[4].value = outs[2].value
    /\ \E q \in intents : q.input = ins[1] /\ q.terms = terms

\* One transaction spends the leaves ins and appends the notes outs.
Executes(op, ins, outs, terms) ==
    /\ _spendNullifier(ins)
    /\ leaves' = leaves \o outs
    /\ \A p \in DOMAIN outs : outs[p].key = compliance.key
    /\ HonestParents(op, ins, outs)
    /\ op = "kage" => Settles(ins, outs, terms)
    /\ Len(outs) = 0 => Len(ins) = 0
    /\ emit(op, ins, Len(outs), terms)

\* What note or memo n is worth in asset a.
val(n, a) == IF n.asset = a THEN n.value ELSE 0

\* What the notes of a sequence are worth, and the memos of a set.
SumOf(s, a) == Total([p \in DOMAIN s |-> val(s[p], a)], DOMAIN s)
MemoSum(M, a) == Total([m \in M |-> val(m, a)], M)
Spent(ins) == [p \in DOMAIN ins |-> Leaf(ins[p])]

\* Memos are only posted, or claimed after they were posted; in every asset the
\* pool gains what the appended notes and posted memos are worth more than the
\* spent notes and claimed memos.
Conserves(ins, outs) ==
    /\ memos \subseteq memos' /\ memosSpent \subseteq memosSpent' /\ memosSpent' \subseteq memos
    /\ \A a \in Asset :
         balance'[a] + SumOf(Spent(ins), a) + MemoSum(memosSpent' \ memosSpent, a)
           = balance[a] + SumOf(outs, a) + MemoSum(memos' \ memos, a)

ExecutesSome ==
    \E op \in Op, ins \in Seq(NoteIndex), outs \in Seq(Note), terms \in Terms :
        Executes(op, ins, outs, terms) /\ Conserves(ins, outs)

\* The variables an entrypoint types by its own guards.
RestTyped ==
    /\ memos \subseteq Memo /\ IsFiniteSet(memos)
    /\ memosSpent \subseteq memos
    /\ verifiers \in [Circuit -> Verifier]
    /\ compliance \in [key : Key, version : Nat]
    /\ paused \in BOOLEAN
    /\ now \in Nat
    /\ balance \in [Asset -> Nat]

\* Appending notes to the tree keeps its shape and every older leaf.
LEMMA Appending ==
    ASSUME WellFormed, NEW outs \in Seq(Note), leaves' = leaves \o outs
    PROVE  /\ leaves' \in Seq(Note \cup {GENESIS})
           /\ nextLeafIndex' = nextLeafIndex + Len(outs)
           /\ nextLeafIndex' >= 1
           /\ NoteIndex \subseteq NoteIndex'
           /\ \A i \in 0 .. nextLeafIndex - 1 : Leaf(i)' = Leaf(i)
           /\ \A p \in 1 .. Len(outs) : leaves'[nextLeafIndex + p] = outs[p]
           /\ \A i \in NoteIndex' : Leaf(i)' \in Note
<1> leaves \in Seq(Note \cup {GENESIS}) /\ Len(leaves) \in Nat /\ Len(leaves) >= 1
  BY DEF WellFormed, TypeOK, nextLeafIndex
<1> outs \in Seq(Note \cup {GENESIS}) /\ Len(outs) \in Nat
  OBVIOUS
<1>1. /\ leaves' \in Seq(Note \cup {GENESIS})
      /\ Len(leaves') = Len(leaves) + Len(outs)
  OBVIOUS
<1>2. \A i \in 0 .. Len(leaves) - 1 : leaves'[i + 1] = leaves[i + 1]
  OBVIOUS
<1>3. \A p \in 1 .. Len(outs) : leaves'[Len(leaves) + p] = outs[p]
  OBVIOUS
<1>4. \A i \in 1 .. Len(leaves') - 1 : leaves'[i + 1] \in Note
  <2> SUFFICES ASSUME NEW i \in 1 .. Len(leaves') - 1 PROVE leaves'[i + 1] \in Note
    OBVIOUS
  <2>1. CASE i <= Len(leaves) - 1
    BY <1>2, <2>1 DEF WellFormed, NoteIndex, Leaf, nextLeafIndex
  <2>2. CASE i > Len(leaves) - 1
    <3>1. i + 1 - Len(leaves) \in 1 .. Len(outs)
      BY <1>1, <2>2
    <3>2. leaves'[Len(leaves) + (i + 1 - Len(leaves))] = outs[i + 1 - Len(leaves)]
      BY <1>3, <3>1
    <3>3. Len(leaves) + (i + 1 - Len(leaves)) = i + 1
      OBVIOUS
    <3> QED BY <3>1, <3>2, <3>3
  <2> QED BY <2>1, <2>2
<1>5. NoteIndex \subseteq NoteIndex'
  BY <1>1 DEF nextLeafIndex, NoteIndex
<1>6. \A i \in NoteIndex' : Leaf(i)' \in Note
  BY <1>4 DEF nextLeafIndex, NoteIndex, Leaf
<1>7. /\ nextLeafIndex' = nextLeafIndex + Len(outs)
      /\ nextLeafIndex' >= 1
  BY <1>1 DEF nextLeafIndex
<1>8. \A i \in 0 .. nextLeafIndex - 1 : Leaf(i)' = Leaf(i)
  BY <1>2 DEF nextLeafIndex, Leaf
<1>9. \A p \in 1 .. Len(outs) : leaves'[nextLeafIndex + p] = outs[p]
  BY <1>3 DEF nextLeafIndex
<1> QED
  BY <1>1, <1>5, <1>6, <1>7, <1>8, <1>9

\* One more transaction in the log: the older ones, and their inputs, stay.
LEMMA Emitting ==
    ASSUME WellFormed, NEW op \in Op, NEW ins \in Seq(Nat), NEW n \in Nat,
           NEW terms \in Terms, emit(op, ins, n, terms)
    PROVE  /\ log' \in Seq(Tx)
           /\ DOMAIN log' = DOMAIN log \cup {Len(log) + 1}
           /\ DOMAIN log = 1 .. Len(log) /\ Len(log) \in Nat
           /\ \A k \in DOMAIN log : log'[k] = log[k] /\ Inputs(k)' = Inputs(k)
           /\ \A k \in {Len(log) + 1} : Inputs(k)' = {ins[p] : p \in DOMAIN ins}
           /\ log'[Len(log) + 1] =
                [op |-> op, ins |-> ins,
                 outs |-> nextLeafIndex .. nextLeafIndex + n - 1,
                 at |-> now, key |-> compliance.key, terms |-> terms]
<1> DEFINE tx == [op |-> op, ins |-> ins,
                  outs |-> nextLeafIndex .. nextLeafIndex + n - 1,
                  at |-> now, key |-> compliance.key, terms |-> terms]
<1>1. log \in Seq(Tx) /\ Len(log) \in Nat /\ nextLeafIndex \in Nat
  BY DEF WellFormed, TypeOK, nextLeafIndex
<1>2. tx \in Tx
  BY <1>1 DEF WellFormed, TypeOK, Tx, Terms
<1>3. log' = Append(log, tx)
  BY DEF emit
<1> HIDE DEF tx
<1>4. /\ log' \in Seq(Tx)
      /\ DOMAIN log' = DOMAIN log \cup {Len(log) + 1}
      /\ DOMAIN log = 1 .. Len(log)
      /\ \A k \in DOMAIN log : log'[k] = log[k]
      /\ log'[Len(log) + 1] = tx
  BY <1>1, <1>2, <1>3
<1>5. \A k \in DOMAIN log : Inputs(k)' = Inputs(k)
  BY <1>4 DEF Inputs
<1>6. \A k \in {Len(log) + 1} : Inputs(k)' = {ins[p] : p \in DOMAIN ins}
  BY <1>4 DEF Inputs, tx
<1> QED
  BY <1>1, <1>4, <1>5, <1>6 DEF tx

\* A transaction keeps the tree, the nullifiers and the log well formed, spends
\* only leaves nobody spent before, and tells the truth about its key.
LEMMA Transaction ==
    ASSUME PoolInv, NEW op \in Op, NEW ins \in Seq(NoteIndex), NEW outs \in Seq(Note),
           NEW terms \in Terms, Executes(op, ins, outs, terms)
    PROVE  /\ leaves' \in Seq(Note \cup {GENESIS})
           /\ nextLeafIndex' >= 1 /\ Leaf(0)' = GENESIS
           /\ \A i \in NoteIndex' : Leaf(i)' \in Note
           /\ NoteIndex \subseteq NoteIndex'
           /\ \A i \in NoteIndex : Leaf(i)' = Leaf(i)
           /\ nullifiers' \subseteq (Eph \X Key) \X Nat
           /\ log' \in Seq(Tx)
           /\ SpentAreLeaves' /\ NoDoubleSpend' /\ ComplianceCanOpen'
<1> DEFINE nf(p) == nullifier(Leaf(ins[p]), ins[p])
           new == Len(log) + 1
           In == {ins[p] : p \in DOMAIN ins}
<1> USE DEF PoolInv
<1>1. nextLeafIndex \in Nat /\ nextLeafIndex >= 1 /\ NoteIndex \subseteq Nat
  BY DEF WellFormed, TypeOK, nextLeafIndex, NoteIndex
<1>2. ins \in Seq(Nat) /\ Len(outs) \in Nat /\ In \subseteq NoteIndex
  <2>1. Len(ins) \in Nat /\ ins \in [1 .. Len(ins) -> NoteIndex]
    OBVIOUS
  <2>2. ins \in [1 .. Len(ins) -> Nat]
    BY <1>1, <2>1
  <2> QED BY <2>1, <2>2
<1>3. /\ leaves' \in Seq(Note \cup {GENESIS})
      /\ nextLeafIndex' = nextLeafIndex + Len(outs)
      /\ nextLeafIndex' >= 1
      /\ NoteIndex \subseteq NoteIndex'
      /\ \A i \in 0 .. nextLeafIndex - 1 : Leaf(i)' = Leaf(i)
      /\ \A p \in 1 .. Len(outs) : leaves'[nextLeafIndex + p] = outs[p]
      /\ \A i \in NoteIndex' : Leaf(i)' \in Note
  BY Appending DEF Executes
<1>4. /\ log' \in Seq(Tx)
      /\ DOMAIN log' = DOMAIN log \cup {new}
      /\ new \notin DOMAIN log
      /\ \A k \in DOMAIN log : log'[k] = log[k] /\ Inputs(k)' = Inputs(k)
      /\ \A k \in {new} : Inputs(k)' = In
      /\ log'[new].outs = nextLeafIndex .. nextLeafIndex + Len(outs) - 1
      /\ log'[new].key = compliance.key
  <2>1. emit(op, ins, Len(outs), terms)
    BY DEF Executes
  <2> HIDE DEF PoolInv
  <2>2. WellFormed
    BY DEF PoolInv
  <2>3. Len(log) \in Nat /\ DOMAIN log = 1 .. Len(log)
    BY <2>2 DEF WellFormed, TypeOK
  <2>4. new \notin DOMAIN log
    BY <2>3
  <2>5. /\ log' \in Seq(Tx)
        /\ DOMAIN log' = DOMAIN log \cup {new}
        /\ \A k \in DOMAIN log : log'[k] = log[k] /\ Inputs(k)' = Inputs(k)
        /\ \A k \in {new} : Inputs(k)' = In
        /\ log'[new] = [op |-> op, ins |-> ins,
                        outs |-> nextLeafIndex .. nextLeafIndex + Len(outs) - 1,
                        at |-> now, key |-> compliance.key, terms |-> terms]
    BY <1>2, <2>1, <2>2, Emitting
  <2> QED BY <2>4, <2>5
<1>5. Leaf(0)' = GENESIS
  BY <1>1, <1>3 DEF WellFormed
<1>6. /\ \A p \in DOMAIN ins : nf(p) \notin nullifiers
      /\ nullifiers' = nullifiers \cup {nf(p) : p \in DOMAIN ins}
  BY DEF Executes, _spendNullifier
<1>7. \A i \in NoteIndex : nullifier(Leaf(i), i) \in (Eph \X Key) \X Nat
  BY <1>1 DEF WellFormed, nullifier, psi, Note
<1>8. \A p \in DOMAIN ins : ins[p] \in NoteIndex
  OBVIOUS
<1>9. nullifiers' \subseteq (Eph \X Key) \X Nat
  BY <1>6, <1>7, <1>8 DEF WellFormed, TypeOK
<1>10. SpentAreLeaves'
  <2>1. \A n \in nullifiers' : n[2] \in NoteIndex'
    BY <1>3, <1>6, <1>8 DEF SpentAreLeaves, nullifier
  <2>2. \A k \in DOMAIN log : Inputs(k)' \subseteq NoteIndex' /\ log'[k].outs \subseteq NoteIndex'
    BY <1>3, <1>4 DEF SpentAreLeaves
  <2>3. nextLeafIndex .. nextLeafIndex + Len(outs) - 1 \subseteq NoteIndex'
    BY <1>1, <1>2, <1>3 DEF NoteIndex
  <2>4. \A k \in {new} : Inputs(k)' \subseteq NoteIndex' /\ log'[k].outs \subseteq NoteIndex'
    BY <1>2, <1>3, <1>4, <2>3
  <2> HIDE DEF new
  <2> QED BY <1>4, <2>1, <2>2, <2>4 DEF SpentAreLeaves
<1>11. \A i \in In : ~ \E k \in DOMAIN log : i \in Inputs(k)
  <2>1. \A p \in DOMAIN ins : ~ isSpent(ins[p])
    BY <1>6 DEF isSpent
  <2> QED BY <1>2, <2>1 DEF NoDoubleSpend
<1>12. \A k, l \in DOMAIN log' : k # l => Inputs(k)' \cap Inputs(l)' = {}
  <2> SUFFICES ASSUME NEW k \in DOMAIN log', NEW l \in DOMAIN log', k # l
               PROVE  Inputs(k)' \cap Inputs(l)' = {}
    OBVIOUS
  <2> HIDE DEF new, In
  <2>1. CASE k \in DOMAIN log /\ l \in DOMAIN log
    BY <1>4, <2>1 DEF NoDoubleSpend
  <2>2. CASE k \in DOMAIN log /\ l = new
    BY <1>4, <1>11, <2>2
  <2>3. CASE k = new /\ l \in DOMAIN log
    BY <1>4, <1>11, <2>3
  <2> QED BY <1>4, <2>1, <2>2, <2>3
<1>13. \A i \in NoteIndex' : isSpent(i)' <=> \E k \in DOMAIN log' : i \in Inputs(k)'
  <2> SUFFICES ASSUME NEW i \in NoteIndex'
               PROVE  isSpent(i)' <=> \E k \in DOMAIN log' : i \in Inputs(k)'
    OBVIOUS
  <2>1. isSpent(i)' <=> <<psi(Leaf(i)'), i>> \in nullifiers'
    BY DEF isSpent, nullifier, psi
  <2>2. (\E k \in DOMAIN log' : i \in Inputs(k)')
           <=> (i \in In \/ \E k \in DOMAIN log : i \in Inputs(k))
    <3> HIDE DEF new, In
    <3> QED BY <1>4
  <2>3. CASE i \in NoteIndex
    <3>1. Leaf(i)' = Leaf(i)
      BY <1>1, <1>3, <2>3 DEF NoteIndex
    <3>2. isSpent(i)' <=> isSpent(i) \/ \E p \in DOMAIN ins : nf(p) = <<psi(Leaf(i)), i>>
      BY <1>6, <2>1, <3>1 DEF isSpent, nullifier
    <3>3. (\E p \in DOMAIN ins : nf(p) = <<psi(Leaf(i)), i>>) <=> i \in In
      BY DEF nullifier
    <3>4. isSpent(i) <=> \E k \in DOMAIN log : i \in Inputs(k)
      BY <2>3 DEF NoDoubleSpend
    <3> QED BY <2>2, <3>2, <3>3, <3>4
  <2>4. CASE i \notin NoteIndex
    <3>1. ~ isSpent(i)'
      BY <1>6, <1>8, <2>1, <2>4 DEF SpentAreLeaves, nullifier
    <3>2. i \notin In /\ ~ \E k \in DOMAIN log : i \in Inputs(k)
      BY <1>2, <2>4 DEF SpentAreLeaves
    <3> QED BY <2>2, <3>1, <3>2
  <2> QED BY <2>3, <2>4
<1>14. ComplianceCanOpen'
  <2> SUFFICES ASSUME NEW k \in DOMAIN log', NEW o \in log'[k].outs
               PROVE  Leaf(o)'.key = log'[k].key
    BY DEF ComplianceCanOpen
  <2>1. CASE k \in DOMAIN log
    <3>1. o \in NoteIndex /\ o \in log[k].outs
      BY <1>4, <2>1 DEF SpentAreLeaves
    <3>2. Leaf(o)' = Leaf(o)
      BY <1>1, <1>3, <3>1 DEF NoteIndex
    <3> QED BY <1>4, <2>1, <3>1, <3>2 DEF ComplianceCanOpen
  <2>2. CASE k = new
    <3>1. o \in nextLeafIndex .. nextLeafIndex + Len(outs) - 1
      BY <1>4, <2>2
    <3> DEFINE p == o + 1 - nextLeafIndex
    <3>2. p \in 1 .. Len(outs) /\ nextLeafIndex + p = o + 1
      BY <1>1, <1>2, <3>1
    <3> HIDE DEF p
    <3>3. Leaf(o)' = outs[p]
      BY <1>3, <3>2 DEF Leaf
    <3>4. outs[p].key = compliance.key
      BY <3>2 DEF Executes
    <3> QED BY <1>3, <1>4, <2>2, <3>3, <3>4
  <2> HIDE DEF new
  <2> QED BY <1>4, <2>1, <2>2
<1>15. \A i \in NoteIndex : Leaf(i)' = Leaf(i)
  <2> SUFFICES ASSUME NEW i \in NoteIndex PROVE Leaf(i)' = Leaf(i)
    OBVIOUS
  <2>1. i \in 0 .. nextLeafIndex - 1
    BY <1>1 DEF NoteIndex
  <2> QED BY ONLY <1>3, <2>1
<1> HIDE DEF PoolInv
<1> QED
  BY <1>3, <1>4, <1>5, <1>9, <1>10, <1>12, <1>13, <1>14, <1>15 DEF NoDoubleSpend

\* The first of a few numbers in a row.
LEMMA MinOfRow == ASSUME NEW s \in Nat PROVE Min(s .. s + 3) = s
<1> DEFINE P(x) == x \in s .. s + 3 /\ \A y \in s .. s + 3 : x <= y
<1>1. P(s)
  OBVIOUS
<1>2. \A x : P(x) => x = s
  OBVIOUS
<1>3. Min(s .. s + 3) = CHOOSE x : P(x)
  BY DEF Min
<1> HIDE DEF P
<1> QED BY <1>1, <1>2, <1>3

\* KageSettlesIntent, with the row of a swap's outputs made explicit.
LEMMA SettlesRow ==
    NoteIndex \subseteq Nat /\ KageShape => (KageSettlesIntent <=> RowsSettle)
<1> SUFFICES ASSUME NoteIndex \subseteq Nat, KageShape,
                    NEW k \in DOMAIN log, NEW s \in NoteIndex, log[k].outs = s .. s + 3
             PROVE  (LET t == log[k].terms
                         taker == Leaf(log[k].ins[1])
                         maker == Leaf(log[k].ins[2])
                         out == [p \in 1 .. 4 |-> Leaf(Min(log[k].outs) + p - 1)] IN
                     /\ log[k].at < t.expiry + TOLERANCE
                     /\ out[2].asset = maker.asset /\ out[2].value = t.expectedReturn
                     /\ taker.value - out[1].value = out[3].value
                     /\ maker.value - out[4].value = out[2].value
                     /\ \E q \in intents : q.input = log[k].ins[1] /\ q.terms = t)
                    <=> SettlesAt(k, s)
  BY DEF KageShape, KageSettlesIntent, RowsSettle
<1>1. s \in Nat /\ Min(log[k].outs) = s
  BY MinOfRow
<1>2. s + 1 - 1 = s /\ s + 2 - 1 = s + 1 /\ s + 3 - 1 = s + 2 /\ s + 4 - 1 = s + 3
  BY <1>1
<1> DEFINE out == [p \in 1 .. 4 |-> Leaf(Min(log[k].outs) + p - 1)]
<1>3. out[1] = Leaf(s) /\ out[2] = Leaf(s + 1) /\ out[3] = Leaf(s + 2) /\ out[4] = Leaf(s + 3)
  BY <1>1, <1>2
<1> HIDE DEF out
<1> QED BY <1>3 DEF SettlesAt, out

\* What a transaction appends tells the truth, and no older record changes.
LEMMA Truthful ==
    ASSUME PoolInv, NEW op \in Op, NEW ins \in Seq(NoteIndex), NEW outs \in Seq(Note),
           NEW terms \in Terms, Executes(op, ins, outs, terms), intents' = intents
    PROVE  ParentsTellTruth' /\ KageShape' /\ KageSettlesIntent'
<1> DEFINE new == Len(log) + 1
           In == {ins[p] : p \in DOMAIN ins}
<1>0. PICK n \in Nat : n = nextLeafIndex
  BY DEF PoolInv, WellFormed, TypeOK, nextLeafIndex
<1>1. n >= 1 /\ NoteIndex = 1 .. n - 1
  BY <1>0 DEF PoolInv, WellFormed, NoteIndex
<1>2. WellFormed /\ Len(outs) \in Nat /\ ins \in Seq(Nat) /\ In \subseteq NoteIndex
  <2>1. Len(ins) \in Nat /\ ins \in [1 .. Len(ins) -> NoteIndex]
    OBVIOUS
  <2>2. ins \in [1 .. Len(ins) -> Nat]
    BY <1>1, <2>1
  <2> QED BY <2>1, <2>2 DEF PoolInv
<1>3. /\ nextLeafIndex' = n + Len(outs)
      /\ NoteIndex \subseteq NoteIndex'
      /\ \A i \in 0 .. n - 1 : Leaf(i)' = Leaf(i)
      /\ \A p \in 1 .. Len(outs) : leaves'[n + p] = outs[p]
  BY <1>0, <1>2, Appending DEF Executes
<1>4. \A i \in NoteIndex : Leaf(i)' = Leaf(i)
  BY <1>1, <1>3
<1>5. /\ DOMAIN log' = DOMAIN log \cup {new}
      /\ \A k \in DOMAIN log : log'[k] = log[k] /\ Inputs(k)' = Inputs(k)
      /\ \A k \in {new} : Inputs(k)' = In
      /\ log'[new] = [op |-> op, ins |-> ins, outs |-> n .. n + Len(outs) - 1,
                      at |-> now, key |-> compliance.key, terms |-> terms]
  BY <1>0, <1>2, Emitting DEF Executes
<1>6. \A k \in DOMAIN log : Inputs(k) \subseteq NoteIndex /\ log[k].outs \subseteq NoteIndex
  BY DEF PoolInv, SpentAreLeaves
<1>7. \A p \in 1 .. Len(outs) : Leaf(n + p - 1)' = outs[p]
  <2> SUFFICES ASSUME NEW p \in 1 .. Len(outs) PROVE leaves'[n + p - 1 + 1] = outs[p]
    BY DEF Leaf
  <2>1. n + p - 1 + 1 = n + p
    BY <1>1
  <2> QED BY <1>3, <2>1
<1> HIDE DEF new, In
<1>8. ParentsTellTruth'
  <2> SUFFICES ASSUME NEW k \in DOMAIN log', NEW o \in log'[k].outs
               PROVE  TellsTruth(k, o)'
    BY DEF ParentsTellTruth, TellsTruth
  <2>1. CASE k \in DOMAIN log
    <3>1. TellsTruth(k, o) /\ o \in NoteIndex
      BY <1>5, <1>6, <2>1 DEF PoolInv, ParentsTellTruth, TellsTruth
    <3> QED BY <1>3, <1>4, <1>5, <2>1, <3>1 DEF TellsTruth
  <2>2. CASE k = new
    <3>1. o \in n .. n + Len(outs) - 1
      <4>1. log'[k].outs = n .. n + Len(outs) - 1
        BY <1>5, <2>2
      <4> QED BY <4>1
    <3> DEFINE p == o + 1 - n
    <3>2. p \in 1 .. Len(outs) /\ n + p - 1 = o
      BY <1>1, <1>2, <3>1
    <3> HIDE DEF p
    <3>3. Leaf(o)' = outs[p] /\ p \in DOMAIN outs
      <4>1. DOMAIN outs = 1 .. Len(outs)
        OBVIOUS
      <4>2. Leaf(n + p - 1)' = outs[p]
        BY <1>7, <3>2
      <4> QED BY <3>2, <4>1, <4>2
    <3>4. \A i \in In : i \in NoteIndex' /\ i < o
      BY <1>1, <1>2, <1>3, <3>1
    <3>5. HonestParents(op, ins, outs)
      BY DEF Executes
    <3>6. log'[k].op = op /\ Inputs(k)' = In
      BY <1>5, <2>2
    <3> DEFINE q == outs[p].parents
               named == {q[1], q[2]} \ {0}
    <3>7. /\ q = PARENTS_NONE <=> op \in {"deposit", "claim"}
          /\ q = PARENTS_HIDDEN => op = "transfer"
          /\ q \notin {PARENTS_NONE, PARENTS_HIDDEN} => named \subseteq In
          /\ op = "join" => named = In
      BY <3>3, <3>5 DEF HonestParents, In
    <3>8. q \notin {PARENTS_NONE, PARENTS_HIDDEN} =>
            named \subseteq NoteIndex' /\ \A i \in named : i < o
      BY <3>4, <3>7
    <3>9. Leaf(o)'.parents = q
      BY <3>3
    <3> HIDE DEF q
    <3> QED BY <3>6, <3>7, <3>8, <3>9 DEF TellsTruth
  <2> QED BY <1>5, <2>1, <2>2
<1>9. ASSUME op = "kage"
      PROVE  /\ DOMAIN ins = 1 .. 2 /\ n \in NoteIndex' /\ n + 3 \in NoteIndex'
             /\ log'[new].outs = n .. n + 3
             /\ Leaf(n)' = outs[1] /\ Leaf(n + 1)' = outs[2]
             /\ Leaf(n + 2)' = outs[3] /\ Leaf(n + 3)' = outs[4]
             /\ Settles(ins, outs, terms)
  <2>1. Settles(ins, outs, terms) /\ Len(ins) = 2 /\ Len(outs) = 4
    BY <1>9 DEF Executes, Settles
  <2>2. log'[new].outs = n .. n + 3
    <3>1. n + 4 - 1 = n + 3
      BY <1>1
    <3> QED BY <1>5, <2>1, <3>1
  <2>3. n \in NoteIndex' /\ n + 3 \in NoteIndex'
    BY <1>1, <1>3, <2>1 DEF NoteIndex
  <2>4. Leaf(n)' = outs[1] /\ Leaf(n + 1)' = outs[2] /\ Leaf(n + 2)' = outs[3] /\ Leaf(n + 3)' = outs[4]
    <3>1. n + 1 - 1 = n /\ n + 2 - 1 = n + 1 /\ n + 3 - 1 = n + 2 /\ n + 4 - 1 = n + 3
      BY <1>1
    <3>2. /\ Leaf(n + 1 - 1)' = outs[1] /\ Leaf(n + 2 - 1)' = outs[2]
          /\ Leaf(n + 3 - 1)' = outs[3] /\ Leaf(n + 4 - 1)' = outs[4]
      BY <1>7, <2>1
    <3> QED BY <3>1, <3>2
  <2>5. DOMAIN ins = 1 .. 2
    BY <2>1
  <2> QED BY <2>1, <2>2, <2>3, <2>4, <2>5
<1>10. KageShape'
  <2> SUFFICES ASSUME NEW k \in DOMAIN log', log'[k].op = "kage"
               PROVE  /\ DOMAIN log'[k].ins = 1 .. 2
                      /\ \E s \in NoteIndex' : s + 3 \in NoteIndex' /\ log'[k].outs = s .. s + 3
    BY DEF KageShape
  <2>1. CASE k \in DOMAIN log
    BY <1>3, <1>5, <2>1 DEF PoolInv, KageShape
  <2>2. CASE k = new
    <3>1. log'[k].ins = ins /\ op = "kage"
      BY <1>5, <2>2
    <3> QED BY <1>9, <2>2, <3>1
  <2> QED BY <1>5, <2>1, <2>2
<1>11. NoteIndex \subseteq Nat /\ NoteIndex' \subseteq Nat
  BY <1>1, <1>2, <1>3 DEF NoteIndex
<1>12. ASSUME NEW k \in DOMAIN log', log'[k].op = "kage",
              NEW s \in NoteIndex', log'[k].outs = s .. s + 3
       PROVE  SettlesAt(k, s)'
  <2> s \in Nat
    BY <1>11
  <2>1. CASE k \in DOMAIN log
    <3>1. log'[k] = log[k] /\ log[k].op = "kage" /\ log[k].outs = s .. s + 3
      BY <1>5, <1>12, <2>1
    <3>2. s \in NoteIndex /\ s + 1 \in NoteIndex /\ s + 2 \in NoteIndex /\ s + 3 \in NoteIndex
      <4>1. {s, s + 1, s + 2, s + 3} \subseteq log[k].outs
        BY <3>1
      <4> QED BY <1>6, <2>1, <4>1
    <3>3. SettlesAt(k, s)
      BY <1>11, <2>1, <3>1, <3>2, SettlesRow DEF PoolInv, RowsSettle
    <3>4. DOMAIN log[k].ins = 1 .. 2
      BY <2>1, <3>1 DEF PoolInv, KageShape
    <3>5. log[k].ins[1] \in NoteIndex /\ log[k].ins[2] \in NoteIndex
      BY <1>6, <2>1, <3>4 DEF Inputs
    <3>6. Leaf(log[k].ins[1])' = Leaf(log[k].ins[1]) /\ Leaf(log[k].ins[2])' = Leaf(log[k].ins[2])
      <4>1. PICK a \in NoteIndex, b \in NoteIndex : a = log[k].ins[1] /\ b = log[k].ins[2]
        BY <3>5
      <4>2. Leaf(a)' = Leaf(a) /\ Leaf(b)' = Leaf(b)
        BY <1>4
      <4> QED BY <3>1, <4>1, <4>2 DEF Leaf
    <3>7. /\ Leaf(s)' = Leaf(s) /\ Leaf(s + 1)' = Leaf(s + 1)
          /\ Leaf(s + 2)' = Leaf(s + 2) /\ Leaf(s + 3)' = Leaf(s + 3)
      BY <1>4, <3>2
    <3> QED BY <3>1, <3>3, <3>6, <3>7 DEF SettlesAt, Leaf
  <2>2. CASE k = new
    <3>1. /\ log'[k].ins = ins /\ log'[k].terms = terms /\ log'[k].at = now
          /\ op = "kage"
      BY <1>5, <1>12, <2>2
    <3>2. s = n
      <4>1. n .. n + 3 = s .. s + 3
        BY <1>9, <1>12, <2>2, <3>1
      <4> QED BY <1>1, <4>1
    <3>3. ins[1] \in NoteIndex /\ ins[2] \in NoteIndex
      <4>1. 1 \in DOMAIN ins /\ 2 \in DOMAIN ins
        BY <1>9, <3>1
      <4> QED BY <4>1
    <3>4. Leaf(ins[1])' = Leaf(ins[1]) /\ Leaf(ins[2])' = Leaf(ins[2])
      BY <1>4, <3>3
    <3> QED BY <1>9, <2>2, <3>1, <3>2, <3>4 DEF Settles, SettlesAt, Leaf
  <2> QED BY <1>5, <2>1, <2>2
<1>13. KageSettlesIntent'
  <2>1. RowsSettle'
    BY <1>12 DEF RowsSettle
  <2>2. (NoteIndex \subseteq Nat /\ KageShape => (KageSettlesIntent <=> RowsSettle))'
    BY SettlesRow, PTL
  <2> QED BY <1>10, <1>11, <2>1, <2>2
<1> QED BY <1>8, <1>10, <1>13

\* A transaction that also types the other variables keeps the invariant.
LEMMA TransactionKeepsInv ==
    ASSUME PoolInv, ExecutesSome, RestTyped', intents' = intents
    PROVE  PoolInv'
<1>1. PICK op \in Op, ins \in Seq(NoteIndex), outs \in Seq(Note), terms \in Terms :
         Executes(op, ins, outs, terms)
  BY DEF ExecutesSome
<1>2. /\ leaves' \in Seq(Note \cup {GENESIS})
      /\ nextLeafIndex' >= 1 /\ Leaf(0)' = GENESIS
      /\ \A i \in NoteIndex' : Leaf(i)' \in Note
      /\ NoteIndex \subseteq NoteIndex'
      /\ \A i \in NoteIndex : Leaf(i)' = Leaf(i)
      /\ nullifiers' \subseteq (Eph \X Key) \X Nat
      /\ log' \in Seq(Tx)
      /\ SpentAreLeaves' /\ NoDoubleSpend' /\ ComplianceCanOpen'
  BY <1>1, Transaction
<1>3. TypeOK'
  BY <1>2 DEF PoolInv, WellFormed, TypeOK, RestTyped
<1>4. \A t \in intents' : IntentHonest(t)'
  BY <1>2 DEF PoolInv, WellFormed, IntentHonest
<1>5. WellFormed'
  BY <1>2, <1>3, <1>4 DEF WellFormed, RestTyped
<1>6. ParentsTellTruth' /\ KageShape' /\ KageSettlesIntent'
  BY <1>1, Truthful
<1> QED
  BY <1>2, <1>5, <1>6 DEF PoolInv

\* A step that leaves tree, nullifiers, memos and log alone, and forgets no
\* intent, keeps the invariant.
LEMMA NoTransaction ==
    ASSUME PoolInv, UNCHANGED chainVars, TypeOK', intents \subseteq intents',
           \A t \in intents' : IntentHonest(t)
    PROVE  PoolInv'
<1>1. leaves' = leaves /\ nullifiers' = nullifiers /\ log' = log /\ memos' = memos
  BY DEF chainVars
<1>2. /\ nextLeafIndex' = nextLeafIndex /\ NoteIndex' = NoteIndex
      /\ \A i : Leaf(i)' = Leaf(i) /\ isSpent(i)' = isSpent(i)
      /\ \A k : Inputs(k)' = Inputs(k)
  BY <1>1 DEF nextLeafIndex, NoteIndex, Leaf, isSpent, nullifier, psi, Inputs
<1>3. WellFormed'
  BY <1>1, <1>2 DEF PoolInv, WellFormed, IntentHonest
<1>4. SpentAreLeaves'
  BY <1>1, <1>2 DEF PoolInv, SpentAreLeaves
<1>5. NoDoubleSpend'
  BY <1>1, <1>2 DEF PoolInv, NoDoubleSpend
<1>6. ComplianceCanOpen'
  BY <1>1, <1>2 DEF PoolInv, ComplianceCanOpen
<1>7. ParentsTellTruth'
  BY <1>1, <1>2 DEF PoolInv, ParentsTellTruth
<1>8. KageShape'
  BY <1>1, <1>2 DEF PoolInv, KageShape
<1>9. KageSettlesIntent'
  BY <1>1, <1>2 DEF PoolInv, KageSettlesIntent
<1> QED BY <1>3, <1>4, <1>5, <1>6, <1>7, <1>8, <1>9 DEF PoolInv

-----------------------------------------------------------------------------
(***************************************************************************)
(* The entrypoints, one by one.                                            *)
(***************************************************************************)

\* Only a note of the tree can be opened by a spend circuit.
LEMMA Spendable ==
    ASSUME PoolInv, NEW type, NEW i \in LeafIndex, verify_spend(i, type)
    PROVE  i \in NoteIndex /\ Leaf(i) \in Note /\ Leaf(i).type = type
<1> USE DEF PoolInv, WellFormed
<1>1. i \in Nat /\ i < nextLeafIndex /\ nextLeafIndex \in Nat
  BY TreeAssumption DEF TypeOK, verify_spend, rootsOver, isKnownRoot, nextLeafIndex, LeafIndex
<1>2. i # 0
  BY DEF verify_spend
<1>3. i \in NoteIndex
  BY <1>1, <1>2 DEF NoteIndex
<1> QED BY <1>3 DEF verify_spend

\* The notes the circuits mint are notes, under the key the call names.
LEMMA Minted ==
    ASSUME NEW n \in Note, NEW a \in Asset, NEW v \in 0 .. MAX_U128, NEW o \in Owner,
           NEW e \in Eph, NEW k \in Key, NEW p \in Parents
    PROVE  /\ mint_self_note(n, a, v, o, e, k, p) \in Note
           /\ mint_self_note(n, a, v, o, e, k, p).key = k
BY DEF mint_self_note, Note

\* The same for the memo note of a transfer.
LEMMA MintedIncoming ==
    ASSUME NEW n \in Note, NEW v \in 0 .. MAX_U128, NEW o \in Owner,
           NEW ty \in NoteType, NEW e \in Eph, NEW k \in Key
    PROVE  /\ mint_incoming_note(n, v, o, ty, e, k) \in Note
           /\ mint_incoming_note(n, v, o, ty, e, k).key = k
<1>1. PARENTS_HIDDEN \in Parents
  BY DEF PARENTS_HIDDEN, Parents
<1> QED
  BY <1>1 DEF mint_incoming_note, Note

\* Packed parents are a pair of leaf indices.
LEMMA Bound == ASSUME NEW i \in Nat, NEW j \in Nat
               PROVE  assert_parents_bound(i, j) \in Parents
BY DEF assert_parents_bound, Parents

\* A spend of type's circuits may only name owners that exist.
LEMMA SelfOwners == ASSUME NEW n \in Note PROVE selfOwners(n) \subseteq Owner
BY DEF selfOwners, Note

\* deposit and publicClaim call _spendNullifier for no leaf.
LEMMA NothingSpent == ASSUME nullifiers' = nullifiers PROVE _spendNullifier(<<>>)
BY DEF _spendNullifier

\* A spend's outputs name one of its inputs, or hide it when it is a transfer.
LEMMA NamesInputs ==
    ASSUME PoolInv, NEW op, op \notin {"deposit", "claim", "join"},
           NEW ins \in Seq(NoteIndex), NEW outs \in Seq(Note),
           \A p \in DOMAIN outs :
              \/ \E r \in DOMAIN ins : outs[p].parents = <<ins[r], 0>>
              \/ /\ op = "transfer" /\ outs[p].parents = PARENTS_HIDDEN
                 /\ p + 1 \in DOMAIN outs
                 /\ \E r \in DOMAIN ins : outs[p + 1].parents = <<ins[r], 0>>
    PROVE  HonestParents(op, ins, outs)
<1>0. ASSUME NEW r \in DOMAIN ins, NEW q, q = <<ins[r], 0>>
      PROVE  /\ q \notin {PARENTS_NONE, PARENTS_HIDDEN} /\ q[1] # 0
             /\ {q[1], q[2]} \ {0} \subseteq {ins[s] : s \in DOMAIN ins}
  <2>1. \A i \in NoteIndex : i \in Nat /\ i # 0
    BY DEF NoteIndex
  <2>2. ins[r] \in NoteIndex
    OBVIOUS
  <2> QED BY <1>0, <2>1, <2>2 DEF PARENTS_NONE, PARENTS_HIDDEN
<1> SUFFICES ASSUME NEW p \in DOMAIN outs, NEW q, q = outs[p].parents
             PROVE  /\ q # PARENTS_NONE
                    /\ q = PARENTS_HIDDEN =>
                         op = "transfer" /\ p + 1 \in DOMAIN outs /\ NamesParents(outs[p + 1])
                    /\ q # PARENTS_HIDDEN =>
                         /\ {q[1], q[2]} \ {0} \subseteq {ins[r] : r \in DOMAIN ins}
                         /\ q[1] # 0
  BY DEF HonestParents
<1>1. CASE /\ op = "transfer" /\ q = PARENTS_HIDDEN
           /\ p + 1 \in DOMAIN outs
           /\ \E r \in DOMAIN ins : outs[p + 1].parents = <<ins[r], 0>>
  <2>1. NamesParents(outs[p + 1])
    BY <1>0, <1>1 DEF NamesParents
  <2>2. PARENTS_HIDDEN # PARENTS_NONE
    BY DEF PARENTS_HIDDEN, PARENTS_NONE
  <2> QED BY <1>1, <2>1, <2>2
<1>2. CASE \E r \in DOMAIN ins : q = <<ins[r], 0>>
  BY <1>0, <1>2
<1> QED BY <1>1, <1>2

\* What a note or a memo is worth is a number.
LEMMA ValNat == ASSUME NEW n \in Note \cup Memo, NEW a PROVE val(n, a) \in Nat
BY BoundsAssumption DEF val, Note, Memo

\* A sequence of notes is worth a number.
LEMMA SumOfNat ==
    ASSUME NEW s \in Seq(Note), NEW a
    PROVE  SumOf(s, a) \in Nat
<1> DEFINE v == [p \in DOMAIN s |-> val(s[p], a)]
<1>1. IsFiniteSet(DOMAIN s)
  BY FS_Interval
<1>2. \A p \in DOMAIN s : v[p] \in Nat
  BY ValNat
<1> HIDE DEF v
<1>3. Total(v, DOMAIN s) \in Nat
  BY <1>1, <1>2, TotalNat
<1> QED BY <1>3 DEF SumOf, v

\* What sequences of one, two and four notes are worth.
LEMMA SumOfOne ==
    ASSUME NEW s, DOMAIN s = {1}, NEW a, s[1] \in Note
    PROVE  SumOf(s, a) = val(s[1], a)
<1> DEFINE v == [p \in DOMAIN s |-> val(s[p], a)]
<1>1. v[1] = val(s[1], a) /\ v[1] \in Nat
  BY ValNat
<1> HIDE DEF v
<1> QED BY <1>1, TotalOne DEF SumOf, v

\* The same for two notes.
LEMMA SumOfTwo ==
    ASSUME NEW s, DOMAIN s = {1, 2}, NEW a, s[1] \in Note, s[2] \in Note
    PROVE  SumOf(s, a) = val(s[1], a) + val(s[2], a)
<1> DEFINE v == [p \in DOMAIN s |-> val(s[p], a)]
<1>1. v[1] = val(s[1], a) /\ v[1] \in Nat /\ v[2] = val(s[2], a) /\ v[2] \in Nat
  BY ValNat
<1> HIDE DEF v
<1>2. Total(v, {1, 2}) = v[1] + v[2]
  <2>1. 1 # 2
    OBVIOUS
  <2> QED BY <1>1, <2>1, TotalTwo
<1> QED BY <1>1, <1>2 DEF SumOf, v

\* The same for four notes.
LEMMA SumOfFour ==
    ASSUME NEW s, DOMAIN s = {1, 2, 3, 4}, NEW a,
           s[1] \in Note, s[2] \in Note, s[3] \in Note, s[4] \in Note
    PROVE  SumOf(s, a) = val(s[1], a) + val(s[2], a) + val(s[3], a) + val(s[4], a)
<1> DEFINE v == [p \in DOMAIN s |-> val(s[p], a)]
<1>1. /\ v[1] = val(s[1], a) /\ v[1] \in Nat /\ v[2] = val(s[2], a) /\ v[2] \in Nat
      /\ v[3] = val(s[3], a) /\ v[3] \in Nat /\ v[4] = val(s[4], a) /\ v[4] \in Nat
  BY ValNat
<1> HIDE DEF v
<1>2. Total(v, {1, 2, 3, 4}) = v[1] + v[2] + v[3] + v[4]
  <2>1. 1 # 2 /\ 3 # 4
    OBVIOUS
  <2>2. Total(v, {1, 2}) = v[1] + v[2] /\ Total(v, {3, 4}) = v[3] + v[4]
    BY <1>1, <2>1, TotalTwo
  <2>3. IsFiniteSet({1, 2}) /\ IsFiniteSet({3, 4}) /\ {1, 2} \cap {3, 4} = {}
    <3>1. IsFiniteSet({1} \cup {2}) /\ IsFiniteSet({3} \cup {4})
      <4>1. IsFiniteSet({1}) /\ IsFiniteSet({3})
        BY FS_Singleton
      <4> QED BY <4>1, FS_AddElement
    <3>2. {1} \cup {2} = {1, 2} /\ {3} \cup {4} = {3, 4} /\ {1, 2} \cap {3, 4} = {}
      OBVIOUS
    <3> QED BY <3>1, <3>2
  <2>4. Total(v, {1, 2} \cup {3, 4}) = Total(v, {1, 2}) + Total(v, {3, 4})
    BY <1>1, <2>3, TotalUnion
  <2>5. {1, 2} \cup {3, 4} = {1, 2, 3, 4}
    OBVIOUS
  <2>6. Total(v, {1, 2}) + Total(v, {3, 4}) = v[1] + v[2] + v[3] + v[4]
    BY <1>1, <2>2
  <2> QED BY <2>4, <2>5, <2>6
<1> QED BY <1>1, <1>2 DEF SumOf, v

\* What the inputs of a transaction are worth.
LEMMA SpentOne ==
    ASSUME NEW i, Leaf(i) \in Note, NEW a
    PROVE  SumOf(Spent(<<i>>), a) = val(Leaf(i), a)
<1>1. DOMAIN Spent(<<i>>) = {1} /\ Spent(<<i>>)[1] = Leaf(i)
  BY DEF Spent
<1> QED BY <1>1, SumOfOne

\* The same for two inputs.
LEMMA SpentTwo ==
    ASSUME NEW i, NEW j, Leaf(i) \in Note, Leaf(j) \in Note, NEW a
    PROVE  SumOf(Spent(<<i, j>>), a) = val(Leaf(i), a) + val(Leaf(j), a)
<1>1. /\ DOMAIN Spent(<<i, j>>) = {1, 2}
      /\ Spent(<<i, j>>)[1] = Leaf(i) /\ Spent(<<i, j>>)[2] = Leaf(j)
  BY DEF Spent
<1> QED BY <1>1, SumOfTwo

\* Nothing is worth nothing.
LEMMA WorthNothing ==
    ASSUME NEW a
    PROVE  SumOf(<<>>, a) = 0 /\ SumOf(Spent(<<>>), a) = 0 /\ MemoSum({}, a) = 0
<1>1. DOMAIN <<>> = {} /\ DOMAIN Spent(<<>>) = {}
  BY DEF Spent
<1> QED BY <1>1, TotalEmpty DEF SumOf, MemoSum

\* Where no memo moves, the notes and the balances alone must agree.
LEMMA NotesConserve ==
    ASSUME PoolInv, UNCHANGED <<memos, memosSpent>>, NEW ins \in Seq(NoteIndex),
           NEW outs \in Seq(Note), balance' \in [Asset -> Nat],
           \A a \in Asset : /\ SumOf(Spent(ins), a) \in Nat
                            /\ balance'[a] + SumOf(Spent(ins), a) = balance[a] + SumOf(outs, a)
    PROVE  Conserves(ins, outs)
<1>1. memos' \ memos = {} /\ memosSpent' \ memosSpent = {} /\ memosSpent \subseteq memos
  BY DEF PoolInv, WellFormed, TypeOK
<1>2. balance \in [Asset -> Nat]
  BY DEF PoolInv, WellFormed, TypeOK
<1> QED BY <1>1, <1>2, WorthNothing, SumOfNat DEF Conserves

\* Introduces the witnesses of ExecutesSome.
LEMMA Executed ==
    ASSUME NEW op \in Op, NEW ins \in Seq(NoteIndex), NEW outs \in Seq(Note),
           NEW terms \in Terms, Executes(op, ins, outs, terms), Conserves(ins, outs)
    PROVE  ExecutesSome
BY DEF ExecutesSome

\* deposit appends one note for what it pulls in and spends nothing.
LEMMA depositStep ==
    ASSUME PoolInv, NEW d \in DepositTerms, NEW eph \in Eph, NEW key \in Key,
           deposit(d, eph, key)
    PROVE  ExecutesSome /\ RestTyped' /\ intents' = intents
<1> DEFINE n == [asset |-> d.asset, value |-> d.value, owner |-> d.owner, type |-> d.type,
                 eph |-> eph, key |-> key, parents |-> PARENTS_NONE]
<1>1. d \in Funding
  BY DataAssumption
<1>2. n \in Note /\ n.key = compliance.key
  BY <1>1 DEF Funding, Note, Parents, PARENTS_NONE, deposit, _verifyComplianceKey
<1>3. _spendNullifier(<<>>)
  BY NothingSpent DEF deposit
<1>4. leaves' = leaves \o <<n>> /\ emit("deposit", <<>>, Len(<<n>>), NoTerms)
  BY DEF deposit, insert
<1>5. n.parents = PARENTS_NONE /\ n.asset = d.asset /\ n.value = d.value
  OBVIOUS
<1> HIDE DEF n
<1>6. Executes("deposit", <<>>, <<n>>, NoTerms)
  <2>1. HonestParents("deposit", <<>>, <<n>>)
    BY <1>5 DEF HonestParents, PARENTS_NONE, PARENTS_HIDDEN
  <2> QED BY <1>2, <1>3, <1>4, <2>1 DEF Executes
<1>7. balance \in [Asset -> Nat] /\ balance' = [balance EXCEPT ![d.asset] = @ + d.value]
  BY DEF deposit, pull, PoolInv, WellFormed, TypeOK
<1>8. balance' \in [Asset -> Nat] /\ d.asset \in Asset /\ d.value \in Nat
  BY <1>1, <1>7, BoundsAssumption DEF Funding
<1>9. Conserves(<<>>, <<n>>)
  <2>1. \A a \in Asset : /\ SumOf(<<n>>, a) = val(n, a)
                         /\ SumOf(Spent(<<>>), a) = 0
    BY <1>2, SumOfOne, WorthNothing
  <2>2. \A a \in Asset : balance'[a] = balance[a] + val(n, a)
    BY <1>5, <1>7, <1>8 DEF val
  <2>3. <<>> \in Seq(NoteIndex) /\ <<n>> \in Seq(Note) /\ UNCHANGED <<memos, memosSpent>>
    BY <1>2 DEF deposit
  <2>4. \A a \in Asset : /\ SumOf(Spent(<<>>), a) \in Nat
                         /\ balance'[a] + SumOf(Spent(<<>>), a) = balance[a] + SumOf(<<n>>, a)
    BY <1>8, <2>1, <2>2
  <2> QED BY <1>8, <2>3, <2>4, NotesConserve
<1>10. ExecutesSome
  <2>1. "deposit" \in Op /\ NoTerms \in Terms
    BY DEF Op, Terms
  <2>2. <<>> \in Seq(NoteIndex) /\ <<n>> \in Seq(Note)
    BY <1>2
  <2> QED BY <1>6, <1>9, <2>1, <2>2, Executed
<1> QED
  BY <1>8, <1>10 DEF deposit, adminVars, RestTyped, PoolInv, WellFormed, TypeOK

\* withdraw spends one note, appends its change, and pays out the difference.
LEMMA withdrawStep ==
    ASSUME PoolInv, NEW type \in NoteType, NEW i \in LeafIndex, NEW value \in 0 .. MAX_U128,
           NEW recipient, NEW key \in Key, withdraw(type, i, value, recipient, key)
    PROVE  ExecutesSome /\ RestTyped' /\ intents' = intents
<1>1. i \in NoteIndex /\ Leaf(i) \in Note /\ i \in Nat
  BY Spendable, TreeAssumption DEF withdraw, LeafIndex
<1>2. PICK change \in 0 .. MAX_U128, owner \in selfOwners(Leaf(i)), eph \in Eph :
         /\ assert_conserved(Leaf(i).value, change + value)
         /\ insert(<<mint_self_note(Leaf(i), Leaf(i).asset, change, owner, eph, key,
                                    assert_parents_bound(i, 0))>>)
  BY DEF withdraw
<1> DEFINE n == mint_self_note(Leaf(i), Leaf(i).asset, change, owner, eph, key,
                               assert_parents_bound(i, 0))
<1>3. n \in Note /\ n.key = key
  <2>1. Leaf(i).asset \in Asset /\ owner \in Owner /\ assert_parents_bound(i, 0) \in Parents
    BY <1>1, <1>2, SelfOwners, Bound DEF Note
  <2> QED BY <1>1, <1>2, <2>1, Minted
<1>4. n.parents = <<i, 0>> /\ n.asset = Leaf(i).asset /\ n.value = change
  BY DEF mint_self_note, assert_parents_bound
<1> HIDE DEF n
<1>5. leaves' = leaves \o <<n>> /\ emit("withdraw", <<i>>, Len(<<n>>), NoTerms)
  BY <1>2 DEF withdraw, insert, n
<1>6. <<i>> \in Seq(NoteIndex) /\ <<n>> \in Seq(Note)
  BY <1>1, <1>3
<1>7. Executes("withdraw", <<i>>, <<n>>, NoTerms)
  <2>1. HonestParents("withdraw", <<i>>, <<n>>)
    <3>1. \A p \in DOMAIN <<n>> : \E r \in DOMAIN <<i>> : <<n>>[p].parents = <<(<<i>>)[r], 0>>
      BY <1>4
    <3> QED BY <1>6, <3>1, NamesInputs
  <2> QED BY <1>3, <1>5, <2>1 DEF Executes, withdraw, _verifyComplianceKey
<1>8. /\ balance \in [Asset -> Nat] /\ balance[Leaf(i).asset] >= value
      /\ balance' = [balance EXCEPT ![Leaf(i).asset] = @ - value]
      /\ Leaf(i).asset \in Asset /\ value \in Nat /\ change \in Nat
      /\ Leaf(i).value = change + value
  BY <1>1, <1>2, BoundsAssumption
     DEF withdraw, PoolInv, WellFormed, TypeOK, Note, assert_conserved
<1>9. balance' \in [Asset -> Nat]
  BY <1>8
<1>10. Conserves(<<i>>, <<n>>)
  <2>1. \A a \in Asset : /\ SumOf(<<n>>, a) = val(n, a)
                         /\ SumOf(Spent(<<i>>), a) = val(Leaf(i), a)
    BY <1>1, <1>3, SumOfOne, SpentOne
  <2>2. \A a \in Asset : balance'[a] + val(Leaf(i), a) = balance[a] + val(n, a)
    BY <1>4, <1>8 DEF val
  <2>3. \A a \in Asset : val(Leaf(i), a) \in Nat
    BY <1>1, ValNat
  <2>4. UNCHANGED <<memos, memosSpent>>
    BY DEF withdraw
  <2> QED BY <1>6, <1>9, <2>1, <2>2, <2>3, <2>4, NotesConserve
<1>11. ExecutesSome
  <2>1. "withdraw" \in Op /\ NoTerms \in Terms
    BY DEF Op, Terms
  <2> QED BY <1>6, <1>7, <1>10, <2>1, Executed
<1> QED
  BY <1>9, <1>11 DEF withdraw, adminVars, RestTyped, PoolInv, WellFormed, TypeOK

\* privateTransfer spends one note and appends memo and change.
LEMMA privateTransferStep ==
    ASSUME PoolInv, NEW type \in NoteType, NEW i \in LeafIndex, NEW key \in Key,
           privateTransfer(type, i, key)
    PROVE  ExecutesSome /\ RestTyped' /\ intents' = intents
<1>1. i \in NoteIndex /\ Leaf(i) \in Note /\ i \in Nat
  BY Spendable, TreeAssumption DEF privateTransfer, LeafIndex
<1>2. PICK value \in 0 .. MAX_U128, change \in 0 .. MAX_U128, to \in Owner,
           toType \in NoteType, owner \in selfOwners(Leaf(i)), e \in Eph, f \in Eph :
         /\ assert_conserved(Leaf(i).value, value + change)
         /\ insert(<<mint_incoming_note(Leaf(i), value, to, toType, e, key),
                     mint_self_note(Leaf(i), Leaf(i).asset, change, owner, f, key,
                                    assert_parents_bound(i, 0))>>)
  BY DEF privateTransfer
<1> DEFINE m == mint_incoming_note(Leaf(i), value, to, toType, e, key)
           n == mint_self_note(Leaf(i), Leaf(i).asset, change, owner, f, key,
                               assert_parents_bound(i, 0))
<1>3. Leaf(i).asset \in Asset /\ owner \in Owner /\ assert_parents_bound(i, 0) \in Parents
  BY <1>1, <1>2, SelfOwners, Bound DEF Note
<1>4. n \in Note /\ n.key = key
  BY <1>1, <1>2, <1>3, Minted
<1>5. m \in Note /\ m.key = key
  BY <1>1, <1>2, <1>3, MintedIncoming
<1>6. /\ m.parents = PARENTS_HIDDEN /\ m.asset = Leaf(i).asset /\ m.value = value
      /\ n.parents = <<i, 0>> /\ n.asset = Leaf(i).asset /\ n.value = change
  BY DEF mint_self_note, mint_incoming_note, assert_parents_bound
<1> HIDE DEF m, n
<1>7. leaves' = leaves \o <<m, n>> /\ Len(<<m, n>>) = 2
  BY <1>2 DEF insert, m, n
<1>8. <<i>> \in Seq(NoteIndex) /\ <<m, n>> \in Seq(Note)
  BY <1>1, <1>4, <1>5
<1>9. Executes("transfer", <<i>>, <<m, n>>, NoTerms)
  <2>1. HonestParents("transfer", <<i>>, <<m, n>>)
    <3>1. \A p \in DOMAIN <<m, n>> :
             \/ \E r \in DOMAIN <<i>> : <<m, n>>[p].parents = <<(<<i>>)[r], 0>>
             \/ /\ <<m, n>>[p].parents = PARENTS_HIDDEN
                /\ p + 1 \in DOMAIN <<m, n>>
                /\ \E r \in DOMAIN <<i>> : <<m, n>>[p + 1].parents = <<(<<i>>)[r], 0>>
      <4>1. DOMAIN <<m, n>> = {1, 2} /\ 1 \in DOMAIN <<i>> /\ (<<i>>)[1] = i
        OBVIOUS
      <4>2. <<m, n>>[1].parents = PARENTS_HIDDEN /\ <<m, n>>[2].parents = <<i, 0>> /\ 1 + 1 = 2
        BY <1>6
      <4> QED BY <4>1, <4>2
    <3> QED BY <1>8, <3>1, NamesInputs
  <2> QED BY <1>4, <1>5, <1>7, <2>1 DEF Executes, privateTransfer, _verifyComplianceKey
<1>10. Conserves(<<i>>, <<m, n>>)
  <2>1. Leaf(i).value = value + change /\ value \in Nat /\ change \in Nat
    BY <1>2, BoundsAssumption DEF assert_conserved
  <2>2. \A a \in Asset : val(Leaf(i), a) = val(m, a) + val(n, a) /\ val(Leaf(i), a) \in Nat
    BY <1>6, <2>1 DEF val
  <2>3. \A a \in Asset : /\ SumOf(<<m, n>>, a) = val(m, a) + val(n, a)
                         /\ SumOf(Spent(<<i>>), a) = val(Leaf(i), a)
    BY <1>1, <1>4, <1>5, SumOfTwo, SpentOne
  <2>4. UNCHANGED <<memos, memosSpent>> /\ balance' = balance /\ balance \in [Asset -> Nat]
    BY DEF privateTransfer, PoolInv, WellFormed, TypeOK
  <2> QED BY <1>8, <2>2, <2>3, <2>4, NotesConserve
<1>11. ExecutesSome
  <2>1. "transfer" \in Op /\ NoTerms \in Terms
    BY DEF Op, Terms
  <2> QED BY <1>8, <1>9, <1>10, <2>1, Executed
<1> QED
  BY <1>11 DEF privateTransfer, adminVars, RestTyped, PoolInv, WellFormed, TypeOK

\* join spends two notes and appends one.
LEMMA joinStep ==
    ASSUME PoolInv, NEW type \in NoteType, NEW i \in LeafIndex, NEW j \in LeafIndex,
           NEW key \in Key, join(type, i, j, key)
    PROVE  ExecutesSome /\ RestTyped' /\ intents' = intents
<1>1. i \in NoteIndex /\ Leaf(i) \in Note /\ i \in Nat
  BY Spendable, TreeAssumption DEF join, LeafIndex
<1>2. j \in NoteIndex /\ Leaf(j) \in Note /\ j \in Nat
  BY Spendable, TreeAssumption DEF join, LeafIndex
<1>3. PICK out \in 0 .. MAX_U128, owner \in selfOwners(Leaf(i)), eph \in Eph :
         /\ assert_conserved(Leaf(i).value + Leaf(j).value, out)
         /\ insert(<<mint_self_note(Leaf(i), Leaf(i).asset, out, owner, eph, key,
                                    assert_parents_bound(i, j))>>)
  BY DEF join
<1> DEFINE n == mint_self_note(Leaf(i), Leaf(i).asset, out, owner, eph, key,
                               assert_parents_bound(i, j))
<1>4. Leaf(i).asset \in Asset /\ owner \in Owner /\ assert_parents_bound(i, j) \in Parents
  BY <1>1, <1>2, <1>3, SelfOwners, Bound DEF Note
<1>5. n \in Note /\ n.key = key
  BY <1>1, <1>3, <1>4, Minted
<1>6. n.parents = <<i, j>> /\ n.asset = Leaf(i).asset /\ n.value = out
  BY DEF mint_self_note, assert_parents_bound
<1> HIDE DEF n
<1>7. leaves' = leaves \o <<n>> /\ Len(<<n>>) = 1
  BY <1>3 DEF insert, n
<1>8. <<i, j>> \in Seq(NoteIndex) /\ <<n>> \in Seq(Note)
  BY <1>1, <1>2, <1>5
<1>9. Executes("join", <<i, j>>, <<n>>, NoTerms)
  <2>1. i # 0 /\ j # 0
    BY <1>1, <1>2 DEF NoteIndex
  <2>2. <<i, j>> # PARENTS_NONE /\ <<i, j>> # PARENTS_HIDDEN
    BY <1>1, <2>1 DEF PARENTS_NONE, PARENTS_HIDDEN
  <2>3. {i, j} \ {0} = {<<i, j>>[r] : r \in DOMAIN <<i, j>>}
    BY <2>1
  <2>4. HonestParents("join", <<i, j>>, <<n>>)
    BY <1>6, <2>2, <2>3 DEF HonestParents
  <2> QED BY <1>5, <1>7, <2>4 DEF Executes, join, _verifyComplianceKey
<1>10. Conserves(<<i, j>>, <<n>>)
  <2>1. /\ Leaf(i).value + Leaf(j).value = out /\ Leaf(i).asset = Leaf(j).asset
        /\ Leaf(i).value \in Nat /\ Leaf(j).value \in Nat
    BY <1>1, <1>2, <1>3, BoundsAssumption DEF assert_conserved, join, Note
  <2>2. \A a \in Asset : /\ val(Leaf(i), a) + val(Leaf(j), a) = val(n, a)
                         /\ val(n, a) \in Nat
    BY <1>6, <2>1 DEF val
  <2>3. \A a \in Asset : /\ SumOf(<<n>>, a) = val(n, a)
                         /\ SumOf(Spent(<<i, j>>), a) = val(Leaf(i), a) + val(Leaf(j), a)
    BY <1>1, <1>2, <1>5, SumOfOne, SpentTwo
  <2>4. UNCHANGED <<memos, memosSpent>> /\ balance' = balance /\ balance \in [Asset -> Nat]
    BY DEF join, PoolInv, WellFormed, TypeOK
  <2> QED BY <1>8, <2>2, <2>3, <2>4, NotesConserve
<1>11. ExecutesSome
  <2>1. "join" \in Op /\ NoTerms \in Terms
    BY DEF Op, Terms
  <2> QED BY <1>8, <1>9, <1>10, <2>1, Executed
<1> QED
  BY <1>11 DEF join, adminVars, RestTyped, PoolInv, WellFormed, TypeOK

\* split spends one note and appends two.
LEMMA splitStep ==
    ASSUME PoolInv, NEW type \in NoteType, NEW i \in LeafIndex, NEW key \in Key,
           split(type, i, key)
    PROVE  ExecutesSome /\ RestTyped' /\ intents' = intents
<1>1. i \in NoteIndex /\ Leaf(i) \in Note /\ i \in Nat
  BY Spendable, TreeAssumption DEF split, LeafIndex
<1>2. PICK v \in 0 .. MAX_U128, w \in 0 .. MAX_U128, o \in selfOwners(Leaf(i)),
           p \in selfOwners(Leaf(i)), e \in Eph, f \in Eph :
         /\ assert_conserved(Leaf(i).value, v + w)
         /\ insert(<<mint_self_note(Leaf(i), Leaf(i).asset, v, o, e, key,
                                    assert_parents_bound(i, 0)),
                     mint_self_note(Leaf(i), Leaf(i).asset, w, p, f, key,
                                    assert_parents_bound(i, 0))>>)
  BY DEF split
<1> DEFINE m == mint_self_note(Leaf(i), Leaf(i).asset, v, o, e, key,
                               assert_parents_bound(i, 0))
           n == mint_self_note(Leaf(i), Leaf(i).asset, w, p, f, key,
                               assert_parents_bound(i, 0))
<1>3. /\ Leaf(i).asset \in Asset /\ o \in Owner /\ p \in Owner
      /\ assert_parents_bound(i, 0) \in Parents
  BY <1>1, <1>2, SelfOwners, Bound DEF Note
<1>4. m \in Note /\ m.key = key
  BY <1>1, <1>2, <1>3, Minted
<1>5. n \in Note /\ n.key = key
  BY <1>1, <1>2, <1>3, Minted
<1>6. /\ m.parents = <<i, 0>> /\ m.asset = Leaf(i).asset /\ m.value = v
      /\ n.parents = <<i, 0>> /\ n.asset = Leaf(i).asset /\ n.value = w
  BY DEF mint_self_note, assert_parents_bound
<1> HIDE DEF m, n
<1>7. leaves' = leaves \o <<m, n>> /\ Len(<<m, n>>) = 2
  BY <1>2 DEF insert, m, n
<1>8. <<i>> \in Seq(NoteIndex) /\ <<m, n>> \in Seq(Note)
  BY <1>1, <1>4, <1>5
<1>9. Executes("split", <<i>>, <<m, n>>, NoTerms)
  <2>1. HonestParents("split", <<i>>, <<m, n>>)
    <3>1. \A q \in DOMAIN <<m, n>> : \E r \in DOMAIN <<i>> : <<m, n>>[q].parents = <<(<<i>>)[r], 0>>
      BY <1>6
    <3> QED BY <1>8, <3>1, NamesInputs
  <2> QED BY <1>4, <1>5, <1>7, <2>1 DEF Executes, split, _verifyComplianceKey
<1>10. Conserves(<<i>>, <<m, n>>)
  <2>1. Leaf(i).value = v + w /\ v \in Nat /\ w \in Nat
    BY <1>2, BoundsAssumption DEF assert_conserved
  <2>2. \A a \in Asset : val(Leaf(i), a) = val(m, a) + val(n, a) /\ val(Leaf(i), a) \in Nat
    BY <1>6, <2>1 DEF val
  <2>3. \A a \in Asset : /\ SumOf(<<m, n>>, a) = val(m, a) + val(n, a)
                         /\ SumOf(Spent(<<i>>), a) = val(Leaf(i), a)
    BY <1>1, <1>4, <1>5, SumOfTwo, SpentOne
  <2>4. UNCHANGED <<memos, memosSpent>> /\ balance' = balance /\ balance \in [Asset -> Nat]
    BY DEF split, PoolInv, WellFormed, TypeOK
  <2> QED BY <1>8, <2>2, <2>3, <2>4, NotesConserve
<1>11. ExecutesSome
  <2>1. "split" \in Op /\ NoTerms \in Terms
    BY DEF Op, Terms
  <2> QED BY <1>8, <1>9, <1>10, <2>1, Executed
<1> QED
  BY <1>11 DEF split, adminVars, RestTyped, PoolInv, WellFormed, TypeOK

\* kageSwap spends taker's and maker's note and appends the four of the swap:
\* neither proof sees both values, yet in both assets nothing is lost or made.
LEMMA kageSwapStep ==
    ASSUME PoolInv, NEW t \in intents, NEW j \in LeafIndex, NEW ts \in Time,
           NEW key \in Key, kageSwap(t, j, ts, key)
    PROVE  ExecutesSome /\ RestTyped' /\ intents' = intents
<1>1. j \in NoteIndex /\ Leaf(j) \in Note /\ j \in Nat
  BY Spendable, TreeAssumption DEF kageSwap, settle_swap, LeafIndex
<1>2. t \in Intent /\ IntentHonest(t)
  BY DEF PoolInv, WellFormed, TypeOK
<1>3. /\ t.input \in NoteIndex /\ Leaf(t.input) \in Note
      /\ t.change \in Note /\ t.received \in Note /\ t.terms \in Swap
  BY <1>2 DEF PoolInv, WellFormed, Intent, IntentHonest
<1>4. t.key = key /\ key = compliance.key /\ Leaf(j).asset = t.terms.toAsset
  BY DEF kageSwap, settle_swap, _verifyComplianceKey
<1>5. PICK change \in 0 .. MAX_U128, owner \in Owner, e \in Eph, f \in Eph :
         /\ assert_conserved(Leaf(j).value, t.terms.expectedReturn + change)
         /\ insert(<<t.change, t.received,
                     mint_self_note(Leaf(j), Leaf(t.input).asset, t.terms.fromAmount,
                                    owner, e, key, assert_parents_bound(j, 0)),
                     mint_self_note(Leaf(j), Leaf(j).asset, change,
                                    owner, f, key, assert_parents_bound(j, 0))>>)
  BY DEF kageSwap
<1> DEFINE m == mint_self_note(Leaf(j), Leaf(t.input).asset, t.terms.fromAmount,
                               owner, e, key, assert_parents_bound(j, 0))
           n == mint_self_note(Leaf(j), Leaf(j).asset, change,
                               owner, f, key, assert_parents_bound(j, 0))
           outs == <<t.change, t.received, m, n>>
<1>6. /\ Leaf(j).asset \in Asset /\ Leaf(t.input).asset \in Asset
      /\ t.terms.fromAmount \in 0 .. MAX_U128
      /\ assert_parents_bound(j, 0) \in Parents
  BY <1>1, <1>3, Bound DEF Note, Swap
<1>7. m \in Note /\ m.key = key
  BY <1>1, <1>5, <1>6, Minted
<1>8. n \in Note /\ n.key = key
  BY <1>1, <1>5, <1>6, Minted
<1>9. /\ m.parents = <<j, 0>> /\ m.asset = Leaf(t.input).asset
      /\ m.value = t.terms.fromAmount
      /\ n.parents = <<j, 0>> /\ n.asset = Leaf(j).asset /\ n.value = change
  BY DEF mint_self_note, assert_parents_bound
<1> HIDE DEF m, n
<1>10. leaves' = leaves \o outs
  BY <1>5 DEF insert, m, n
<1>11. <<t.input, j>> \in Seq(NoteIndex) /\ outs \in Seq(Note)
  BY <1>1, <1>3, <1>7, <1>8
<1>12. /\ Leaf(j).value = t.terms.expectedReturn + change
       /\ Leaf(t.input).value = t.change.value + t.terms.fromAmount
       /\ t.received.asset = Leaf(j).asset /\ t.received.value = t.terms.expectedReturn
       /\ t.change.asset = Leaf(t.input).asset
       /\ t.change.parents = <<t.input, 0>> /\ t.received.parents = <<t.input, 0>>
       /\ change \in Nat /\ t.terms.expectedReturn \in Nat /\ t.terms.fromAmount \in Nat
       /\ t.change.value \in Nat
  BY <1>2, <1>3, <1>4, <1>5, BoundsAssumption DEF assert_conserved, IntentHonest, Swap, Note
<1>13. Executes("kage", <<t.input, j>>, outs, t.terms)
  <2>1. Len(outs) = 4 /\ \A p \in DOMAIN outs : outs[p].key = compliance.key
    BY <1>2, <1>4, <1>7, <1>8 DEF IntentHonest
  <2>2. HonestParents("kage", <<t.input, j>>, outs)
    <3>1. \A p \in DOMAIN outs : \E r \in DOMAIN <<t.input, j>> :
             outs[p].parents = <<(<<t.input, j>>)[r], 0>>
      BY <1>9, <1>12
    <3> HIDE DEF outs
    <3> QED BY <1>11, <3>1, NamesInputs
  <2>3. Settles(<<t.input, j>>, outs, t.terms)
    <3>1. now < t.terms.expiry + TOLERANCE
      <4>1. ts < t.terms.expiry /\ ts + TOLERANCE >= now
        BY DEF kageSwap, settle_swap, _verifyProofTimestampFloor
      <4>2. t.terms.expiry \in Nat
        BY <1>3 DEF Swap, Time
      <4>3. now \in Nat
        BY DEF PoolInv, WellFormed, TypeOK, Time
      <4>4. ts \in Nat /\ TOLERANCE \in Nat
        BY BoundsAssumption DEF Time
      <4> QED BY <4>1, <4>2, <4>3, <4>4
    <3>2. /\ Leaf(t.input).value - t.change.value = t.terms.fromAmount
          /\ Leaf(j).value - change = t.terms.expectedReturn
      BY <1>12
    <3> QED BY <1>9, <1>12, <2>1, <3>1, <3>2 DEF Settles
  <2>4. Len(outs) # 0
    BY <2>1
  <2> HIDE DEF outs
  <2> QED BY <1>10, <2>1, <2>2, <2>3, <2>4 DEF Executes, kageSwap
<1>14. Conserves(<<t.input, j>>, outs)
  <2>1. \A a \in Asset : val(Leaf(t.input), a) = val(t.change, a) + val(m, a)
    BY <1>9, <1>12 DEF val
  <2>2. \A a \in Asset : val(Leaf(j), a) = val(t.received, a) + val(n, a)
    BY <1>9, <1>12 DEF val
  <2>3. \A a \in Asset : /\ val(t.change, a) \in Nat /\ val(t.received, a) \in Nat
                         /\ val(m, a) \in Nat /\ val(n, a) \in Nat
    BY <1>3, <1>7, <1>8, ValNat
  <2>4. \A a \in Asset :
          /\ SumOf(outs, a) = val(t.change, a) + val(t.received, a) + val(m, a) + val(n, a)
          /\ SumOf(Spent(<<t.input, j>>), a) = val(Leaf(t.input), a) + val(Leaf(j), a)
    BY <1>1, <1>3, <1>7, <1>8, SumOfFour, SpentTwo
  <2>5. UNCHANGED <<memos, memosSpent>> /\ balance' = balance /\ balance \in [Asset -> Nat]
    BY DEF kageSwap, PoolInv, WellFormed, TypeOK
  <2> HIDE DEF outs
  <2>6. \A a \in Asset : /\ SumOf(Spent(<<t.input, j>>), a) \in Nat
                         /\ SumOf(Spent(<<t.input, j>>), a) = SumOf(outs, a)
    BY <2>1, <2>2, <2>3, <2>4
  <2> QED BY <1>11, <2>5, <2>6, NotesConserve
<1>15. ExecutesSome
  <2>1. "kage" \in Op /\ t.terms \in Terms
    BY <1>3 DEF Op, Terms
  <2> QED BY <1>11, <1>13, <1>14, <2>1, Executed
<1> QED
  BY <1>15 DEF kageSwap, adminVars, RestTyped, PoolInv, WellFormed, TypeOK

\* Building an intent changes nothing on chain, and what it prepares is well formed.
LEMMA build_intentStep ==
    ASSUME PoolInv, NEW i \in LeafIndex, NEW root \in Root, NEW terms \in SwapTerms,
           NEW key \in Key, build_intent(i, root, terms, key)
    PROVE  PoolInv'
<1>1. i \in NoteIndex /\ Leaf(i) \in Note /\ i \in Nat
  BY Spendable, TreeAssumption DEF build_intent, LeafIndex
<1>2. terms \in Swap /\ root \in Nat
  BY DataAssumption, TreeAssumption DEF Root
<1>3. PICK change \in 0 .. MAX_U128, owner \in Owner, e \in Eph, f \in Eph :
         /\ assert_conserved(Leaf(i).value, change + terms.fromAmount)
         /\ intents' = intents \cup
              {[input |-> i, root |-> root, key |-> key, terms |-> terms,
                change |-> mint_self_note(Leaf(i), Leaf(i).asset, change, owner, e, key,
                                          assert_parents_bound(i, 0)),
                received |-> mint_self_note(Leaf(i), terms.toAsset, terms.expectedReturn,
                                            owner, f, key, assert_parents_bound(i, 0))]}
  BY DEF build_intent
<1> DEFINE m == mint_self_note(Leaf(i), Leaf(i).asset, change, owner, e, key,
                               assert_parents_bound(i, 0))
           n == mint_self_note(Leaf(i), terms.toAsset, terms.expectedReturn,
                               owner, f, key, assert_parents_bound(i, 0))
           t == [input |-> i, root |-> root, key |-> key, terms |-> terms,
                 change |-> m, received |-> n]
<1>4. /\ Leaf(i).asset \in Asset /\ terms.toAsset \in Asset
      /\ terms.expectedReturn \in 0 .. MAX_U128 /\ assert_parents_bound(i, 0) \in Parents
  BY <1>1, <1>2, Bound DEF Note, Swap
<1>5. m \in Note /\ m.key = key
  BY <1>1, <1>3, <1>4, Minted
<1>6. n \in Note /\ n.key = key
  BY <1>1, <1>3, <1>4, Minted
<1> HIDE DEF m, n
<1>7. /\ m.parents = <<i, 0>> /\ m.asset = Leaf(i).asset /\ m.value = change
      /\ n.parents = <<i, 0>> /\ n.asset = terms.toAsset /\ n.value = terms.expectedReturn
  BY DEF m, n, mint_self_note, assert_parents_bound
<1>8. t \in Intent /\ IntentHonest(t)
  BY <1>1, <1>2, <1>3, <1>5, <1>6, <1>7 DEF Intent, IntentHonest, assert_conserved
<1>9. intents' = intents \cup {t}
  BY <1>3 DEF m, n
<1> HIDE DEF t
<1>10. UNCHANGED <<chainVars, adminVars, now>>
  BY DEF build_intent
<1>11. TypeOK'
  BY <1>8, <1>9, <1>10 DEF PoolInv, WellFormed, TypeOK, chainVars, adminVars
<1>12. \A q \in intents' : IntentHonest(q)
  BY <1>8, <1>9 DEF PoolInv, WellFormed
<1> QED
  BY <1>9, <1>10, <1>11, <1>12, NoTransaction

\* publicTransfer posts a memo for what it pulls in, and touches no note.
LEMMA publicTransferStep ==
    ASSUME PoolInv, NEW m \in MemoTerms, publicTransfer(m)
    PROVE  ExecutesSome /\ RestTyped' /\ intents' = intents
<1>1. m \in Memo /\ m.asset \in Asset /\ m.value \in Nat
  BY DataAssumption DEF Memo
<1>2. _spendNullifier(<<>>)
  BY NothingSpent DEF publicTransfer
<1>3. leaves' = leaves \o <<>>
  <2>1. leaves \in Seq(Note \cup {GENESIS})
    BY DEF PoolInv, WellFormed, TypeOK
  <2>2. leaves \o <<>> = leaves
    BY <2>1
  <2> QED BY <2>2 DEF publicTransfer
<1>4. Executes("post", <<>>, <<>>, m)
  <2>1. HonestParents("post", <<>>, <<>>)
    BY DEF HonestParents
  <2> QED BY <1>2, <1>3, <2>1 DEF Executes, publicTransfer
<1>5. balance \in [Asset -> Nat] /\ balance' = [balance EXCEPT ![m.asset] = @ + m.value]
  BY DEF publicTransfer, pull, PoolInv, WellFormed, TypeOK
<1>6. balance' \in [Asset -> Nat]
  BY <1>1, <1>5
<1>7. /\ memos' = memos \cup {m} /\ m \notin memos /\ memosSpent' = memosSpent
      /\ memosSpent \subseteq memos /\ memos \subseteq Memo /\ IsFiniteSet(memos)
  BY DEF publicTransfer, PoolInv, WellFormed, TypeOK
<1>8. memos' \subseteq Memo /\ IsFiniteSet(memos') /\ memosSpent' \subseteq memos'
  BY <1>1, <1>7, FS_AddElement
<1>9. Conserves(<<>>, <<>>)
  <2>1. memos' \ memos = {m} /\ memosSpent' \ memosSpent = {}
    BY <1>7
  <2>2. \A a \in Asset : MemoSum({m}, a) = val(m, a)
    BY <1>1, ValNat, TotalOne DEF MemoSum
  <2>3. \A a \in Asset : balance'[a] = balance[a] + val(m, a)
    BY <1>1, <1>5 DEF val
  <2>4. \A a \in Asset : SumOf(<<>>, a) = 0 /\ SumOf(Spent(<<>>), a) = 0 /\ MemoSum({}, a) = 0
    BY WorthNothing
  <2>5. \A a \in Asset : val(m, a) \in Nat
    BY <1>1, ValNat
  <2>6. \A a \in Asset : balance'[a] + 0 + 0 = balance[a] + 0 + val(m, a)
    BY <1>5, <1>6, <2>3, <2>5
  <2> QED BY <1>7, <2>1, <2>2, <2>4, <2>6 DEF Conserves
<1>10. ExecutesSome
  <2>1. "post" \in Op /\ m \in Terms
    BY <1>1 DEF Op, Terms
  <2>2. <<>> \in Seq(NoteIndex) /\ <<>> \in Seq(Note)
    OBVIOUS
  <2> QED BY <1>4, <1>9, <2>1, <2>2, Executed
<1> QED
  BY <1>6, <1>8, <1>10 DEF publicTransfer, adminVars, RestTyped, PoolInv, WellFormed, TypeOK

\* publicClaim turns a posted memo into one note.
LEMMA publicClaimStep ==
    ASSUME PoolInv, NEW m \in MemoTerms, NEW ts, NEW owner \in Owner, NEW eph \in Eph,
           NEW key \in Key, publicClaim(m, ts, owner, eph, key)
    PROVE  ExecutesSome /\ RestTyped' /\ intents' = intents
<1> DEFINE n == [asset |-> m.asset, value |-> m.value, owner |-> owner,
                 type |-> "STANDARD", eph |-> eph, key |-> key,
                 parents |-> PARENTS_NONE]
<1>1. m \in Memo
  BY DataAssumption
<1>2. m.value \in 0 .. MAX_U128 /\ key = compliance.key
  BY DEF publicClaim, public_claim, _verifyComplianceKey
<1>3. n \in Note /\ n.key = compliance.key
  BY <1>1, <1>2 DEF Memo, Note, NoteType, Parents, PARENTS_NONE
<1>4. _spendNullifier(<<>>)
  BY NothingSpent DEF publicClaim
<1>5. leaves' = leaves \o <<n>> /\ emit("claim", <<>>, Len(<<n>>), m)
  BY DEF publicClaim, insert
<1>6. n.parents = PARENTS_NONE /\ n.asset = m.asset /\ n.value = m.value
  OBVIOUS
<1> HIDE DEF n
<1>7. Executes("claim", <<>>, <<n>>, m)
  <2>1. HonestParents("claim", <<>>, <<n>>)
    BY <1>6 DEF HonestParents, PARENTS_NONE, PARENTS_HIDDEN
  <2> QED BY <1>3, <1>4, <1>5, <2>1 DEF Executes
<1>8. /\ memosSpent' = memosSpent \cup {m} /\ m \notin memosSpent /\ m \in memos
      /\ memos' = memos /\ memosSpent \subseteq memos /\ balance' = balance
      /\ balance \in [Asset -> Nat]
  BY DEF publicClaim, PoolInv, WellFormed, TypeOK
<1>9. Conserves(<<>>, <<n>>)
  <2>1. memos' \ memos = {} /\ memosSpent' \ memosSpent = {m}
    BY <1>8
  <2>2. \A a \in Asset : MemoSum({m}, a) = val(m, a)
    BY <1>1, ValNat, TotalOne DEF MemoSum
  <2>3. \A a \in Asset : val(n, a) = val(m, a) /\ val(m, a) \in Nat
    BY <1>1, <1>6, ValNat DEF val
  <2>4. \A a \in Asset : /\ SumOf(<<n>>, a) = val(n, a) /\ SumOf(Spent(<<>>), a) = 0
                         /\ MemoSum({}, a) = 0
    BY <1>3, WorthNothing, SumOfOne
  <2>5. \A a \in Asset : balance'[a] + 0 + val(m, a) = balance[a] + val(n, a) + 0
    BY <1>8, <2>3
  <2> QED BY <1>8, <2>1, <2>2, <2>4, <2>5 DEF Conserves
<1>10. ExecutesSome
  <2>1. "claim" \in Op /\ m \in Terms
    BY <1>1 DEF Op, Terms
  <2>2. <<>> \in Seq(NoteIndex) /\ <<n>> \in Seq(Note)
    BY <1>3
  <2> QED BY <1>7, <1>9, <2>1, <2>2, Executed
<1>11. memosSpent' \subseteq memos
  BY <1>8
<1> QED
  BY <1>10, <1>11 DEF publicClaim, adminVars, RestTyped, PoolInv, WellFormed, TypeOK

-----------------------------------------------------------------------------
(***************************************************************************)
(* The invariant is inductive.                                             *)
(***************************************************************************)

\* initialize establishes the invariant.
LEMMA PoolInvInit == initialize => PoolInv
<1> SUFFICES ASSUME initialize PROVE PoolInv
  OBVIOUS
<1>1. leaves = <<GENESIS>> /\ leaves \in Seq(Note \cup {GENESIS}) /\ Len(leaves) = 1
  BY DEF initialize
<1>2. NoteIndex = {} /\ nextLeafIndex = 1 /\ Leaf(0) = GENESIS
  BY <1>1 DEF NoteIndex, nextLeafIndex, Leaf
<1>3. log = <<>> /\ log \in Seq(Tx) /\ DOMAIN log = {}
  BY DEF initialize
<1>4. TypeOK
  BY <1>1, <1>3, DataAssumption DEF initialize, TypeOK
<1>5. WellFormed
  BY <1>2, <1>4, FS_EmptySet DEF initialize, WellFormed
<1>6. SpentAreLeaves /\ NoDoubleSpend /\ ComplianceCanOpen
  BY <1>2, <1>3 DEF initialize, SpentAreLeaves, NoDoubleSpend, ComplianceCanOpen
<1>7. ParentsTellTruth /\ KageShape /\ KageSettlesIntent
  BY <1>3 DEF ParentsTellTruth, KageShape, KageSettlesIntent
<1> QED BY <1>5, <1>6, <1>7 DEF PoolInv

\* Administration and the passage of time keep the invariant.
LEMMA AdministerStep ==
    ASSUME PoolInv, Tick \/ Administer
    PROVE  PoolInv'
<1>1. UNCHANGED chainVars /\ intents' = intents
  BY DEF Tick, Administer, pause, unpause, setVerifier, rotateComplianceKey
<1>2. TypeOK'
  <2> USE <1>1 DEF PoolInv, WellFormed, TypeOK, chainVars
  <2>1. CASE Tick
    BY <2>1 DEF Tick, adminVars
  <2>2. CASE pause \/ unpause
    BY <2>2 DEF pause, unpause
  <2>3. ASSUME NEW c \in Circuit, NEW v \in Verifier \cup {ZeroAddress}, setVerifier(c, v)
        PROVE  TypeOK'
    BY <2>3 DEF setVerifier, _setVerifier
  <2>4. ASSUME NEW key \in Key, rotateComplianceKey(key)
        PROVE  TypeOK'
    BY <2>4 DEF rotateComplianceKey
  <2> QED BY <2>1, <2>2, <2>3, <2>4 DEF Administer
<1> QED
  BY <1>1, <1>2, NoTransaction DEF PoolInv, WellFormed

\* Every step keeps the invariant.
LEMMA PoolInvNext == PoolInv /\ [Next]_vars => PoolInv'
<1> SUFFICES ASSUME PoolInv, [Next]_vars PROVE PoolInv'
  OBVIOUS
<1>1. CASE Tick \/ Administer
  BY <1>1, AdministerStep
<1>2. CASE Deposit
  BY <1>2, depositStep, TransactionKeepsInv DEF Deposit
<1>3. ASSUME NEW type \in NoteType, Spend(type) PROVE PoolInv'
  BY <1>3, withdrawStep, privateTransferStep, joinStep, splitStep, TransactionKeepsInv
     DEF Spend
<1>4. CASE Kage
  BY <1>4, build_intentStep, kageSwapStep, TransactionKeepsInv DEF Kage
<1>5. CASE Memos
  BY <1>5, publicTransferStep, publicClaimStep, TransactionKeepsInv DEF Memos
<1>6. CASE UNCHANGED vars
  BY <1>6, NoTransaction DEF vars, chainVars, adminVars, PoolInv, WellFormed, TypeOK
<1> QED
  BY <1>1, <1>2, <1>3, <1>4, <1>5, <1>6 DEF Next

\* The invariant holds in every reachable state.
LEMMA PoolInvariant == Spec => []PoolInv
<1> QED BY PoolInvInit, PoolInvNext, PTL DEF Spec

-----------------------------------------------------------------------------
(***************************************************************************)
(* Results.                                                                *)
(***************************************************************************)

\* Every variable always holds a value of its kind: notes stay inside u128, no
\* withdrawal overdraws the pool, no verifier is ever unset, a memo is spent
\* only after it was posted.
THEOREM PoolTypes == Spec => []TypeOK
<1>1. PoolInv => TypeOK
  BY DEF PoolInv, WellFormed
<1> QED BY <1>1, PoolInvariant, PTL

\* Whatever proofs are replayed, against whatever old root, a leaf is an input
\* of at most one transaction, and _spendNullifier blocks exactly the leaves
\* that were: a leaf whose commitment repeats an older one stays spendable.
THEOREM PoolNoDoubleSpend == Spec => []NoDoubleSpend
<1>1. PoolInv => NoDoubleSpend
  BY DEF PoolInv
<1> QED BY <1>1, PoolInvariant, PTL

\* Every note in the tree is encrypted to the compliance key that was current
\* in the transaction that inserted it, across any number of rotations and for
\* the notes a swap's taker prepared long before.
THEOREM PoolComplianceCanOpen == Spec => []ComplianceCanOpen
<1>1. PoolInv => ComplianceCanOpen
  BY DEF PoolInv
<1> QED BY <1>1, PoolInvariant, PTL

\* The parents of every note are what the transaction that inserted it consumed:
\* whoever decrypts a note follows the flow of funds to older leaves, except
\* where the circuit hides it (a transfer's memo note) or where there is none.
THEOREM PoolParents == Spec => []ParentsTellTruth
<1>1. PoolInv => ParentsTellTruth
  BY DEF PoolInv
<1> QED BY <1>1, PoolInvariant, PTL

\* Every executed swap is one a taker asked for, not yet stale, and each side
\* gives exactly what the other receives, however late the maker settles it.
THEOREM PoolKageSettles == Spec => []KageSettlesIntent
<1>1. PoolInv => KageSettlesIntent
  BY DEF PoolInv
<1> QED BY <1>1, PoolInvariant, PTL

\* No step of a paused pool changes tree, nullifiers, memos, balances or log.
THEOREM PoolHalts == Spec => HaltFreezesFunds
<1>1. [Next]_vars => [paused => UNCHANGED chainVars]_vars
  <2> SUFFICES ASSUME Next, paused PROVE UNCHANGED chainVars
    OBVIOUS
  <2>1. CASE Tick \/ Administer
    BY <2>1 DEF Tick, Administer, pause, unpause, setVerifier, rotateComplianceKey
  <2>2. ~ Deposit
    BY DEF Deposit, deposit, whenNotPaused
  <2>3. \A type \in NoteType : ~ Spend(type)
    BY DEF Spend, withdraw, privateTransfer, join, split, whenNotPaused
  <2>4. CASE Kage
    BY <2>4 DEF Kage, build_intent, kageSwap, whenNotPaused
  <2>5. ~ Memos
    BY DEF Memos, publicTransfer, publicClaim, whenNotPaused
  <2> QED BY <2>1, <2>2, <2>3, <2>4, <2>5 DEF Next
<1> QED BY <1>1, PTL DEF Spec, HaltFreezesFunds

-----------------------------------------------------------------------------
(***************************************************************************)
(* Timelocks.                                                              *)
(***************************************************************************)

\* Every posted memo fits the widths the claim circuit works with.
MemosInRange == \A m \in memos : memoInRange(m)

\* What truncation to w values keeps, and what it can only lower.
LEMMA Truncation ==
    ASSUME NEW w \in Nat \ {0}, NEW x \in Nat
    PROVE  /\ x % w <= x
           /\ x < w => x % w = x
OBVIOUS

\* A transaction other than an early claim keeps the timelocks.
LEMMA EmitKeepsTimelocks ==
    ASSUME TypeOK, TimelockHolds, NEW op, NEW ins, NEW n, NEW terms,
           emit(op, ins, n, terms),
           op = "claim" => now + TOLERANCE >= terms.timelock
    PROVE  TimelockHolds'
<1> DEFINE tx == [op |-> op, ins |-> ins,
                  outs |-> nextLeafIndex .. nextLeafIndex + n - 1,
                  at |-> now, key |-> compliance.key, terms |-> terms]
<1>1. log \in Seq(Tx) /\ log' = Append(log, tx)
  BY DEF TypeOK, emit
<1> HIDE DEF tx
<1>2. /\ DOMAIN log' = DOMAIN log \cup {Len(log) + 1}
      /\ \A k \in DOMAIN log : log'[k] = log[k]
      /\ log'[Len(log) + 1] = tx
  BY <1>1
<1>3. tx.op = "claim" => tx.at + TOLERANCE >= tx.terms.timelock
  BY DEF tx
<1> QED BY <1>2, <1>3 DEF TimelockHolds

\* A claim the circuit and the contract let through is not early.
LEMMA ClaimNotEarly ==
    ASSUME TypeOK, MemosInRange, NEW m \in MemoTerms, NEW ts \in Time, NEW owner,
           NEW eph, NEW key, publicClaim(m, ts, owner, eph, key)
    PROVE  now + TOLERANCE >= m.timelock
<1>1. m.timelock \in Nat /\ m.timelock < MAX_U64 + 1
  BY DataAssumption, BoundsAssumption DEF Memo, MemosInRange, memoInRange, publicClaim
<1>2. ts \in Nat /\ now \in Nat /\ ts <= now + TOLERANCE
  BY BoundsAssumption DEF Time, TypeOK, publicClaim, _verifyProofTimestamp
<1>3. MAX_U64 + 1 \in Nat \ {0}
  BY BoundsAssumption
<1>4. ts % (MAX_U64 + 1) <= ts /\ m.timelock % (MAX_U64 + 1) = m.timelock
  BY <1>1, <1>2, <1>3, Truncation
<1>5. ts % (MAX_U64 + 1) \in Nat
  BY <1>2, <1>3
<1>6. m.timelock = 0 \/ ts >= m.timelock
  <2>1. m.timelock = 0 \/ ts % (MAX_U64 + 1) >= m.timelock % (MAX_U64 + 1)
    BY DEF publicClaim, public_claim
  <2> QED BY <1>1, <1>2, <1>4, <1>5, <2>1
<1> QED BY <1>1, <1>2, <1>6, BoundsAssumption

TimelockInv == MemosInRange /\ TimelockHolds

\* Widths and timelocks together are inductive over the typed states.
LEMMA TimelockNext == PoolInv /\ TimelockInv /\ [Next]_vars => TimelockInv'
<1> SUFFICES ASSUME PoolInv, TimelockInv, [Next]_vars PROVE TimelockInv'
  OBVIOUS
<1>1. TypeOK
  BY DEF PoolInv, WellFormed
<1>2. ASSUME memos' = memos, log' = log PROVE TimelockInv'
  BY <1>2 DEF TimelockInv, MemosInRange, TimelockHolds, memoInRange
<1>3. ASSUME memos' = memos, NEW op, NEW ins, NEW n, NEW terms, op # "claim",
             emit(op, ins, n, terms)
      PROVE  TimelockInv'
  BY <1>1, <1>3, EmitKeepsTimelocks DEF TimelockInv, MemosInRange, memoInRange
<1>4. CASE Tick \/ Administer
  BY <1>2, <1>4 DEF Tick, Administer, pause, unpause, setVerifier, rotateComplianceKey,
                    chainVars
<1>5. CASE Deposit
  BY <1>3, <1>5 DEF Deposit, deposit
<1>6. ASSUME NEW type \in NoteType, Spend(type) PROVE TimelockInv'
  <2> SUFFICES ASSUME NEW i \in LeafIndex, NEW key \in Key,
                      \/ \E v, r : withdraw(type, i, v, r, key)
                      \/ privateTransfer(type, i, key)
                      \/ \E j : join(type, i, j, key)
                      \/ split(type, i, key)
               PROVE  TimelockInv'
    BY <1>6 DEF Spend
  <2>1. memos' = memos
    BY DEF withdraw, privateTransfer, join, split
  <2>2. ASSUME NEW v, NEW r, withdraw(type, i, v, r, key) PROVE TimelockInv'
    <3>1. emit("withdraw", <<i>>, 1, NoTerms)
      BY <2>2 DEF withdraw
    <3> QED BY <1>3, <2>1, <3>1
  <2>3. CASE privateTransfer(type, i, key)
    <3>1. emit("transfer", <<i>>, 2, NoTerms)
      BY <2>3 DEF privateTransfer
    <3> QED BY <1>3, <2>1, <3>1
  <2>4. ASSUME NEW j, join(type, i, j, key) PROVE TimelockInv'
    <3>1. emit("join", <<i, j>>, 1, NoTerms)
      BY <2>4 DEF join
    <3> QED BY <1>3, <2>1, <3>1
  <2>5. CASE split(type, i, key)
    <3>1. emit("split", <<i>>, 2, NoTerms)
      BY <2>5 DEF split
    <3> QED BY <1>3, <2>1, <3>1
  <2> QED BY <2>2, <2>3, <2>4, <2>5
<1>7. CASE Kage
  <2>1. ASSUME NEW t, NEW j, NEW ts, NEW key, kageSwap(t, j, ts, key) PROVE TimelockInv'
    <3>1. memos' = memos /\ emit("kage", <<t.input, j>>, 4, t.terms)
      BY <2>1 DEF kageSwap
    <3> QED BY <1>3, <3>1
  <2>2. ASSUME NEW i, NEW root, NEW terms, NEW key, build_intent(i, root, terms, key)
        PROVE  TimelockInv'
    BY <1>2, <2>2 DEF build_intent, chainVars
  <2> QED BY <1>7, <2>1, <2>2 DEF Kage
<1>8. ASSUME NEW m \in MemoTerms, publicTransfer(m) PROVE TimelockInv'
  <2>1. MemosInRange'
    BY <1>8 DEF TimelockInv, MemosInRange, publicTransfer, memoInRange
  <2>2. TimelockHolds'
    BY <1>1, <1>8, EmitKeepsTimelocks DEF TimelockInv, publicTransfer
  <2> QED BY <2>1, <2>2 DEF TimelockInv
<1>9. ASSUME NEW m \in MemoTerms, NEW ts \in Time, NEW owner \in Owner, NEW eph \in Eph,
             NEW key \in Key, publicClaim(m, ts, owner, eph, key)
      PROVE  TimelockInv'
  <2>1. now + TOLERANCE >= m.timelock
    BY <1>1, <1>9, ClaimNotEarly DEF TimelockInv
  <2>2. emit("claim", <<>>, 1, m) /\ memos' = memos
    BY <1>9 DEF publicClaim
  <2>3. TimelockHolds'
    BY <1>1, <2>1, <2>2, EmitKeepsTimelocks DEF TimelockInv
  <2> QED BY <2>2, <2>3 DEF TimelockInv, MemosInRange, memoInRange
<1>10. CASE UNCHANGED vars
  BY <1>2, <1>10 DEF vars, chainVars
<1> QED
  BY <1>4, <1>5, <1>6, <1>7, <1>8, <1>9, <1>10 DEF Next, Memos

\* No memo is claimed before its timelock less the tolerance, whatever timelock
\* a payer asks for: publicTransfer's width check is what makes the circuit's
\* comparison of truncated values sound.
THEOREM PoolTimelocks == Spec => []TimelockHolds
<1>1. initialize => TimelockInv
  BY DEF initialize, TimelockInv, MemosInRange, TimelockHolds
<1>2. TimelockInv => TimelockHolds
  BY DEF TimelockInv
<1> QED BY <1>1, <1>2, PoolInvariant, TimelockNext, PTL DEF Spec


-----------------------------------------------------------------------------
(***************************************************************************)
(* The sums of the properties, as sums over functions.                     *)
(***************************************************************************)

noteVal(a) == [i \in NoteIndex |-> val(Leaf(i), a)]
memoVal(a) == [m \in memos |-> val(m, a)]

\* The worth of the notes that are not spent is a sum of numbers.
LEMMA NotesWorthIs ==
    ASSUME PoolInv, NEW a
    PROVE  /\ NotesWorth(a) = Total(noteVal(a), Unspent)
           /\ IsFiniteSet(Unspent)
           /\ \A i \in NoteIndex : noteVal(a)[i] \in Nat
<1> DEFINE S == {i \in Unspent : Leaf(i).asset = a}
           v == [i \in S |-> Leaf(i).value]
           G(f) == f = [s \in SUBSET S |->
                          IF s = {} THEN 0
                          ELSE Leaf(CHOOSE x \in s : TRUE).value + f[s \ {CHOOSE x \in s : TRUE}]]
<1>1. IsFiniteSet(Unspent) /\ Unspent \subseteq NoteIndex
  <2>1. nextLeafIndex - 1 \in Int
    BY DEF PoolInv, WellFormed, TypeOK, nextLeafIndex
  <2>2. IsFiniteSet(NoteIndex)
    BY <2>1, FS_Interval DEF NoteIndex
  <2> QED BY <2>2, FS_Subset DEF Unspent
<1>2. IsFiniteSet(S) /\ S \subseteq NoteIndex /\ S \subseteq Unspent
  BY <1>1, FS_Subset
<1>3. \A i \in NoteIndex : noteVal(a)[i] = val(Leaf(i), a) /\ val(Leaf(i), a) \in Nat
  BY ValNat DEF noteVal, PoolInv, WellFormed
<1>4. \A f : G(f) <=> SumFn(f, v, S)
  <2>1. \A s \in SUBSET S : s # {} =>
           /\ Pick(s) = CHOOSE x \in s : TRUE
           /\ v[Pick(s)] = Leaf(CHOOSE x \in s : TRUE).value
    <3> SUFFICES ASSUME NEW s \in SUBSET S, s # {} PROVE v[Pick(s)] = Leaf(Pick(s)).value
      BY DEF Pick
    <3>1. Pick(s) \in S
      BY Picked
    <3> QED BY <3>1
  <2> HIDE DEF v, S
  <2> SUFFICES ASSUME NEW f PROVE G(f) <=> SumFn(f, v, S)
    OBVIOUS
  <2> DEFINE mine(s) == IF s = {} THEN 0
                        ELSE Leaf(CHOOSE x \in s : TRUE).value + f[s \ {CHOOSE x \in s : TRUE}]
             base(s) == IF s = {} THEN 0 ELSE v[Pick(s)] + f[s \ {Pick(s)}]
  <2>2. ASSUME NEW s \in SUBSET S PROVE mine(s) = base(s)
    <3>1. CASE s = {}
      BY <3>1
    <3>2. CASE s # {}
      <4>1. v[Pick(s)] = Leaf(CHOOSE x \in s : TRUE).value
        BY <2>1, <3>2
      <4> QED BY <3>2, <4>1 DEF Pick
    <3> QED BY <3>1, <3>2
  <2>3. [s \in SUBSET S |-> mine(s)] = [s \in SUBSET S |-> base(s)]
    <3> HIDE DEF mine, base
    <3> QED BY <2>2
  <2> QED BY <2>3 DEF SumFn
<1>5. G(CHOOSE f : G(f))
  <2> HIDE DEF G
  <2>1. \E f : G(f)
    BY <1>2, <1>4, SumFnExists
  <2> QED BY <2>1
<1>6. NotesWorth(a) = (CHOOSE f : G(f))[S]
  BY DEF NotesWorth, MapThenSumSet, MapThenFoldSet
<1>7. NotesWorth(a) = Total(v, S)
  <2> HIDE DEF G, S, v
  <2> QED BY <1>2, <1>4, <1>5, <1>6, SumFnTotal
<1>8. Total(v, S) = Total(noteVal(a), S)
  <2>1. SameOn(S, v, noteVal(a))
    BY <1>2, <1>3 DEF SameOn, val
  <2> HIDE DEF S, v
  <2> QED BY <1>2, <2>1, TotalAgree
<1>9. Total(noteVal(a), S) = Total(noteVal(a), Unspent)
  <2>1. \A i \in Unspent \ S : noteVal(a)[i] = 0
    BY <1>1, <1>3 DEF val
  <2>2. \A i \in Unspent : noteVal(a)[i] \in Nat
    BY <1>1, <1>3
  <2> HIDE DEF S
  <2> QED BY <1>1, <1>2, <2>1, <2>2, TotalZeros
<1> QED BY <1>1, <1>3, <1>7, <1>8, <1>9

\* The same for the memos that are not claimed.
LEMMA MemosWorthIs ==
    ASSUME PoolInv, NEW a
    PROVE  /\ MemosWorth(a) = Total(memoVal(a), Unclaimed)
           /\ IsFiniteSet(Unclaimed)
           /\ \A m \in memos : memoVal(a)[m] = val(m, a) /\ memoVal(a)[m] \in Nat
<1> DEFINE S == {m \in Unclaimed : m.asset = a}
           v == [m \in S |-> m.value]
           G(f) == f = [s \in SUBSET S |->
                          IF s = {} THEN 0
                          ELSE (CHOOSE x \in s : TRUE).value + f[s \ {CHOOSE x \in s : TRUE}]]
<1>1. IsFiniteSet(Unclaimed) /\ Unclaimed \subseteq memos
  BY FS_Subset DEF PoolInv, WellFormed, Unclaimed
<1>2. IsFiniteSet(S) /\ S \subseteq memos /\ S \subseteq Unclaimed
  BY <1>1, FS_Subset
<1>3. \A m \in memos : memoVal(a)[m] = val(m, a) /\ val(m, a) \in Nat
  BY ValNat DEF memoVal, PoolInv, WellFormed, TypeOK
<1>4. \A f : G(f) <=> SumFn(f, v, S)
  <2>1. \A s \in SUBSET S : s # {} =>
           /\ Pick(s) = CHOOSE x \in s : TRUE
           /\ v[Pick(s)] = (CHOOSE x \in s : TRUE).value
    <3> SUFFICES ASSUME NEW s \in SUBSET S, s # {} PROVE v[Pick(s)] = Pick(s).value
      BY DEF Pick
    <3>1. Pick(s) \in S
      BY Picked
    <3> QED BY <3>1
  <2> HIDE DEF v, S
  <2> SUFFICES ASSUME NEW f PROVE G(f) <=> SumFn(f, v, S)
    OBVIOUS
  <2> DEFINE mine(s) == IF s = {} THEN 0
                        ELSE (CHOOSE x \in s : TRUE).value + f[s \ {CHOOSE x \in s : TRUE}]
             base(s) == IF s = {} THEN 0 ELSE v[Pick(s)] + f[s \ {Pick(s)}]
  <2>2. ASSUME NEW s \in SUBSET S PROVE mine(s) = base(s)
    <3>1. CASE s = {}
      BY <3>1
    <3>2. CASE s # {}
      <4>1. v[Pick(s)] = (CHOOSE x \in s : TRUE).value
        BY <2>1, <3>2
      <4> QED BY <3>2, <4>1 DEF Pick
    <3> QED BY <3>1, <3>2
  <2>3. [s \in SUBSET S |-> mine(s)] = [s \in SUBSET S |-> base(s)]
    <3> HIDE DEF mine, base
    <3> QED BY <2>2
  <2> QED BY <2>3 DEF SumFn
<1>5. G(CHOOSE f : G(f))
  <2> HIDE DEF G
  <2>1. \E f : G(f)
    BY <1>2, <1>4, SumFnExists
  <2> QED BY <2>1
<1>6. MemosWorth(a) = (CHOOSE f : G(f))[S]
  BY DEF MemosWorth, MapThenSumSet, MapThenFoldSet
<1>7. MemosWorth(a) = Total(v, S)
  <2> HIDE DEF G, S, v
  <2> QED BY <1>2, <1>4, <1>5, <1>6, SumFnTotal
<1>8. Total(v, S) = Total(memoVal(a), S)
  <2>1. SameOn(S, v, memoVal(a))
    BY <1>2, <1>3 DEF SameOn, val
  <2> HIDE DEF S, v
  <2> QED BY <1>2, <2>1, TotalAgree
<1>9. Total(memoVal(a), S) = Total(memoVal(a), Unclaimed)
  <2>1. \A m \in Unclaimed \ S : memoVal(a)[m] = 0
    BY <1>1, <1>3 DEF val
  <2>2. \A m \in Unclaimed : memoVal(a)[m] \in Nat
    BY <1>1, <1>3
  <2> HIDE DEF S
  <2> QED BY <1>1, <1>2, <2>1, <2>2, TotalZeros
<1> QED BY <1>1, <1>3, <1>7, <1>8, <1>9

\* The same for a set of coins of a ledger.
LEMMA CoinsWorthIs ==
    ASSUME NEW coins, NEW ids, IsFiniteSet(ids), NEW a, \A c \in ids : coins[c].value \in Nat
    PROVE  Ledger!Worth(coins, ids, a) = Total([c \in ids |-> val(coins[c], a)], ids)
<1> DEFINE S == {c \in ids : coins[c].asset = a}
           v == [c \in S |-> coins[c].value]
           w == [c \in ids |-> val(coins[c], a)]
           G(f) == f = [s \in SUBSET S |->
                          IF s = {} THEN 0
                          ELSE coins[CHOOSE x \in s : TRUE].value + f[s \ {CHOOSE x \in s : TRUE}]]
<1>1. IsFiniteSet(S) /\ S \subseteq ids
  BY FS_Subset
<1>2. \A f : G(f) <=> SumFn(f, v, S)
  <2>1. \A s \in SUBSET S : s # {} =>
           /\ Pick(s) = CHOOSE x \in s : TRUE
           /\ v[Pick(s)] = coins[CHOOSE x \in s : TRUE].value
    <3> SUFFICES ASSUME NEW s \in SUBSET S, s # {} PROVE v[Pick(s)] = coins[Pick(s)].value
      BY DEF Pick
    <3>1. Pick(s) \in S
      BY Picked
    <3> QED BY <3>1
  <2> HIDE DEF v, S
  <2> SUFFICES ASSUME NEW f PROVE G(f) <=> SumFn(f, v, S)
    OBVIOUS
  <2> DEFINE mine(s) == IF s = {} THEN 0
                        ELSE coins[CHOOSE x \in s : TRUE].value + f[s \ {CHOOSE x \in s : TRUE}]
             base(s) == IF s = {} THEN 0 ELSE v[Pick(s)] + f[s \ {Pick(s)}]
  <2>2. ASSUME NEW s \in SUBSET S PROVE mine(s) = base(s)
    <3>1. CASE s = {}
      BY <3>1
    <3>2. CASE s # {}
      <4>1. v[Pick(s)] = coins[CHOOSE x \in s : TRUE].value
        BY <2>1, <3>2
      <4> QED BY <3>2, <4>1 DEF Pick
    <3> QED BY <3>1, <3>2
  <2>3. [s \in SUBSET S |-> mine(s)] = [s \in SUBSET S |-> base(s)]
    <3> HIDE DEF mine, base
    <3> QED BY <2>2
  <2> QED BY <2>3 DEF SumFn
<1>3. G(CHOOSE f : G(f))
  <2> HIDE DEF G
  <2>1. \E f : G(f)
    BY <1>1, <1>2, SumFnExists
  <2> QED BY <2>1
<1>4. Ledger!Worth(coins, ids, a) = (CHOOSE f : G(f))[S]
  BY DEF Ledger!Worth, Ledger!MapThenSumSet, Ledger!MapThenFoldSet
<1>5. Ledger!Worth(coins, ids, a) = Total(v, S)
  <2> HIDE DEF G, S, v
  <2> QED BY <1>1, <1>2, <1>3, <1>4, SumFnTotal
<1>6. SameOn(S, v, w)
  BY DEF SameOn, val
<1>7. (\A c \in ids : w[c] \in Nat) /\ (\A c \in ids \ S : w[c] = 0)
  BY DEF val
<1> HIDE DEF S, v, w
<1> QED BY <1>1, <1>5, <1>6, <1>7, TotalAgree, TotalZeros DEF w

-----------------------------------------------------------------------------
(***************************************************************************)
(* What a transaction does to the books.                                   *)
(***************************************************************************)

InputSet(ins) == {ins[p] : p \in DOMAIN ins}
OutSet(n, outs) == {n + p - 1 : p \in DOMAIN outs}

\* A transaction takes its inputs, all different, out of the unspent notes and
\* adds its outputs.
LEMMA LeavesMove ==
    ASSUME PoolInv, PoolInv', NEW op \in Op, NEW ins \in Seq(NoteIndex),
           NEW outs \in Seq(Note), NEW terms \in Terms, Executes(op, ins, outs, terms),
           NEW n \in Nat, n = nextLeafIndex
    PROVE  /\ \A p, q \in DOMAIN ins : ins[p] = ins[q] => p = q
           /\ InputSet(ins) \subseteq Unspent
           /\ NoteIndex' = NoteIndex \cup OutSet(n, outs)
           /\ NoteIndex \cap OutSet(n, outs) = {}
           /\ \A i \in NoteIndex : Leaf(i)' = Leaf(i)
           /\ \A p \in DOMAIN outs : Leaf(n + p - 1)' = outs[p]
           /\ \A i \in NoteIndex : isSpent(i)' <=> isSpent(i) \/ i \in InputSet(ins)
           /\ \A i \in OutSet(n, outs) : ~ isSpent(i)'
<1>1. n >= 1 /\ NoteIndex = 1 .. n - 1 /\ WellFormed
  BY DEF PoolInv, WellFormed, NoteIndex
<1>2. /\ Len(outs) \in Nat /\ DOMAIN outs = 1 .. Len(outs) /\ ins \in Seq(Nat)
      /\ DOMAIN ins = 1 .. Len(ins) /\ Len(ins) \in Nat /\ InputSet(ins) \subseteq NoteIndex
  <2>1. Len(ins) \in Nat /\ ins \in [1 .. Len(ins) -> NoteIndex]
    OBVIOUS
  <2>2. ins \in [1 .. Len(ins) -> Nat]
    BY <1>1, <2>1
  <2> QED BY <2>1, <2>2 DEF InputSet
<1>3. /\ nextLeafIndex' = n + Len(outs)
      /\ \A i \in 0 .. n - 1 : Leaf(i)' = Leaf(i)
      /\ \A p \in 1 .. Len(outs) : leaves'[n + p] = outs[p]
  BY <1>1, Appending DEF Executes
<1>4. \A i \in NoteIndex : Leaf(i)' = Leaf(i)
  BY <1>1, <1>3
<1>5. \A p \in DOMAIN outs : Leaf(n + p - 1)' = outs[p]
  <2> SUFFICES ASSUME NEW p \in 1 .. Len(outs) PROVE leaves'[n + p - 1 + 1] = outs[p]
    BY <1>2 DEF Leaf
  <2>1. n + p - 1 + 1 = n + p
    BY <1>1
  <2> QED BY <1>3, <2>1
<1>6. OutSet(n, outs) = n .. n + Len(outs) - 1
  <2>1. \A i \in n .. n + Len(outs) - 1 : i - n + 1 \in 1 .. Len(outs) /\ n + (i - n + 1) - 1 = i
    BY <1>2
  <2>2. \A p \in 1 .. Len(outs) : n + p - 1 \in n .. n + Len(outs) - 1
    BY <1>2
  <2>3. ASSUME NEW i \in OutSet(n, outs) PROVE i \in n .. n + Len(outs) - 1
    BY <1>2, <2>2 DEF OutSet
  <2>4. ASSUME NEW i \in n .. n + Len(outs) - 1 PROVE i \in OutSet(n, outs)
    <3>1. i - n + 1 \in DOMAIN outs /\ i = n + (i - n + 1) - 1
      BY <1>2, <2>1
    <3> HIDE <2>1
    <3> QED BY <3>1 DEF OutSet
  <2> QED BY <2>3, <2>4
<1>7. NoteIndex' = NoteIndex \cup OutSet(n, outs) /\ NoteIndex \cap OutSet(n, outs) = {}
  <2>1. NoteIndex' = 1 .. n + Len(outs) - 1
    BY <1>3 DEF NoteIndex
  <2> QED BY <1>1, <1>2, <1>6, <2>1
<1> DEFINE nf(p) == nullifier(Leaf(ins[p]), ins[p])
<1>8. /\ \A p \in DOMAIN ins : nf(p) \notin nullifiers /\ \A q \in 1 .. p - 1 : nf(p) # nf(q)
      /\ nullifiers' = nullifiers \cup {nf(p) : p \in DOMAIN ins}
  BY DEF Executes, _spendNullifier
<1>9. \A p, q \in DOMAIN ins : ins[p] = ins[q] => p = q
  <2> SUFFICES ASSUME NEW p \in DOMAIN ins, NEW q \in DOMAIN ins, ins[p] = ins[q], p # q
               PROVE  FALSE
    OBVIOUS
  <2>1. nf(p) = nf(q)
    OBVIOUS
  <2>2. p \in Nat /\ q \in Nat /\ (p \in 1 .. q - 1 \/ q \in 1 .. p - 1)
    BY <1>2
  <2> HIDE DEF nf
  <2> QED BY <1>8, <2>1, <2>2
<1>10. InputSet(ins) \subseteq Unspent
  <2>1. \A p \in DOMAIN ins : ~ isSpent(ins[p])
    BY <1>8 DEF isSpent
  <2> QED BY <1>2, <2>1 DEF InputSet, Unspent
<1>11. \A i \in NoteIndex : isSpent(i)' <=> isSpent(i) \/ i \in InputSet(ins)
  <2> SUFFICES ASSUME NEW i \in NoteIndex
               PROVE  isSpent(i)' <=> isSpent(i) \/ i \in InputSet(ins)
    OBVIOUS
  <2>1. isSpent(i)' <=> nullifier(Leaf(i), i) \in nullifiers'
    BY <1>4 DEF isSpent, nullifier, psi
  <2>2. (\E p \in DOMAIN ins : nf(p) = nullifier(Leaf(i), i)) <=> i \in InputSet(ins)
    BY DEF nullifier, InputSet
  <2> QED BY <1>8, <2>1, <2>2 DEF isSpent
<1>12. \A i \in OutSet(n, outs) : ~ isSpent(i)'
  <2> SUFFICES ASSUME NEW i \in OutSet(n, outs), isSpent(i)' PROVE FALSE
    OBVIOUS
  <2>1. i \notin NoteIndex
    BY <1>7
  <2>2. PICK x \in nullifiers' : x[2] = i
    BY DEF isSpent, nullifier
  <2>3. x \in nullifiers \/ \E p \in DOMAIN ins : x[2] = ins[p]
    BY <1>8 DEF nullifier
  <2>4. x[2] \in NoteIndex
    BY <1>2, <2>3 DEF PoolInv, SpentAreLeaves, InputSet
  <2> QED BY <2>1, <2>2, <2>4
<1> QED BY <1>4, <1>5, <1>7, <1>9, <1>10, <1>11, <1>12

\* What the inputs are worth, as leaves and in order.
LEMMA InputsWorth ==
    ASSUME PoolInv, NEW ins \in Seq(NoteIndex), NEW a, NEW v,
           \A p, q \in DOMAIN ins : ins[p] = ins[q] => p = q,
           \A i \in InputSet(ins) : v[i] = val(Leaf(i), a)
    PROVE  Total(v, InputSet(ins)) = SumOf(Spent(ins), a)
<1> DEFINE D == DOMAIN ins
           w == [p \in D |-> val(Leaf(ins[p]), a)]
<1>1. IsFiniteSet(D)
  BY FS_Interval
<1>2. \A p \in D : v[ins[p]] = w[p] /\ w[p] \in Nat
  <2>1. \A i \in NoteIndex : val(Leaf(i), a) \in Nat
    BY ValNat DEF PoolInv, WellFormed
  <2>2. \A p \in D : ins[p] \in NoteIndex /\ ins[p] \in InputSet(ins)
    BY DEF InputSet
  <2> QED BY <2>1, <2>2
<1>3. SumOf(Spent(ins), a) = Total(w, D)
  <2>1. DOMAIN Spent(ins) = D /\ \A p \in D : Spent(ins)[p] = Leaf(ins[p])
    BY DEF Spent
  <2>2. [p \in DOMAIN Spent(ins) |-> val(Spent(ins)[p], a)] = w
    BY <2>1
  <2> QED BY <2>1, <2>2 DEF SumOf
<1> HIDE DEF w
<1>4. Total(v, {ins[p] : p \in D}) = Total(w, D)
  BY <1>1, <1>2, TotalImage
<1> QED BY <1>3, <1>4 DEF InputSet

\* What the outputs are worth, as leaves and in order.
LEMMA OutputsWorth ==
    ASSUME NEW n \in Nat, NEW outs \in Seq(Note), NEW a, NEW v,
           \A p \in DOMAIN outs : v[n + p - 1] = val(outs[p], a)
    PROVE  Total(v, OutSet(n, outs)) = SumOf(outs, a) /\ IsFiniteSet(OutSet(n, outs))
<1> DEFINE D == DOMAIN outs
           f == [p \in D |-> n + p - 1]
           w == [p \in D |-> val(outs[p], a)]
<1>1. IsFiniteSet(D)
  BY FS_Interval
<1>2. \A p \in D : v[f[p]] = w[p] /\ w[p] \in Nat
  BY ValNat
<1>3. \A p, q \in D : f[p] = f[q] => p = q
  <2>1. D = 1 .. Len(outs) /\ Len(outs) \in Nat
    OBVIOUS
  <2> QED BY <2>1
<1>4. OutSet(n, outs) = {f[p] : p \in D}
  BY DEF OutSet
<1>5. SumOf(outs, a) = Total(w, D)
  BY DEF SumOf
<1> HIDE DEF D, f, w
<1>6. \A p \in D : v[f[p]] = w[p] /\ w[p] \in Nat
  BY <1>2
<1>7. IsFiniteSet({f[p] : p \in D}) /\ Total(v, {f[p] : p \in D}) = Total(w, D)
  BY <1>1, <1>3, <1>6, TotalImage, SMTT(30)
<1> QED BY <1>4, <1>5, <1>7

\* The unspent notes lose what the inputs and gain what the outputs are worth.
LEMMA NotesMove ==
    ASSUME PoolInv, PoolInv', NEW op \in Op, NEW ins \in Seq(NoteIndex),
           NEW outs \in Seq(Note), NEW terms \in Terms, Executes(op, ins, outs, terms),
           NEW a, NEW v, v = noteVal(a)'
    PROVE  Total(v, Unspent') + SumOf(Spent(ins), a) = Total(noteVal(a), Unspent) + SumOf(outs, a)
<1>1. PICK n \in Nat : n = nextLeafIndex
  BY DEF PoolInv, WellFormed, TypeOK, nextLeafIndex
<1> DEFINE In == InputSet(ins)
           New == OutSet(n, outs)
           Kept == Unspent \ In
<1>2. /\ \A p, q \in DOMAIN ins : ins[p] = ins[q] => p = q
      /\ In \subseteq Unspent
      /\ NoteIndex' = NoteIndex \cup New /\ NoteIndex \cap New = {}
      /\ \A i \in NoteIndex : Leaf(i)' = Leaf(i)
      /\ \A p \in DOMAIN outs : Leaf(n + p - 1)' = outs[p]
      /\ \A i \in NoteIndex : isSpent(i)' <=> isSpent(i) \/ i \in In
      /\ \A i \in New : ~ isSpent(i)'
  BY <1>1, LeavesMove
<1>3. Unspent \subseteq NoteIndex /\ Unspent' = Kept \cup New /\ Unspent = Kept \cup In
  <2>1. Unspent' = {i \in NoteIndex \cup New : ~ isSpent(i)'}
    BY <1>2 DEF Unspent
  <2> HIDE DEF In, New
  <2> QED BY <1>2, <2>1 DEF Unspent
<1>4. Kept \cap New = {} /\ Kept \cap In = {}
  BY <1>2, <1>3
<1>5. \A i \in NoteIndex : v[i] = val(Leaf(i), a)
  BY <1>2 DEF noteVal
<1>6. \A p \in DOMAIN outs : v[n + p - 1] = val(outs[p], a)
  <2>1. \A p \in DOMAIN outs : n + p - 1 \in NoteIndex'
    BY <1>2 DEF OutSet
  <2>2. \A i \in NoteIndex' : v[i] = val(Leaf(i)', a)
    BY DEF noteVal
  <2> QED BY <1>2, <2>1, <2>2
<1>7. IsFiniteSet(Unspent) /\ \A i \in NoteIndex : noteVal(a)[i] \in Nat
  BY NotesWorthIs
<1>8. \A i \in NoteIndex : noteVal(a)[i] = val(Leaf(i), a)
  BY DEF noteVal
<1> HIDE DEF In, New
<1>9. Total(v, In) = SumOf(Spent(ins), a)
  BY <1>2, <1>3, <1>5, InputsWorth DEF In
<1>10. Total(v, New) = SumOf(outs, a) /\ IsFiniteSet(New)
  BY <1>6, OutputsWorth DEF New
<1>11. \A i \in New : v[i] \in Nat
  <2>1. \A p \in DOMAIN outs : v[n + p - 1] \in Nat
    BY <1>6, ValNat
  <2> QED BY <2>1 DEF New, OutSet
<1>12. \A i \in NoteIndex : v[i] \in Nat
  BY <1>5, <1>7, <1>8
<1>13. IsFiniteSet(Kept) /\ IsFiniteSet(In) /\ Kept \subseteq NoteIndex /\ In \subseteq NoteIndex
  BY <1>2, <1>3, <1>7, FS_Subset
<1> HIDE DEF Kept
<1>14. Total(v, Unspent') = Total(v, Kept) + Total(v, New)
  BY <1>3, <1>4, <1>10, <1>11, <1>12, <1>13, TotalUnion
<1>15. Total(v, Unspent) = Total(v, Kept) + Total(v, In)
  BY <1>3, <1>4, <1>12, <1>13, TotalUnion
<1>16. Total(v, Unspent) = Total(noteVal(a), Unspent)
  <2>1. SameOn(Unspent, v, noteVal(a))
    BY <1>3, <1>5, <1>8 DEF SameOn
  <2> QED BY <1>7, <2>1, TotalAgree
<1>17. Total(v, Kept) \in Nat /\ Total(v, New) \in Nat /\ Total(v, In) \in Nat
  BY <1>10, <1>11, <1>12, <1>13, TotalNat
<1> QED BY <1>9, <1>10, <1>14, <1>15, <1>16, <1>17

\* The unclaimed memos lose what is claimed and gain what is posted.
LEMMA MemosMove ==
    ASSUME PoolInv, PoolInv', memos \subseteq memos', memosSpent \subseteq memosSpent',
           memosSpent' \subseteq memos, NEW a, NEW v, v = memoVal(a)'
    PROVE  /\ Total(v, Unclaimed') + MemoSum(memosSpent' \ memosSpent, a)
                = Total(memoVal(a), Unclaimed) + MemoSum(memos' \ memos, a)
           /\ MemoSum(memosSpent' \ memosSpent, a) \in Nat
           /\ MemoSum(memos' \ memos, a) \in Nat
<1> DEFINE Out == memosSpent' \ memosSpent
           In == memos' \ memos
           Kept == Unclaimed \ Out
<1>1. IsFiniteSet(memos) /\ IsFiniteSet(memos') /\ memosSpent \subseteq memos
  BY DEF PoolInv, WellFormed, TypeOK
<1>2. /\ Unclaimed' = Kept \cup In /\ Unclaimed = Kept \cup Out
      /\ Kept \cap In = {} /\ Kept \cap Out = {}
      /\ Kept \subseteq memos /\ Out \subseteq memos /\ In \subseteq memos'
  BY <1>1 DEF Unclaimed
<1>3. \A m \in memos' : v[m] = val(m, a) /\ v[m] \in Nat
  BY ValNat DEF memoVal, PoolInv, WellFormed, TypeOK
<1>4. \A m \in memos : memoVal(a)[m] = v[m]
  BY <1>3 DEF memoVal
<1> HIDE DEF Out, In, Kept
<1>5. IsFiniteSet(Kept) /\ IsFiniteSet(In) /\ IsFiniteSet(Out)
  BY <1>1, <1>2, FS_Subset
<1>6. Total(v, Unclaimed') = Total(v, Kept) + Total(v, In)
  BY <1>2, <1>3, <1>5, TotalUnion
<1>7. Total(v, Unclaimed) = Total(v, Kept) + Total(v, Out)
  BY <1>2, <1>3, <1>5, TotalUnion
<1>8. Total(v, Unclaimed) = Total(memoVal(a), Unclaimed)
  <2>1. SameOn(Unclaimed, v, memoVal(a)) /\ IsFiniteSet(Unclaimed)
    BY <1>1, <1>4, FS_Subset DEF SameOn, Unclaimed
  <2> QED BY <2>1, TotalAgree
<1>9. MemoSum(Out, a) = Total(v, Out) /\ MemoSum(In, a) = Total(v, In)
  <2>1. \A M \in SUBSET memos' : SameOn(M, [m \in M |-> val(m, a)], v)
    BY <1>3 DEF SameOn
  <2> QED BY <1>2, <1>5, <2>1, TotalAgree DEF MemoSum
<1>10. Total(v, Kept) \in Nat /\ Total(v, In) \in Nat /\ Total(v, Out) \in Nat
  BY <1>2, <1>3, <1>5, TotalNat
<1> QED BY <1>6, <1>7, <1>8, <1>9, <1>10 DEF Out, In

-----------------------------------------------------------------------------
(***************************************************************************)
(* The books always balance.                                               *)
(***************************************************************************)

\* Solvency, with its sums as sums over functions.
Balanced ==
    \A a \in Asset :
        balance[a] = Total(noteVal(a), Unspent) + Total(memoVal(a), Unclaimed)

\* The two say the same.
LEMMA BalancedIsSolvency == PoolInv => (Balanced <=> Solvency)
BY NotesWorthIs, MemosWorthIs DEF Balanced, Solvency

\* Every step is a transaction, or leaves tree, memos, balances and log alone.
LEMMA TransactsOrNot ==
    ASSUME PoolInv, [Next]_vars
    PROVE  ExecutesSome \/ UNCHANGED chainVars
<1>1. CASE Tick \/ Administer
  BY <1>1 DEF Tick, Administer, pause, unpause, setVerifier, rotateComplianceKey
<1>2. CASE Deposit
  BY <1>2, depositStep DEF Deposit
<1>3. ASSUME NEW type \in NoteType, Spend(type) PROVE ExecutesSome
  BY <1>3, withdrawStep, privateTransferStep, joinStep, splitStep DEF Spend
<1>4. CASE Kage
  <2>1. ASSUME NEW i, NEW root, NEW terms, NEW key, build_intent(i, root, terms, key)
        PROVE  UNCHANGED chainVars
    BY <2>1 DEF build_intent
  <2> QED BY <1>4, <2>1, kageSwapStep DEF Kage
<1>5. CASE Memos
  BY <1>5, publicTransferStep, publicClaimStep DEF Memos
<1>6. CASE UNCHANGED vars
  BY <1>6 DEF vars
<1> QED
  BY <1>1, <1>2, <1>3, <1>4, <1>5, <1>6 DEF Next

\* What is in circulation is worth a number.
CirculationNat ==
    \A a \in Asset : Total(noteVal(a), Unspent) \in Nat /\ Total(memoVal(a), Unclaimed) \in Nat

LEMMA BooksNat == PoolInv => CirculationNat
<1> SUFFICES ASSUME PoolInv, NEW a \in Asset
             PROVE  Total(noteVal(a), Unspent) \in Nat /\ Total(memoVal(a), Unclaimed) \in Nat
  BY DEF CirculationNat
<1>1. IsFiniteSet(Unspent) /\ \A i \in Unspent : noteVal(a)[i] \in Nat
  BY NotesWorthIs DEF Unspent
<1>2. IsFiniteSet(Unclaimed) /\ \A m \in Unclaimed : memoVal(a)[m] \in Nat
  BY MemosWorthIs DEF Unclaimed
<1> QED BY <1>1, <1>2, TotalNat

\* A transaction keeps the books balanced.
LEMMA TransactionBalances ==
    ASSUME PoolInv, PoolInv', Balanced, ExecutesSome
    PROVE  Balanced'
<1>1. PICK op \in Op, ins \in Seq(NoteIndex), outs \in Seq(Note), terms \in Terms :
         Executes(op, ins, outs, terms) /\ Conserves(ins, outs)
  BY DEF ExecutesSome
<1> SUFFICES ASSUME NEW a \in Asset, NEW v, v = noteVal(a)', NEW w, w = memoVal(a)'
             PROVE  balance'[a] = Total(v, Unspent') + Total(w, Unclaimed')
  BY DEF Balanced
<1>2. Total(v, Unspent') + SumOf(Spent(ins), a) = Total(noteVal(a), Unspent) + SumOf(outs, a)
  BY <1>1, NotesMove
<1>3. /\ Total(w, Unclaimed') + MemoSum(memosSpent' \ memosSpent, a)
           = Total(memoVal(a), Unclaimed) + MemoSum(memos' \ memos, a)
      /\ MemoSum(memosSpent' \ memosSpent, a) \in Nat
      /\ MemoSum(memos' \ memos, a) \in Nat
  BY <1>1, MemosMove DEF Conserves
<1>4. balance'[a] + SumOf(Spent(ins), a) + MemoSum(memosSpent' \ memosSpent, a)
        = balance[a] + SumOf(outs, a) + MemoSum(memos' \ memos, a)
  BY <1>1 DEF Conserves
<1>5. balance[a] = Total(noteVal(a), Unspent) + Total(memoVal(a), Unclaimed)
  BY DEF Balanced
<1>6. SumOf(outs, a) \in Nat /\ SumOf(Spent(ins), a) \in Nat
  <2>1. Spent(ins) \in Seq(Note)
    BY DEF Spent, PoolInv, WellFormed
  <2> QED BY <2>1, SumOfNat
<1>7. /\ Total(noteVal(a), Unspent) \in Nat /\ Total(v, Unspent') \in Nat
      /\ Total(memoVal(a), Unclaimed) \in Nat /\ Total(w, Unclaimed') \in Nat
  <2>1. (PoolInv => CirculationNat)'
    BY BooksNat, PTL
  <2> QED BY <2>1, BooksNat DEF CirculationNat
<1>8. balance[a] \in Nat /\ balance'[a] \in Nat
  BY DEF PoolInv, WellFormed, TypeOK
<1>9. PICK n \in Nat, n2 \in Nat, m \in Nat, m2 \in Nat :
         /\ n = Total(noteVal(a), Unspent) /\ n2 = Total(v, Unspent')
         /\ m = Total(memoVal(a), Unclaimed) /\ m2 = Total(w, Unclaimed')
  BY <1>7
<1>10. PICK in \in Nat, out \in Nat, claimed \in Nat, posted \in Nat :
          /\ in = SumOf(Spent(ins), a) /\ out = SumOf(outs, a)
          /\ claimed = MemoSum(memosSpent' \ memosSpent, a)
          /\ posted = MemoSum(memos' \ memos, a)
  BY <1>3, <1>6
<1>11. PICK b \in Nat, b2 \in Nat : b = balance[a] /\ b2 = balance'[a]
  BY <1>8
<1>12. n2 + in = n + out /\ m2 + claimed = m + posted
  BY <1>2, <1>3, <1>9, <1>10
<1>13. b2 + in + claimed = b + out + posted /\ b = n + m
  BY <1>4, <1>5, <1>9, <1>10, <1>11
<1>14. b2 = n2 + m2
  BY <1>12, <1>13
<1> QED BY <1>9, <1>11, <1>14

\* In every asset the pool always holds exactly what its unspent notes and
\* unclaimed memos are worth, for every sequence of deposits, withdrawals,
\* transfers, joins, splits, swaps, posts and claims, replayed or not.
THEOREM PoolSolvency == Spec => []Solvency
<1>1. initialize => Balanced
  <2> SUFFICES ASSUME initialize, NEW a \in Asset
               PROVE  balance[a] = Total(noteVal(a), Unspent) + Total(memoVal(a), Unclaimed)
    BY DEF Balanced
  <2>1. Unspent = {} /\ Unclaimed = {} /\ balance[a] = 0
    BY DEF initialize, Unspent, NoteIndex, nextLeafIndex, Unclaimed
  <2> QED BY <2>1, TotalEmpty
<1>2. PoolInv /\ PoolInv' /\ Balanced /\ [Next]_vars => Balanced'
  <2> SUFFICES ASSUME PoolInv, PoolInv', Balanced, [Next]_vars PROVE Balanced'
    OBVIOUS
  <2>1. CASE UNCHANGED chainVars
    <3>1. balance' = balance /\ Unspent' = Unspent /\ Unclaimed' = Unclaimed
      BY <2>1 DEF chainVars, Unspent, Unclaimed, NoteIndex, nextLeafIndex, isSpent, Leaf
    <3>2. \A a : noteVal(a)' = noteVal(a) /\ memoVal(a)' = memoVal(a)
      BY <2>1 DEF chainVars, noteVal, memoVal, NoteIndex, nextLeafIndex, Leaf
    <3> QED BY <3>1, <3>2 DEF Balanced
  <2> QED BY <2>1, TransactsOrNot, TransactionBalances
<1>3. Spec => []Balanced
  BY <1>1, <1>2, PoolInvariant, PTL DEF Spec
<1> QED BY <1>3, PoolInvariant, BalancedIsSolvency, PTL

-----------------------------------------------------------------------------
(***************************************************************************)
(* The pool is a ledger of coins: the refinement of module Utxo.           *)
(***************************************************************************)

\* A coin is one note or one memo.
LEMMA Coins ==
    /\ \A i, S : <<"note", i>> \in NoteCoins(S) <=> i \in S
    /\ \A m, S : <<"memo", m>> \in MemoCoins(S) <=> m \in S
    /\ \A S, T : NoteCoins(S) \cap MemoCoins(T) = {}
    /\ \A S, T : NoteCoins(S \cup T) = NoteCoins(S) \cup NoteCoins(T)
    /\ \A S, T : MemoCoins(S \cup T) = MemoCoins(S) \cup MemoCoins(T)
    /\ \A S, T : NoteCoins(S \ T) = NoteCoins(S) \ NoteCoins(T)
    /\ \A S, T : MemoCoins(S \ T) = MemoCoins(S) \ MemoCoins(T)
BY DEF NoteCoins, MemoCoins

\* The coins of the ledger are the notes and memos with their asset and value.
MintedRight ==
    /\ DOMAIN mintedCoins = NoteCoins(NoteIndex) \cup MemoCoins(memos)
    /\ \A i \in NoteIndex : mintedCoins[<<"note", i>>] = [asset |-> Leaf(i).asset,
                                                          value |-> Leaf(i).value]
    /\ \A m \in memos : mintedCoins[<<"memo", m>>] = [asset |-> m.asset, value |-> m.value]

LEMMA MintedCoins == MintedRight
BY DEF MintedRight, mintedCoins, NoteCoins, MemoCoins

\* The fields of a note's coin.
LEMMA NoteCoin ==
    ASSUME NEW i \in NoteIndex
    PROVE  /\ mintedCoins[<<"note", i>>].asset = Leaf(i).asset
           /\ mintedCoins[<<"note", i>>].value = Leaf(i).value
<1>1. mintedCoins[<<"note", i>>] = [asset |-> Leaf(i).asset, value |-> Leaf(i).value]
  BY MintedCoins DEF MintedRight
<1> QED BY <1>1

\* The fields of a memo's coin.
LEMMA MemoCoin ==
    ASSUME NEW m \in memos
    PROVE  /\ mintedCoins[<<"memo", m>>].asset = m.asset
           /\ mintedCoins[<<"memo", m>>].value = m.value
<1>1. mintedCoins[<<"memo", m>>] = [asset |-> m.asset, value |-> m.value]
  BY MintedCoins DEF MintedRight
<1> QED BY <1>1

\* The worth of coins is the worth of their notes and of their memos.
CoinsWorth ==
    \A a \in Asset : \A N \in SUBSET NoteIndex : \A M \in SUBSET memos :
        IsFiniteSet(N) =>
          Ledger!Worth(mintedCoins, NoteCoins(N) \cup MemoCoins(M), a)
            = Total(noteVal(a), N) + MemoSum(M, a)

LEMMA CoinsAreNotesAndMemos == PoolInv => CoinsWorth
<1> SUFFICES ASSUME PoolInv, NEW a \in Asset, NEW N, N \subseteq NoteIndex, IsFiniteSet(N),
                    NEW M, M \subseteq memos
             PROVE  Ledger!Worth(mintedCoins, NoteCoins(N) \cup MemoCoins(M), a)
                      = Total(noteVal(a), N) + MemoSum(M, a)
  BY DEF CoinsWorth
<1> DEFINE ids == NoteCoins(N) \cup MemoCoins(M)
           v == [c \in ids |-> val(mintedCoins[c], a)]
           f == [i \in N |-> <<"note", i>>]
           g == [m \in M |-> <<"memo", m>>]
           w == [m \in M |-> val(m, a)]
<1>1. IsFiniteSet(M)
  BY FS_Subset DEF PoolInv, WellFormed
<1>2. \A i \in N : v[<<"note", i>>] = noteVal(a)[i] /\ noteVal(a)[i] \in Nat
  <2>1. \A i \in N : <<"note", i>> \in ids
    BY Coins
  <2>2. ASSUME NEW i \in N PROVE val(mintedCoins[<<"note", i>>], a) = val(Leaf(i), a)
    BY NoteCoin DEF val
  <2>3. \A i \in N : noteVal(a)[i] = val(Leaf(i), a) /\ noteVal(a)[i] \in Nat
    BY NotesWorthIs DEF noteVal
  <2> HIDE DEF ids
  <2> QED BY <2>1, <2>2, <2>3
<1>3. \A m \in M : v[<<"memo", m>>] = w[m] /\ w[m] \in Nat
  <2>1. \A m \in M : <<"memo", m>> \in ids
    BY Coins
  <2>2. ASSUME NEW m \in M PROVE val(mintedCoins[<<"memo", m>>], a) = val(m, a)
    BY MemoCoin DEF val
  <2>3. \A m \in M : w[m] = val(m, a) /\ w[m] \in Nat
    BY MemosWorthIs
  <2> HIDE DEF ids
  <2> QED BY <2>1, <2>2, <2>3
<1>4. NoteCoins(N) = {f[i] : i \in N} /\ MemoCoins(M) = {g[m] : m \in M}
  BY DEF NoteCoins, MemoCoins
<1>5. \A i \in N : v[f[i]] = noteVal(a)[i] /\ noteVal(a)[i] \in Nat
  BY <1>2
<1>6. \A m \in M : v[g[m]] = w[m] /\ w[m] \in Nat
  BY <1>3
<1>7. /\ \A x, y \in N : f[x] = f[y] => x = y
      /\ \A x, y \in M : g[x] = g[y] => x = y
  OBVIOUS
<1>8. \A c \in ids : mintedCoins[c].value \in Nat /\ v[c] \in Nat
  <2>1. \A i \in NoteIndex : mintedCoins[<<"note", i>>].value \in Nat
    <3>1. \A i \in NoteIndex : Leaf(i).value \in Nat
      BY BoundsAssumption DEF PoolInv, WellFormed, Note
    <3> QED BY <3>1, NoteCoin
  <2>2. \A m \in memos : mintedCoins[<<"memo", m>>].value \in Nat
    BY MemoCoin DEF PoolInv, WellFormed, TypeOK, Memo
  <2>3. \A c \in ids : (\E i \in N : c = <<"note", i>>) \/ (\E m \in M : c = <<"memo", m>>)
    BY DEF NoteCoins, MemoCoins
  <2> HIDE DEF ids, v
  <2> QED BY <1>2, <1>3, <2>1, <2>2, <2>3
<1> HIDE DEF f, g, v, w
<1>9. IsFiniteSet(NoteCoins(N)) /\ Total(v, NoteCoins(N)) = Total(noteVal(a), N)
  BY <1>4, <1>5, <1>7, TotalImage
<1>10. IsFiniteSet(MemoCoins(M)) /\ Total(v, MemoCoins(M)) = Total(w, M)
  <2>1. IsFiniteSet({g[m] : m \in M}) /\ Total(v, {g[m] : m \in M}) = Total(w, M)
    BY <1>1, <1>6, <1>7, TotalImage
  <2> QED BY <1>4, <2>1
<1>11. NoteCoins(N) \cap MemoCoins(M) = {}
  BY Coins
<1>12. Total(v, ids) = Total(v, NoteCoins(N)) + Total(v, MemoCoins(M))
  BY <1>8, <1>9, <1>10, <1>11, TotalUnion
<1>13. IsFiniteSet(ids)
  BY <1>9, <1>10, FS_Union
<1>14. Ledger!Worth(mintedCoins, ids, a) = Total(v, ids)
  <2> HIDE DEF ids
  <2> QED BY <1>8, <1>13, CoinsWorthIs DEF v
<1> QED BY <1>9, <1>10, <1>12, <1>14 DEF MemoSum, w

\* What a transaction spends and mints, as coins.
LEMMA TransactionMoves ==
    ASSUME PoolInv, PoolInv', ExecutesSome
    PROVE  Ledger!Move
<1>1. PICK op \in Op, ins \in Seq(NoteIndex), outs \in Seq(Note), terms \in Terms :
         Executes(op, ins, outs, terms) /\ Conserves(ins, outs)
  BY DEF ExecutesSome
<1>2. PICK n \in Nat : n = nextLeafIndex
  BY DEF PoolInv, WellFormed, TypeOK, nextLeafIndex
<1> DEFINE In == InputSet(ins)
           New == OutSet(n, outs)
           Claimed == memosSpent' \ memosSpent
           Posted == memos' \ memos
           born == DOMAIN mintedCoins' \ DOMAIN mintedCoins
           burnt == spentCoins' \ spentCoins
<1>3. /\ \A p, q \in DOMAIN ins : ins[p] = ins[q] => p = q
      /\ In \subseteq Unspent
      /\ NoteIndex' = NoteIndex \cup New /\ NoteIndex \cap New = {}
      /\ \A i \in NoteIndex : Leaf(i)' = Leaf(i)
      /\ \A p \in DOMAIN outs : Leaf(n + p - 1)' = outs[p]
      /\ \A i \in NoteIndex : isSpent(i)' <=> isSpent(i) \/ i \in In
      /\ \A i \in New : ~ isSpent(i)'
  BY <1>1, <1>2, LeavesMove
<1>4. /\ memos \subseteq memos' /\ memosSpent \subseteq memosSpent' /\ memosSpent' \subseteq memos
      /\ Claimed \subseteq memos /\ Posted \subseteq memos'
  BY <1>1 DEF Conserves
<1>5. MintedRight /\ MintedRight'
  BY MintedCoins, PTL
<1> HIDE DEF In, New, Claimed, Posted
<1>6. DOMAIN mintedCoins' = DOMAIN mintedCoins \cup (NoteCoins(New) \cup MemoCoins(Posted))
  <2>1. memos' = memos \cup Posted
    BY <1>4 DEF Posted
  <2>2. /\ DOMAIN mintedCoins = NoteCoins(NoteIndex) \cup MemoCoins(memos)
        /\ DOMAIN mintedCoins' = NoteCoins(NoteIndex') \cup MemoCoins(memos')
    BY <1>5 DEF MintedRight
  <2>3. NoteCoins(NoteIndex') = NoteCoins(NoteIndex) \cup NoteCoins(New)
    BY <1>3, Coins
  <2>4. MemoCoins(memos') = MemoCoins(memos) \cup MemoCoins(Posted)
    BY <2>1, Coins
  <2> QED BY <2>2, <2>3, <2>4
<1>7. born = NoteCoins(New) \cup MemoCoins(Posted)
  <2>1. memos \cap Posted = {}
    BY DEF Posted
  <2>2. DOMAIN mintedCoins \cap (NoteCoins(New) \cup MemoCoins(Posted)) = {}
    BY <1>3, <1>5, <2>1 DEF MintedRight, NoteCoins, MemoCoins
  <2> QED BY <1>6, <2>2
<1>8. \A c \in DOMAIN mintedCoins : mintedCoins'[c] = mintedCoins[c]
  <2>1. ASSUME NEW i \in NoteIndex PROVE mintedCoins'[<<"note", i>>] = mintedCoins[<<"note", i>>]
    <3>1. i \in NoteIndex' /\ Leaf(i)' = Leaf(i)
      BY <1>3
    <3>2. mintedCoins'[<<"note", i>>] = [asset |-> Leaf(i)'.asset, value |-> Leaf(i)'.value]
      BY <1>5, <3>1 DEF MintedRight
    <3>3. mintedCoins[<<"note", i>>] = [asset |-> Leaf(i).asset, value |-> Leaf(i).value]
      BY <1>5 DEF MintedRight
    <3> QED BY <3>1, <3>2, <3>3
  <2>2. ASSUME NEW m \in memos PROVE mintedCoins'[<<"memo", m>>] = mintedCoins[<<"memo", m>>]
    BY <1>4, <1>5 DEF MintedRight
  <2> QED BY <1>5, <2>1, <2>2 DEF MintedRight, NoteCoins, MemoCoins
<1> DEFINE SpentNotes == {i \in NoteIndex : isSpent(i)}
<1>9. SpentNotes' = SpentNotes \cup In /\ SpentNotes \cap In = {} /\ In \subseteq NoteIndex
  <2>1. SpentNotes' = {i \in NoteIndex \cup New : isSpent(i)'}
    BY <1>3
  <2> QED BY <1>3, <2>1 DEF Unspent
<1>10. memosSpent' = memosSpent \cup Claimed /\ memosSpent \cap Claimed = {}
  BY <1>4 DEF Claimed
<1>11. /\ spentCoins = NoteCoins(SpentNotes) \cup MemoCoins(memosSpent)
       /\ spentCoins' = NoteCoins(SpentNotes') \cup MemoCoins(memosSpent')
  BY DEF spentCoins
<1> HIDE DEF SpentNotes
<1>12. spentCoins' = spentCoins \cup (NoteCoins(In) \cup MemoCoins(Claimed))
  BY <1>9, <1>10, <1>11, Coins
<1>13. burnt = NoteCoins(In) \cup MemoCoins(Claimed)
  <2>1. spentCoins \cap (NoteCoins(In) \cup MemoCoins(Claimed)) = {}
    BY <1>9, <1>10, <1>11 DEF NoteCoins, MemoCoins
  <2> QED BY <1>12, <2>1
<1>14. burnt \subseteq DOMAIN mintedCoins
  BY <1>4, <1>5, <1>9, <1>13 DEF MintedRight, NoteCoins, MemoCoins
<1> HIDE DEF born, burnt
<1>15. ASSUME NEW a \in Asset
       PROVE  balance'[a] + Ledger!Worth(mintedCoins, burnt, a)
                = balance[a] + Ledger!Worth(mintedCoins', born, a)
  <2>1. IsFiniteSet(In) /\ IsFiniteSet(New) /\ New \subseteq NoteIndex'
    <3>1. IsFiniteSet(Unspent)
      BY NotesWorthIs
    <3>2. IsFiniteSet(New)
      <4>1. PICK v : v = [i \in New |-> val(Leaf(i)', a)]
        OBVIOUS
      <4>2. \A p \in DOMAIN outs : v[n + p - 1] = val(outs[p], a)
        BY <1>3, <4>1 DEF New, OutSet
      <4> QED BY <4>2, OutputsWorth DEF New
    <3> QED BY <1>3, <3>1, <3>2, FS_Subset
  <2>2. Ledger!Worth(mintedCoins, burnt, a) = Total(noteVal(a), In) + MemoSum(Claimed, a)
    BY <1>4, <1>9, <1>13, <2>1, CoinsAreNotesAndMemos DEF CoinsWorth
  <2>3. PICK v : v = noteVal(a)'
    OBVIOUS
  <2>4. Ledger!Worth(mintedCoins', born, a) = Total(v, New) + MemoSum(Posted, a)
    <3>1. CoinsWorth'
      <4>1. (PoolInv => CoinsWorth)'
        BY CoinsAreNotesAndMemos, PTL
      <4> QED BY <4>1
    <3> QED BY <1>4, <1>7, <2>1, <2>3, <3>1 DEF CoinsWorth
  <2>5. Total(noteVal(a), In) = SumOf(Spent(ins), a)
    BY <1>3, <1>9, InputsWorth DEF noteVal, In
  <2>6. Total(v, New) = SumOf(outs, a)
    <3>1. \A p \in DOMAIN outs : n + p - 1 \in NoteIndex'
      BY <1>3 DEF New, OutSet
    <3>2. \A i \in NoteIndex' : v[i] = val(Leaf(i)', a)
      BY <2>3 DEF noteVal
    <3>3. \A p \in DOMAIN outs : v[n + p - 1] = val(outs[p], a)
      BY <1>3, <3>1, <3>2
    <3> QED BY <3>3, OutputsWorth DEF New
  <2>7. balance'[a] + SumOf(Spent(ins), a) + MemoSum(Claimed, a)
          = balance[a] + SumOf(outs, a) + MemoSum(Posted, a)
    BY <1>1 DEF Conserves, Claimed, Posted
  <2>8. /\ SumOf(outs, a) \in Nat /\ SumOf(Spent(ins), a) \in Nat
        /\ MemoSum(Claimed, a) \in Nat /\ MemoSum(Posted, a) \in Nat
        /\ balance[a] \in Nat /\ balance'[a] \in Nat
    <3>1. Spent(ins) \in Seq(Note)
      BY DEF Spent, PoolInv, WellFormed
    <3>2. MemoSum(Claimed, a) \in Nat /\ MemoSum(Posted, a) \in Nat
      BY <1>4, MemosMove DEF Claimed, Posted
    <3> QED BY <3>1, <3>2, SumOfNat DEF PoolInv, WellFormed, TypeOK
  <2>9. balance'[a] + (SumOf(Spent(ins), a) + MemoSum(Claimed, a))
          = balance[a] + (SumOf(outs, a) + MemoSum(Posted, a))
    BY <2>7, <2>8
  <2> QED BY <2>2, <2>4, <2>5, <2>6, <2>9
<1> QED
  <2>1. DOMAIN mintedCoins \subseteq DOMAIN mintedCoins' /\ spentCoins \subseteq spentCoins'
    BY <1>6, <1>12
  <2> QED BY <1>8, <1>14, <1>15, <2>1 DEF Ledger!Move, born, burnt

\* The pool implements the ledger of module Utxo: every run of the contract is
\* a run in which coins are minted once, keep asset and value for ever, are
\* burnt at most once, and balance what enters or leaves the vault.
THEOREM PoolIsLedger == Spec => ImplementsLedger
<1>1. initialize => Ledger!Init
  <2> SUFFICES ASSUME initialize PROVE Ledger!Init
    OBVIOUS
  <2>1. NoteIndex = {} /\ memos = {} /\ memosSpent = {}
    BY DEF initialize, NoteIndex, nextLeafIndex
  <2>2. NoteCoins({}) = {} /\ MemoCoins({}) = {}
    BY DEF NoteCoins, MemoCoins
  <2>3. mintedCoins = [c \in {} |-> 0]
    BY <2>1, <2>2 DEF mintedCoins
  <2>4. spentCoins = {}
    BY <2>1, <2>2 DEF spentCoins
  <2> QED BY <2>3, <2>4 DEF Ledger!Init, initialize
<1>2. PoolInv /\ PoolInv' /\ [Next]_vars => [Ledger!Move]_(Ledger!utxoVars)
  <2> SUFFICES ASSUME PoolInv, PoolInv', [Next]_vars
               PROVE  Ledger!Move \/ UNCHANGED Ledger!utxoVars
    OBVIOUS
  <2>1. CASE UNCHANGED chainVars
    <3>1. UNCHANGED <<leaves, nullifiers, memos, memosSpent, balance>>
      BY <2>1 DEF chainVars
    <3>2. mintedCoins' = mintedCoins
      BY <3>1 DEF mintedCoins, NoteIndex, nextLeafIndex, Leaf
    <3>3. spentCoins' = spentCoins
      BY <3>1 DEF spentCoins, NoteIndex, nextLeafIndex, isSpent, Leaf
    <3> QED BY <3>1, <3>2, <3>3 DEF Ledger!utxoVars
  <2> QED BY <2>1, TransactsOrNot, TransactionMoves
<1> QED BY <1>1, <1>2, PoolInvariant, PTL DEF Spec, ImplementsLedger, Ledger!Spec

-----------------------------------------------------------------------------
(***************************************************************************)
(* Traces: where each leaf came from.                                      *)
(***************************************************************************)

\* Every note was inserted by one transaction, a spend inserts some, the first
\* parent a note names is no empty slot, and the note after one that hides its
\* parents is of the same transaction and names them.
Lineage ==
    /\ \A i \in NoteIndex : \E k \in DOMAIN log : i \in log[k].outs
    /\ \A k, l \in DOMAIN log : k # l => log[k].outs \cap log[l].outs = {}
    /\ \A k \in DOMAIN log : Inputs(k) # {} => log[k].outs # {}
    /\ \A k \in DOMAIN log : \A o \in log[k].outs :
         /\ NamesParents(Leaf(o)) => Leaf(o).parents[1] # 0
         /\ Leaf(o).parents = PARENTS_HIDDEN =>
              o + 1 \in log[k].outs /\ NamesParents(Leaf(o + 1))

\* A transaction keeps it: its outputs are the leaves after the last one.
LEMMA LineageTransaction ==
    ASSUME PoolInv, PoolInv', Lineage, ExecutesSome PROVE Lineage'
<1>1. PICK op \in Op, ins \in Seq(NoteIndex), outs \in Seq(Note), terms \in Terms :
         Executes(op, ins, outs, terms)
  BY DEF ExecutesSome
<1>2. PICK n \in Nat : n = nextLeafIndex
  BY DEF PoolInv, WellFormed, TypeOK, nextLeafIndex
<1> DEFINE new == Len(log) + 1
           New == n .. n + Len(outs) - 1
<1>3. /\ NoteIndex' = NoteIndex \cup OutSet(n, outs)
      /\ NoteIndex \cap OutSet(n, outs) = {}
      /\ \A i \in NoteIndex : Leaf(i)' = Leaf(i)
      /\ \A p \in DOMAIN outs : Leaf(n + p - 1)' = outs[p]
  BY <1>1, <1>2, LeavesMove
<1>4. Len(outs) \in Nat /\ DOMAIN outs = 1 .. Len(outs) /\ ins \in Seq(Nat)
  <2>0. NoteIndex \subseteq Nat
    BY DEF NoteIndex
  <2>1. Len(ins) \in Nat /\ ins \in [1 .. Len(ins) -> NoteIndex]
    OBVIOUS
  <2>2. ins \in [1 .. Len(ins) -> Nat]
    BY <2>0, <2>1
  <2> QED BY <2>1, <2>2
<1>5. OutSet(n, outs) = New /\ (New = {} => Len(outs) = 0)
  <2>1. \A o \in New : o - n + 1 \in 1 .. Len(outs) /\ n + (o - n + 1) - 1 = o
    BY <1>4
  <2>2. \A p \in 1 .. Len(outs) : n + p - 1 \in New
    BY <1>4
  <2>4. OutSet(n, outs) = New
    <3> HIDE DEF New
    <3> QED BY <1>4, <2>1, <2>2 DEF OutSet
  <2>3. Len(outs) # 0 => n \in New
    BY <1>4
  <2> QED BY <2>3, <2>4
<1>6. /\ DOMAIN log' = DOMAIN log \cup {new}
      /\ \A k \in DOMAIN log : log'[k] = log[k] /\ Inputs(k)' = Inputs(k)
      /\ \A k \in {new} : Inputs(k)' = {ins[p] : p \in DOMAIN ins}
      /\ log'[new] = [op |-> op, ins |-> ins, outs |-> New,
                      at |-> now, key |-> compliance.key, terms |-> terms]
      /\ new \notin DOMAIN log
  <2>1. WellFormed
    BY DEF PoolInv
  <2>2. emit(op, ins, Len(outs), terms)
    BY <1>1 DEF Executes
  <2>3. /\ DOMAIN log' = DOMAIN log \cup {new}
        /\ \A k \in DOMAIN log : log'[k] = log[k] /\ Inputs(k)' = Inputs(k)
        /\ \A k \in {new} : Inputs(k)' = {ins[p] : p \in DOMAIN ins}
        /\ log'[new] = [op |-> op, ins |-> ins,
                        outs |-> nextLeafIndex .. nextLeafIndex + Len(outs) - 1,
                        at |-> now, key |-> compliance.key, terms |-> terms]
    BY <1>4, <2>1, <2>2, Emitting
  <2>4. new \notin DOMAIN log
    BY <2>1 DEF WellFormed, TypeOK
  <2> QED BY <1>2, <2>3, <2>4
<1>7. log'[new].outs = New
  BY <1>6
<1>8. \A k \in DOMAIN log : log[k].outs \subseteq NoteIndex
  BY DEF PoolInv, SpentAreLeaves
<1> HIDE DEF new, New
<1>9. \A i \in NoteIndex' : \E k \in DOMAIN log' : i \in log'[k].outs
  BY <1>3, <1>5, <1>6, <1>7 DEF Lineage
<1>10. \A k, l \in DOMAIN log' : k # l => log'[k].outs \cap log'[l].outs = {}
  BY <1>3, <1>5, <1>6, <1>7, <1>8 DEF Lineage
<1>11. \A k \in DOMAIN log' : Inputs(k)' # {} => log'[k].outs # {}
  <2>1. New = {} => {ins[p] : p \in DOMAIN ins} = {}
    <3>1. Len(ins) = 0 => DOMAIN ins = {}
      BY <1>4
    <3> QED BY <1>1, <1>5, <3>1 DEF Executes
  <2> QED BY <1>6, <1>7, <2>1 DEF Lineage
<1>12. ASSUME NEW k \in DOMAIN log', NEW o \in log'[k].outs
       PROVE  /\ NamesParents(Leaf(o)') => Leaf(o)'.parents[1] # 0
              /\ Leaf(o)'.parents = PARENTS_HIDDEN =>
                   o + 1 \in log'[k].outs /\ NamesParents(Leaf(o + 1)')
  <2>1. CASE k \in DOMAIN log
    <3>1. log'[k].outs = log[k].outs /\ o \in NoteIndex /\ Leaf(o)' = Leaf(o)
      BY <1>3, <1>6, <1>8, <1>12, <2>1
    <3>2. o + 1 \in log[k].outs => Leaf(o + 1)' = Leaf(o + 1)
      BY <1>3, <1>8, <2>1
    <3> QED BY <1>12, <2>1, <3>1, <3>2 DEF Lineage
  <2>2. CASE k = new
    <3>1. o \in New
      BY <1>7, <1>12, <2>2
    <3>2. PICK p \in DOMAIN outs : o = n + p - 1 /\ p \in Nat
      BY <1>4, <1>5, <3>1 DEF OutSet
    <3>3. Leaf(o)' = outs[p]
      BY <1>3, <3>2
    <3>4. /\ outs[p].parents = PARENTS_HIDDEN =>
               p + 1 \in DOMAIN outs /\ NamesParents(outs[p + 1])
          /\ NamesParents(outs[p]) => outs[p].parents[1] # 0
      BY <1>1 DEF Executes, HonestParents, NamesParents
    <3>5. ASSUME p + 1 \in DOMAIN outs
          PROVE  o + 1 \in New /\ Leaf(o + 1)' = outs[p + 1]
      <4>1. n + (p + 1) - 1 = o + 1
        BY <3>2
      <4>2. Leaf(n + (p + 1) - 1)' = outs[p + 1] /\ n + (p + 1) - 1 \in OutSet(n, outs)
        BY <1>3, <3>5 DEF OutSet
      <4> QED BY <1>5, <4>1, <4>2
    <3> QED BY <1>7, <2>2, <3>3, <3>4, <3>5
  <2> QED BY <1>6, <2>1, <2>2
<1> QED BY <1>9, <1>10, <1>11, <1>12 DEF Lineage, NamesParents

\* It always holds.
LEMMA LineageInvariant == Spec => []Lineage
<1>1. initialize => Lineage
  BY DEF initialize, Lineage, NoteIndex, nextLeafIndex
<1>2. PoolInv /\ PoolInv' /\ Lineage /\ [Next]_vars => Lineage'
  <2> SUFFICES ASSUME PoolInv, PoolInv', Lineage, [Next]_vars PROVE Lineage'
    OBVIOUS
  <2>1. CASE UNCHANGED chainVars
    <3>1. leaves' = leaves /\ log' = log
      BY <2>1 DEF chainVars
    <3>2. NoteIndex' = NoteIndex /\ \A k \in DOMAIN log : Inputs(k)' = Inputs(k)
      BY <3>1 DEF NoteIndex, nextLeafIndex, Inputs
    <3>3. \A i : Leaf(i)' = Leaf(i)
      BY <3>1 DEF Leaf
    <3> QED BY <3>1, <3>2, <3>3 DEF Lineage, NamesParents
  <2> QED BY <2>1, TransactsOrNot, LineageTransaction
<1> QED BY <1>1, <1>2, PoolInvariant, PTL DEF Spec

\* What a step of the worklist reaches from the leaves of S.
Touched(steps, S) ==
    UNION {{e[1], e[2]} : e \in UNION {s.result.expansions : s \in {s \in steps : s.at \in S}}}

\* A trace reports the steps from the leaves it visited, which are among those
\* its edges join.
LEMMA TraverseStays ==
    ASSUME nextLeafIndex \in Nat, NEW R, NEW start \in R, NEW steps,
           \A s \in steps : \A e \in s.result.expansions : e[1] \in R /\ e[2] \in R,
           NEW t, t = traverse(start, steps)
    PROVE  /\ t.nodes \subseteq R
           /\ \A e : e \in t.edges <=> \E s \in steps : s.at \in t.nodes /\ e \in s.result.expansions
           /\ \A i : i \in t.truncated <=> \E s \in steps : s.at = i /\ i \in t.nodes /\ s.result.truncated
<1> DEFINE S == 1 .. nextLeafIndex
           G(f) == f = [s \in SUBSET S |->
                          IF s = {} THEN {start}
                          ELSE f[s \ {CHOOSE x \in s : TRUE}]
                                 \cup Touched(steps, f[s \ {CHOOSE x \in s : TRUE}])]
           step == [X \in SUBSET R |-> X \cup Touched(steps, X)]
<1>1. IsFiniteSet(S)
  BY FS_Interval
<1>2. \A X : Touched(steps, X) \subseteq R
  BY DEF Touched
<1>3. step \in [SUBSET R -> SUBSET R]
  BY <1>2
<1>4. \E f : G(f)
  <2>1. PICK f : IterFn(f, {start}, step, S)
    <3> HIDE DEF step, S
    <3> QED BY <1>1, IterFnExists
  <2>2. \A U \in SUBSET S : f[U] \in SUBSET R
    <3> HIDE DEF step, S
    <3>1. {start} \in SUBSET R
      OBVIOUS
    <3> QED BY <1>1, <1>3, <2>1, <3>1, IterFnStays
  <2>3. \A X \in SUBSET R : step[X] = X \cup Touched(steps, X)
    OBVIOUS
  <2>4. ASSUME NEW s \in SUBSET S, s # {}
        PROVE  step[f[s \ {Pick(s)}]] = f[s \ {Pick(s)}] \cup Touched(steps, f[s \ {Pick(s)}])
    <3>1. s \ {Pick(s)} \in SUBSET S
      OBVIOUS
    <3> HIDE DEF step, S
    <3> QED BY <2>2, <2>3, <3>1
  <2>5. f = [s \in SUBSET S |-> IF s = {} THEN {start} ELSE step[f[s \ {Pick(s)}]]]
    BY <2>1 DEF IterFn
  <2>6. f = [s \in SUBSET S |-> IF s = {} THEN {start}
                                ELSE f[s \ {Pick(s)}] \cup Touched(steps, f[s \ {Pick(s)}])]
    <3> HIDE DEF step, S
    <3> QED BY <2>4, <2>5
  <2> HIDE DEF step, S
  <2> QED BY <2>6 DEF Pick
<1>5. PICK f : G(f) /\ f = CHOOSE g : G(g)
  <2> HIDE DEF G
  <2> QED BY <1>4
<1>6. \A U \in SUBSET S : f[U] \in SUBSET R
  <2> DEFINE Bad == {X \in SUBSET S : f[X] \notin SUBSET R}
  <2> SUFFICES ASSUME Bad # {} PROVE FALSE
    OBVIOUS
  <2>1. PICK X \in Bad : \A Y \in Bad : Y \subseteq X => Y = X
    <3>1. Bad \subseteq SUBSET S
      OBVIOUS
    <3> HIDE DEF Bad, S
    <3> QED BY <1>1, <3>1, MinimalSubset
  <2>2. f[X] = IF X = {} THEN {start}
               ELSE f[X \ {Pick(X)}] \cup Touched(steps, f[X \ {Pick(X)}])
    BY <1>5 DEF Pick
  <2>3. X # {} /\ Pick(X) \in X
    BY <2>2, Picked
  <2>4. f[X \ {Pick(X)}] \subseteq R
    BY <2>1, <2>3
  <2> QED BY <1>2, <2>2, <2>3, <2>4
<1>7. t.nodes = f[S]
  <2>1. t.nodes = (CHOOSE g : G(g))[S]
    BY DEF traverse, FoldSet, MapThenFoldSet, Touched
  <2> QED BY <1>5, <2>1
<1>8. t.nodes \subseteq R
  BY <1>6, <1>7
<1>9. /\ t.edges = UNION {s.result.expansions : s \in {s \in steps : s.at \in t.nodes}}
      /\ t.truncated = {s.at : s \in {s \in steps : s.at \in t.nodes /\ s.result.truncated}}
  BY DEF traverse
<1> QED BY <1>8, <1>9

\* A note comes from the transaction that inserted it.
LEMMA OriginOf ==
    ASSUME Lineage, NEW k \in DOMAIN log, NEW o \in log[k].outs
    PROVE  Origin(o) = k
<1>1. \A l \in DOMAIN log : o \in log[l].outs => l = k
  BY DEF Lineage
<1> QED BY <1>1 DEF Origin

\* The leaf that a transaction spent leads to what that transaction inserted.
LEMMA ChildrenOf ==
    ASSUME PoolInv, Lineage, NEW k \in DOMAIN log, NEW i \in Inputs(k)
    PROVE  /\ childrenOfSpend(nullifier(Leaf(i), i)) = log[k].outs
           /\ i \in NoteIndex /\ nullifier(Leaf(i), i) \in nullifiers
           /\ log[k].outs # {} /\ log[k].outs \subseteq NoteIndex
<1>1. /\ i \in NoteIndex /\ log[k].outs \subseteq NoteIndex /\ log[k].outs # {}
      /\ nullifier(Leaf(i), i) \in nullifiers
  BY DEF PoolInv, SpentAreLeaves, NoDoubleSpend, isSpent, Lineage
<1>2. \A j : nullifier(Leaf(j), j) = nullifier(Leaf(i), i) => j = i
  BY DEF nullifier
<1>3. \A l \in DOMAIN log : i \in Inputs(l) => l = k
  BY DEF PoolInv, NoDoubleSpend
<1>4. {l \in DOMAIN log : \E j \in Inputs(l) : nullifier(Leaf(j), j) = nullifier(Leaf(i), i)} = {k}
  BY <1>2, <1>3
<1> QED BY <1>1, <1>4 DEF childrenOfSpend

\* The parents a note names are inputs of the transaction that inserted it, all
\* of them for a join.
LEMMA ParentsOf ==
    ASSUME PoolInv, Lineage, NEW k \in DOMAIN log, NEW o \in log[k].outs, NamesParents(Leaf(o))
    PROVE  /\ consumedLeaves(Leaf(o).parents) \subseteq Inputs(k)
           /\ consumedLeaves(Leaf(o).parents) \subseteq NoteIndex
           /\ consumedLeaves(Leaf(o).parents) # {}
           /\ log[k].op = "join" => consumedLeaves(Leaf(o).parents) = Inputs(k)
<1> DEFINE p == Leaf(o).parents
<1>1. /\ {p[1], p[2]} \ {0} \subseteq Inputs(k) /\ {p[1], p[2]} \ {0} \subseteq NoteIndex
      /\ log[k].op = "join" => {p[1], p[2]} \ {0} = Inputs(k)
  BY DEF PoolInv, ParentsTellTruth, NamesParents
<1>2. p[1] # 0
  BY DEF Lineage
<1>3. consumedLeaves(p) = {p[1], p[2]} \ {0}
  BY <1>2 DEF consumedLeaves
<1> QED BY <1>1, <1>2, <1>3

\* What a step forward from a leaf gives.
LEMMA ForwardStep ==
    ASSUME PoolInv, Lineage, NEW held, NEW i, NEW r, r = forwardStep(held, i)
    PROVE  /\ \A e \in r.expansions : \E k \in DOMAIN log :
                e[1] = i /\ i \in Inputs(k) /\ e[2] \in log[k].outs
           /\ ~ r.truncated => \A k \in DOMAIN log : i \in Inputs(k) => {i} \X log[k].outs \subseteq r.expansions
           /\ i \in NoteIndex /\ Leaf(i).key \in held => ~ r.truncated
<1> DEFINE children == childrenOfSpend(nullifier(Leaf(i), i))
<1>1. r = IF ~openLeaf(held, i) THEN Truncated
          ELSE IF nullifier(Leaf(i), i) \notin nullifiers THEN Stops
          ELSE IF children = {} \/ ~(children \subseteq 0 .. nextLeafIndex - 1) THEN Truncated
          ELSE Edges({i}, children)
  BY DEF forwardStep
<1>2. ASSUME i \in NoteIndex, nullifier(Leaf(i), i) \in nullifiers
      PROVE  \E k \in DOMAIN log : i \in Inputs(k) /\ children = log[k].outs
  <2>1. PICK k \in DOMAIN log : i \in Inputs(k)
    BY <1>2 DEF PoolInv, NoDoubleSpend, isSpent
  <2> QED BY <2>1, ChildrenOf
<1>3. \A k \in DOMAIN log : i \in Inputs(k) =>
        /\ children = log[k].outs /\ i \in NoteIndex /\ nullifier(Leaf(i), i) \in nullifiers
        /\ children # {} /\ children \subseteq NoteIndex
  BY ChildrenOf
<1>4. NoteIndex \subseteq 0 .. nextLeafIndex - 1
  BY DEF NoteIndex, nextLeafIndex, PoolInv, WellFormed, TypeOK
<1>5. /\ Truncated.expansions = {} /\ Truncated.truncated = TRUE
      /\ Stops.expansions = {} /\ Stops.truncated = FALSE
      /\ Edges({i}, children).expansions = {i} \X children /\ Edges({i}, children).truncated = FALSE
  BY DEF Truncated, Stops, Edges
<1>6. \A e \in {i} \X children : e[1] = i /\ e[2] \in children
  OBVIOUS
<1> HIDE DEF children
<1>7. openLeaf(held, i) <=> i \in NoteIndex /\ Leaf(i).key \in held
  BY DEF openLeaf
<1>8. CASE r = Truncated
  BY <1>1, <1>2, <1>3, <1>4, <1>5, <1>7, <1>8
<1>9. CASE openLeaf(held, i) /\ nullifier(Leaf(i), i) \notin nullifiers /\ r = Stops
  BY <1>3, <1>5, <1>9
<1>10. CASE openLeaf(held, i) /\ nullifier(Leaf(i), i) \in nullifiers /\ r = Edges({i}, children)
  BY <1>2, <1>3, <1>5, <1>6, <1>7, <1>10
<1> QED BY <1>1, <1>8, <1>9, <1>10

\* What a step backward from a note gives.
LEMMA BackwardStep ==
    ASSUME PoolInv, Lineage, NEW held, NEW i, NEW r, r = backwardStep(held, i)
    PROVE  /\ \A e \in r.expansions :
                e[2] = i /\ i \in NoteIndex /\ e[1] \in Inputs(Origin(i)) /\ e = <<e[1], e[2]>>
           /\ i \in NoteIndex /\ ~ r.truncated =>
                /\ r.expansions = {} => log[Origin(i)].op \in {"deposit", "claim"}
                /\ log[Origin(i)].op = "join" => {e[1] : e \in r.expansions} = Inputs(Origin(i))
           /\ i \in NoteIndex /\ (\A j \in NoteIndex : Leaf(j).key \in held) => ~ r.truncated
<1>0. CASE i \notin NoteIndex
  <2>1. r = Truncated
    BY <1>0 DEF backwardStep, openLeaf
  <2> QED BY <1>0, <2>1 DEF Truncated
<1> SUFFICES ASSUME i \in NoteIndex
             PROVE  /\ \A e \in r.expansions :
                         e[2] = i /\ e[1] \in Inputs(Origin(i)) /\ e = <<e[1], e[2]>>
                    /\ ~ r.truncated =>
                         /\ r.expansions = {} => log[Origin(i)].op \in {"deposit", "claim"}
                         /\ log[Origin(i)].op = "join" =>
                              {e[1] : e \in r.expansions} = Inputs(Origin(i))
                    /\ (\A j \in NoteIndex : Leaf(j).key \in held) => ~ r.truncated
  BY <1>0
<1>1. PICK k \in DOMAIN log : i \in log[k].outs
  BY DEF Lineage
<1>2. Origin(i) = k
  BY <1>1, OriginOf
<1>3. NoteIndex \subseteq 0 .. nextLeafIndex - 1
  BY DEF NoteIndex, nextLeafIndex, PoolInv, WellFormed, TypeOK
<1>4. /\ Truncated.expansions = {} /\ Truncated.truncated = TRUE
      /\ Stops.expansions = {} /\ Stops.truncated = FALSE
      /\ \A A, B : Edges(A, B).expansions = A \X B /\ Edges(A, B).truncated = FALSE
  BY DEF Truncated, Stops, Edges
<1>5. /\ Leaf(i).parents = PARENTS_NONE <=> log[k].op \in {"deposit", "claim"}
      /\ Leaf(i).parents = PARENTS_HIDDEN => log[k].op = "transfer"
  BY <1>1 DEF PoolInv, ParentsTellTruth
<1>6. ASSUME NEW C, C \subseteq Inputs(k), C # {}, r = Edges(C, {i}),
             log[k].op = "join" => C = Inputs(k)
      PROVE  /\ \A e \in r.expansions :
                  e[2] = i /\ e[1] \in Inputs(Origin(i)) /\ e = <<e[1], e[2]>>
             /\ ~ r.truncated /\ r.expansions # {}
             /\ log[Origin(i)].op = "join" => {e[1] : e \in r.expansions} = Inputs(Origin(i))
  <2>1. r.expansions = C \X {i} /\ ~ r.truncated
    BY <1>4, <1>6
  <2>2. \A e \in C \X {i} : e[1] \in C /\ e[2] = i /\ e = <<e[1], e[2]>>
    OBVIOUS
  <2>3. \A c \in C : <<c, i>> \in C \X {i} /\ <<c, i>>[1] = c
    OBVIOUS
  <2>4. {e[1] : e \in C \X {i}} = C
    BY <2>2, <2>3
  <2> QED BY <1>2, <1>6, <2>1, <2>2, <2>3, <2>4
<1>7. CASE ~ openLeaf(held, i)
  <2>1. r = Truncated /\ Leaf(i).key \notin held
    BY <1>7 DEF backwardStep, openLeaf
  <2> QED BY <1>4, <2>1
<1>8. CASE openLeaf(held, i) /\ Leaf(i).parents = PARENTS_NONE
  <2>1. r = Stops
    BY <1>8 DEF backwardStep
  <2> QED BY <1>2, <1>4, <1>5, <1>8, <2>1
<1>9. CASE openLeaf(held, i) /\ NamesParents(Leaf(i))
  <2> DEFINE C == consumedLeaves(Leaf(i).parents)
  <2>1. r = expand(i, Leaf(i).parents)
    BY <1>9 DEF backwardStep, NamesParents
  <2>2. C \subseteq Inputs(k) /\ C \subseteq NoteIndex /\ C # {} /\ (log[k].op = "join" => C = Inputs(k))
    BY <1>1, <1>9, ParentsOf
  <2>3. r = Edges(C, {i})
    BY <1>3, <2>1, <2>2 DEF expand
  <2> HIDE DEF C
  <2> QED BY <1>6, <2>2, <2>3
<1>10. CASE openLeaf(held, i) /\ Leaf(i).parents = PARENTS_HIDDEN
  <2> DEFINE C == consumedLeaves(Leaf(i + 1).parents)
  <2>1. i + 1 \in log[k].outs /\ NamesParents(Leaf(i + 1)) /\ i + 1 \in NoteIndex
    BY <1>1, <1>10 DEF Lineage, PoolInv, SpentAreLeaves
  <2>2. C \subseteq Inputs(k) /\ C \subseteq NoteIndex /\ C # {} /\ (log[k].op = "join" => C = Inputs(k))
    BY <2>1, ParentsOf
  <2>3. PARENTS_HIDDEN # PARENTS_NONE
    BY DEF PARENTS_HIDDEN, PARENTS_NONE
  <2>4. CASE bridgeHiddenParents(held, i)
    <3>1. r = expand(i, Leaf(i + 1).parents)
      BY <1>10, <2>3, <2>4 DEF backwardStep
    <3>2. r = Edges(C, {i})
      BY <1>3, <2>2, <3>1 DEF expand
    <3> HIDE DEF C
    <3> QED BY <1>6, <2>2, <3>2
  <2>5. CASE ~ bridgeHiddenParents(held, i)
    <3>1. r = Truncated
      BY <1>10, <2>3, <2>5 DEF backwardStep
    <3>2. ~ \A j \in NoteIndex : Leaf(j).key \in held
      <4> SUFFICES ASSUME \A j \in NoteIndex : Leaf(j).key \in held PROVE bridgeHiddenParents(held, i)
        BY <2>5
      <4>1. \A p \in C : openLeaf(held, p) /\ i \in childrenOfSpend(nullifier(Leaf(p), p))
        BY <1>1, <2>2, ChildrenOf DEF openLeaf
      <4>2. Named(Leaf(i + 1).parents) /\ openLeaf(held, i + 1)
        BY <1>3, <2>1, <2>2 DEF Named, NamesParents, openLeaf
      <4> QED BY <4>1, <4>2 DEF bridgeHiddenParents
    <3> QED BY <1>4, <3>1, <3>2
  <2> QED BY <2>4, <2>5
<1> QED BY <1>7, <1>8, <1>9, <1>10 DEF NamesParents

\* What the committee's traverse reports is true and, when nothing is reported
\* truncated, complete, for every set of compliance keys it still holds, every
\* start, any number of notes and any history of joins, splits, transfers and
\* swaps; with every key it is never cut short (chainTrace.ts).
THEOREM PoolTraceFaithful == Spec => []TraceFaithful
<1>1. PoolInv /\ Lineage => TraceFaithful
  <2> SUFFICES ASSUME PoolInv, Lineage, NEW held \in SUBSET Key, NEW start \in NoteIndex,
                      NEW F, F = forwardTrace(held)[start], NEW B, B = backwardTrace(held)[start]
               PROVE  /\ TraceSound(F, B) /\ TraceWhole(F, B)
                      /\ held = Key => F.truncated = {} /\ B.truncated = {}
    BY DEF TraceFaithful
  <2> DEFINE D == 0 .. nextLeafIndex - 1
             fs == {[at |-> i, result |-> forwardStep(held, i)] : i \in D}
             bs == {[at |-> i, result |-> backwardStep(held, i)] : i \in D}
  <2>1. nextLeafIndex \in Nat /\ NoteIndex \subseteq D
    BY DEF PoolInv, WellFormed, TypeOK, nextLeafIndex, NoteIndex
  <2>2. \A i \in NoteIndex : Leaf(i).key \in Key
    BY DEF PoolInv, WellFormed, Note
  <2>3. F = traverse(start, fs) /\ B = traverse(start, bs)
    BY DEF forwardTrace, backwardTrace
  <2>4. /\ \A s \in fs : s.at \in D /\ s.result = forwardStep(held, s.at)
        /\ \A i \in D : \E s \in fs : s.at = i /\ s.result = forwardStep(held, i)
        /\ \A s \in bs : s.at \in D /\ s.result = backwardStep(held, s.at)
        /\ \A i \in D : \E s \in bs : s.at = i /\ s.result = backwardStep(held, i)
    <3> HIDE DEF D
    <3>1. ASSUME NEW s \in fs PROVE s.at \in D /\ s.result = forwardStep(held, s.at)
      <4>1. PICK i \in D : s = [at |-> i, result |-> forwardStep(held, i)]
        BY <3>1
      <4>2. s.at = i /\ s.result = forwardStep(held, i)
        BY <4>1
      <4> QED BY <4>2
    <3>2. ASSUME NEW i \in D PROVE \E s \in fs : s.at = i /\ s.result = forwardStep(held, i)
      <4> DEFINE s == [at |-> i, result |-> forwardStep(held, i)]
      <4>1. s \in fs /\ s.at = i /\ s.result = forwardStep(held, i)
        OBVIOUS
      <4> QED BY <4>1
    <3>3. ASSUME NEW s \in bs PROVE s.at \in D /\ s.result = backwardStep(held, s.at)
      <4>1. PICK i \in D : s = [at |-> i, result |-> backwardStep(held, i)]
        BY <3>3
      <4>2. s.at = i /\ s.result = backwardStep(held, i)
        BY <4>1
      <4> QED BY <4>2
    <3>4. ASSUME NEW i \in D PROVE \E s \in bs : s.at = i /\ s.result = backwardStep(held, i)
      <4> DEFINE s == [at |-> i, result |-> backwardStep(held, i)]
      <4>1. s \in bs /\ s.at = i /\ s.result = backwardStep(held, i)
        OBVIOUS
      <4> QED BY <4>1
    <3> HIDE DEF fs, bs
    <3> QED BY <3>1, <3>2, <3>3, <3>4
  <2> HIDE DEF fs, bs, D
  <2>5. \A k \in DOMAIN log : Inputs(k) \subseteq NoteIndex /\ log[k].outs \subseteq NoteIndex
    BY DEF PoolInv, SpentAreLeaves
  <2>6. \A s \in fs : \A e \in s.result.expansions : \E k \in DOMAIN log :
           e[1] = s.at /\ e[1] \in Inputs(k) /\ e[2] \in log[k].outs
    BY <2>4, ForwardStep
  <2>7. \A s \in bs : \A e \in s.result.expansions :
           /\ e[2] = s.at /\ e[2] \in NoteIndex /\ e[1] \in Inputs(Origin(e[2]))
           /\ e = <<e[1], e[2]>>
    BY <2>4, BackwardStep
  <2>8. \A i \in NoteIndex : Origin(i) \in DOMAIN log /\ i \in log[Origin(i)].outs
    BY OriginOf DEF Lineage
  <2>9. /\ \A s \in fs : \A e \in s.result.expansions : e[1] \in NoteIndex /\ e[2] \in NoteIndex
        /\ \A s \in bs : \A e \in s.result.expansions : e[1] \in NoteIndex /\ e[2] \in NoteIndex
    BY <2>5, <2>6, <2>7, <2>8
  <2>10. /\ F.nodes \subseteq NoteIndex
         /\ \A e : e \in F.edges <=> \E s \in fs : s.at \in F.nodes /\ e \in s.result.expansions
         /\ \A i : i \in F.truncated <=>
              \E s \in fs : s.at = i /\ i \in F.nodes /\ s.result.truncated
    BY <2>1, <2>3, <2>9, TraverseStays
  <2>11. /\ B.nodes \subseteq NoteIndex
         /\ \A e : e \in B.edges <=> \E s \in bs : s.at \in B.nodes /\ e \in s.result.expansions
         /\ \A i : i \in B.truncated <=>
              \E s \in bs : s.at = i /\ i \in B.nodes /\ s.result.truncated
    BY <2>1, <2>3, <2>9, TraverseStays
  <2>12. TraceSound(F, B)
    <3>1. \A e \in F.edges : e[1] \in Inputs(Origin(e[2]))
      BY <2>6, <2>10, OriginOf
    <3>2. \A e \in B.edges : e[1] \in Inputs(Origin(e[2])) /\ e[2] \in NoteIndex /\ e = <<e[1], e[2]>>
      BY <2>7, <2>11
    <3>3. ASSUME NEW e \in B.edges PROVE e \in forwardStep(Key, e[1]).expansions
      <4> DEFINE k == Origin(e[2])
                 r == forwardStep(Key, e[1])
      <4>1. k \in DOMAIN log /\ e[2] \in log[k].outs /\ e[1] \in Inputs(k) /\ e = <<e[1], e[2]>>
        BY <2>8, <3>2, <3>3
      <4>2. e[1] \in NoteIndex /\ Leaf(e[1]).key \in Key
        BY <2>2, <2>5, <4>1
      <4> HIDE DEF k
      <4>3. {e[1]} \X log[k].outs \subseteq r.expansions
        <5> HIDE DEF r
        <5> QED BY <4>1, <4>2, ForwardStep DEF r
      <4>4. <<e[1], e[2]>> \in {e[1]} \X log[k].outs
        BY <4>1
      <4> QED BY <4>1, <4>3, <4>4
    <3> QED BY <3>1, <3>2, <3>3 DEF TraceSound
  <2>13. TraceWhole(F, B)
    <3>1. ASSUME F.truncated = {}, NEW k \in DOMAIN log, NEW j \in Inputs(k) \cap F.nodes
          PROVE  {j} \X log[k].outs \subseteq F.edges
      <4>1. PICK s \in fs : s.at = j /\ s.result = forwardStep(held, j)
        BY <2>1, <2>4, <2>10
      <4>2. ~ s.result.truncated
        BY <2>10, <3>1, <4>1
      <4>3. {j} \X log[k].outs \subseteq s.result.expansions
        BY <4>1, <4>2, ForwardStep
      <4> QED BY <2>10, <4>1, <4>3
    <3>2. ASSUME B.truncated = {}, NEW j \in B.nodes,
                 NEW P, P = {e[1] : e \in {e \in B.edges : e[2] = j}}
          PROVE  /\ P = {} => log[Origin(j)].op \in {"deposit", "claim"}
                 /\ log[Origin(j)].op = "join" => P = Inputs(Origin(j))
      <4>1. PICK s \in bs : s.at = j /\ s.result = backwardStep(held, j)
        BY <2>1, <2>4, <2>11
      <4>2. ~ s.result.truncated /\ j \in NoteIndex
        BY <2>11, <3>2, <4>1
      <4>3. \A e : e \in B.edges /\ e[2] = j <=> e \in s.result.expansions
        BY <2>4, <2>7, <2>11, <4>1
      <4>4. P = {e[1] : e \in s.result.expansions}
        BY <3>2, <4>3
      <4> QED BY <4>1, <4>2, <4>4, BackwardStep
    <3> QED BY <3>1, <3>2 DEF TraceWhole
  <2>14. ASSUME held = Key PROVE F.truncated = {} /\ B.truncated = {}
    <3>1. \A i \in NoteIndex : ~ forwardStep(held, i).truncated
      BY <2>2, <2>14, ForwardStep
    <3>2. \A i \in NoteIndex : ~ backwardStep(held, i).truncated
      BY <2>2, <2>14, BackwardStep
    <3> QED BY <2>4, <2>10, <2>11, <3>1, <3>2
  <2> QED BY <2>12, <2>13, <2>14
<1> QED BY <1>1, PoolInvariant, LineageInvariant, PTL

-----------------------------------------------------------------------------
(***************************************************************************)
(* What is in the pool can leave it.  ENABLED is beyond the provers, so    *)
(* the checks an entrypoint makes are stated one by one, and a lemma says  *)
(* that with them every assignment of the effects is a step of it.         *)
(***************************************************************************)

\* Every check of a withdrawal in full of note i to a plain account.
WithdrawPasses(i) ==
    /\ whenNotPaused
    /\ verify_spend(i, Leaf(i).type)
    /\ _verifier(<<"withdraw", Leaf(i).type>>)
    /\ nullifier(Leaf(i), i) \notin nullifiers
    /\ assert_conserved(Leaf(i).value, 0 + Leaf(i).value)
    /\ selfOwners(Leaf(i)) # {}
    /\ balance[Leaf(i).asset] >= Leaf(i).value

\* Every check of a claim of memo m with a proof for time ts.
ClaimPasses(m, ts) ==
    /\ whenNotPaused
    /\ m \in memos /\ m \notin memosSpent
    /\ _verifyProofTimestamp(ts)
    /\ _verifier(<<"claim", "STANDARD">>)
    /\ public_claim(m, ts)

\* Every check of a public transfer of memo m.
TransferPasses(m) ==
    /\ whenNotPaused
    /\ memoInRange(m) /\ _isValidBjjPoint(m.owner)
    /\ m \notin memos
    /\ m.value > 0 /\ Delivered(m.asset, m.value) = m.value

Logged(op, ins, nOuts, terms) ==
    log' = Append(log, [op |-> op, ins |-> ins,
                        outs |-> nextLeafIndex .. nextLeafIndex + nOuts - 1,
                        at |-> now, key |-> compliance.key, terms |-> terms])

\* What the three leave behind.
Withdrawn(i, owner, eph) ==
    LET n == Leaf(i) IN
    /\ leaves' = leaves \o <<mint_self_note(n, n.asset, 0, owner, eph, compliance.key, <<i, 0>>)>>
    /\ nullifiers' = nullifiers \cup {nullifier(n, i)}
    /\ balance' = [balance EXCEPT ![n.asset] = @ - n.value]
    /\ Logged("withdraw", <<i>>, 1, NoTerms)
    /\ UNCHANGED <<memos, memosSpent, adminVars, now, intents>>

Claimed(m, owner, eph) ==
    /\ leaves' = leaves \o <<[asset |-> m.asset, value |-> m.value, owner |-> owner,
                              type |-> "STANDARD", eph |-> eph, key |-> compliance.key,
                              parents |-> PARENTS_NONE]>>
    /\ memosSpent' = memosSpent \cup {m}
    /\ Logged("claim", <<>>, 1, m)
    /\ UNCHANGED <<nullifiers, memos, balance, adminVars, now, intents>>

Posted(m) ==
    /\ memos' = memos \cup {m}
    /\ balance' = [balance EXCEPT ![m.asset] = @ + m.value]
    /\ Logged("post", <<>>, 0, m)
    /\ UNCHANGED <<leaves, nullifiers, memosSpent, adminVars, now, intents>>

\* With the checks, that is a withdrawal of all the note is worth,
LEMMA WithdrawTakes ==
    ASSUME NEW i, WithdrawPasses(i), Open, NEW owner \in selfOwners(Leaf(i)), NEW eph \in Eph,
           Withdrawn(i, owner, eph)
    PROVE  withdraw(Leaf(i).type, i, Leaf(i).value, "eoa", compliance.key)
<1>1. insert(<<mint_self_note(Leaf(i), Leaf(i).asset, 0, owner, eph, compliance.key,
                              assert_parents_bound(i, 0))>>)
  BY TreeAssumption DEF Withdrawn, Open, insert, assert_parents_bound, nextLeafIndex
<1>2. 0 \in 0 .. MAX_U128
  BY BoundsAssumption
<1>3. _spendNullifier(<<i>>)
  BY DEF WithdrawPasses, Withdrawn, _spendNullifier
<1>4. emit("withdraw", <<i>>, 1, NoTerms)
  BY DEF Open, Withdrawn, Logged, emit
<1> QED BY <1>1, <1>2, <1>3, <1>4 DEF WithdrawPasses, Withdrawn, withdraw,
               _verifyComplianceKey, _requireRecipientAccepts

\* a claim,
LEMMA ClaimTakes ==
    ASSUME NEW m, NEW ts, ClaimPasses(m, ts), Open, NEW owner, NEW eph, Claimed(m, owner, eph)
    PROVE  publicClaim(m, ts, owner, eph, compliance.key)
<1>1. insert(<<[asset |-> m.asset, value |-> m.value, owner |-> owner,
                type |-> "STANDARD", eph |-> eph, key |-> compliance.key,
                parents |-> PARENTS_NONE]>>)
  BY TreeAssumption DEF Claimed, Open, insert, nextLeafIndex
<1>2. emit("claim", <<>>, 1, m)
  BY DEF Open, Claimed, Logged, emit
<1> QED BY <1>1, <1>2 DEF ClaimPasses, Claimed, publicClaim, _verifyComplianceKey

\* a transfer.
LEMMA TransferTakes ==
    ASSUME NEW m, TransferPasses(m), Open, Posted(m)
    PROVE  publicTransfer(m)
<1>1. emit("post", <<>>, 0, m)
  BY DEF Open, Posted, Logged, emit
<1>2. pull(m.asset, m.value)
  BY DEF TransferPasses, Posted, pull
<1> QED BY <1>1, <1>2 DEF TransferPasses, Posted, publicTransfer

\* The clock, and what memos are escrowed for.
EscrowsFit == now \in Time /\ \A m \in memos : m.owner \notin OffCurve /\ m.value > 0

LEMMA EscrowsNext == EscrowsFit /\ [Next]_vars => EscrowsFit'
<1> SUFFICES ASSUME EscrowsFit, [Next]_vars PROVE EscrowsFit'
  OBVIOUS
<1>1. ASSUME memos' = memos, now' = now PROVE EscrowsFit'
  BY <1>1 DEF EscrowsFit
<1>2. CASE Tick
  BY <1>2, BoundsAssumption DEF Tick, EscrowsFit, Time, chainVars
<1>3. CASE Administer
  BY <1>1, <1>3 DEF Administer, pause, unpause, setVerifier, rotateComplianceKey, chainVars
<1>4. CASE Deposit
  BY <1>1, <1>4 DEF Deposit, deposit
<1>5. ASSUME NEW type \in NoteType, Spend(type) PROVE EscrowsFit'
  <2>1. ASSUME NEW i, NEW v, NEW r, NEW key, withdraw(type, i, v, r, key)
        PROVE  memos' = memos /\ now' = now
    BY <2>1 DEF withdraw
  <2>2. ASSUME NEW i, NEW key, privateTransfer(type, i, key)
        PROVE  memos' = memos /\ now' = now
    BY <2>2 DEF privateTransfer
  <2>3. ASSUME NEW i, NEW j, NEW key, join(type, i, j, key)
        PROVE  memos' = memos /\ now' = now
    BY <2>3 DEF join
  <2>4. ASSUME NEW i, NEW key, split(type, i, key)
        PROVE  memos' = memos /\ now' = now
    BY <2>4 DEF split
  <2> QED BY <1>1, <1>5, <2>1, <2>2, <2>3, <2>4 DEF Spend
<1>6. CASE Kage
  <2>1. ASSUME NEW t, NEW j, NEW ts, NEW key, kageSwap(t, j, ts, key)
        PROVE  memos' = memos /\ now' = now
    BY <2>1 DEF kageSwap
  <2>2. ASSUME NEW i, NEW root, NEW terms, NEW key, build_intent(i, root, terms, key)
        PROVE  memos' = memos /\ now' = now
    BY <2>2 DEF build_intent, chainVars
  <2> QED BY <1>1, <1>6, <2>1, <2>2 DEF Kage
<1>7. ASSUME NEW m, publicTransfer(m) PROVE EscrowsFit'
  BY <1>7 DEF publicTransfer, EscrowsFit, _isValidBjjPoint, pull
<1>8. ASSUME NEW m, NEW ts, NEW owner, NEW eph, NEW key, publicClaim(m, ts, owner, eph, key)
      PROVE  EscrowsFit'
  BY <1>1, <1>8 DEF publicClaim
<1>9. CASE UNCHANGED vars
  BY <1>1, <1>9 DEF vars, chainVars
<1> QED BY <1>2, <1>3, <1>4, <1>5, <1>6, <1>7, <1>8, <1>9 DEF Next, Memos

LEMMA EscrowsInvariant == Spec => []EscrowsFit
<1>1. initialize => EscrowsFit
  BY BoundsAssumption DEF initialize, EscrowsFit, Time
<1> QED BY <1>1, EscrowsNext, PTL DEF Spec

\* Every unspent note is its own nullifier's only note, lies under a root the
\* pool accepts, and is covered by the balance, after rotations, replayed
\* deposits, and whatever else was withdrawn: no withdrawal in full fails.
NotesPayable == Open => \A i \in Unspent : WithdrawPasses(i)

\* Every unclaimed memo that is due can be claimed with a proof for now, unless
\* its owner is outside the subgroup.
MemosPayable ==
    Open => \A m \in Unclaimed :
        m.timelock <= now /\ m.owner \notin OffSubgroup => ClaimPasses(m, now)

\* An asset's balance covers each unspent note of it.
LEMMA NoteCovered ==
    ASSUME PoolInv, Solvency, NEW i \in Unspent
    PROVE  balance[Leaf(i).asset] >= Leaf(i).value
<1> DEFINE a == Leaf(i).asset
<1>1. Leaf(i) \in Note /\ i \in NoteIndex
  BY DEF PoolInv, WellFormed, Unspent
<1>2. a \in Asset /\ Leaf(i).value \in Nat
  BY <1>1, BoundsAssumption DEF Note
<1>3. noteVal(a)[i] = Leaf(i).value
  BY <1>1 DEF noteVal, val
<1>4. balance[a] = Total(noteVal(a), Unspent) + Total(memoVal(a), Unclaimed)
  BY <1>2, BalancedIsSolvency DEF Balanced
<1> HIDE DEF a
<1>5. IsFiniteSet(Unspent) /\ IsFiniteSet(Unclaimed)
  BY NotesWorthIs, MemosWorthIs
<1>6. \A j \in Unspent : noteVal(a)[j] \in Nat
  BY NotesWorthIs DEF Unspent
<1>7. Total(memoVal(a), Unclaimed) \in Nat
  <2>1. \A m \in Unclaimed : memoVal(a)[m] \in Nat
    BY MemosWorthIs DEF Unclaimed
  <2> QED BY <1>5, <2>1, TotalNat
<1>8. Total(noteVal(a), Unspent) = noteVal(a)[i] + Total(noteVal(a), Unspent \ {i})
  BY <1>5, <1>6, TotalRemove
<1>9. Total(noteVal(a), Unspent \ {i}) \in Nat
  <2>1. IsFiniteSet(Unspent \ {i})
    BY <1>5, FS_Subset
  <2> QED BY <1>6, <2>1, TotalNat
<1>10. balance[a] >= Leaf(i).value
  BY <1>2, <1>3, <1>4, <1>7, <1>8, <1>9
<1> QED BY <1>10 DEF a

LEMMA InvNotesPayable == PoolInv /\ Solvency => NotesPayable
<1> SUFFICES ASSUME PoolInv, Solvency, Open, NEW i \in Unspent PROVE WithdrawPasses(i)
  BY DEF NotesPayable
<1>1. i \in NoteIndex /\ Leaf(i) \in Note /\ ~isSpent(i)
  BY DEF PoolInv, WellFormed, Unspent
<1>2. verify_spend(i, Leaf(i).type)
  <2>1. nextLeafIndex \in 1 .. 2^TREE_DEPTH /\ i < nextLeafIndex
    BY <1>1, TreeAssumption DEF Open, NoteIndex, nextLeafIndex, PoolInv, WellFormed, TypeOK
  <2>2. nextLeafIndex \in rootsOver(i)
    BY <2>1 DEF rootsOver, isKnownRoot
  <2>3. Leaf(i) # GENESIS
    BY <1>1, DataAssumption
  <2> QED BY <2>2, <2>3 DEF verify_spend
<1>3. _verifier(<<"withdraw", Leaf(i).type>>)
  <2>1. <<"withdraw", Leaf(i).type>> \in Circuit
    BY <1>1 DEF Note, Circuit, SpendOp
  <2> QED BY <2>1, DataAssumption DEF PoolInv, WellFormed, TypeOK, _verifier
<1>4. assert_conserved(Leaf(i).value, 0 + Leaf(i).value)
  BY <1>1, BoundsAssumption DEF Note, assert_conserved
<1>5. selfOwners(Leaf(i)) # {}
  BY <1>1 DEF Note, selfOwners
<1>6. nullifier(Leaf(i), i) \notin nullifiers
  BY <1>1 DEF isSpent
<1> QED BY <1>2, <1>3, <1>4, <1>5, <1>6, NoteCovered DEF WithdrawPasses, Open, whenNotPaused

\* A memo that is due passes, whoever posted it.
LEMMA DueClaimPasses ==
    ASSUME PoolInv, MemosInRange, EscrowsFit, MaxTime =< MAX_U64, Open,
           NEW m \in Unclaimed, m.timelock <= now, m.owner \notin OffSubgroup
    PROVE  ClaimPasses(m, now)
<1>1. m \in memos /\ m \notin memosSpent /\ m \in Memo
  BY DEF Unclaimed, PoolInv, WellFormed, TypeOK
<1>2. m.owner \in Owner
  BY <1>1 DEF EscrowsFit, Memo
<1>3. m.value \in 0 .. MAX_U128 /\ m.timelock \in Nat /\ m.timelock =< MAX_U64
  BY <1>1, BoundsAssumption DEF MemosInRange, memoInRange, Memo
<1>4. now \in Nat /\ now =< MAX_U64
  BY BoundsAssumption DEF EscrowsFit, Time
<1>5. now % (MAX_U64 + 1) = now /\ m.timelock % (MAX_U64 + 1) = m.timelock
  <2>1. MAX_U64 + 1 \in Nat \ {0} /\ now < MAX_U64 + 1 /\ m.timelock < MAX_U64 + 1
    BY <1>3, <1>4, BoundsAssumption
  <2>2. \A x \in Nat : x < MAX_U64 + 1 => x % (MAX_U64 + 1) = x
    BY <2>1, Truncation
  <2> QED BY <1>3, <1>4, <2>1, <2>2
<1>6. public_claim(m, now)
  BY <1>2, <1>3, <1>4, <1>5 DEF public_claim
<1>7. _verifyProofTimestamp(now)
  BY <1>4, BoundsAssumption DEF _verifyProofTimestamp
<1>8. _verifier(<<"claim", "STANDARD">>)
  BY DataAssumption DEF PoolInv, WellFormed, TypeOK, _verifier, Circuit
<1> QED BY <1>1, <1>6, <1>7, <1>8 DEF ClaimPasses, Open, whenNotPaused

\* One of the wallet's keys was paid to.
Paid(i) == \E m \in memos : PublicKey[i + 1] = m.owner
KeyIndex == 0 .. Len(PublicKey) - 1

\* No gap before key i is wider than the window.
Handed(i) == \A j \in 0 .. i : Paid(j) => WithinGaps(j)

\* One round of the scan.
widen(to) == Max({to} \cup {extended(i) : i \in Matched(to)})

LEMMA Widens ==
    ASSUME NEW to \in Nat
    PROVE  /\ widen(to) \in Nat /\ widen(to) >= to
           /\ \A i \in Matched(to) : widen(to) > i + IndexWindow
<1> DEFINE X == {to} \cup {extended(i) : i \in Matched(to)}
<1>1. \A i \in Matched(to) : i \in 0 .. to - 1
  BY DEF Matched, recognize, deriveOwnerKeys
<1>2. IndexWindow \in Nat
  BY PublicMemoConstants
<1>3. \A i \in Matched(to) : /\ extended(i) = i + 1 + IndexWindow
                              /\ extended(i) \in 0 .. to + IndexWindow
  BY <1>1, <1>2 DEF extended
<1>4. X \subseteq 0 .. to + IndexWindow /\ to \in X
  BY <1>2, <1>3
<1>5. \A i \in Matched(to) : extended(i) \in X
  OBVIOUS
<1> HIDE DEF X
<1>6. IsFiniteSet(X) /\ X \subseteq Int /\ X # {}
  <2>1. IsFiniteSet(0 .. to + IndexWindow)
    BY <1>2, FS_Interval
  <2>2. IsFiniteSet(X)
    BY ONLY <1>4, <2>1, FS_Subset
  <2> QED BY <1>4, <2>2
<1>7. Max(X) \in X /\ \A y \in X : Max(X) >= y
  BY <1>6, FiniteMax
<1>8. Max(X) \in Nat /\ Max(X) >= to
  <2>1. Max(X) \in 0 .. to + IndexWindow
    BY <1>4, <1>7
  <2> QED BY <1>2, <1>4, <1>7, <2>1
<1>9. \A i \in Matched(to) : Max(X) > i + IndexWindow
  BY <1>1, <1>2, <1>3, <1>5, <1>7, <1>8
<1> QED BY <1>8, <1>9 DEF widen, X

\* The rounds of the scan, one for each key.
LEMMA TargetRounds ==
    \E f : /\ f[{}] = IndexWindow
           /\ \A s \in SUBSET (DOMAIN PublicKey) : s # {} => f[s] = widen(f[s \ {Pick(s)}])
           /\ target = f[DOMAIN PublicKey]
<1> DEFINE S == DOMAIN PublicKey
           G(f) == f = [s \in SUBSET S |->
                          IF s = {} THEN IndexWindow
                          ELSE Max({f[s \ {CHOOSE x \in s : TRUE}]} \cup
                                   {extended(i) : i \in Matched(f[s \ {CHOOSE x \in s : TRUE}])})]
           step == [to \in Nat |-> widen(to)]
<1>1. IsFiniteSet(S)
  <2>1. S = 1 .. Len(PublicKey) /\ Len(PublicKey) \in Nat
    BY PublicMemoConstants
  <2> QED BY <2>1, FS_Interval
<1>2. step \in [Nat -> Nat] /\ \A to \in Nat : step[to] = widen(to)
  BY Widens
<1>3. IndexWindow \in Nat
  BY PublicMemoConstants
<1>4. \E f : G(f)
  <2> HIDE DEF step, S
  <2>1. PICK f : IterFn(f, IndexWindow, step, S)
    BY <1>1, IterFnExists
  <2>2. \A U \in SUBSET S : f[U] \in Nat
    BY <1>1, <1>2, <1>3, <2>1, IterFnStays
  <2>3. ASSUME NEW s \in SUBSET S, s # {}
        PROVE  step[f[s \ {Pick(s)}]] = widen(f[s \ {Pick(s)}])
    <3>1. s \ {Pick(s)} \in SUBSET S
      OBVIOUS
    <3> QED BY <1>2, <2>2, <3>1
  <2>4. f = [s \in SUBSET S |-> IF s = {} THEN IndexWindow ELSE step[f[s \ {Pick(s)}]]]
    BY <2>1 DEF IterFn
  <2>5. f = [s \in SUBSET S |-> IF s = {} THEN IndexWindow ELSE widen(f[s \ {Pick(s)}])]
    BY <2>3, <2>4
  <2> QED BY <2>5 DEF Pick, widen
<1>5. PICK f : G(f) /\ f = CHOOSE g : G(g)
  <2> HIDE DEF G
  <2> QED BY <1>4
<1>6. target = f[S]
  <2>1. target = (CHOOSE g : G(g))[S]
    BY DEF target, FoldSet, MapThenFoldSet
  <2> QED BY <1>5, <2>1
<1>7. f = [s \in SUBSET S |-> IF s = {} THEN IndexWindow ELSE widen(f[s \ {Pick(s)}])]
  BY <1>5 DEF Pick, widen
<1> HIDE DEF G, S
<1>8. f[{}] = IndexWindow /\ \A s \in SUBSET S : s # {} => f[s] = widen(f[s \ {Pick(s)}])
  BY <1>7
<1> QED BY <1>6, <1>8 DEF S

\* A memo to a key below the target is matched.
LEMMA MatchesPaid ==
    ASSUME MemosInRange, EscrowsFit, memos \subseteq Memo, NEW to \in Nat, NEW i \in KeyIndex,
           i < to, Paid(i)
    PROVE  i \in Matched(to)
<1>1. PICK m \in memos : PublicKey[i + 1] = m.owner
  BY DEF Paid
<1>2. parseMemoLog(m)
  BY BoundsAssumption DEF MemosInRange, memoInRange, EscrowsFit, parseMemoLog, Memo
<1>3. i \in deriveOwnerKeys(0, to)
  BY PublicMemoConstants DEF deriveOwnerKeys, KeyIndex
<1> QED BY <1>1, <1>2, <1>3 DEF Matched, recognize

\* So many rounds reach every key that was handed out with such gaps.
LEMMA TargetReaches ==
    ASSUME MemosInRange, EscrowsFit, memos \subseteq Memo, NEW i \in KeyIndex, Paid(i), Handed(i)
    PROVE  i < target /\ target \in Nat
<1> DEFINE S == DOMAIN PublicKey
<1>1. PICK f : /\ f[{}] = IndexWindow
               /\ \A s \in SUBSET S : s # {} => f[s] = widen(f[s \ {Pick(s)}])
               /\ target = f[S]
  BY TargetRounds
<1>2. IsFiniteSet(S) /\ Cardinality(S) = Len(PublicKey) /\ Len(PublicKey) \in Nat
  <2>1. S = 1 .. Len(PublicKey) /\ Len(PublicKey) \in Nat
    BY PublicMemoConstants
  <2>2. \A n \in Nat : IsFiniteSet(1 .. n) /\ Cardinality(1 .. n) = n
    <3> SUFFICES ASSUME NEW n \in Nat PROVE IsFiniteSet(1 .. n) /\ Cardinality(1 .. n) = n
      OBVIOUS
    <3>1. /\ IsFiniteSet(1 .. n)
          /\ Cardinality(1 .. n) = IF 1 > n THEN 0 ELSE n - 1 + 1
      BY FS_Interval
    <3> QED BY <3>1
  <2> QED BY <2>1, <2>2
<1>3. IndexWindow \in Nat \ {0}
  BY PublicMemoConstants
<1> HIDE DEF S
<1> DEFINE Covers(X) ==
             /\ f[X] \in Nat /\ f[X] >= IndexWindow
             /\ \A k \in KeyIndex : k <= Cardinality(X) /\ Paid(k) /\ Handed(k) => k < f[X]
           Bad == {X \in SUBSET S : ~Covers(X)}
<1>4. Bad = {}
  <2> SUFFICES ASSUME Bad # {} PROVE FALSE
    OBVIOUS
  <2>1. PICK X \in Bad : \A Y \in Bad : Y \subseteq X => Y = X
    <3>1. Bad \subseteq SUBSET S
      OBVIOUS
    <3> HIDE DEF Bad
    <3> QED BY <1>2, <3>1, MinimalSubset
  <2>2. X \in SUBSET S /\ ~Covers(X) /\ IsFiniteSet(X)
    BY <1>2, <2>1, FS_Subset
  <2>3. CASE X = {}
    <3>1. Cardinality(X) = 0
      BY <2>3, FS_EmptySet
    <3>2. \A k \in KeyIndex : k <= 0 => k < IndexWindow
      BY <1>3 DEF KeyIndex
    <3> QED BY <1>1, <1>3, <2>2, <2>3, <3>1, <3>2
  <2>4. CASE X # {}
    <3> DEFINE Y == X \ {Pick(X)}
               c == Cardinality(Y)
    <3>1. Pick(X) \in X
      BY <2>4, Picked
    <3>2. Y \in SUBSET S /\ Covers(Y)
      <4>1. Y \in SUBSET S /\ Y \subseteq X /\ Y # X
        BY <2>2, <3>1
      <4> HIDE DEF Covers, Y
      <4> QED BY <2>1, <4>1
    <3>3. c \in Nat /\ Cardinality(X) = c + 1
      <4>1. IsFiniteSet(Y) /\ Cardinality(Y) = Cardinality(X) - 1 /\ Cardinality(X) \in Nat
        BY <2>2, <3>1, FS_RemoveElement, FS_CardinalityType
      <4>2. Cardinality(Y) \in Nat
        BY <4>1, FS_CardinalityType
      <4> QED BY <4>1, <4>2
    <3>4. f[X] = widen(f[Y])
      BY <1>1, <2>2, <2>4
    <3> HIDE DEF Y
    <3>5. /\ f[Y] \in Nat /\ f[X] \in Nat /\ f[X] >= f[Y]
          /\ \A k \in Matched(f[Y]) : f[X] > k + IndexWindow
      BY <3>2, <3>4, Widens
    <3>6. ASSUME NEW k \in KeyIndex, k <= c + 1, Paid(k), Handed(k) PROVE k < f[X]
      <4>0. k \in Nat
        BY <1>2 DEF KeyIndex
      <4>1. CASE k <= c
        BY <3>2, <3>5, <3>6, <4>0, <4>1
      <4>2. CASE k < IndexWindow
        BY <1>3, <3>2, <3>5, <4>0, <4>2
      <4>3. CASE ~(k <= c) /\ ~(k < IndexWindow)
        <5>1. WithinGaps(k)
          BY <3>6, <4>0 DEF Handed
        <5>2. PICK m \in memos : \E j \in recognize(m, 0 .. k - 1) : k - j <= IndexWindow
          BY <4>3, <5>1 DEF WithinGaps
        <5>3. PICK j \in 0 .. k - 1 : PublicKey[j + 1] = m.owner /\ k - j <= IndexWindow
          BY <5>2 DEF recognize
        <5>4. j \in Nat /\ j < k /\ j \in KeyIndex /\ j <= c /\ Paid(j)
          BY <1>2, <3>3, <3>6, <4>0, <5>3 DEF KeyIndex, Paid
        <5>5. Handed(j)
          BY <3>6, <4>0, <5>4 DEF Handed
        <5>6. j < f[Y]
          BY <3>2, <5>4, <5>5
        <5>7. j \in Matched(f[Y])
          BY <3>5, <5>4, <5>6, MatchesPaid
        <5> QED BY <1>3, <3>5, <4>0, <5>3, <5>4, <5>7
      <4> QED BY <4>1, <4>2, <4>3
    <3>7. f[X] >= IndexWindow
      BY <1>3, <3>2, <3>5
    <3> QED BY <2>2, <3>3, <3>5, <3>6, <3>7
  <2> QED BY <2>3, <2>4
<1>5. Covers(S)
  BY <1>4
<1>6. i <= Cardinality(S)
  BY <1>2 DEF KeyIndex
<1> QED BY <1>1, <1>5, <1>6

\* A memo paid to one of the wallet's keys is found as long as the gaps are within
\* the window, and called claimable exactly when the claim built for it passes.
ScanOffersClaims ==
    \A m \in memos : \A i \in recognize(m, KeyIndex) :
        Handed(i) =>
            \E d \in scan :
                /\ d.memo = m /\ d.ownerIndex = i
                /\ Open => (d.claimable <=> buildPublicClaim(d, now) /\ ClaimPasses(m, now))

\* A transfer the wallet builds, for an asset that delivers what is sent, passes
\* every check of the pool, and so does the claim of it once it is due.
BuiltTransfersPass ==
    Open => \A m \in {m \in MemoTerms : buildPublicTransfer(m)} :
        /\ m \notin memos /\ m.asset \notin FeeAsset => TransferPasses(m)
        /\ m \in Unclaimed /\ m.timelock <= now => ClaimPasses(m, now)

LEMMA InvScanOffers ==
    ASSUME PoolInv, MemosInRange, EscrowsFit, MaxTime =< MAX_U64
    PROVE  ScanOffersClaims
<1> SUFFICES ASSUME NEW m \in memos, NEW i \in recognize(m, KeyIndex), Handed(i)
             PROVE  \E d \in scan :
                      /\ d.memo = m /\ d.ownerIndex = i
                      /\ Open => (d.claimable <=> buildPublicClaim(d, now) /\ ClaimPasses(m, now))
  BY DEF ScanOffersClaims
<1> DEFINE d == toDiscovered(m, i)
<1>1. i \in KeyIndex /\ PublicKey[i + 1] = m.owner /\ memos \subseteq Memo /\ m \in Memo
  BY DEF recognize, PoolInv, WellFormed, TypeOK
<1>2. i < target /\ target \in Nat /\ i \in Nat /\ i < Len(PublicKey)
  BY <1>1, TargetReaches, PublicMemoConstants DEF Paid, KeyIndex
<1>3. parseMemoLog(m) /\ m.value \in 1 .. MAX_U128 /\ m.timelock \in 0 .. MAX_U64
  BY <1>1, BoundsAssumption DEF MemosInRange, memoInRange, EscrowsFit, parseMemoLog, Memo
<1>4. d \in scan
  BY <1>1, <1>2, <1>3 DEF scan, recognize, deriveOwnerKeys
<1>5. /\ d.memo = m /\ d.ownerIndex = i
      /\ d.claimable <=> m \notin memosSpent /\ matured(m, now)
  BY DEF toDiscovered
<1>6. m.owner \notin OffSubgroup
  <2>1. m.owner \in Owner
    BY <1>1, <1>2, PublicMemoConstants
  <2> QED BY <2>1, DataAssumption
<1>7. now \in Nat /\ now =< MAX_U64
  BY BoundsAssumption DEF EscrowsFit, Time
<1> HIDE DEF d
<1>8. buildPublicClaim(d, now) <=> m.timelock = 0 \/ now >= m.timelock
  BY <1>1, <1>3, <1>5, <1>7 DEF buildPublicClaim, assertClaimable, assertMemoValue,
     assertMemoTimelock, assertMemoAsset, Memo
<1>9. ASSUME Open, d.claimable PROVE buildPublicClaim(d, now) /\ ClaimPasses(m, now)
  <2>1. m \in Unclaimed /\ m.timelock <= now
    BY <1>3, <1>5, <1>7, <1>9 DEF matured, Unclaimed
  <2> QED BY <1>6, <1>8, <1>7, <1>3, <1>9, <2>1, DueClaimPasses
<1>10. ASSUME buildPublicClaim(d, now), ClaimPasses(m, now) PROVE d.claimable
  BY <1>5, <1>8, <1>10 DEF matured, ClaimPasses
<1> QED BY <1>4, <1>5, <1>9, <1>10

LEMMA InvBuiltPass ==
    ASSUME PoolInv, MemosInRange, EscrowsFit, MaxTime =< MAX_U64
    PROVE  BuiltTransfersPass
<1> SUFFICES ASSUME Open, NEW m \in MemoTerms, buildPublicTransfer(m)
             PROVE  /\ m \notin memos /\ m.asset \notin FeeAsset => TransferPasses(m)
                    /\ m \in Unclaimed /\ m.timelock <= now => ClaimPasses(m, now)
  BY DEF BuiltTransfersPass
<1>1. m.owner \in Owner /\ m.owner \notin OffCurve /\ m.owner \notin OffSubgroup
  BY DataAssumption DEF buildPublicTransfer, assertBjjSubgroupPoint
<1>2. m.value > 0 /\ memoInRange(m)
  BY BoundsAssumption DEF buildPublicTransfer, assertMemoValue, assertMemoTimelock, memoInRange
<1>3. ASSUME m \notin memos, m.asset \notin FeeAsset PROVE TransferPasses(m)
  BY <1>1, <1>2, <1>3 DEF TransferPasses, Delivered, _isValidBjjPoint, Open, whenNotPaused
<1>4. ASSUME m \in Unclaimed, m.timelock <= now PROVE ClaimPasses(m, now)
  BY <1>1, <1>4, DueClaimPasses
<1> QED BY <1>3, <1>4

LEMMA MemosInvariant == Spec => [](PoolInv /\ MemosInRange /\ EscrowsFit)
<1>1. initialize => TimelockInv
  BY DEF initialize, TimelockInv, MemosInRange, TimelockHolds
<1>2. TimelockInv => MemosInRange
  BY DEF TimelockInv
<1> QED BY <1>1, <1>2, PoolInvariant, TimelockNext, EscrowsInvariant, PTL DEF Spec

\* NotesRedeemable without ENABLED: while the pool is open and has room, no check
\* stands between the holder of an unspent note and all it is worth.
THEOREM PoolNotesPayable == Spec => []NotesPayable
BY InvNotesPayable, PoolInvariant, PoolSolvency, PTL

\* MemosRedeemable without ENABLED, when the clock fits the circuit's u64.
THEOREM PoolMemosPayable == MaxTime =< MAX_U64 => (Spec => []MemosPayable)
<1> SUFFICES ASSUME MaxTime =< MAX_U64 PROVE Spec => []MemosPayable
  OBVIOUS
<1>1. PoolInv /\ MemosInRange /\ EscrowsFit => MemosPayable
  BY DueClaimPasses DEF MemosPayable
<1> QED BY <1>1, MemosInvariant, PTL

\* BuiltMemosAreSafe without ENABLED: buildPublicTransfer lets through nothing the
\* pool refuses, and nothing it would keep.
THEOREM MemosBuiltPass == MaxTime =< MAX_U64 => (Spec => []BuiltTransfersPass)
<1> SUFFICES ASSUME MaxTime =< MAX_U64 PROVE Spec => []BuiltTransfersPass
  OBVIOUS
<1>1. PoolInv /\ MemosInRange /\ EscrowsFit => BuiltTransfersPass
  BY InvBuiltPass
<1> QED BY <1>1, MemosInvariant, PTL

\* ScanAgreesWithPool without ENABLED: PublicMemoScanner finds what the window
\* reaches, and offers what publicClaim accepts.
THEOREM MemosScanOffers == MaxTime =< MAX_U64 => (Spec => []ScanOffersClaims)
<1> SUFFICES ASSUME MaxTime =< MAX_U64 PROVE Spec => []ScanOffersClaims
  OBVIOUS
<1>1. PoolInv /\ MemosInRange /\ EscrowsFit => ScanOffersClaims
  BY InvScanOffers
<1> QED BY <1>1, MemosInvariant, PTL

=============================================================================
