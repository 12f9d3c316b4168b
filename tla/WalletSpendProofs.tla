------------------------- MODULE WalletSpendProofs -------------------------
(***************************************************************************)
(* What a wallet spends with.  First its tags: no tag of a self note is    *)
(* sent twice, for every pool the wallet starts from, every target, batch, *)
(* window and number of rotations, losses, crashes and restores.  Then its *)
(* plans: what it shows the user is what it can plan, for the notes of     *)
(* every state and every policy.  Then the note tree it proves membership  *)
(* in: for every depth, the contract's frontier, the wallet's levels and   *)
(* the circuit's loop are about the same full tree, and a root opens to    *)
(* its own leaves and to nothing else.                                     *)
(***************************************************************************)
EXTENDS WalletSpend, LeanIMT, DataProofs

-----------------------------------------------------------------------------
(***************************************************************************)
(* Where tags are: on chain, and claimed by a place that may yet send them.*)
(***************************************************************************)

OnChain == {pool.leaves[p].tag : p \in DOMAIN pool.leaves}
Ready == {preflight.ready[k] : k \in DOMAIN preflight.ready}
Fresh == {preflight.fresh[k] : k \in DOMAIN preflight.fresh}
Handled(j) == {jobs[j].handles[k].index : k \in DOMAIN jobs[j].handles}

Job == {"pay", "other"}

OneToOne(s) == \A k, l \in DOMAIN s : s[k] = s[l] => k = l

Preflight(Q, T) == [version : Nat, ready : Q, taker : T, fresh : Q, tested : Int]

\* The parts of a job and of the pool that EXCEPT updates.
JobShaped(r) == r = [x \in {"at", "steps", "n", "previous", "handles"} |-> r[x]]
PoolShaped == pool = [x \in {"leaves", "spent", "version", "paid", "deposited"} |-> pool[x]]

\* The context is never ahead of the chain, and the preflight is the context's.
ContextOk ==
    /\ counter \in Nat /\ pool.version \in Nat
    /\ history \in 1 .. pool.version /\ preflight.version = history
    /\ forgotten \subseteq Nat

\* Every leaf was made under a key of the history, which is why discovery's
\* answer can be read: no own tag is there twice,
\* but those that waited to be mined when a counter was lost.
LeavesOk ==
    /\ PoolShaped /\ IsSequence(pool.leaves)
    /\ \A p \in DOMAIN pool.leaves :
         pool.leaves[p].tag \in Nat \cup {-1} /\ pool.leaves[p].version \in 1 .. history
    /\ \A p, q \in DOMAIN pool.leaves :
         pool.leaves[p].tag = pool.leaves[q].tag =>
           p = q \/ pool.leaves[p].tag = -1 \/ pool.leaves[p].tag \in forgotten

\* What is ready was found to be free, and stays so if it was not forgotten.
PreflightOk ==
    /\ preflight \in Preflight(Seq(Nat), Job \cup {"none"})
    /\ OneToOne(preflight.ready) /\ OneToOne(preflight.fresh)
    /\ Ready \cup Fresh \subseteq 0 .. counter - 1
    /\ Ready \cap Fresh = {} /\ Ready \cap OnChain \subseteq forgotten

\* A job about to assemble has as many authorizations as its step mints notes.
JobsOk ==
    /\ DOMAIN jobs = Job /\ jobs = [j \in Job |-> jobs[j]]
    /\ \A j \in Job :
         /\ JobShaped(jobs[j]) /\ jobs[j].handles \in Seq([index : Nat, version : Nat])
         /\ jobs[j].at = "build" => Len(jobs[j].handles) = outputs(step(j).op)
         /\ \A k, l \in DOMAIN jobs[j].handles :
              jobs[j].handles[k].index = jobs[j].handles[l].index => k = l
         /\ Handled(j) \subseteq 0 .. counter - 1
         /\ Handled(j) \cap (Ready \cup Fresh) = {} /\ Handled(j) \cap OnChain \subseteq forgotten
         /\ \A i \in Job : i # j => Handled(i) \cap Handled(j) = {}

\* What waits to be mined is below the counter, or was forgotten with one.
MempoolOk ==
    \A tx \in mempool :
      /\ \E n \in {1, 2} : DOMAIN tx.outputs = 1 .. n /\ tx.outputs = [k \in 1 .. n |-> tx.outputs[k]]
      /\ \A k \in DOMAIN tx.outputs : tx.outputs[k].version \in 1 .. history
      /\ \A k, l \in DOMAIN tx.outputs : tx.outputs[k].tag = tx.outputs[l].tag => k = l
      /\ Minted(tx) \subseteq (0 .. counter - 1) \cup forgotten
      /\ Minted(tx) \cap (Ready \cup Fresh \cup OnChain) \subseteq forgotten
      /\ \A j \in Job : Minted(tx) \cap Handled(j) \subseteq forgotten
      /\ \A u \in mempool : u # tx => Minted(u) \cap Minted(tx) \subseteq forgotten

TagInv == ContextOk /\ LeavesOk /\ PreflightOk /\ JobsOk /\ MempoolOk

-----------------------------------------------------------------------------
(***************************************************************************)
(* Each action.                                                            *)
(***************************************************************************)

\* Fewer numbers are below the smaller one.
LEMMA Below == ASSUME NEW a \in Nat, NEW b \in Nat, b >= a PROVE 0 .. a - 1 \subseteq 0 .. b - 1
OBVIOUS

LEMMA Above ==
    ASSUME NEW a \in Nat, NEW b \in Nat
    PROVE  \A x \in a .. b - 1 : x \notin 0 .. a - 1 /\ x \in 0 .. b - 1
OBVIOUS

\* It holds at the start.
LEMMA TagInit == ASSUME Init PROVE TagInv
<1>1. PICK first \in FirstLeaves :
        /\ pool = [leaves |-> first, spent |-> {}, version |-> 1, paid |-> 0,
                   deposited |-> TotalValue(first)]
        /\ counter = 1 + Max({-1} \union {l.tag : l \in ToSet(first)})
  BY DEF Init
<1>2. /\ history = 1 /\ preflight = NewPreflight(1) /\ mempool = {} /\ forgotten = {}
      /\ jobs = [j \in Job |-> NoJob]
  BY DEF Init, Job
<1>3. /\ first \in Seq([tag : Nat \union {-1}, asset : {"asset"}, value : Nat, version : {1}])
      /\ \A p, q \in DOMAIN first : first[p].tag = first[q].tag => p = q \/ first[p].tag = -1
  BY FirstLeavesAssumption
<1> DEFINE T == {-1} \union {l.tag : l \in ToSet(first)}
<1>4. \A p \in DOMAIN first : first[p].tag \in Nat \cup {-1} /\ first[p].version = 1
  <2> SUFFICES ASSUME NEW p \in DOMAIN first
               PROVE  first[p].tag \in Nat \cup {-1} /\ first[p].version = 1
    OBVIOUS
  <2> DEFINE R == [tag : Nat \union {-1}, asset : {"asset"}, value : Nat, version : {1}]
  <2>1. first \in Seq(R)
    BY <1>3
  <2>2. first[p] \in R
    <3> HIDE DEF R
    <3> QED BY <2>1
  <2> QED BY <2>2
<1>5. T \subseteq Nat \cup {-1} /\ IsFiniteSet(T)
  <2>1. IsFiniteSet(DOMAIN first)
    BY <1>3, FS_Interval
  <2> DEFINE f == [p \in DOMAIN first |-> first[p].tag]
  <2>2. f \in Surjection(DOMAIN first, {l.tag : l \in ToSet(first)})
    BY DEF Surjection, ToSet
  <2>3. IsFiniteSet({l.tag : l \in ToSet(first)})
    <3> HIDE DEF f
    <3> QED BY <2>1, <2>2, FS_Surjection
  <2>4. T \subseteq Nat \cup {-1}
    BY <1>4 DEF ToSet
  <2> HIDE DEF T
  <2> QED BY <2>3, <2>4, FS_AddElement, FS_Union, FS_Singleton DEF T
<1>6. counter \in Nat
  <2>1. Max(T) \in T
    <3>1. T # {} /\ T \subseteq Int
      BY <1>5
    <3> HIDE DEF T
    <3> QED BY <1>5, <3>1, FiniteMax
  <2> HIDE DEF T
  <2> QED BY <1>1, <1>5, <2>1 DEF T
<1>7. ContextOk
  BY <1>1, <1>2, <1>6 DEF ContextOk, NewPreflight
<1>8. LeavesOk
  <2>1. IsSequence(first)
    BY <1>3, SeqIsSequence
  <2>2. PoolShaped /\ pool.leaves = first
    BY <1>1 DEF PoolShaped
  <2> QED BY <1>2, <1>3, <1>4, <2>1, <2>2 DEF LeavesOk
<1>9. PreflightOk
  BY <1>2 DEF PreflightOk, Preflight, NewPreflight, OneToOne, Ready, Fresh
<1>10. JobsOk
  <2>1. /\ JobShaped(NoJob) /\ NoJob.handles = << >> /\ NoJob.at # "build"
        /\ << >> \in Seq([index : Nat, version : Nat]) /\ DOMAIN << >> = {}
    BY DEF JobShaped, NoJob
  <2>2. \A j \in Job : jobs[j] = NoJob
    BY <1>2
  <2>3. \A j \in Job : Handled(j) = {}
    BY <2>1, <2>2 DEF Handled
  <2> QED BY <1>2, <2>1, <2>2, <2>3 DEF JobsOk
<1>11. MempoolOk
  BY <1>2 DEF MempoolOk
<1> QED BY <1>7, <1>8, <1>9, <1>10, <1>11 DEF TagInv

\* The key rotates: nothing is claimed or given up.
LEMMA RotationKeeps == ASSUME TagInv, rotateComplianceKey PROVE TagInv'
<1>1. /\ pool' = [pool EXCEPT !.version = @ + 1]
      /\ UNCHANGED <<counter, preflight, history, jobs, mempool, forgotten>>
  BY DEF rotateComplianceKey
<1>2. pool'.leaves = pool.leaves /\ pool'.version = pool.version + 1 /\ PoolShaped'
  BY <1>1 DEF TagInv, LeavesOk, PoolShaped
<1>3. /\ OnChain' = OnChain /\ Ready' = Ready /\ Fresh' = Fresh
      /\ \A j \in Job : Handled(j)' = Handled(j)
  BY <1>1, <1>2 DEF OnChain, Ready, Fresh, Handled
<1>4. ContextOk'
  BY <1>1, <1>2 DEF TagInv, ContextOk
<1>5. LeavesOk'
  BY <1>1, <1>2 DEF TagInv, LeavesOk
<1>6. PreflightOk'
  BY <1>1, <1>3 DEF TagInv, PreflightOk
<1>7. JobsOk'
  BY <1>1, <1>3 DEF TagInv, JobsOk, step
<1>8. MempoolOk'
  BY <1>1, <1>3 DEF TagInv, MempoolOk
<1> QED BY <1>4, <1>5, <1>6, <1>7, <1>8 DEF TagInv

\* Jobs that give up what they hold, and a preflight that is made anew or stays,
\* give back nothing: what they had is burned.
LEMMA GivingUpKeeps ==
    ASSUME TagInv, UNCHANGED <<pool, mempool>>,
           counter' \in Nat, forgotten \subseteq forgotten', forgotten' \subseteq Nat,
           counter' >= counter \/ \A tx \in mempool : Minted(tx) \subseteq forgotten',
           history' = pool.version, preflight'.version = pool.version,
           preflight' = NewPreflight(pool.version) \/ (preflight' = preflight /\ counter' = counter),
           DOMAIN jobs' = Job, jobs' = [j \in Job |-> jobs'[j]],
           \A j \in Job : \/ jobs'[j] = jobs[j] /\ counter' = counter
                          \/ JobShaped(jobs'[j]) /\ jobs'[j].handles = << >> /\ jobs'[j].at # "build"
    PROVE  TagInv'
<1>1. OnChain' = OnChain
  BY DEF OnChain
<1>2. Ready' \subseteq Ready /\ Fresh' \subseteq Fresh
      /\ (counter' = counter \/ (Ready' = {} /\ Fresh' = {}))
  BY DEF Ready, Fresh, NewPreflight
<1>3. \A j \in Job : Handled(j)' \subseteq Handled(j) /\ (counter' = counter \/ Handled(j)' = {})
  BY DEF Handled
<1>4. history' \in 1 .. pool.version /\ history' >= history /\ history \in Nat /\ history' \in Nat
  BY DEF TagInv, ContextOk
<1>5. ContextOk'
  BY <1>4 DEF TagInv, ContextOk
<1>6. LeavesOk'
  BY <1>4 DEF TagInv, LeavesOk, PoolShaped
<1>7. PreflightOk'
  <2>1. /\ preflight' \in Preflight(Seq(Nat), Job \cup {"none"})
        /\ OneToOne(preflight'.ready) /\ OneToOne(preflight'.fresh)
    <3>1. CASE preflight' = preflight
      BY <3>1 DEF TagInv, PreflightOk
    <3>2. CASE preflight' = NewPreflight(pool.version)
      <4>1. << >> \in Seq(Nat) /\ DOMAIN << >> = {} /\ pool.version \in Nat
        BY DEF TagInv, ContextOk
      <4> QED BY <3>2, <4>1 DEF Preflight, NewPreflight, OneToOne
    <3> QED BY <3>1, <3>2
  <2>2. Ready' \cup Fresh' \subseteq 0 .. counter' - 1
    BY <1>2 DEF TagInv, PreflightOk
  <2> QED BY <1>1, <1>2, <2>1, <2>2 DEF TagInv, PreflightOk
<1>8. JobsOk'
  <2> SUFFICES ASSUME NEW j \in Job
               PROVE  /\ JobShaped(jobs'[j]) /\ jobs'[j].handles \in Seq([index : Nat, version : Nat])
                      /\ jobs'[j].at = "build" => Len(jobs'[j].handles) = outputs(step(j)'.op)
                      /\ \A k, l \in DOMAIN jobs'[j].handles :
                           jobs'[j].handles[k].index = jobs'[j].handles[l].index => k = l
                      /\ Handled(j)' \subseteq 0 .. counter' - 1
                      /\ Handled(j)' \cap (Ready' \cup Fresh') = {} /\ Handled(j)' \cap OnChain' \subseteq forgotten'
                      /\ \A i \in Job : i # j => Handled(i)' \cap Handled(j)' = {}
    BY DEF JobsOk
  <2>1. /\ JobShaped(jobs'[j]) /\ jobs'[j].handles \in Seq([index : Nat, version : Nat])
        /\ jobs'[j].at = "build" => Len(jobs'[j].handles) = outputs(step(j)'.op)
        /\ \A k, l \in DOMAIN jobs'[j].handles :
             jobs'[j].handles[k].index = jobs'[j].handles[l].index => k = l
    <3>1. CASE jobs'[j] = jobs[j]
      BY <3>1 DEF TagInv, JobsOk, step
    <3>2. CASE JobShaped(jobs'[j]) /\ jobs'[j].handles = << >> /\ jobs'[j].at # "build"
      BY <3>2
    <3> QED BY <3>1, <3>2
  <2>2. Handled(j)' \subseteq 0 .. counter' - 1
    BY <1>3 DEF TagInv, JobsOk
  <2> QED BY <1>1, <1>2, <1>3, <2>1, <2>2 DEF TagInv, JobsOk
<1>9. MempoolOk'
  <2> SUFFICES ASSUME NEW tx \in mempool, MempoolOk
               PROVE  /\ \A k \in DOMAIN tx.outputs : tx.outputs[k].version \in 1 .. history'
                      /\ Minted(tx) \subseteq (0 .. counter' - 1) \cup forgotten'
                      /\ Minted(tx) \cap (Ready' \cup Fresh' \cup OnChain') \subseteq forgotten'
                      /\ \A j \in Job : Minted(tx) \cap Handled(j)' \subseteq forgotten'
    BY DEF MempoolOk, TagInv, Minted
  <2>1. Minted(tx) \subseteq (0 .. counter' - 1) \cup forgotten'
    <3>1. CASE counter' >= counter
      <4>1. counter \in Nat /\ Minted(tx) \subseteq (0 .. counter - 1) \cup forgotten
        BY DEF MempoolOk, TagInv, ContextOk
      <4>2. 0 .. counter - 1 \subseteq 0 .. counter' - 1
        BY <3>1, <4>1, Below
      <4> QED BY <4>1, <4>2
    <3>2. CASE Minted(tx) \subseteq forgotten'
      BY <3>2
    <3> QED BY <3>1, <3>2
  <2>2. \A k \in DOMAIN tx.outputs : tx.outputs[k].version \in 1 .. history'
    <3>1. \A k \in DOMAIN tx.outputs : tx.outputs[k].version \in 1 .. history
      BY DEF MempoolOk
    <3> QED BY <1>4, <3>1
  <2>3. /\ Minted(tx) \cap (Ready \cup Fresh \cup OnChain) \subseteq forgotten
        /\ \A j \in Job : Minted(tx) \cap Handled(j) \subseteq forgotten
    BY DEF MempoolOk
  <2> QED BY <1>1, <1>2, <1>3, <2>1, <2>2, <2>3
<1> QED BY <1>5, <1>6, <1>7, <1>8, <1>9 DEF TagInv

\* Setting the state of one job.
LEMMA Going ==
    ASSUME TagInv, NEW j \in Job, NEW r, Go(j, r)
    PROVE  /\ DOMAIN jobs' = Job /\ jobs' = [k \in Job |-> jobs'[k]]
           /\ jobs'[j] = r /\ \A k \in Job : k # j => jobs'[k] = jobs[k]
BY DEF TagInv, JobsOk, Go

\* An intent starts.
LEMMA IntentKeeps == ASSUME TagInv, planPayment \/ otherIntent PROVE TagInv'
<1>1. PICK j \in Job : \E steps : Go(j, [NoJob EXCEPT !.at = "mint", !.steps = steps])
  BY DEF planPayment, otherIntent, Job
<1>2. PICK steps : Go(j, [NoJob EXCEPT !.at = "mint", !.steps = steps])
  BY <1>1
<1> DEFINE r == [NoJob EXCEPT !.at = "mint", !.steps = steps]
<1>3. JobShaped(r) /\ r.handles = << >> /\ r.at # "build"
  <2>1. r.handles = << >> /\ r.at = "mint"
    BY DEF NoJob
  <2>2. JobShaped(r)
    BY DEF NoJob, JobShaped
  <2> QED BY <2>1, <2>2
<1> HIDE DEF r
<1>4. /\ DOMAIN jobs' = Job /\ jobs' = [k \in Job |-> jobs'[k]]
      /\ jobs'[j] = r /\ \A k \in Job : k # j => jobs'[k] = jobs[k]
  BY <1>2, Going DEF r
<1>5. /\ UNCHANGED <<pool, mempool, forgotten>> /\ forgotten \subseteq Nat
      /\ counter' = counter /\ counter \in Nat /\ renewContext
  BY DEF planPayment, otherIntent, TagInv, ContextOk
<1>6. /\ history' = pool.version /\ preflight'.version = pool.version
      /\ preflight' = NewPreflight(pool.version) \/ (preflight' = preflight /\ counter' = counter)
  BY <1>5 DEF renewContext, NewPreflight
<1>7. \A k \in Job : \/ jobs'[k] = jobs[k] /\ counter' = counter
                     \/ JobShaped(jobs'[k]) /\ jobs'[k].handles = << >> /\ jobs'[k].at # "build"
  BY <1>3, <1>4, <1>5
<1>8. /\ counter' \in Nat /\ counter' >= counter
      /\ forgotten \subseteq forgotten' /\ forgotten' \subseteq Nat
  BY <1>5
<1> QED BY <1>4, <1>5, <1>6, <1>7, <1>8, GivingUpKeeps

\* The process dies, with the counter's device or without.
LEMMA RestartKeeps == ASSUME TagInv, crash \/ restoreFromSeed PROVE TagInv'
<1>1. Restarted /\ UNCHANGED <<pool, mempool>> /\ counter \in Nat
  BY DEF crash, restoreFromSeed, Restarted, TagInv, ContextOk
<1>2. /\ counter' \in Nat
      /\ counter' >= counter \/ \A tx \in mempool : Minted(tx) \subseteq forgotten'
      /\ forgotten \subseteq forgotten' /\ forgotten' \subseteq Nat
  <2>1. forgotten \subseteq Nat /\ \A tx \in mempool : Minted(tx) \subseteq Nat
    <3>1. forgotten \subseteq Nat /\ 0 .. counter - 1 \subseteq Nat
      BY <1>1 DEF TagInv, ContextOk
    <3>2. \A tx \in mempool : Minted(tx) \subseteq (0 .. counter - 1) \cup forgotten
      BY DEF TagInv, MempoolOk
    <3> QED BY <3>1, <3>2
  <2>2. CASE crash
    BY <1>1, <2>1, <2>2 DEF crash
  <2>3. CASE restoreFromSeed
    BY <1>1, <2>1, <2>3 DEF restoreFromSeed
  <2> QED BY <2>2, <2>3
<1>3. history' = pool.version /\ preflight' = NewPreflight(pool.version)
  BY <1>1 DEF Restarted
<1>4. preflight'.version = pool.version
  BY <1>3 DEF NewPreflight
<1>5. DOMAIN jobs = Job
  BY DEF TagInv, JobsOk
<1> DEFINE after(j) == IF jobs[j].at = "idle" THEN NoJob ELSE [NoJob EXCEPT !.at =
                         IF j = "pay" /\ jobs[j].at # "done" THEN "idle" ELSE "done"]
<1>6. jobs' = [j \in Job |-> after(j)]
  BY <1>1, <1>5 DEF Restarted
<1>7. \A j \in Job : JobShaped(after(j)) /\ after(j).handles = << >> /\ after(j).at # "build"
  BY DEF JobShaped, NoJob
<1> HIDE DEF after
<1>8. /\ DOMAIN jobs' = Job /\ jobs' = [j \in Job |-> jobs'[j]]
      /\ \A j \in Job : JobShaped(jobs'[j]) /\ jobs'[j].handles = << >> /\ jobs'[j].at # "build"
  BY <1>6, <1>7
<1> QED BY <1>1, <1>2, <1>3, <1>4, <1>8, GivingUpKeeps

\* Only the counter moves, and only up.
LEMMA CounterKeeps ==
    ASSUME TagInv, UNCHANGED <<pool, preflight, history, jobs, mempool, forgotten>>,
           counter' \in Nat, counter' >= counter
    PROVE  TagInv'
<1>1. /\ OnChain' = OnChain /\ Ready' = Ready /\ Fresh' = Fresh
      /\ \A j \in Job : Handled(j)' = Handled(j)
  BY DEF OnChain, Ready, Fresh, Handled
<1>2. 0 .. counter - 1 \subseteq 0 .. counter' - 1
  <2>1. counter \in Nat /\ counter' \in Nat /\ counter' >= counter
    BY DEF TagInv, ContextOk
  <2> QED BY ONLY <2>1, Below
<1>3. ContextOk' /\ LeavesOk'
  BY DEF TagInv, ContextOk, LeavesOk, PoolShaped
<1>4. PreflightOk'
  BY <1>1, <1>2 DEF TagInv, PreflightOk
<1>5. JobsOk'
  BY <1>1, <1>2 DEF TagInv, JobsOk, step
<1>6. MempoolOk'
  BY <1>1, <1>2 DEF TagInv, MempoolOk
<1> QED BY <1>3, <1>4, <1>5, <1>6 DEF TagInv

\* A counter is reconciled with the chain.
LEMMA ReconcileKeeps == ASSUME TagInv, reconcileCounterWithChain PROVE TagInv'
<1> DEFINE T == {-1} \union occupiedTags
           top == Max(T) + 1
<1>1. T \subseteq Int /\ T \subseteq Nat \cup {-1} /\ IsFiniteSet(T) /\ T # {}
  <2>1. occupiedTags \subseteq 0 .. Window - 1 /\ Window \in Nat
    BY SpendConstants DEF occupiedTags
  <2>2. IsFiniteSet(0 .. Window - 1)
    BY <2>1, FS_Interval
  <2>3. IsFiniteSet(occupiedTags)
    BY <2>1, <2>2, FS_Subset
  <2>4. IsFiniteSet(T)
    BY <2>3, FS_Union, FS_Singleton
  <2> QED BY <2>1, <2>4
<1>2. top \in Nat
  <2>1. Max(T) \in T
    <3> HIDE DEF T
    <3> QED BY <1>1, FiniteMax
  <2>2. Max(T) \in Nat \/ Max(T) = -1
    <3> HIDE DEF T
    <3> QED BY <1>1, <2>1
  <2> HIDE DEF T
  <2> QED BY <2>2
<1>3. counter' = Max({counter, top}) /\ UNCHANGED <<pool, preflight, history, jobs, mempool, forgotten>>
  BY DEF reconcileCounterWithChain, ratchetCounter
<1> HIDE DEF top, T
<1>4. {counter, top} \subseteq Int /\ IsFiniteSet({counter, top}) /\ counter \in Nat
  <2>1. IsFiniteSet({counter} \cup {top})
    BY FS_Union, FS_Singleton
  <2>2. {counter} \cup {top} = {counter, top}
    OBVIOUS
  <2> QED BY <1>2, <2>1, <2>2 DEF TagInv, ContextOk
<1>5. counter' \in {counter, top} /\ counter' >= counter
  BY <1>3, <1>4, FiniteMax
<1> QED BY <1>2, <1>3, <1>4, <1>5, CounterKeeps

\* The preflight moves: what it has now it had before, or was just reserved.
LEMMA PreflightKeeps ==
    ASSUME TagInv, UNCHANGED <<pool, history, jobs, mempool, forgotten>>,
           counter' \in Nat, counter' >= counter,
           preflight' \in Preflight(Seq(Nat), Job \cup {"none"}),
           preflight'.version = preflight.version,
           OneToOne(preflight'.ready), OneToOne(preflight'.fresh),
           Ready' \cup Fresh' \subseteq Ready \cup Fresh \cup (counter .. counter' - 1),
           Ready' \cap Fresh' = {}, Ready' \cap OnChain \subseteq forgotten
    PROVE  TagInv'
<1>1. OnChain' = OnChain /\ \A j \in Job : Handled(j)' = Handled(j)
  BY DEF OnChain, Handled
<1>2. counter \in Nat /\ 0 .. counter - 1 \subseteq 0 .. counter' - 1
  <2>1. counter \in Nat
    BY DEF TagInv, ContextOk
  <2>2. counter' \in Nat /\ counter' >= counter
    OBVIOUS
  <2> QED BY ONLY <2>1, <2>2, Below
<1>3. \A x \in counter .. counter' - 1 : x \notin 0 .. counter - 1 /\ x \in 0 .. counter' - 1
  <2>1. counter' \in Nat
    OBVIOUS
  <2> QED BY ONLY <1>2, <2>1, Above
<1>4. ContextOk' /\ LeavesOk'
  BY DEF TagInv, ContextOk, LeavesOk, PoolShaped
<1>5. Ready \cup Fresh \subseteq 0 .. counter - 1
  BY DEF TagInv, PreflightOk
<1>6. PreflightOk'
  <2>1. Ready' \cup Fresh' \subseteq 0 .. counter' - 1
    BY <1>2, <1>3, <1>5
  <2> QED BY <1>1, <2>1 DEF PreflightOk
<1>7. JobsOk'
  <2> SUFFICES ASSUME NEW j \in Job
               PROVE  /\ Handled(j) \subseteq 0 .. counter' - 1
                      /\ Handled(j) \cap (Ready' \cup Fresh') = {} /\ Handled(j) \cap OnChain \subseteq forgotten
    BY <1>1 DEF TagInv, JobsOk, step
  <2>1. /\ Handled(j) \subseteq 0 .. counter - 1
        /\ Handled(j) \cap (Ready \cup Fresh) = {} /\ Handled(j) \cap OnChain \subseteq forgotten
    BY DEF TagInv, JobsOk
  <2> QED BY <1>2, <1>3, <2>1
<1>8. MempoolOk'
  <2> SUFFICES ASSUME NEW tx \in mempool
               PROVE  /\ Minted(tx) \subseteq (0 .. counter' - 1) \cup forgotten'
                      /\ Minted(tx) \cap (Ready' \cup Fresh' \cup OnChain) \subseteq forgotten
    BY <1>1 DEF TagInv, MempoolOk
  <2>1. /\ Minted(tx) \subseteq (0 .. counter - 1) \cup forgotten
        /\ Minted(tx) \cap (Ready \cup Fresh \cup OnChain) \subseteq forgotten
    BY DEF TagInv, MempoolOk
  <2> QED BY <1>2, <1>3, <2>1
<1> QED BY <1>4, <1>6, <1>7, <1>8 DEF TagInv

\* Candidates are reserved.
LEMMA AllocateKeeps == ASSUME TagInv, NEW j \in Job, allocate(j) PROVE TagInv'
<1>1. PICK count \in Nat :
        /\ counter' = counter + count
        /\ preflight' = [preflight EXCEPT !.taker = j, !.tested = @ + count,
                                          !.fresh = [i \in 1 .. count |-> counter + i - 1]]
  <2> DEFINE first == preflight.taker = "none"
             count == IF first THEN outputs(step(j).op) - Len(preflight.ready)
                      ELSE Min({BatchSize, MaxCandidates - preflight.tested})
  <2>1. /\ counter' = counter + count
        /\ preflight' = [preflight EXCEPT !.taker = j, !.tested = @ + count,
                                          !.fresh = [i \in 1 .. count |-> counter + i - 1]]
        /\ Len(preflight.ready) < outputs(step(j).op) /\ preflight.tested < MaxCandidates
    BY DEF allocate
  <2>2. preflight.ready \in Seq(Nat) /\ preflight.tested \in Int
    BY DEF TagInv, PreflightOk, Preflight
  <2>3. outputs(step(j).op) \in Nat
    BY DEF outputs
  <2>4. outputs(step(j).op) - Len(preflight.ready) \in Nat
    BY <2>1, <2>2, <2>3
  <2>5. {BatchSize, MaxCandidates - preflight.tested} \subseteq Nat
    BY <2>1, <2>2, SpendConstants
  <2>6. Min({BatchSize, MaxCandidates - preflight.tested}) \in Nat
    BY <2>5, LeastIsMin
  <2>7. count \in Nat
    BY <2>4, <2>6
  <2> HIDE DEF count
  <2> QED BY <2>1, <2>7
<1> DEFINE fresh == [i \in 1 .. count |-> counter + i - 1]
<1>2. counter \in Nat /\ counter' \in Nat /\ counter' >= counter
  BY <1>1 DEF TagInv, ContextOk
<1>3. /\ fresh \in Seq(Nat) /\ OneToOne(fresh) /\ DOMAIN fresh = 1 .. count
      /\ \A k \in DOMAIN fresh : fresh[k] \in counter .. counter' - 1
  <2>1. fresh \in [1 .. count -> Nat] /\ DOMAIN fresh = 1 .. count
    BY <1>2
  <2>2. \A k \in 1 .. count : fresh[k] = counter + k - 1
    OBVIOUS
  <2> HIDE DEF fresh
  <2>3. OneToOne(fresh)
    BY <1>2, <2>1, <2>2 DEF OneToOne
  <2>4. \A k \in 1 .. count : fresh[k] \in counter .. counter + count - 1
    BY <1>2, <2>2
  <2>5. fresh \in Seq(Nat)
    BY <2>1
  <2>6. counter' - 1 = counter + count - 1
    BY <1>1, <1>2
  <2> QED BY <2>1, <2>3, <2>4, <2>5, <2>6
<1> HIDE DEF fresh
<1>4. /\ preflight'.ready = preflight.ready /\ preflight'.fresh = fresh
      /\ preflight'.version = preflight.version
      /\ preflight' \in Preflight(Seq(Nat), Job \cup {"none"})
  <2> DEFINE Q == Seq(Nat)
             T == Job \cup {"none"}
  <2>1. preflight \in Preflight(Q, T) /\ fresh \in Q /\ j \in T
    BY <1>3 DEF TagInv, PreflightOk
  <2> HIDE DEF Q, T
  <2>2. preflight.tested + count \in Int
    BY <2>1 DEF Preflight
  <2>3. PICK n \in Int :
          preflight' = [preflight EXCEPT !.taker = j, !.tested = n, !.fresh = fresh]
    BY <1>1, <2>2 DEF fresh
  <2>4. /\ preflight'.ready = preflight.ready /\ preflight'.fresh = fresh
        /\ preflight'.version = preflight.version /\ preflight' \in Preflight(Q, T)
    BY <2>1, <2>3 DEF Preflight
  <2> QED BY <2>4 DEF Q, T
<1>5. Ready' = Ready /\ Fresh' \subseteq counter .. counter' - 1
  BY <1>3, <1>4 DEF Ready, Fresh
<1>6. UNCHANGED <<pool, history, jobs, mempool, forgotten>>
  BY DEF allocate
<1>7. /\ OneToOne(preflight.ready) /\ Ready \subseteq 0 .. counter - 1 /\ Ready \cap OnChain \subseteq forgotten
  BY DEF TagInv, PreflightOk
<1>8. Ready' \cap Fresh' = {}
  <2>1. \A x \in counter .. counter' - 1 : x \notin 0 .. counter - 1
    BY <1>2
  <2> QED BY <1>5, <1>7, <2>1
<1>9. OneToOne(preflight'.ready) /\ OneToOne(preflight'.fresh)
  BY <1>3, <1>4, <1>7
<1>10. Ready' \cup Fresh' \subseteq Ready \cup Fresh \cup (counter .. counter' - 1)
  BY <1>5
<1>11. Ready' \cap OnChain \subseteq forgotten
  BY <1>5, <1>7
<1> QED BY <1>2, <1>4, <1>6, <1>8, <1>9, <1>10, <1>11, PreflightKeeps

\* Nothing free was found.
LEMMA ExhaustedKeeps == ASSUME TagInv, NEW j \in Job, exhausted(j) PROVE TagInv'
<1>1. /\ preflight' = [preflight EXCEPT !.taker = "none", !.tested = 0]
      /\ UNCHANGED <<pool, history, jobs, mempool, forgotten>> /\ counter' = counter
  BY DEF exhausted
<1>2. /\ preflight'.ready = preflight.ready /\ preflight'.fresh = preflight.fresh
      /\ preflight'.version = preflight.version
      /\ preflight' \in Preflight(Seq(Nat), Job \cup {"none"})
  <2> DEFINE Q == Seq(Nat)
             T == Job \cup {"none"}
  <2>1. preflight \in Preflight(Q, T) /\ "none" \in T
    BY DEF TagInv, PreflightOk
  <2> HIDE DEF Q, T
  <2>2. PICK n \in Int : preflight' = [preflight EXCEPT !.taker = "none", !.tested = n]
    <3>1. 0 \in Int
      OBVIOUS
    <3> QED BY <1>1, <3>1, Zenon
  <2>3. /\ preflight'.ready = preflight.ready /\ preflight'.fresh = preflight.fresh
        /\ preflight'.version = preflight.version /\ preflight' \in Preflight(Q, T)
    BY <2>1, <2>2 DEF Preflight
  <2> QED BY <2>3 DEF Q, T
<1>3. Ready' = Ready /\ Fresh' = Fresh
  BY <1>2 DEF Ready, Fresh
<1>4. counter' \in Nat /\ counter' >= counter
  BY <1>1 DEF TagInv, ContextOk
<1>5. /\ OneToOne(preflight'.ready) /\ OneToOne(preflight'.fresh)
      /\ Ready' \cap Fresh' = {} /\ Ready' \cap OnChain \subseteq forgotten
  BY <1>2, <1>3 DEF TagInv, PreflightOk
<1>6. Ready' \cup Fresh' \subseteq Ready \cup Fresh \cup (counter .. counter' - 1)
  BY <1>3
<1> QED BY <1>1, <1>2, <1>4, <1>5, <1>6, PreflightKeeps

\* Of the candidates those are kept that no row on chain opens with.
LEMMA Kept ==
    ASSUME PreflightOk
    PROVE  LET kept == FoldLeft(LAMBDA ready, i :
                                  IF opensExistingSelfRecord(i, preflight.version) THEN ready
                                  ELSE Append(ready, i),
                                preflight.ready, preflight.fresh) IN
           /\ kept \in Seq(Nat) /\ OneToOne(kept)
           /\ \A k \in DOMAIN kept : kept[k] \in Ready \/
                (kept[k] \in Fresh /\ ~opensExistingSelfRecord(kept[k], preflight.version))
<1> DEFINE fresh == preflight.fresh
           n == Len(fresh)
           P == 1 .. n
           base == preflight.ready
           opens(i) == opensExistingSelfRecord(i, preflight.version)
           next(r, i) == IF opens(i) THEN r ELSE Append(r, i)
           F(f) == f = [s \in SUBSET P |->
                          IF s = {} THEN base ELSE next(f[s \ {Max(s)}], fresh[Max(s)])]
           kept == FoldLeft(LAMBDA ready, i : IF opens(i) THEN ready ELSE Append(ready, i),
                            base, fresh)
<1>1. /\ fresh \in Seq(Nat) /\ base \in Seq(Nat) /\ n \in Nat /\ DOMAIN fresh = P
      /\ OneToOne(fresh) /\ OneToOne(base) /\ \A k \in P : fresh[k] \in Nat
  BY DEF PreflightOk, Preflight
<1>2. kept = (CHOOSE f : F(f))[P]
  BY <1>1 DEF FoldLeft, MapThenFoldSet
<1> HIDE DEF opens, kept, fresh, base, n
<1> DEFINE take == [s \in SUBSET P |-> Max(s)]
           step2 == [xr \in P \X Seq(Nat) |-> next(xr[2], fresh[xr[1]])]
<1>3. \A x \in P, r \in Seq(Nat) : step2[<<x, r>>] = next(r, fresh[x]) /\ step2[<<x, r>>] \in Seq(Nat)
  BY <1>1
<1>4. IsFiniteSet(P) /\ Takes(take, P)
  BY <1>1, Positions
<1>5. \A s \in SUBSET P : s # {} => take[s] = Max(s) /\ take[s] \in P /\ take[s] \in s
  BY <1>4 DEF Takes
<1>6. \A s \in SUBSET P : IsFiniteSet(s) /\ Takes(take, s)
  BY <1>4, FS_Subset DEF Takes
<1>7. \E f : F(f)
  <2>1. PICK f : FoldFn(f, base, step2, take, P)
    <3> HIDE DEF P, take, step2
    <3> QED BY <1>4, FoldFnExists
  <2>2. /\ f = [s \in SUBSET P |-> f[s]]
        /\ \A s \in SUBSET P : f[s] = IF s = {} THEN base ELSE step2[<<take[s], f[s \ {take[s]}]>>]
    <3> HIDE DEF P, take, step2
    <3> QED BY <2>1 DEF FoldFn
  <2>3. \A s \in SUBSET P : f[s] \in Seq(Nat)
    <3> SUFFICES ASSUME NEW S \in SUBSET P PROVE f[S] \in Seq(Nat)
      OBVIOUS
    <3> HIDE DEF P, take, step2, next
    <3>1. f[{}] \in Seq(Nat)
      BY <1>1, <2>2
    <3>2. \A s \in SUBSET S : s # {} /\ f[s \ {take[s]}] \in Seq(Nat) => f[s] \in Seq(Nat)
      BY <1>3, <1>5, <2>2
    <3> QED BY <1>6, <3>1, <3>2, FoldKeeps
  <2>4. \A s \in SUBSET P : f[s] = IF s = {} THEN base ELSE next(f[s \ {Max(s)}], fresh[Max(s)])
    <3> HIDE DEF P, take, step2, next
    <3>1. \A s \in SUBSET P : s # {} => s \ {take[s]} \in SUBSET P
      OBVIOUS
    <3> QED BY <1>3, <1>5, <2>2, <2>3, <3>1
  <2> HIDE DEF take, step2, next
  <2>5. F(f)
    BY <2>2, <2>4
  <2> QED BY <2>5
<1> DEFINE g == CHOOSE f : F(f)
<1>8. F(g)
  <2> HIDE DEF F
  <2> QED BY <1>7
<1>9. \A s \in SUBSET P : g[s] = IF s = {} THEN base ELSE next(g[s \ {take[s]}], fresh[take[s]])
  <2>1. \A s \in SUBSET P : g[s] = IF s = {} THEN base ELSE next(g[s \ {Max(s)}], fresh[Max(s)])
    <3> HIDE DEF g, next
    <3> QED BY <1>8
  <2> HIDE DEF g, next, P, take
  <2> QED BY <1>5, <2>1
\* What is kept of the candidates at the positions of s.
<1> DEFINE Of(s, r) ==
             /\ r \in Seq(Nat) /\ OneToOne(r)
             /\ \A k \in DOMAIN r : r[k] \in Ready \/ \E x \in s : r[k] = fresh[x] /\ ~opens(r[k])
<1>10. Of(P, g[P])
  <2> DEFINE h == [s \in SUBSET P |-> <<s, g[s]>>]
             Good == {sr \in (SUBSET P) \X Seq(Nat) : Of(sr[1], sr[2])}
  <2>1. h[{}] \in Good
    <3>1. g[{}] = base /\ {} \in SUBSET P
      BY <1>9
    <3>2. Of({}, base)
      BY <1>1 DEF Ready, base
    <3> HIDE DEF g, Of, P
    <3> QED BY <1>1, <3>1, <3>2
  <2>2. ASSUME NEW s \in SUBSET P, s # {}, h[s \ {take[s]}] \in Good PROVE h[s] \in Good
    <3> DEFINE t == s \ {take[s]}
               r == g[t]
               c == fresh[take[s]]
    <3>1. t \in SUBSET P /\ Of(t, r)
      <4>1. t \in SUBSET P
        OBVIOUS
      <4> HIDE DEF g, Of, P, take
      <4> QED BY <2>2, <4>1
    <3>2. g[s] = next(r, c) /\ take[s] \in s /\ take[s] \in P /\ c \in Nat
      <4> HIDE DEF g, next, take, P
      <4> QED BY <1>1, <1>5, <1>9, <2>2
    <3>3. Of(s, next(r, c))
      <4> HIDE DEF g, take
      <4>1. CASE opens(c)
        BY <3>1, <4>1
      <4>2. CASE ~opens(c)
        <5>1. r \in Seq(Nat) /\ OneToOne(r) /\ c \in Nat /\ Append(r, c) \in Seq(Nat)
          BY <3>1, <3>2
        <5>2. \A k \in DOMAIN r : r[k] # c
          <6> SUFFICES ASSUME NEW k \in DOMAIN r, r[k] = c PROVE FALSE
            OBVIOUS
          <6>1. c \in Fresh
            BY <1>1, <3>2 DEF Fresh, fresh
          <6>2. c \notin Ready
            BY <6>1 DEF PreflightOk
          <6>3. PICK x \in t : fresh[x] = c
            BY <3>1, <6>2
          <6>4. x \in P /\ x # take[s]
            BY <3>1
          <6> QED BY <1>1, <3>2, <6>3, <6>4 DEF OneToOne
        <5>3. OneToOne(Append(r, c))
          <6>1. \A k \in DOMAIN Append(r, c) :
                  \/ k \in DOMAIN r /\ Append(r, c)[k] = r[k]
                  \/ k = Len(r) + 1 /\ Append(r, c)[k] = c
            BY <5>1
          <6> QED BY <5>1, <5>2, <6>1 DEF OneToOne
        <5>4. \A k \in DOMAIN Append(r, c) : Append(r, c)[k] \in Ready
                 \/ \E x \in s : Append(r, c)[k] = fresh[x] /\ ~opens(Append(r, c)[k])
          <6> SUFFICES ASSUME NEW k \in DOMAIN Append(r, c)
                       PROVE  Append(r, c)[k] \in Ready
                                \/ \E x \in s : Append(r, c)[k] = fresh[x] /\ ~opens(Append(r, c)[k])
            OBVIOUS
          <6>1. (k \in DOMAIN r /\ Append(r, c)[k] = r[k]) \/ Append(r, c)[k] = c
            BY <5>1
          <6> QED BY <3>1, <3>2, <4>2, <6>1
        <5> QED BY <4>2, <5>1, <5>3, <5>4
      <4> QED BY <4>1, <4>2
    <3>4. next(r, c) \in Seq(Nat)
      BY <3>3
    <3> HIDE DEF g, Of, P, next, take
    <3>5. h[s] = <<s, next(r, c)>>
      BY <3>2
    <3> QED BY <3>3, <3>4, <3>5
  <2> HIDE DEF g, Of, P, take, h, Good
  <2>3. h[P] \in Good
    BY <1>4, <2>1, <2>2, FoldKeeps
  <2> QED BY <2>3 DEF h, Good
<1>11. kept = g[P]
  <2> HIDE DEF F
  <2> QED BY <1>2
<1>12. \A x \in P : fresh[x] \in Fresh
  BY <1>1 DEF Fresh, fresh
<1>13. /\ kept \in Seq(Nat) /\ OneToOne(kept)
       /\ \A k \in DOMAIN kept : kept[k] \in Ready \/ (kept[k] \in Fresh /\ ~opens(kept[k]))
  <2> HIDE DEF g, P
  <2> QED BY <1>10, <1>11, <1>12
<1> QED BY <1>13 DEF kept, opens, fresh, base

\* No row opens with a tag only when the tag is not on chain: the preflight
\* has every key that any leaf was made under.
LEMMA NoRowOpens ==
    ASSUME TagInv, NEW i, i \in Nat, ~opensExistingSelfRecord(i, preflight.version)
    PROVE  i \notin OnChain
<1>1. \A p \in DOMAIN pool.leaves : pool.leaves[p].version \in 1 .. preflight.version
  BY DEF TagInv, LeavesOk, ContextOk
<1> QED BY <1>1 DEF OnChain, opensExistingSelfRecord

\* Discovery answers, or does not.
LEMMA ClassifyKeeps == ASSUME TagInv, classify PROVE TagInv'
<1> DEFINE kept == FoldLeft(LAMBDA ready, i :
                              IF opensExistingSelfRecord(i, preflight.version) THEN ready
                              ELSE Append(ready, i),
                            preflight.ready, preflight.fresh)
           Q == Seq(Nat)
           T == Job \cup {"none"}
<1>1. UNCHANGED <<pool, history, jobs, mempool, forgotten>> /\ counter' = counter
  BY DEF classify
<1>2. counter' \in Nat /\ counter' >= counter
  BY <1>1 DEF TagInv, ContextOk
<1>3. /\ kept \in Seq(Nat) /\ OneToOne(kept)
      /\ \A k \in DOMAIN kept : kept[k] \in Ready \/
           (kept[k] \in Fresh /\ ~opensExistingSelfRecord(kept[k], preflight.version))
  BY Kept DEF TagInv
<1>4. \/ preflight' = [preflight EXCEPT !.fresh = << >>, !.ready = kept]
      \/ preflight' = [preflight EXCEPT !.fresh = << >>, !.taker = "none", !.tested = 0]
  BY DEF classify
<1> HIDE DEF kept
<1>5. preflight \in Preflight(Q, T) /\ "none" \in T /\ << >> \in Q /\ kept \in Q
  BY <1>3 DEF TagInv, PreflightOk
<1> DEFINE empty == << >>
<1>6. /\ preflight' \in Preflight(Q, T) /\ preflight'.version = preflight.version
      /\ preflight'.fresh = empty /\ preflight'.ready \in {preflight.ready, kept}
  <2> HIDE DEF Q, T, empty
  <2>1. CASE preflight' = [preflight EXCEPT !.fresh = << >>, !.ready = kept]
    <3>1. preflight' = [preflight EXCEPT !.fresh = empty, !.ready = kept] /\ empty \in Q
      BY <1>5, <2>1 DEF empty
    <3> QED BY <1>5, <3>1 DEF Preflight
  <2>2. CASE preflight' = [preflight EXCEPT !.fresh = << >>, !.taker = "none", !.tested = 0]
    <3>1. 0 \in Int
      OBVIOUS
    <3>2. PICK n \in Int : preflight' = [preflight EXCEPT !.fresh = empty, !.taker = "none", !.tested = n]
      BY <2>2, <3>1, Zenon DEF empty
    <3>3. empty \in Q
      BY <1>5 DEF empty
    <3> QED BY <1>5, <3>2, <3>3 DEF Preflight
  <2> QED BY <1>4, <2>1, <2>2
<1>7. Fresh' = {} /\ DOMAIN empty = {}
  BY <1>6 DEF Fresh
<1>8. /\ OneToOne(preflight.ready) /\ Ready \cap OnChain \subseteq forgotten /\ Ready \cup Fresh \subseteq Nat
  <2>1. counter \in Nat /\ Ready \cup Fresh \subseteq 0 .. counter - 1
    BY DEF TagInv, PreflightOk, ContextOk
  <2> QED BY <2>1 DEF TagInv, PreflightOk
<1>9. OneToOne(preflight'.ready) /\ OneToOne(preflight'.fresh)
  BY <1>3, <1>6, <1>7, <1>8 DEF OneToOne
<1>10. Ready' \subseteq Ready \cup Fresh /\ Ready' \cap OnChain \subseteq forgotten
  <2>1. CASE preflight'.ready = preflight.ready
    <3>1. Ready' = Ready
      BY <2>1 DEF Ready
    <3> QED BY <1>8, <3>1
  <2>2. CASE preflight'.ready = kept
    <3>1. Ready' = {kept[k] : k \in DOMAIN kept}
      BY <2>2 DEF Ready
    <3>2. \A k \in DOMAIN kept : kept[k] \in Ready \cup Fresh /\ kept[k] \notin OnChain \ forgotten
      BY <1>3, <1>8, NoRowOpens
    <3> QED BY <3>1, <3>2
  <2> QED BY <1>6, <2>1, <2>2
<1>11. preflight' \in Preflight(Seq(Nat), Job \cup {"none"})
  BY <1>6
<1>12. /\ Ready' \cup Fresh' \subseteq Ready \cup Fresh \cup (counter .. counter' - 1)
       /\ Ready' \cap Fresh' = {}
  BY <1>7, <1>10
<1> QED BY <1>1, <1>2, <1>6, <1>9, <1>10, <1>11, <1>12, PreflightKeeps

\* An authority leaves the preflight for the job that asked.
LEMMA IssueKeeps == ASSUME TagInv, NEW j \in Job, issueAuthorization(j) PROVE TagInv'
<1> DEFINE m == outputs(step(j).op)
           ready == preflight.ready
           rest == SubSeq(ready, m + 1, Len(ready))
           handles == [i \in 1 .. m |-> [index |-> ready[i], version |-> preflight.version]]
           r == [jobs[j] EXCEPT !.at = "build", !.handles = handles]
<1>1. /\ preflight' = [preflight EXCEPT !.ready = rest, !.taker = "none", !.tested = 0]
      /\ Go(j, r) /\ Len(ready) >= m
      /\ UNCHANGED <<pool, counter, history, mempool, forgotten>>
  BY DEF issueAuthorization
<1>2. m \in 1 .. 2 /\ m \in Nat
  BY DEF outputs
<1>3. /\ ready \in Seq(Nat) /\ preflight.version \in Nat /\ OneToOne(ready)
      /\ counter \in Nat
  BY DEF TagInv, PreflightOk, Preflight, ContextOk
<1>4. /\ rest \in Seq(Nat) /\ OneToOne(rest)
      /\ \A k \in DOMAIN rest : k + m \in DOMAIN ready /\ rest[k] = ready[k + m] /\ k \in 1 .. Len(ready)
  <2> HIDE DEF m
  <2>a. m \in 0 .. Len(ready) /\ Len(ready) \in Nat
    BY <1>1, <1>2, <1>3
  <2>1. /\ rest \in Seq(Nat) /\ DOMAIN rest = 1 .. Len(ready) - m
        /\ \A k \in 1 .. Len(ready) - m : k + m \in DOMAIN ready /\ rest[k] = ready[k + m]
    <3> HIDE DEF ready
    <3> QED BY <1>3, <2>a, Rest
  <2> HIDE DEF rest, ready
  <2>2. \A k \in DOMAIN rest : k + m \in DOMAIN ready /\ rest[k] = ready[k + m] /\ k \in 1 .. Len(ready)
    BY <1>2, <2>a, <2>1
  <2>3. OneToOne(rest)
    BY <1>2, <1>3, <2>1, <2>2 DEF OneToOne
  <2> QED BY <2>1, <2>2, <2>3
<1>5. /\ \A k \in 1 .. m : k \in DOMAIN ready /\ ready[k] \in Nat
      /\ handles \in Seq([index : Nat, version : Nat]) /\ DOMAIN handles = 1 .. m /\ Len(handles) = m
      /\ \A k \in 1 .. m : handles[k].index = ready[k]
  <2> HIDE DEF m, ready
  <2>1. \A k \in 1 .. m : k \in DOMAIN ready /\ ready[k] \in Nat
    BY <1>1, <1>2, <1>3
  <2>2. handles \in [1 .. m -> [index : Nat, version : Nat]]
    BY <1>3, <2>1
  <2>3. DOMAIN handles = 1 .. m /\ \A k \in 1 .. m : handles[k].index = ready[k]
    OBVIOUS
  <2> DEFINE R == [index : Nat, version : Nat]
  <2> HIDE DEF handles, R
  <2>4. handles \in Seq(R) /\ Len(handles) = m
    <3>1. handles \in [1 .. m -> R]
      BY <2>2 DEF R
    <3> QED BY <1>2, <3>1
  <2> QED BY <2>1, <2>3, <2>4 DEF R
<1> HIDE DEF m, ready, rest, handles
<1>6. /\ JobShaped(r) /\ r.at = "build" /\ r.handles = handles
      /\ r.steps = jobs[j].steps /\ r.n = jobs[j].n
  <2>1. JobShaped(jobs[j])
    BY DEF TagInv, JobsOk
  <2> QED BY <2>1 DEF JobShaped
<1> HIDE DEF r
<1>7. /\ DOMAIN jobs' = Job /\ jobs' = [k \in Job |-> jobs'[k]]
      /\ jobs'[j] = r /\ \A k \in Job : k # j => jobs'[k] = jobs[k]
  BY <1>1, Going
<1>8. /\ preflight' \in Preflight(Seq(Nat), Job \cup {"none"}) /\ preflight'.version = preflight.version
      /\ preflight'.ready = rest /\ preflight'.fresh = preflight.fresh
  <2> DEFINE Q == Seq(Nat)
             T == Job \cup {"none"}
  <2>1. preflight \in Preflight(Q, T) /\ "none" \in T /\ rest \in Q
    BY <1>4 DEF TagInv, PreflightOk
  <2> HIDE DEF Q, T
  <2>2. PICK n \in Int : preflight' = [preflight EXCEPT !.ready = rest, !.taker = "none", !.tested = n]
    <3>1. 0 \in Int
      OBVIOUS
    <3> QED BY <1>1, <3>1, Zenon
  <2>3. /\ preflight' \in Preflight(Q, T) /\ preflight'.version = preflight.version
        /\ preflight'.ready = rest /\ preflight'.fresh = preflight.fresh
    BY <2>1, <2>2 DEF Preflight
  <2> QED BY <2>3 DEF Q, T
<1>9. /\ OnChain' = OnChain /\ Fresh' = Fresh
      /\ \A k \in Job : k # j => Handled(k)' = Handled(k)
  BY <1>1, <1>7, <1>8 DEF OnChain, Fresh, Handled
<1>10. Ready' = {rest[k] : k \in DOMAIN rest} /\ Handled(j)' = {ready[k] : k \in 1 .. m}
  <2>1. Handled(j)' = {handles[k].index : k \in DOMAIN handles}
    BY <1>6, <1>7 DEF Handled
  <2>2. Ready' = {rest[k] : k \in DOMAIN rest}
    BY <1>8 DEF Ready
  <2>3. {handles[k].index : k \in DOMAIN handles} = {ready[k] : k \in 1 .. m}
    BY <1>5
  <2> QED BY <2>1, <2>2, <2>3
<1>11. Ready = {ready[k] : k \in DOMAIN ready}
  BY DEF Ready, ready
<1>12. Ready' \subseteq Ready /\ Handled(j)' \subseteq Ready /\ Ready' \cap Handled(j)' = {}
  <2>1. Ready' \subseteq Ready /\ Handled(j)' \subseteq Ready
    BY <1>4, <1>5, <1>10, <1>11
  <2>2. ASSUME NEW a \in DOMAIN rest, NEW b \in 1 .. m PROVE rest[a] # ready[b]
    <3>1. a + m # b /\ a + m \in DOMAIN ready /\ b \in DOMAIN ready /\ rest[a] = ready[a + m]
      <4>1. a + m \in DOMAIN ready /\ b \in DOMAIN ready /\ rest[a] = ready[a + m] /\ a \in 1 .. Len(ready)
        BY <1>4, <1>5
      <4>2. Len(ready) \in Nat
        BY <1>3
      <4> QED BY <1>2, <4>1, <4>2
    <3> QED BY <1>3, <3>1 DEF OneToOne
  <2> QED BY <1>10, <2>1, <2>2
<1>13. ContextOk' /\ LeavesOk'
  BY <1>1, <1>8 DEF TagInv, ContextOk, LeavesOk, PoolShaped
<1>14. PreflightOk'
  BY <1>1, <1>4, <1>8, <1>9, <1>12 DEF TagInv, PreflightOk
<1>15. JobsOk'
  <2>1. ASSUME NEW k \in Job
        PROVE  /\ JobShaped(jobs'[k]) /\ jobs'[k].handles \in Seq([index : Nat, version : Nat])
               /\ jobs'[k].at = "build" => Len(jobs'[k].handles) = outputs(step(k)'.op)
               /\ \A a, b \in DOMAIN jobs'[k].handles :
                    jobs'[k].handles[a].index = jobs'[k].handles[b].index => a = b
    <3>1. CASE k = j
      <4>1. step(j)' = step(j)
        BY <1>6, <1>7 DEF step
      <4>2. Len(r.handles) = outputs(step(j).op) /\ r.handles \in Seq([index : Nat, version : Nat])
        BY <1>5, <1>6 DEF m
      <4>3. \A a, b \in DOMAIN handles : handles[a].index = handles[b].index => a = b
        BY <1>3, <1>5 DEF OneToOne
      <4> QED BY <1>6, <1>7, <3>1, <4>1, <4>2, <4>3
    <3>2. CASE k # j
      <4>1. jobs'[k] = jobs[k] /\ step(k)' = step(k)
        BY <1>7, <3>2 DEF step
      <4> QED BY <4>1 DEF TagInv, JobsOk
    <3> QED BY <3>1, <3>2
  <2>2. ASSUME NEW k \in Job
        PROVE  /\ Handled(k)' \subseteq 0 .. counter' - 1
               /\ Handled(k)' \cap (Ready' \cup Fresh') = {} /\ Handled(k)' \cap OnChain' \subseteq forgotten'
               /\ \A i \in Job : i # k => Handled(i)' \cap Handled(k)' = {}
    <3>1. /\ Ready \subseteq 0 .. counter - 1 /\ Ready \cap Fresh = {} /\ Ready \cap OnChain \subseteq forgotten
      BY DEF TagInv, PreflightOk
    <3>2. \A i \in Job : /\ Handled(i) \subseteq 0 .. counter - 1
                         /\ Handled(i) \cap (Ready \cup Fresh) = {} /\ Handled(i) \cap OnChain \subseteq forgotten
                         /\ \A l \in Job : l # i => Handled(l) \cap Handled(i) = {}
      BY DEF TagInv, JobsOk
    <3>3. CASE k = j
      BY <1>1, <1>9, <1>12, <3>1, <3>2, <3>3
    <3>4. CASE k # j
      BY <1>1, <1>9, <1>12, <3>1, <3>2, <3>4
    <3> QED BY <3>3, <3>4
  <2> QED BY <1>7, <2>1, <2>2 DEF JobsOk
<1>16. MempoolOk'
  <2> SUFFICES ASSUME NEW tx \in mempool
               PROVE  /\ Minted(tx) \cap (Ready' \cup Fresh' \cup OnChain') \subseteq forgotten'
                      /\ \A k \in Job : Minted(tx) \cap Handled(k)' \subseteq forgotten'
    BY <1>1 DEF TagInv, MempoolOk
  <2>1. /\ Minted(tx) \cap (Ready \cup Fresh \cup OnChain) \subseteq forgotten
        /\ \A k \in Job : Minted(tx) \cap Handled(k) \subseteq forgotten
    BY DEF TagInv, MempoolOk
  <2> QED BY <1>1, <1>9, <1>12, <2>1
<1> QED BY <1>13, <1>14, <1>15, <1>16 DEF TagInv

\* The transaction of a step: a job's authorities become its tags.
LEMMA AssembleKeeps == ASSUME TagInv, NEW j \in Job, assemble(j) PROVE TagInv'
<1>1. UNCHANGED <<pool, counter, preflight, history, forgotten>> /\ jobs[j].at = "build"
  BY DEF assemble
<1>2. /\ JobShaped(jobs[j]) /\ Len(jobs[j].handles) = outputs(step(j).op)
      /\ jobs[j].handles \in Seq([index : Nat, version : Nat])
      /\ \A k, l \in DOMAIN jobs[j].handles :
           jobs[j].handles[k].index = jobs[j].handles[l].index => k = l
  BY <1>1 DEF TagInv, JobsOk
<1>3. PICK at \in {"sent", "mint"} : Go(j, [jobs[j] EXCEPT !.at = at, !.handles = << >>])
  BY DEF assemble
<1> DEFINE r == [jobs[j] EXCEPT !.at = at, !.handles = << >>]
<1>4. JobShaped(r) /\ r.handles = << >> /\ r.at # "build"
  BY <1>2 DEF JobShaped
<1> HIDE DEF r
<1>5. /\ DOMAIN jobs' = Job /\ jobs' = [k \in Job |-> jobs'[k]]
      /\ jobs'[j] = r /\ \A k \in Job : k # j => jobs'[k] = jobs[k]
  BY <1>3, Going DEF r
<1>6. /\ OnChain' = OnChain /\ Ready' = Ready /\ Fresh' = Fresh
      /\ Handled(j)' = {} /\ \A k \in Job : k # j => Handled(k)' = Handled(k)
  <2>1. DOMAIN << >> = {}
    OBVIOUS
  <2> QED BY <1>1, <1>4, <1>5, <2>1 DEF OnChain, Ready, Fresh, Handled
<1>7. ContextOk' /\ LeavesOk' /\ PreflightOk'
  BY <1>1, <1>6 DEF TagInv, ContextOk, LeavesOk, PoolShaped, PreflightOk
<1>8. JobsOk'
  <2>1. ASSUME NEW k \in Job
        PROVE  /\ JobShaped(jobs'[k]) /\ jobs'[k].handles \in Seq([index : Nat, version : Nat])
               /\ jobs'[k].at = "build" => Len(jobs'[k].handles) = outputs(step(k)'.op)
               /\ \A a, b \in DOMAIN jobs'[k].handles :
                    jobs'[k].handles[a].index = jobs'[k].handles[b].index => a = b
    <3>1. CASE k = j
      <4>1. << >> \in Seq([index : Nat, version : Nat]) /\ DOMAIN << >> = {}
        OBVIOUS
      <4> QED BY <1>4, <1>5, <3>1, <4>1
    <3>2. CASE k # j
      <4>1. jobs'[k] = jobs[k] /\ step(k)' = step(k)
        BY <1>5, <3>2 DEF step
      <4> QED BY <4>1 DEF TagInv, JobsOk
    <3> QED BY <3>1, <3>2
  <2>2. \A k \in Job : Handled(k)' \subseteq Handled(k)
    BY <1>6
  <2>3. \A k \in Job :
          /\ Handled(k) \subseteq 0 .. counter - 1
          /\ Handled(k) \cap (Ready \cup Fresh) = {} /\ Handled(k) \cap OnChain \subseteq forgotten
          /\ \A i \in Job : i # k => Handled(i) \cap Handled(k) = {}
    BY DEF TagInv, JobsOk
  <2>4. \A k \in Job :
          /\ Handled(k)' \subseteq 0 .. counter' - 1
          /\ Handled(k)' \cap (Ready' \cup Fresh') = {} /\ Handled(k)' \cap OnChain' \subseteq forgotten'
          /\ \A i \in Job : i # k => Handled(i)' \cap Handled(k)' = {}
    BY <1>1, <1>6, <2>2, <2>3
  <2> QED BY <1>5, <2>1, <2>4 DEF JobsOk
<1>9. MempoolOk'
  <2>1. \A k \in Job : Handled(k)' \subseteq Handled(k)
    BY <1>6
  <2>2. ASSUME NEW tx \in mempool
        PROVE  /\ \E n \in {1, 2} : DOMAIN tx.outputs = 1 .. n /\ tx.outputs = [k \in 1 .. n |-> tx.outputs[k]]
               /\ \A k \in DOMAIN tx.outputs : tx.outputs[k].version \in 1 .. history'
               /\ \A k, l \in DOMAIN tx.outputs : tx.outputs[k].tag = tx.outputs[l].tag => k = l
               /\ Minted(tx) \subseteq (0 .. counter' - 1) \cup forgotten'
               /\ Minted(tx) \cap (Ready' \cup Fresh' \cup OnChain') \subseteq forgotten'
               /\ \A k \in Job : Minted(tx) \cap Handled(k)' \subseteq forgotten'
               /\ \A u \in mempool : u # tx => Minted(u) \cap Minted(tx) \subseteq forgotten'
    BY <1>1, <1>6, <2>1 DEF TagInv, MempoolOk
  <2>3. CASE mempool' = mempool
    BY <2>2, <2>3 DEF MempoolOk
  <2>4. CASE mempool' # mempool
    <3> DEFINE s == step(j)
               inputs == IF s.op = "JOIN" THEN assembleJoin(resolve(j)) ELSE resolve(j)
               values == IF s.op = "SPLIT" THEN <<1, s.change - 1>> ELSE <<s.change>>
               outs == [i \in DOMAIN values |-> mintSelfNote(jobs[j].handles[i], values[i])]
               tx == [job |-> j, op |-> s.op, inputs |-> inputs, version |-> history,
                      outgoing |-> s.outgoing, outputs |-> outs]
    <3>1. mempool' = mempool \cup {tx}
      BY <2>4 DEF assemble
    <3>2. PICK n \in {1, 2} : DOMAIN values = 1 .. n /\ n = outputs(s.op)
      BY DEF outputs
    <3>3. tx.outputs = outs /\ DOMAIN outs = 1 .. n
      BY <3>2
    <3>4. \A k \in 1 .. n : outs[k].tag = jobs[j].handles[k].index /\ outs[k].version = history
      BY <3>2 DEF mintSelfNote
    <3>5. outs = [k \in 1 .. n |-> outs[k]]
      BY <3>2
    <3> HIDE DEF tx, outs, values, inputs
    <3>6. DOMAIN jobs[j].handles = 1 .. n
      BY <1>2, <3>2
    <3>7. Minted(tx) = Handled(j)
      BY <3>3, <3>4, <3>6 DEF Minted, Handled
    <3>8. /\ \A k, l \in DOMAIN outs : outs[k].tag = outs[l].tag => k = l
          /\ \A k \in DOMAIN outs : outs[k].version \in 1 .. history'
      <4>1. history \in 1 .. history /\ history' = history
        BY <1>1 DEF TagInv, ContextOk
      <4>2. \A k \in DOMAIN outs : outs[k].version \in 1 .. history'
        BY <3>3, <3>4, <4>1
      <4>3. \A k, l \in 1 .. n :
              jobs[j].handles[k].index = jobs[j].handles[l].index => k = l
        BY <3>6 DEF TagInv, JobsOk
      <4>4. \A k, l \in DOMAIN outs : outs[k].tag = outs[l].tag => k = l
        BY <3>3, <3>4, <4>3
      <4> QED BY <4>2, <4>4
    <3>9. /\ Handled(j) \subseteq 0 .. counter - 1
          /\ Handled(j) \cap (Ready \cup Fresh) = {} /\ Handled(j) \cap OnChain \subseteq forgotten
          /\ \A k \in Job : k # j => Handled(k) \cap Handled(j) = {}
      BY DEF TagInv, JobsOk
    <3>10. \A u \in mempool : Minted(u) \cap Handled(j) \subseteq forgotten
      BY DEF TagInv, MempoolOk
    <3>11. /\ \E i \in {1, 2} : DOMAIN tx.outputs = 1 .. i /\ tx.outputs = [k \in 1 .. i |-> tx.outputs[k]]
           /\ \A k \in DOMAIN tx.outputs : tx.outputs[k].version \in 1 .. history'
           /\ \A k, l \in DOMAIN tx.outputs : tx.outputs[k].tag = tx.outputs[l].tag => k = l
      BY <3>3, <3>5, <3>8
    <3>12. /\ Minted(tx) \subseteq (0 .. counter' - 1) \cup forgotten'
           /\ Minted(tx) \cap (Ready' \cup Fresh' \cup OnChain') \subseteq forgotten'
           /\ \A k \in Job : Minted(tx) \cap Handled(k)' \subseteq forgotten'
           /\ \A u \in mempool : /\ Minted(u) \cap Minted(tx) \subseteq forgotten'
                                /\ Minted(tx) \cap Minted(u) \subseteq forgotten'
      BY <1>1, <1>6, <3>7, <3>9, <3>10
    <3> QED BY <2>2, <3>1, <3>11, <3>12, ZenonT(60) DEF MempoolOk
  <2> QED BY <2>3, <2>4
<1> QED BY <1>7, <1>8, <1>9 DEF TagInv

\* Jobs that are done with a step, or give up.
LEMMA JobsShrink ==
    ASSUME TagInv, UNCHANGED <<counter, preflight, history, forgotten>>,
           DOMAIN jobs' = Job, jobs' = [k \in Job |-> jobs'[k]],
           \A k \in Job :
             \/ jobs'[k] = jobs[k]
             \/ /\ JobShaped(jobs'[k]) /\ jobs'[k].at # "build"
                /\ jobs'[k].handles = << >> \/ jobs'[k].handles = jobs[k].handles,
           \A k \in Job : Handled(k) \cap OnChain' \subseteq forgotten
    PROVE  JobsOk' /\ \A k \in Job : Handled(k)' \subseteq Handled(k)
<1>1. << >> \in Seq([index : Nat, version : Nat]) /\ DOMAIN << >> = {}
  OBVIOUS
<1>2. Ready' = Ready /\ Fresh' = Fresh
  BY DEF Ready, Fresh
<1>3. \A k \in Job : Handled(k)' \subseteq Handled(k)
  BY <1>1 DEF Handled
<1>4. ASSUME NEW k \in Job
      PROVE  /\ JobShaped(jobs'[k]) /\ jobs'[k].handles \in Seq([index : Nat, version : Nat])
             /\ jobs'[k].at = "build" => Len(jobs'[k].handles) = outputs(step(k)'.op)
             /\ \A a, b \in DOMAIN jobs'[k].handles :
                  jobs'[k].handles[a].index = jobs'[k].handles[b].index => a = b
  <2>1. CASE jobs'[k] = jobs[k]
    <3>1. step(k)' = step(k)
      BY <2>1 DEF step
    <3> QED BY <2>1, <3>1 DEF TagInv, JobsOk
  <2>2. CASE /\ JobShaped(jobs'[k]) /\ jobs'[k].at # "build"
             /\ jobs'[k].handles = << >> \/ jobs'[k].handles = jobs[k].handles
    BY <1>1, <2>2 DEF TagInv, JobsOk
  <2> QED BY <2>1, <2>2
<1>5. \A k \in Job :
        /\ Handled(k) \subseteq 0 .. counter - 1
        /\ Handled(k) \cap (Ready \cup Fresh) = {} /\ Handled(k) \cap OnChain \subseteq forgotten
        /\ \A i \in Job : i # k => Handled(i) \cap Handled(k) = {}
  BY DEF TagInv, JobsOk
<1>6. \A k \in Job :
        /\ Handled(k)' \subseteq 0 .. counter' - 1
        /\ Handled(k)' \cap (Ready' \cup Fresh') = {} /\ Handled(k)' \cap OnChain' \subseteq forgotten'
        /\ \A i \in Job : i # k => Handled(i)' \cap Handled(k)' = {}
  BY <1>2, <1>3, <1>5
<1> QED BY <1>3, <1>4, <1>6 DEF JobsOk

\* What a mined or dropped transaction does to the job that sent it.
LEMMA Settled ==
    ASSUME TagInv, NEW tx, \/ UNCHANGED jobs
                           \/ jobs[tx.job].at = "sent" /\ Go(tx.job, Advanced(tx.job))
                           \/ jobs[tx.job].at = "sent" /\ Go(tx.job, NoJob)
    PROVE  /\ DOMAIN jobs' = Job /\ jobs' = [k \in Job |-> jobs'[k]]
           /\ \A k \in Job :
                \/ jobs'[k] = jobs[k]
                \/ /\ JobShaped(jobs'[k]) /\ jobs'[k].at # "build"
                   /\ jobs'[k].handles = << >> \/ jobs'[k].handles = jobs[k].handles
<1>1. DOMAIN jobs = Job /\ jobs = [k \in Job |-> jobs[k]] /\ \A k \in Job : JobShaped(jobs[k])
  BY DEF TagInv, JobsOk
<1>2. JobShaped(NoJob) /\ NoJob.handles = << >> /\ NoJob.at # "build"
  BY DEF NoJob, JobShaped
<1>3. ASSUME tx.job \in Job
      PROVE  LET r == Advanced(tx.job) IN
             /\ JobShaped(r) /\ r.at # "build"
             /\ r.handles = << >> \/ r.handles = jobs[tx.job].handles
  <2>1. CASE jobs[tx.job].n = Len(jobs[tx.job].steps)
    <3>1. Advanced(tx.job) = [NoJob EXCEPT !.at = "done"]
      BY <2>1 DEF Advanced
    <3>2. /\ JobShaped([NoJob EXCEPT !.at = "done"]) /\ [NoJob EXCEPT !.at = "done"].at = "done"
          /\ [NoJob EXCEPT !.at = "done"].handles = << >>
      BY DEF NoJob, JobShaped
    <3> QED BY <3>1, <3>2
  <2>2. CASE jobs[tx.job].n # Len(jobs[tx.job].steps)
    <3> DEFINE q == jobs[tx.job]
               r == [q EXCEPT !.at = "mint", !.n = @ + 1, !.previous = Len(pool'.leaves) - 1]
    <3>1. Advanced(tx.job) = r
      BY <2>2 DEF Advanced
    <3>2. JobShaped(q)
      BY <1>1, <1>3
    <3> HIDE DEF q
    <3>3. JobShaped(r) /\ r.at = "mint" /\ r.handles = q.handles
      BY <3>2 DEF JobShaped
    <3> HIDE DEF r
    <3> QED BY <3>1, <3>3 DEF q
  <2> QED BY <2>1, <2>2
<1>4. CASE UNCHANGED jobs
  BY <1>1, <1>4
<1>5. ASSUME NEW r, Go(tx.job, r),
             tx.job \in Job => /\ JobShaped(r) /\ r.at # "build"
                               /\ r.handles = << >> \/ r.handles = jobs[tx.job].handles
      PROVE  /\ DOMAIN jobs' = Job /\ jobs' = [k \in Job |-> jobs'[k]]
             /\ \A k \in Job :
                  \/ jobs'[k] = jobs[k]
                  \/ /\ JobShaped(jobs'[k]) /\ jobs'[k].at # "build"
                     /\ jobs'[k].handles = << >> \/ jobs'[k].handles = jobs[k].handles
  <2>1. jobs' = [jobs EXCEPT ![tx.job] = r]
    BY <1>5 DEF Go
  <2>2. DOMAIN jobs' = Job /\ jobs' = [k \in Job |-> jobs'[k]]
    BY <1>1, <2>1
  <2>3. \A k \in Job : jobs'[k] = IF k = tx.job THEN r ELSE jobs[k]
    BY <1>1, <2>1
  <2> QED BY <1>5, <2>2, <2>3
<1> QED BY <1>2, <1>3, <1>4, <1>5

\* A transaction is lost: its tags are burned.
LEMMA DropKeeps == ASSUME TagInv, NEW tx \in mempool, drop(tx) PROVE TagInv'
<1>1. /\ mempool' = mempool \ {tx} /\ UNCHANGED <<pool, counter, preflight, history, forgotten>>
      /\ UNCHANGED jobs \/ (jobs[tx.job].at = "sent" /\ Go(tx.job, NoJob))
  BY DEF drop
<1>2. /\ DOMAIN jobs' = Job /\ jobs' = [k \in Job |-> jobs'[k]]
      /\ \A k \in Job :
           \/ jobs'[k] = jobs[k]
           \/ /\ JobShaped(jobs'[k]) /\ jobs'[k].at # "build"
              /\ jobs'[k].handles = << >> \/ jobs'[k].handles = jobs[k].handles
  BY <1>1, Settled
<1>3. OnChain' = OnChain /\ Ready' = Ready /\ Fresh' = Fresh
  BY <1>1 DEF OnChain, Ready, Fresh
<1>4. JobsOk' /\ \A k \in Job : Handled(k)' \subseteq Handled(k)
  <2>1. \A k \in Job : Handled(k) \cap OnChain' \subseteq forgotten
    BY <1>3 DEF TagInv, JobsOk
  <2> QED BY <1>1, <1>2, <2>1, JobsShrink
<1>5. ContextOk' /\ LeavesOk' /\ PreflightOk'
  BY <1>1, <1>3 DEF TagInv, ContextOk, LeavesOk, PoolShaped, PreflightOk
<1>6. MempoolOk'
  BY <1>1, <1>3, <1>4 DEF TagInv, MempoolOk
<1> QED BY <1>4, <1>5, <1>6 DEF TagInv

\* The pool takes a transaction: its tags, which nobody else has, are on chain.
\* It refuses one: the tags are burned.
LEMMA MineKeeps == ASSUME TagInv, NEW tx \in mempool, mine(tx) PROVE TagInv'
<1>1. /\ mempool' = mempool \ {tx} /\ UNCHANGED <<counter, preflight, history, forgotten>>
      /\ \/ UNCHANGED jobs
         \/ jobs[tx.job].at = "sent" /\ Go(tx.job, Advanced(tx.job))
         \/ jobs[tx.job].at = "sent" /\ Go(tx.job, NoJob)
      /\ pool' = pool \/ pool' = Applied(tx)
  BY DEF mine
<1>2. /\ DOMAIN jobs' = Job /\ jobs' = [k \in Job |-> jobs'[k]]
      /\ \A k \in Job :
           \/ jobs'[k] = jobs[k]
           \/ /\ JobShaped(jobs'[k]) /\ jobs'[k].at # "build"
              /\ jobs'[k].handles = << >> \/ jobs'[k].handles = jobs[k].handles
  BY <1>1, Settled
<1>3. Ready' = Ready /\ Fresh' = Fresh
  BY <1>1 DEF Ready, Fresh
<1>4. PICK n \in {1, 2} : DOMAIN tx.outputs = 1 .. n /\ tx.outputs = [k \in 1 .. n |-> tx.outputs[k]]
  BY DEF TagInv, MempoolOk
<1>5. /\ \A k \in DOMAIN tx.outputs : tx.outputs[k].version \in 1 .. history
      /\ \A k, l \in DOMAIN tx.outputs : tx.outputs[k].tag = tx.outputs[l].tag => k = l
      /\ Minted(tx) \subseteq (0 .. counter - 1) \cup forgotten
      /\ Minted(tx) \cap (Ready \cup Fresh \cup OnChain) \subseteq forgotten
      /\ \A j \in Job : Minted(tx) \cap Handled(j) \subseteq forgotten
      /\ \A u \in mempool : u # tx => Minted(u) \cap Minted(tx) \subseteq forgotten
  BY DEF TagInv, MempoolOk
<1>6. LeavesOk' /\ OnChain' \subseteq OnChain \cup Minted(tx) /\ pool'.version = pool.version
  <2>1. CASE pool' = pool
    BY <1>1, <2>1 DEF TagInv, LeavesOk, PoolShaped, OnChain
  <2>2. CASE pool' = Applied(tx)
    <3> DEFINE s == pool.leaves
               t == tx.outputs
    <3>1. pool'.leaves = s \o t /\ pool'.version = pool.version /\ PoolShaped'
      BY <2>2 DEF Applied, TagInv, LeavesOk, PoolShaped
    <3>2. IsSequence(s) /\ IsSequence(t)
      <4>1. n \in Nat
        OBVIOUS
      <4> QED BY <1>4, <4>1 DEF TagInv, LeavesOk, IsSequence
    <3>3. /\ \A p \in DOMAIN s : s[p].tag \in Nat \cup {-1} /\ s[p].version \in 1 .. history
          /\ \A p, q \in DOMAIN s : s[p].tag = s[q].tag =>
               p = q \/ s[p].tag = -1 \/ s[p].tag \in forgotten
      BY DEF TagInv, LeavesOk
    <3>4. /\ \A k \in DOMAIN t : t[k].tag \in Nat \cup {-1} /\ t[k].version \in 1 .. history
          /\ \A k \in DOMAIN t, p \in DOMAIN s : t[k].tag = s[p].tag => s[p].tag \in forgotten
          /\ \A k, l \in DOMAIN t : t[k].tag = t[l].tag => k = l
      <4>1. forgotten \subseteq Nat /\ counter \in Nat
        BY DEF TagInv, ContextOk
      <4> QED BY <1>5, <4>1 DEF Minted, OnChain
    <3> HIDE DEF s, t
    <3> DEFINE c == s \o t
    <3>5. /\ IsSequence(c) /\ Len(s) \in Nat
          /\ \A k \in DOMAIN c :
                \/ k \in DOMAIN s /\ c[k] = s[k]
                \/ k - Len(s) \in DOMAIN t /\ k \in Int /\ c[k] = t[k - Len(s)]
      BY <3>2, Concatenated, ZenonT(60)
    <3> HIDE DEF c
    <3>6. \A p \in DOMAIN c : c[p].tag \in Nat \cup {-1} /\ c[p].version \in 1 .. history
      BY <3>3, <3>4, <3>5
    <3>7. ASSUME NEW p \in DOMAIN c, NEW q \in DOMAIN c, c[p].tag = c[q].tag
          PROVE  p = q \/ c[p].tag = -1 \/ c[p].tag \in forgotten
      <4>1. CASE p \in DOMAIN s /\ c[p] = s[p]
        BY <3>3, <3>4, <3>5, <3>7, <4>1
      <4>2. CASE p - Len(s) \in DOMAIN t /\ p \in Int /\ c[p] = t[p - Len(s)]
        <5>1. CASE q \in DOMAIN s /\ c[q] = s[q]
          BY <3>4, <3>7, <4>2, <5>1
        <5>2. CASE q - Len(s) \in DOMAIN t /\ q \in Int /\ c[q] = t[q - Len(s)]
          <6>1. p - Len(s) = q - Len(s)
            BY <3>4, <3>7, <4>2, <5>2
          <6> QED BY <3>5, <4>2, <5>2, <6>1
        <5> QED BY <3>5, <5>1, <5>2
      <4> QED BY <3>5, <4>1, <4>2
    <3>8. pool'.leaves = c /\ history' = history /\ forgotten' = forgotten
      BY <1>1, <3>1 DEF c
    <3>9. LeavesOk'
      BY <3>1, <3>5, <3>6, <3>7, <3>8 DEF LeavesOk
    <3>10. OnChain' \subseteq OnChain \cup Minted(tx)
      BY <3>5, <3>8 DEF OnChain, Minted, s, t
    <3> QED BY <3>1, <3>9, <3>10
  <2> QED BY <1>1, <2>1, <2>2
<1>7. JobsOk' /\ \A k \in Job : Handled(k)' \subseteq Handled(k)
  <2>1. \A k \in Job : Handled(k) \cap OnChain \subseteq forgotten
    BY DEF TagInv, JobsOk
  <2>2. \A k \in Job : Handled(k) \cap OnChain' \subseteq forgotten
    BY <1>5, <1>6, <2>1
  <2> QED BY <1>1, <1>2, <2>2, JobsShrink
<1>8. ContextOk'
  BY <1>1, <1>6 DEF TagInv, ContextOk
<1>9. PreflightOk'
  BY <1>1, <1>3, <1>5, <1>6 DEF TagInv, PreflightOk
<1>10. MempoolOk'
  <2> SUFFICES ASSUME NEW u \in mempool, u # tx
               PROVE  /\ \E i \in {1, 2} : DOMAIN u.outputs = 1 .. i /\ u.outputs = [k \in 1 .. i |-> u.outputs[k]]
                      /\ \A k \in DOMAIN u.outputs : u.outputs[k].version \in 1 .. history'
                      /\ \A k, l \in DOMAIN u.outputs : u.outputs[k].tag = u.outputs[l].tag => k = l
                      /\ Minted(u) \subseteq (0 .. counter' - 1) \cup forgotten'
                      /\ Minted(u) \cap (Ready' \cup Fresh' \cup OnChain') \subseteq forgotten'
                      /\ \A j \in Job : Minted(u) \cap Handled(j)' \subseteq forgotten'
                      /\ \A w \in mempool : w # u => Minted(w) \cap Minted(u) \subseteq forgotten
    BY <1>1 DEF MempoolOk
  <2>1. /\ \E i \in {1, 2} : DOMAIN u.outputs = 1 .. i /\ u.outputs = [k \in 1 .. i |-> u.outputs[k]]
        /\ \A k \in DOMAIN u.outputs : u.outputs[k].version \in 1 .. history
        /\ \A k, l \in DOMAIN u.outputs : u.outputs[k].tag = u.outputs[l].tag => k = l
        /\ Minted(u) \subseteq (0 .. counter - 1) \cup forgotten
        /\ Minted(u) \cap (Ready \cup Fresh \cup OnChain) \subseteq forgotten
        /\ \A j \in Job : Minted(u) \cap Handled(j) \subseteq forgotten
        /\ \A w \in mempool : w # u => Minted(w) \cap Minted(u) \subseteq forgotten
    BY DEF TagInv, MempoolOk
  <2>2. Minted(u) \cap (Ready' \cup Fresh' \cup OnChain') \subseteq forgotten'
    BY <1>1, <1>3, <1>5, <1>6, <2>1
  <2>3. \A j \in Job : Minted(u) \cap Handled(j)' \subseteq forgotten'
    BY <1>1, <1>7, <2>1
  <2> QED BY <1>1, <2>1, <2>2, <2>3
<1> QED BY <1>6, <1>7, <1>8, <1>9, <1>10 DEF TagInv

\* Nothing happens.
LEMMA StutterKeeps == ASSUME TagInv, UNCHANGED vars PROVE TagInv'
<1>1. UNCHANGED <<pool, counter, preflight, history, jobs, mempool, forgotten>>
  BY DEF vars
<1>2. counter' \in Nat /\ counter' >= counter
  BY <1>1 DEF TagInv, ContextOk
<1> QED BY <1>1, <1>2, CounterKeeps

\* Every step keeps it.
LEMMA TagStep == ASSUME TagInv, [Next]_vars PROVE TagInv'
<1>1. DOMAIN jobs = Job
  BY DEF TagInv, JobsOk
<1>2. ASSUME NEW j \in Job, Progress(j) PROVE TagInv'
  BY <1>2, AllocateKeeps, ExhaustedKeeps, IssueKeeps, AssembleKeeps DEF Progress
<1> QED BY <1>1, <1>2, RotationKeeps, IntentKeeps, ClassifyKeeps, MineKeeps, DropKeeps,
           RestartKeeps, ReconcileKeeps, StutterKeeps DEF Next

\* It says what the property says.
LEMMA TagsAre == ASSUME TagInv PROVE TagsUnique
<1> DEFINE own == {p \in DOMAIN pool.leaves : pool.leaves[p].tag \notin {-1} \union forgotten}
           tag(t) == t[1].outputs[t[2]].tag
           sent == {t \in mempool \X (1 .. 2) :
                      t[2] \in DOMAIN t[1].outputs /\ tag(t) \notin forgotten}
<1>1. \A p, q \in own : pool.leaves[p].tag = pool.leaves[q].tag => p = q
  BY DEF TagInv, LeavesOk
<1>2. \A t \in sent : t = <<t[1], t[2]>> /\ t[1] \in mempool /\ t[2] \in DOMAIN t[1].outputs
                     /\ tag(t) \in Minted(t[1]) /\ tag(t) \notin forgotten
  BY DEF Minted
<1>3. \A t \in sent, p \in own : pool.leaves[p].tag # tag(t)
  <2>1. \A tx \in mempool : Minted(tx) \cap OnChain \subseteq forgotten
    BY DEF TagInv, MempoolOk
  <2>2. \A p \in own : pool.leaves[p].tag \in OnChain
    BY DEF OnChain
  <2> HIDE DEF sent, own, tag
  <2> QED BY <1>2, <2>1, <2>2
<1>4. ASSUME NEW t \in sent, NEW u \in sent, tag(t) = tag(u) PROVE t = u
  <2>1. t[1] = u[1]
    <3>1. \A x, y \in mempool : x # y => Minted(x) \cap Minted(y) \subseteq forgotten
      BY DEF TagInv, MempoolOk
    <3> HIDE DEF sent, tag
    <3> QED BY <1>2, <1>4, <3>1
  <2>2. t[2] = u[2]
    <3>1. \A k, l \in DOMAIN t[1].outputs : t[1].outputs[k].tag = t[1].outputs[l].tag => k = l
      BY <1>2 DEF TagInv, MempoolOk
    <3> HIDE DEF sent
    <3> QED BY <1>2, <1>4, <2>1, <3>1
  <2> HIDE DEF sent, tag
  <2> QED BY <1>2, <2>1, <2>2
<1> QED BY <1>1, <1>3, <1>4 DEF TagsUnique

\* No self tag is in two transactions that were sent, on whatever pool the wallet
\* starts from and however often the key rotates, batches are burned, transactions
\* are lost, the process dies and the device with the counter is lost, at whatever
\* moment (SelfMintPreflight, selfMintAuthority, reconcileCounterWithChain) - but
\* for the tags of a transaction that waited to be mined when the counter was
\* lost, which nothing in the wallet sees then.
THEOREM WalletTagsUnique == Spec => []TagsUnique
<1>1. Init => TagInv
  BY TagInit
<1>2. TagInv /\ [Next]_vars => TagInv'
  BY TagStep
<1>3. TagInv => TagsUnique
  BY TagsAre
<1> QED BY <1>1, <1>2, <1>3, PTL DEF Spec

-----------------------------------------------------------------------------
(***************************************************************************)
(* What notes are worth together.                                          *)
(***************************************************************************)

\* The values of the elements of a sequence are summed.
LEMMA TotalValueIs ==
    ASSUME NEW n \in Nat, NEW seq, DOMAIN seq = 1 .. n,
           NEW v, \A i \in 1 .. n : v[i] \in Nat /\ v[i] = seq[i].value
    PROVE  TotalValue(seq) = Total(v, 1 .. n)
<1> DEFINE P == 1 .. n
           F(f) == f = [s \in SUBSET P |->
                          IF s = {} THEN 0 ELSE f[s \ {Max(s)}] + seq[Max(s)].value]
           f0 == [s \in SUBSET P |-> Total(v, s)]
<1>1. TotalValue(seq) = (CHOOSE f : F(f))[P]
  BY DEF TotalValue, FoldLeft, MapThenFoldSet
<1>2. \A s \in SUBSET P : s # {} =>
        /\ Max(s) \in s /\ s \ {Max(s)} \in SUBSET P
        /\ Total(v, s) = Total(v, s \ {Max(s)}) + seq[Max(s)].value
  <2> SUFFICES ASSUME NEW s \in SUBSET P, s # {}
               PROVE  /\ Max(s) \in s /\ s \ {Max(s)} \in SUBSET P
                      /\ Total(v, s) = Total(v, s \ {Max(s)}) + seq[Max(s)].value
    OBVIOUS
  <2>1. Max(s) \in s
    BY LastIsMax
  <2>2. IsFiniteSet(P) /\ s \in SUBSET P
    BY Positions
  <2>3. IsFiniteSet(s) /\ \A x \in s : v[x] \in Nat
    <3> HIDE DEF P
    <3>1. IsFiniteSet(s)
      BY <2>2, FS_Subset
    <3> QED BY <3>1 DEF P
  <2> DEFINE R == s \ {Max(s)}
  <2>4. Total(v, s) = v[Max(s)] + Total(v, R)
    BY <2>1, <2>3, TotalRemove
  <2>5. IsFiniteSet(R) /\ \A x \in R : v[x] \in Nat
    BY <2>3, FS_RemoveElement
  <2>6. Total(v, R) \in Nat
    <3> HIDE DEF R
    <3> QED BY <2>5, TotalNat
  <2>7. v[Max(s)] \in Nat /\ v[Max(s)] = seq[Max(s)].value
    BY <2>1
  <2>8. R \in SUBSET P
    OBVIOUS
  <2> HIDE DEF R
  <2>9. Total(v, s) = Total(v, R) + seq[Max(s)].value
    BY <2>4, <2>6, <2>7
  <2> QED BY <2>1, <2>8, <2>9 DEF R
<1>3. F(f0)
  <2>1. \A s \in SUBSET P :
          Total(v, s) = IF s = {} THEN 0 ELSE f0[s \ {Max(s)}] + seq[Max(s)].value
    <3> SUFFICES ASSUME NEW s \in SUBSET P
                 PROVE  Total(v, s) = IF s = {} THEN 0 ELSE f0[s \ {Max(s)}] + seq[Max(s)].value
      OBVIOUS
    <3>1. CASE s = {}
      BY <3>1, TotalEmpty
    <3>2. CASE s # {}
      <4>1. f0[s \ {Max(s)}] = Total(v, s \ {Max(s)})
        BY <1>2, <3>2
      <4> QED BY <1>2, <3>2, <4>1
    <3> QED BY <3>1, <3>2
  <2> QED BY <2>1
<1> DEFINE g == CHOOSE f : F(f)
<1>4. F(g)
  <2> HIDE DEF F, f0
  <2> QED BY <1>3
<1> HIDE DEF g
<1> DEFINE Good == {s \in SUBSET P : g[s] = Total(v, s)}
<1>5. {} \in Good
  BY <1>4, TotalEmpty
<1>6. \A s \in SUBSET P : s # {} /\ Max(s) \in s /\ s \ {Max(s)} \in Good => s \in Good
  <2> SUFFICES ASSUME NEW s \in SUBSET P, s # {}, s \ {Max(s)} \in Good PROVE g[s] = Total(v, s)
    OBVIOUS
  <2>1. g[s] = g[s \ {Max(s)}] + seq[Max(s)].value
    BY <1>4
  <2> QED BY <1>2, <2>1
<1>7. P \in Good
  <2> HIDE DEF Good
  <2> QED BY <1>5, <1>6, RoundInduction
<1> QED BY <1>1, <1>7 DEF g

\* So are those of a set, in whatever order.
LEMMA TotalOfSet ==
    ASSUME NEW X, IsFiniteSet(X), NEW v, \A x \in X : v[x] \in Nat /\ v[x] = x.value
    PROVE  TotalValue(SetToSeq(X)) = Total(v, X) /\ Total(v, X) \in Nat
<1> DEFINE c == Cardinality(X)
           s == SetToSeq(X)
           w == [i \in 1 .. c |-> s[i].value]
<1>1. c \in Nat /\ \E f \in [1 .. c -> X] : IsInjective(f)
  <2>1. c \in Nat /\ ExistsBijection(1 .. c, X)
    BY FS_CardinalityType
  <2> QED BY <2>1 DEF ExistsBijection, Bijection, Injection, IsInjective
<1>2. s \in [1 .. c -> X] /\ IsInjective(s)
  BY <1>1 DEF SetToSeq
<1>3. {s[i] : i \in 1 .. c} = X
  <2>1. s \in Injection(1 .. c, X)
    BY <1>2 DEF Injection, IsInjective
  <2>2. Cardinality(1 .. c) = c
    <3>1. 1 \in Int /\ c \in Int
      BY <1>1
    <3> HIDE DEF c
    <3>2. Cardinality(1 .. c) = IF 1 > c THEN 0 ELSE c - 1 + 1
      BY <3>1, FS_Interval
    <3> QED BY <1>1, <3>2
  <2>3. s \in Surjection(1 .. c, X)
    BY <2>1, <2>2, FS_Injection
  <2> HIDE DEF s, c
  <2> QED BY <1>2, <2>3 DEF Surjection
<1>4. \A i \in 1 .. c : s[i] \in X /\ v[s[i]] = w[i] /\ w[i] \in Nat /\ w[i] = s[i].value
  BY <1>2
<1>5. \A i, j \in 1 .. c : s[i] = s[j] => i = j
  BY <1>2 DEF IsInjective
<1>6. DOMAIN s = 1 .. c
  BY <1>2
<1> HIDE DEF s, w, c
<1>7. TotalValue(s) = Total(w, 1 .. c)
  BY <1>1, <1>4, <1>6, TotalValueIs
<1>8. Total(v, {s[i] : i \in 1 .. c}) = Total(w, 1 .. c)
  <2> DEFINE P == 1 .. c
  <2>1. IsFiniteSet(P) /\ \A i \in P : v[s[i]] = w[i] /\ w[i] \in Nat
    BY <1>1, <1>4, Positions
  <2>2. \A i, j \in P : s[i] = s[j] => i = j
    BY <1>5
  <2> HIDE DEF P
  <2>3. Total(v, {s[i] : i \in P}) = Total(w, P)
    BY <2>1, <2>2, TotalImage
  <2> QED BY <2>3 DEF P
<1>9. Total(v, X) \in Nat
  BY TotalNat
<1> QED BY <1>3, <1>7, <1>8, <1>9 DEF s

\* The sum over positions that are counted from another place.
LEMMA TotalShift ==
    ASSUME NEW m \in Nat, NEW a \in Nat, NEW v, NEW w,
           \A i \in 1 .. m : w[i] \in Nat /\ w[i] = v[a + i]
    PROVE  Total(w, 1 .. m) = Total(v, a + 1 .. a + m)
<1> DEFINE f == [i \in 1 .. m |-> a + i]
<1>1. IsFiniteSet(1 .. m)
  BY Positions
<1>2. /\ \A i \in 1 .. m : v[f[i]] = w[i] /\ w[i] \in Nat
      /\ \A i, j \in 1 .. m : f[i] = f[j] => i = j
  OBVIOUS
<1>3. {f[i] : i \in 1 .. m} = a + 1 .. a + m
  <2>1. \A i \in 1 .. m : f[i] \in a + 1 .. a + m
    OBVIOUS
  <2>2. \A j \in a + 1 .. a + m : j - a \in 1 .. m /\ f[j - a] = j
    OBVIOUS
  <2> HIDE DEF f
  <2> QED BY <2>1, <2>2
<1> HIDE DEF f
<1> DEFINE P == 1 .. m
<1>4. IsFiniteSet(P) /\ \A i \in P : v[f[i]] = w[i] /\ w[i] \in Nat
  BY <1>1, <1>2
<1>5. \A i, j \in P : f[i] = f[j] => i = j
  BY <1>2
<1> HIDE DEF P
<1>6. Total(v, {f[i] : i \in P}) = Total(w, P)
  BY <1>4, <1>5, TotalImage
<1> QED BY <1>3, <1>6 DEF P

\* v gives the values of the notes at the n places of s.
ValuesOf(n, s, v) == \A i \in 1 .. n : v[i] \in Nat /\ v[i] = s[i].value

\* Neighbours in a sequence are worth what their positions are.
LEMMA PartTotal ==
    ASSUME NEW n \in Nat, NEW N, NEW seq \in Seq(N), n = Len(seq), NEW v, ValuesOf(n, seq, v),
           NEW from \in Nat, NEW to \in Nat, 1 <= from, from <= to + 1, to <= n
    PROVE  TotalValue(SubSeq(seq, from, to)) = Total(v, from .. to)
<1> DEFINE part == SubSeq(seq, from, to)
<1>1. PICK a \in Nat, m \in Nat : from = a + 1 /\ to = a + m /\ m = to - from + 1
  <2>1. from - 1 \in Nat /\ to - from + 1 \in Nat
    OBVIOUS
  <2> QED BY <2>1
<1> DEFINE w == [i \in 1 .. m |-> v[a + i]]
<1>3. part \in Seq(N) /\ Len(part) = m /\ \A i \in 1 .. m : part[i] = seq[a + i]
  BY <1>1
<1>4. \A i \in 1 .. m : a + i \in 1 .. n
  BY <1>1
<1>5. DOMAIN part = 1 .. m
  BY <1>3
<1>6. \A i \in 1 .. m : w[i] \in Nat /\ w[i] = v[a + i] /\ w[i] = part[i].value
  BY <1>3, <1>4 DEF ValuesOf
<1> HIDE DEF w, part
<1>7. TotalValue(part) = Total(w, 1 .. m)
  BY <1>5, <1>6, TotalValueIs
<1>8. Total(w, 1 .. m) = Total(v, from .. to)
  <2>1. Total(w, 1 .. m) = Total(v, a + 1 .. a + m)
    BY <1>6, TotalShift
  <2> QED BY <1>1, <2>1
<1> QED BY <1>7, <1>8 DEF part

-----------------------------------------------------------------------------
(***************************************************************************)
(* The notes of an asset in ascending order.                               *)
(***************************************************************************)

\* What a wallet may plan with.
Purse(notes) ==
    /\ IsFiniteSet(notes)
    /\ \A x \in notes : x.value \in Nat /\ x.leafIndex \in Nat /\ x.asset = "asset"
    /\ \A x, y \in notes : x.leafIndex = y.leafIndex => x = y

\* s has each note that is worth something at one of n places, v its values.
Ascends(notes, n, s, v) ==
    /\ n \in Nat /\ s \in [1 .. n -> notes] /\ v = [i \in 1 .. n |-> s[i].value]
    /\ ValuesOf(n, s, v) /\ \A i \in 1 .. n : v[i] >= 1
    /\ \A i, j \in 1 .. n : i < j => v[i] <= v[j]
    /\ \A i, j \in 1 .. n : s[i] = s[j] => i = j
    /\ \A x \in notes : x.value = 0 \/ \E i \in 1 .. n : s[i] = x

\* The sum of the k largest.
Top(n, v, k) == Total(v, n - k + 1 .. n)

\* Two notes with places in a purse come in one order.
LEMMA CheaperOrders ==
    ASSUME NEW N, NEW S \in SUBSET N, Purse(N),
           NEW R, R = {p \in S \X S : cheaper(p[1], p[2])}
    PROVE  StrictOrder(S, R)
<1>1. \A x, y \in S : <<x, y>> \in R <=> cheaper(x, y)
  BY Zenon
<1>2. \A x \in S : x.value \in Nat /\ x.leafIndex \in Nat
  BY DEF Purse
<1>3. \A x, y \in S : x.leafIndex = y.leafIndex => x = y
  BY DEF Purse
<1>4. \A x \in S : ~ cheaper(x, x)
  BY <1>2 DEF cheaper
<1>5. \A x, y \in S : x # y => cheaper(x, y) \/ cheaper(y, x)
  BY <1>2, <1>3 DEF cheaper
<1>6. \A x, y, z \in S : cheaper(x, y) /\ cheaper(y, z) => cheaper(x, z)
  BY <1>2 DEF cheaper
<1> QED BY <1>1, <1>4, <1>5, <1>6, Zenon DEF StrictOrder

\* So do the places alone.
LEMMA OlderOrders ==
    ASSUME NEW N, NEW S \in SUBSET N, Purse(N),
           NEW R, R = {p \in S \X S : older(p[1], p[2])}
    PROVE  StrictOrder(S, R)
<1>1. \A x, y \in S : <<x, y>> \in R <=> older(x, y)
  BY Zenon
<1>2. \A x \in S : x.leafIndex \in Nat
  BY DEF Purse
<1>3. \A x, y \in S : x.leafIndex = y.leafIndex => x = y
  BY DEF Purse
<1>4. \A x \in S : ~ older(x, x)
  BY <1>2 DEF older
<1>5. \A x, y \in S : x # y => older(x, y) \/ older(y, x)
  BY <1>2, <1>3 DEF older
<1>6. \A x, y, z \in S : older(x, y) /\ older(y, z) => older(x, z)
  BY <1>2 DEF older
<1> QED BY <1>1, <1>4, <1>5, <1>6, Zenon DEF StrictOrder

\* Candidates ascend, and none that is worth something is missing.
LEMMA CandidatesAscend ==
    ASSUME NEW notes, Purse(notes)
    PROVE  LET s == forAsset(notes, "asset")
               n == Len(s) IN
           s \in Seq(notes) /\ Ascends(notes, n, s, [i \in 1 .. n |-> s[i].value])
<1> DEFINE S == {x \in notes : x.asset = "asset" /\ x.value > 0}
           R == {p \in S \X S : cheaper(p[1], p[2])}
           s == forAsset(notes, "asset")
           c == Cardinality(S)
<1>1. S \in SUBSET notes /\ IsFiniteSet(S)
  <2>1. S \in SUBSET notes /\ IsFiniteSet(notes)
    BY DEF Purse
  <2> HIDE DEF S
  <2> QED BY <2>1, FS_Subset
<1>2. \A x \in S : x.value \in Nat /\ x.value >= 1
  BY DEF Purse
<1>3. \A x \in notes : x.value = 0 \/ x \in S
  BY DEF Purse
<1>4. s = Ranked(S, R)
  <2>1. \A x, y \in S : <<x, y>> \in R <=> cheaper(x, y)
    BY Zenon
  <2>2. s = [i \in 1 .. c |-> CHOOSE x \in S : Cardinality({m \in S : cheaper(m, x)}) = i - 1]
    BY DEF forAsset, inOrder
  <2> HIDE DEF S, R, s
  <2>3. \A x \in S : {m \in S : cheaper(m, x)} = {m \in S : <<m, x>> \in R}
    BY <2>1
  <2> DEFINE a(x) == Cardinality({m \in S : cheaper(m, x)})
             b(x) == Cardinality({m \in S : <<m, x>> \in R})
  <2>4. \A x \in S : a(x) = b(x)
    BY <2>3
  <2> HIDE DEF a, b, c
  <2>5. \A i \in 1 .. c : (CHOOSE x \in S : a(x) = i - 1) = (CHOOSE x \in S : b(x) = i - 1)
    <3> SUFFICES ASSUME NEW i \in 1 .. c
                 PROVE  (CHOOSE x \in S : a(x) = i - 1) = (CHOOSE x \in S : b(x) = i - 1)
      OBVIOUS
    <3>1. \A x : (x \in S /\ a(x) = i - 1) <=> (x \in S /\ b(x) = i - 1)
      BY <2>4
    <3> QED BY <3>1
  <2>6. s = [i \in 1 .. c |-> CHOOSE x \in S : a(x) = i - 1]
    BY <2>2 DEF a
  <2>7. Ranked(S, R) = [i \in 1 .. c |-> CHOOSE x \in S : b(x) = i - 1]
    BY DEF Ranked, b, c
  <2> QED BY <2>5, <2>6, <2>7
<1>5. StrictOrder(S, R)
  <2> HIDE DEF S
  <2> QED BY <1>1, CheaperOrders
<1> HIDE DEF S, s, c
<1>6. /\ c \in Nat /\ s \in [1 .. c -> S]
      /\ \A x \in S : \E i \in 1 .. c : s[i] = x
      /\ \A i, j \in 1 .. c : i < j => s[i] # s[j] /\ <<s[i], s[j]>> \in R
  <2> HIDE DEF R
  <2> QED BY <1>1, <1>4, <1>5, RankedInOrder DEF c
<1>7. \A i, j \in 1 .. c : i < j => s[i] # s[j] /\ cheaper(s[i], s[j])
  BY <1>6, Zenon
<1> HIDE DEF R
<1>8. s \in [1 .. c -> notes] /\ s \in Seq(notes) /\ Len(s) = c
  BY <1>1, <1>6
<1>9. \A i \in 1 .. c : s[i] \in S /\ s[i].value \in Nat /\ s[i].value >= 1
  BY <1>2, <1>6
<1>10. \A i, j \in 1 .. c : i < j => s[i].value <= s[j].value
  BY <1>7, <1>9 DEF cheaper
<1>11. \A i, j \in 1 .. c : s[i] = s[j] => i = j
  BY <1>6, <1>7
<1>12. \A x \in notes : x.value = 0 \/ \E i \in 1 .. c : s[i] = x
  BY <1>3, <1>6
<1>13. ValuesOf(c, s, [i \in 1 .. c |-> s[i].value])
  BY <1>9 DEF ValuesOf
<1>14. Ascends(notes, c, s, [i \in 1 .. c |-> s[i].value])
  BY <1>6, <1>8, <1>9, <1>10, <1>11, <1>12, <1>13 DEF Ascends
<1> QED BY <1>8, <1>14 DEF s

\* The last k of them are worth the most, and more of them more.
LEMMA TopIs ==
    ASSUME NEW notes, NEW n, NEW s, NEW v, Ascends(notes, n, s, v), NEW k \in 0 .. n
    PROVE  /\ Top(n, v, k) \in Nat /\ TotalValue(Largest(s, k)) = Top(n, v, k)
           /\ \A l \in 0 .. k : Top(n, v, l) <= Top(n, v, k)
<1>1. /\ n \in Nat /\ s \in [1 .. n -> notes] /\ s \in Seq(notes) /\ Len(s) = n
      /\ ValuesOf(n, s, v) /\ \A i \in 1 .. n : v[i] \in Nat /\ v[i] = s[i].value
  BY DEF Ascends, ValuesOf
<1>2. PICK from : from = n - k + 1
  OBVIOUS
<1>3. TotalValue(SubSeq(s, from, n)) = Total(v, from .. n)
  <2>1. from \in Nat /\ 1 <= from /\ from <= n + 1 /\ n <= n
    BY <1>1, <1>2
  <2>2. n \in Nat /\ s \in Seq(notes) /\ Len(s) = n /\ ValuesOf(n, s, v)
    BY <1>1
  <2> QED BY ONLY <2>1, <2>2, PartTotal
<1>4. TotalValue(Largest(s, k)) = Top(n, v, k)
  BY <1>1, <1>2, <1>3 DEF Largest, Top
<1>5. \A l \in 0 .. k : Top(n, v, l) \in Nat /\ Top(n, v, k) \in Nat /\ Top(n, v, l) <= Top(n, v, k)
  <2> SUFFICES ASSUME NEW l \in 0 .. k
               PROVE  Top(n, v, l) \in Nat /\ Top(n, v, k) \in Nat /\ Top(n, v, l) <= Top(n, v, k)
    OBVIOUS
  <2> DEFINE A == n - k + 1 .. n - l
             B == n - l + 1 .. n
  <2>1. /\ IsFiniteSet(A) /\ IsFiniteSet(B) /\ A \cap B = {} /\ A \cup B = n - k + 1 .. n
        /\ A \subseteq 1 .. n /\ B \subseteq 1 .. n
    <3>1. n - k + 1 \in Int /\ n - l \in Int /\ n - l + 1 \in Int /\ n \in Int
      BY <1>1
    <3>2. IsFiniteSet(A) /\ IsFiniteSet(B)
      BY <3>1, FS_Interval
    <3> QED BY <1>1, <3>2
  <2>2. \A i \in A \cup B : v[i] \in Nat
    BY <1>1, <2>1
  <2> HIDE DEF A, B
  <2>3. Total(v, A \cup B) = Total(v, A) + Total(v, B)
    BY <2>1, <2>2, TotalUnion
  <2>4. Total(v, A) \in Nat /\ Total(v, B) \in Nat
    BY <2>1, <2>2, TotalNat
  <2>5. Top(n, v, k) = Total(v, A \cup B)
    BY <2>1 DEF Top
  <2>6. Top(n, v, l) = Total(v, B)
    BY DEF Top, B
  <2> QED BY <2>3, <2>4, <2>5, <2>6
<1> QED BY <1>4, <1>5

\* X are the notes of s at the places A.
AtPlaces(X, s, A) == (\A i \in A : s[i] \in X) /\ \A x \in X : \E i \in A : s[i] = x

\* The notes at some places are as many, and worth what their places are.
LEMMA NotesAt ==
    ASSUME NEW notes, Purse(notes), NEW n, NEW s, NEW v, Ascends(notes, n, s, v),
           NEW A \in SUBSET (1 .. n), NEW X, AtPlaces(X, s, A)
    PROVE  /\ X \in SUBSET notes /\ IsFiniteSet(X) /\ IsFiniteSet(A) /\ Cardinality(X) = Cardinality(A)
           /\ TotalValue(SetToSeq(X)) = Total(v, A) /\ Total(v, A) \in Nat
<1>1. /\ n \in Nat /\ s \in [1 .. n -> notes] /\ \A i \in 1 .. n : v[i] \in Nat /\ v[i] = s[i].value
      /\ \A i, j \in 1 .. n : s[i] = s[j] => i = j
  BY DEF Ascends, ValuesOf
<1>2. IsFiniteSet(A)
  BY <1>1, Positions, FS_Subset
<1>3. \A i \in A : s[i] \in notes /\ v[i] \in Nat /\ v[i] = s[i].value
  BY <1>1
<1>4. X = {s[i] : i \in A} /\ (\A i \in A : s[i] \in X) /\ \A x \in X : \E i \in A : s[i] = x
  BY DEF AtPlaces
<1>5. X \in SUBSET notes /\ IsFiniteSet(X)
  <2>1. X \in SUBSET notes /\ IsFiniteSet(notes)
    BY <1>3, <1>4 DEF Purse
  <2> QED BY <2>1, FS_Subset
<1>6. Cardinality(X) = Cardinality(A)
  <2> DEFINE f == [i \in A |-> s[i]]
  <2>1. \A i, j \in A : s[i] = s[j] => i = j
    BY <1>1
  <2>2. f \in [A -> X] /\ (\A i, j \in A : f[i] = f[j] => i = j) /\ \A x \in X : \E i \in A : f[i] = x
    BY <1>4, <2>1
  <2> HIDE DEF f
  <2>3. f \in Surjection(A, X) /\ f \in Injection(A, X)
    BY <2>2 DEF Surjection, Injection, IsInjective
  <2> QED BY <1>2, <2>3, FS_Surjection
<1> DEFINE val == [x \in X |-> x.value]
<1>7. \A x \in X : val[x] \in Nat /\ val[x] = x.value
  BY <1>3, <1>4
<1>8. \A i \in A : val[s[i]] = v[i] /\ v[i] \in Nat
  BY <1>3, <1>4
<1>9. \A i, j \in A : s[i] = s[j] => i = j
  BY <1>1
<1> HIDE DEF val
<1>10. TotalValue(SetToSeq(X)) = Total(val, X) /\ Total(val, X) \in Nat
  BY <1>5, <1>7, TotalOfSet
<1>11. Total(val, {s[i] : i \in A}) = Total(v, A)
  <2>1. PICK B : B = A
    OBVIOUS
  <2>2. PICK w : w = v
    OBVIOUS
  <2>3. IsFiniteSet(B) /\ (\A i \in B : val[s[i]] = w[i] /\ w[i] \in Nat)
        /\ \A i, j \in B : s[i] = s[j] => i = j
    BY <1>2, <1>8, <1>9, <2>1, <2>2
  <2>4. Total(val, {s[i] : i \in B}) = Total(w, B)
    BY ONLY <2>3, TotalImage
  <2> QED BY <2>1, <2>2, <2>4
<1> QED BY <1>2, <1>5, <1>6, <1>10, <1>11, <1>4

\* No notes are worth more than as many of the most valuable ones.
LEMMA NoneWorthMore ==
    ASSUME NEW notes, Purse(notes), NEW n, NEW s, NEW v, Ascends(notes, n, s, v),
           NEW X \in SUBSET notes
    PROVE  /\ Cardinality(X) \in Nat /\ TotalValue(SetToSeq(X)) \in Nat
           /\ \E k \in 0 .. n : k <= Cardinality(X) /\ TotalValue(SetToSeq(X)) <= Top(n, v, k)
<1> DEFINE A == {i \in 1 .. n : s[i] \in X}
           Y == {s[i] : i \in A}
           val == [x \in X |-> x.value]
<1>1. /\ n \in Nat /\ \A i \in 1 .. n : v[i] \in Nat
      /\ \A i, j \in 1 .. n : i < j => v[i] <= v[j]
      /\ \A x \in notes : x.value = 0 \/ \E i \in 1 .. n : s[i] = x
  BY DEF Ascends, ValuesOf
<1>2. IsFiniteSet(X) /\ Cardinality(X) \in Nat /\ \A x \in X : x.value \in Nat
  <2>1. IsFiniteSet(notes) /\ \A x \in notes : x.value \in Nat
    BY DEF Purse
  <2>2. IsFiniteSet(X)
    BY <2>1, FS_Subset
  <2> QED BY <2>1, <2>2, FS_CardinalityType
<1>3. A \in SUBSET (1 .. n) /\ Y \in SUBSET X
  OBVIOUS
<1>4. \A x \in X \ Y : x.value = 0
  BY <1>1
<1>5. \A x \in X : val[x] \in Nat /\ val[x] = x.value
  BY <1>2
<1>6. AtPlaces(Y, s, A)
  BY DEF AtPlaces
<1> HIDE DEF A, Y, val
<1>7. /\ Cardinality(Y) = Cardinality(A) /\ TotalValue(SetToSeq(Y)) = Total(v, A) /\ IsFiniteSet(Y)
  BY <1>3, <1>6, NotesAt
<1>8. TotalValue(SetToSeq(Y)) = Total(val, Y)
  <2>1. \A x \in Y : val[x] \in Nat /\ val[x] = x.value
    BY <1>3, <1>5
  <2> QED BY <1>7, <2>1, TotalOfSet
<1>9. TotalValue(SetToSeq(X)) = Total(val, X) /\ Total(val, X) \in Nat
  BY <1>2, <1>5, TotalOfSet
<1>10. Total(val, X) = Total(val, Y)
  BY <1>2, <1>3, <1>4, <1>5, TotalZeros
<1>11. Cardinality(A) \in 0 .. n /\ Total(v, A) <= Top(n, v, Cardinality(A))
  BY <1>1, <1>3, LastAreLargest DEF Top
<1>12. Cardinality(Y) <= Cardinality(X)
  BY <1>2, <1>3, FS_Subset
<1> QED BY <1>2, <1>7, <1>8, <1>9, <1>10, <1>11, <1>12

\* The best fit covers the target, and there is one if any note does.
LEMMA BestFitIs ==
    ASSUME NEW notes, NEW n, NEW s, NEW v, Ascends(notes, n, s, v),
           NEW target \in Nat, NEW policy, NEW single, single = bestFit(s, target, policy)
    PROVE  /\ single \in 0 .. n
           /\ single # 0 => v[single] >= target
           /\ single = 0 => \A i \in 1 .. n : v[i] < target
<1>1. n \in Nat /\ DOMAIN s = 1 .. n /\ \A i \in 1 .. n : v[i] \in Nat /\ v[i] = s[i].value
  BY DEF Ascends, ValuesOf
<1> DEFINE covering == {i \in DOMAIN s : s[i].value >= target}
           clean == {i \in covering : \/ s[i].value = target
                                      \/ s[i].value - target >= policy.dustFloor}
<1>2. single = IF clean # {} THEN Min(clean) ELSE IF covering # {} THEN Min(covering) ELSE 0
  BY DEF bestFit
<1>3. \A i \in covering : i \in 1 .. n /\ i \in Nat /\ i # 0 /\ v[i] >= target
  BY <1>1
<1>4. covering = {} => \A i \in 1 .. n : v[i] < target
  BY <1>1
<1>5. clean \subseteq covering /\ covering \subseteq Nat /\ clean \subseteq Nat
  BY <1>3
<1> HIDE DEF clean, covering
<1>6. CASE clean # {}
  <2>1. single \in clean
    BY <1>2, <1>5, <1>6, LeastIsMin
  <2> QED BY <1>3, <1>5, <2>1
<1>7. CASE clean = {} /\ covering # {}
  <2>1. single \in covering
    BY <1>2, <1>5, <1>7, LeastIsMin
  <2> QED BY <1>3, <2>1
<1>8. CASE clean = {} /\ covering = {}
  BY <1>1, <1>2, <1>4, <1>8
<1> QED BY <1>6, <1>7, <1>8

\* The notes of the cover are k neighbours, the first after place st; k is the
\* least number of notes that covers the target.
Covers(n, s, v, target, c, k, st) ==
    /\ k \in 1 .. n /\ st \in 0 .. n - k
    /\ Len(c) = k /\ \A i \in 1 .. k : c[i] = s[st + i]
    /\ Total(v, st + 1 .. st + k) >= target
    /\ Top(n, v, k) >= target /\ \A l \in 1 .. n : Top(n, v, l) >= target => k <= l

\* There is a cover if all notes together cover the target.
LEMMA CoverIs ==
    ASSUME NEW notes, NEW n, NEW s, NEW v, Ascends(notes, n, s, v),
           NEW target \in Nat, NEW c, c = minimalCover(s, target)
    PROVE  \/ c = << >> /\ \A k \in 1 .. n : Top(n, v, k) < target
           \/ /\ c \in Seq(notes) /\ c # << >>
              /\ \E k, st \in Nat : Covers(n, s, v, target, c, k, st)
<1>1. /\ n \in Nat /\ s \in Seq(notes) /\ n = Len(s) /\ DOMAIN s = 1 .. n /\ ValuesOf(n, s, v)
      /\ \A i \in 1 .. n : v[i] \in Nat
  BY DEF Ascends, ValuesOf
<1> DEFINE sizes == {k \in DOMAIN s : TotalValue(Largest(s, k)) >= target}
           k == Min(sizes)
           window(start) == SubSeq(s, start + 1, start + k)
           starts == {st \in 0 .. Len(s) - k : TotalValue(window(st)) >= target}
           smallest == Min({TotalValue(window(st)) : st \in starts})
           ties == {st \in starts : TotalValue(window(st)) = smallest}
<1>2. c = IF sizes = {} THEN << >> ELSE window(Min(ties))
  BY DEF minimalCover
<1>3. \A l \in 1 .. n : l \in 0 .. n /\ Top(n, v, l) \in Nat /\ TotalValue(Largest(s, l)) = Top(n, v, l)
  <2> SUFFICES ASSUME NEW l \in 1 .. n
               PROVE  l \in 0 .. n /\ Top(n, v, l) \in Nat /\ TotalValue(Largest(s, l)) = Top(n, v, l)
    OBVIOUS
  <2>1. l \in 0 .. n
    BY <1>1
  <2> QED BY <2>1, TopIs
<1>4. \A l : l \in sizes <=> l \in 1 .. n /\ Top(n, v, l) >= target
  BY <1>1, <1>3
<1>5. CASE sizes = {}
  <2>1. \A l \in 1 .. n : Top(n, v, l) < target
    <3> HIDE DEF sizes
    <3> QED BY <1>3, <1>4, <1>5
  <2> QED BY <1>2, <1>5, <2>1
<1>6. CASE sizes # {}
  <2>1. sizes \subseteq Nat
    BY <1>1
  <2> HIDE DEF sizes
  <2>2. k \in sizes /\ \A l \in sizes : k <= l
    BY <1>6, <2>1, LeastIsMin
  <2>3. k \in 1 .. n /\ Top(n, v, k) >= target /\ \A l \in 1 .. n : Top(n, v, l) >= target => k <= l
    BY <1>4, <2>2
  <2> HIDE DEF k
  <2>4. \A st \in 0 .. n - k :
          /\ window(st) \in Seq(notes) /\ Len(window(st)) = k
          /\ \A i \in 1 .. k : window(st)[i] = s[st + i]
          /\ TotalValue(window(st)) = Total(v, st + 1 .. st + k) /\ TotalValue(window(st)) \in Nat
    <3> SUFFICES ASSUME NEW st \in 0 .. n - k
                 PROVE  /\ window(st) \in Seq(notes) /\ Len(window(st)) = k
                        /\ \A i \in 1 .. k : window(st)[i] = s[st + i]
                        /\ TotalValue(window(st)) = Total(v, st + 1 .. st + k)
                        /\ TotalValue(window(st)) \in Nat
      OBVIOUS
    <3>1. PICK from \in Nat, to \in Nat :
            from = st + 1 /\ to = st + k /\ 1 <= from /\ from <= to + 1 /\ to <= n
      <4>1. st + 1 \in Nat /\ st + k \in Nat /\ 1 <= st + 1 /\ st + 1 <= st + k + 1 /\ st + k <= n
        BY <1>1, <2>3
      <4> QED BY <4>1
    <3>2. TotalValue(SubSeq(s, from, to)) = Total(v, from .. to)
      BY ONLY <1>1, <3>1, PartTotal
    <3>3. /\ SubSeq(s, from, to) \in Seq(notes) /\ Len(SubSeq(s, from, to)) = k
          /\ \A i \in 1 .. k : SubSeq(s, from, to)[i] = s[st + i]
      BY <1>1, <2>3, <3>1
    <3>4. Total(v, from .. to) \in Nat
      <4>1. IsFiniteSet(from .. to)
        BY FS_Interval
      <4>2. \A i \in from .. to : v[i] \in Nat
        BY <1>1, <3>1
      <4> QED BY ONLY <4>1, <4>2, TotalNat
    <3>5. window(st) = SubSeq(s, from, to)
      BY <3>1
    <3> HIDE DEF window
    <3> QED BY <3>1, <3>2, <3>3, <3>4, <3>5
  <2>5. n - k \in 0 .. n - k /\ TotalValue(window(n - k)) >= target
    <3>1. n - k \in 0 .. n - k /\ (n - k) + 1 = n - k + 1 /\ (n - k) + k = n
      BY <1>1, <2>3
    <3>2. TotalValue(window(n - k)) = Total(v, (n - k) + 1 .. (n - k) + k)
      <4> HIDE DEF window
      <4> QED BY <2>4, <3>1
    <3> QED BY <2>3, <3>1, <3>2 DEF Top
  <2>6. starts = {st \in 0 .. n - k : TotalValue(window(st)) >= target}
    BY <1>1
  <2>7. n - k \in starts
    <3> HIDE DEF window, starts
    <3> QED BY <2>5, <2>6
  <2> DEFINE sums == {TotalValue(window(st)) : st \in starts}
  <2>8. sums \subseteq Nat /\ sums # {}
    <3> HIDE DEF window
    <3> QED BY <2>4, <2>6, <2>7
  <2>9. smallest \in sums
    <3>1. smallest = Min(sums)
      OBVIOUS
    <3> HIDE DEF sums, smallest
    <3> QED BY <2>8, <3>1, LeastIsMin
  <2>10. ties # {} /\ ties \subseteq starts
    <3> HIDE DEF window, starts, smallest
    <3> QED BY <2>9
  <2>11. Min(ties) \in ties
    <3>1. ties \subseteq Nat
      <4> HIDE DEF window, ties, smallest
      <4> QED BY <2>6, <2>10
    <3> HIDE DEF ties
    <3> QED BY <2>10, <3>1, LeastIsMin
  <2>12. PICK st : st = Min(ties)
    OBVIOUS
  <2>13. st \in 0 .. n - k /\ TotalValue(window(st)) >= target /\ c = window(st)
    <3>1. c = window(Min(ties))
      BY <1>2, <1>6
    <3> HIDE DEF window, ties, smallest
    <3> QED BY <2>6, <2>10, <2>11, <2>12, <3>1
  <2> HIDE DEF window, ties, starts, smallest
  <2>14. c \in Seq(notes) /\ Len(c) = k /\ \A i \in 1 .. k : c[i] = s[st + i]
    BY <2>4, <2>13
  <2>15. Total(v, st + 1 .. st + k) >= target
    BY <2>4, <2>13
  <2>16. k \in Nat /\ st \in Nat /\ c # << >>
    BY <2>3, <2>13, <2>14
  <2> QED BY <2>3, <2>13, <2>14, <2>15, <2>16 DEF Covers
<1> QED BY <1>5, <1>6

-----------------------------------------------------------------------------
(***************************************************************************)
(* The joins of a plan.                                                    *)
(***************************************************************************)

\* Notes that are joined from the oldest on are all there, each once.
LEMMA OldestFirst ==
    ASSUME NEW notes, Purse(notes), NEW X \in SUBSET notes, IsFiniteSet(X),
           NEW o, o = inOrder(X, older), NEW k, k = Cardinality(X)
    PROVE  /\ k \in Nat /\ o \in Seq(X) /\ Len(o) = k
           /\ \A u : (\A i \in 1 .. k : u[i] = o[i].value) => Total(u, 1 .. k) = TotalValue(SetToSeq(X))
<1> DEFINE R == {p \in X \X X : older(p[1], p[2])}
           val == [x \in X |-> x.value]
<1>1. \A x, y \in X : <<x, y>> \in R <=> older(x, y)
  BY Zenon
<1>2. StrictOrder(X, R)
  BY OlderOrders
<1> HIDE DEF R
<1>3. o = Ranked(X, R)
  <2>1. \A x \in X : {m \in X : older(m, x)} = {m \in X : <<m, x>> \in R}
    BY <1>1
  <2> DEFINE a(x) == Cardinality({m \in X : older(m, x)})
             b(x) == Cardinality({m \in X : <<m, x>> \in R})
  <2>2. \A x \in X : a(x) = b(x)
    BY <2>1
  <2>3. o = [i \in 1 .. k |-> CHOOSE x \in X : a(x) = i - 1]
    BY DEF inOrder
  <2>4. Ranked(X, R) = [i \in 1 .. k |-> CHOOSE x \in X : b(x) = i - 1]
    BY DEF Ranked
  <2> HIDE DEF a, b
  <2>5. \A i \in 1 .. k : (CHOOSE x \in X : a(x) = i - 1) = (CHOOSE x \in X : b(x) = i - 1)
    <3> SUFFICES ASSUME NEW i \in 1 .. k
                 PROVE  (CHOOSE x \in X : a(x) = i - 1) = (CHOOSE x \in X : b(x) = i - 1)
      OBVIOUS
    <3>1. \A x : (x \in X /\ a(x) = i - 1) <=> (x \in X /\ b(x) = i - 1)
      BY <2>2
    <3> QED BY <3>1
  <2> QED BY <2>3, <2>4, <2>5
<1>4. /\ k \in Nat /\ o \in [1 .. k -> X]
      /\ \A x \in X : \E i \in 1 .. k : o[i] = x
      /\ \A i, j \in 1 .. k : i < j => o[i] # o[j] /\ <<o[i], o[j]>> \in R
  <2>1. PICK S : S = X
    OBVIOUS
  <2>2. IsFiniteSet(S) /\ StrictOrder(S, R) /\ o = Ranked(S, R)
    BY <1>2, <1>3, <2>1
  <2>3. /\ Cardinality(S) \in Nat /\ o \in [1 .. Cardinality(S) -> S]
        /\ \A x \in S : \E i \in 1 .. Cardinality(S) : o[i] = x
        /\ \A i, j \in 1 .. Cardinality(S) : i < j => o[i] # o[j] /\ <<o[i], o[j]>> \in R
    BY ONLY <2>2, RankedInOrder
  <2> QED BY <2>1, <2>3
<1>5. o \in Seq(X) /\ Len(o) = k
  BY <1>4
<1>6. \A i, j \in 1 .. k : o[i] = o[j] => i = j
  <2> SUFFICES ASSUME NEW i \in 1 .. k, NEW j \in 1 .. k, o[i] = o[j], i # j PROVE FALSE
    OBVIOUS
  <2>1. i < j \/ j < i
    BY <1>4
  <2> QED BY <1>4, <2>1
<1>7. \A x \in X : val[x] \in Nat /\ val[x] = x.value
  BY DEF Purse
<1>8. {o[i] : i \in 1 .. k} = X
  BY <1>4
<1> HIDE DEF val
<1>9. TotalValue(SetToSeq(X)) = Total(val, X)
  BY <1>7, TotalOfSet
<1>10. ASSUME NEW u, \A i \in 1 .. k : u[i] = o[i].value
       PROVE  Total(u, 1 .. k) = TotalValue(SetToSeq(X))
  <2>1. PICK P : P = 1 .. k
    OBVIOUS
  <2>2. IsFiniteSet(P) /\ (\A i \in P : val[o[i]] = u[i] /\ u[i] \in Nat)
        /\ \A i, j \in P : o[i] = o[j] => i = j
    <3>1. IsFiniteSet(1 .. k)
      BY <1>4, Positions
    <3>2. \A i \in 1 .. k : val[o[i]] = u[i] /\ u[i] \in Nat
      BY <1>4, <1>7, <1>10
    <3> QED BY <1>6, <2>1, <3>1, <3>2
  <2>3. Total(val, {o[i] : i \in P}) = Total(u, P)
    BY ONLY <2>2, TotalImage
  <2> QED BY <1>8, <1>9, <2>1, <2>3
<1> QED BY <1>4, <1>5, <1>10

\* What planSpend's steps are.
Step(op) == [op : {op}, inputs : Seq(Int), outgoing : Nat, change : Nat]

\* k notes are joined in k - 1 steps into one that is worth all of them.
LEMMA Joined ==
    ASSUME NEW notes, Purse(notes), NEW X \in SUBSET notes, IsFiniteSet(X), X # {},
           NEW o, o = inOrder(X, older), NEW k, k = Cardinality(X)
    PROVE  LET merge(acc, n) ==
                 LET join == joinStep(acc.merged, n) IN
                 [steps |-> Append(acc.steps, join),
                  merged |-> [leafIndex |-> -1, asset |-> "asset", value |-> join.change]]
               joined == FoldLeft(merge, [steps |-> << >>, merged |-> Head(o)], Tail(o)) IN
           /\ joined.steps \in Seq(Step("JOIN")) /\ k \in Nat /\ Len(joined.steps) = k - 1
           /\ joined.merged.leafIndex \in Int /\ joined.merged.value = TotalValue(SetToSeq(X))
<1> DEFINE next(acc, x) == [steps |-> Append(acc.steps, joinStep(acc.merged, x)),
                            merged |-> [leafIndex |-> -1, asset |-> "asset",
                                        value |-> joinStep(acc.merged, x).change]]
           base == [steps |-> << >>, merged |-> Head(o)]
           t == Tail(o)
           P == 1 .. k - 1
           merge(acc, n) ==
             LET join == joinStep(acc.merged, n) IN
             [steps |-> Append(acc.steps, join),
              merged |-> [leafIndex |-> -1, asset |-> "asset", value |-> join.change]]
           joined == FoldLeft(merge, base, t)
           F(f) == f = [s \in SUBSET P |-> IF s = {} THEN base ELSE next(f[s \ {Max(s)}], t[Max(s)])]
           M == X \cup [leafIndex : {-1}, asset : {"asset"}, value : Nat]
           W == [steps : Seq(Step("JOIN")), merged : M]
<1>1. /\ k \in Nat /\ o \in Seq(X) /\ Len(o) = k
      /\ \A u : (\A i \in 1 .. k : u[i] = o[i].value) => Total(u, 1 .. k) = TotalValue(SetToSeq(X))
  BY OldestFirst
<1>2. k >= 1
  <2>1. k # 0
    BY FS_EmptySet
  <2> QED BY <1>1, <2>1
<1>3. /\ Head(o) = o[1] /\ o[1] \in X /\ t \in Seq(X) /\ Len(t) = k - 1 /\ DOMAIN t = P
      /\ \A i \in P : t[i] = o[1 + i] /\ t[i] \in X /\ i \in Nat
  BY <1>1, <1>2
<1>4. joined = (CHOOSE f : F(f))[P]
  BY <1>3 DEF FoldLeft, MapThenFoldSet
<1>5. \A x \in X : x.value \in Nat /\ x.leafIndex \in Int
  BY DEF Purse
<1>6. \A x \in M : x.value \in Nat /\ x.leafIndex \in Int
  BY <1>5
<1>7. \A x \in M, y \in X : /\ joinStep(x, y) \in Step("JOIN")
                            /\ joinStep(x, y).change = x.value + y.value
                            /\ joinStep(x, y).change \in Nat
  <2> SUFFICES ASSUME NEW x \in M, NEW y \in X
               PROVE  /\ joinStep(x, y) \in Step("JOIN")
                      /\ joinStep(x, y).change = x.value + y.value
                      /\ joinStep(x, y).change \in Nat
    OBVIOUS
  <2>1. x.value \in Nat /\ x.leafIndex \in Int /\ y.value \in Nat /\ y.leafIndex \in Int
    BY <1>5, <1>6
  <2> DEFINE lo == IF x.leafIndex < y.leafIndex THEN x ELSE y
             hi == IF x.leafIndex < y.leafIndex THEN y ELSE x
  <2>2. /\ <<lo.leafIndex, hi.leafIndex>> \in Seq(Int)
        /\ lo.value + hi.value = x.value + y.value /\ lo.value + hi.value \in Nat
    BY <2>1
  <2>3. joinStep(x, y) = [op |-> "JOIN", inputs |-> <<lo.leafIndex, hi.leafIndex>>, outgoing |-> 0,
                          change |-> lo.value + hi.value]
    BY DEF joinStep
  <2> HIDE DEF lo, hi
  <2> QED BY <2>2, <2>3 DEF Step
<1> HIDE DEF joined, t
<1>8. base \in W
  BY <1>3
<1>9. \A r \in W, x \in X :
        /\ next(r, x) \in W
        /\ Len(next(r, x).steps) = Len(r.steps) + 1
        /\ next(r, x).merged.value = r.merged.value + x.value
  <2> SUFFICES ASSUME NEW r \in W, NEW x \in X
               PROVE  /\ next(r, x) \in W
                      /\ Len(next(r, x).steps) = Len(r.steps) + 1
                      /\ next(r, x).merged.value = r.merged.value + x.value
    OBVIOUS
  <2>1. r.merged \in M /\ r.steps \in Seq(Step("JOIN"))
    OBVIOUS
  <2> DEFINE j == joinStep(r.merged, x)
             a == Append(r.steps, j)
  <2>2. j \in Step("JOIN") /\ j.change = r.merged.value + x.value /\ j.change \in Nat
    <3> HIDE DEF M, W
    <3> QED BY <1>7, <2>1
  <2> HIDE DEF j
  <2>3. a \in Seq(Step("JOIN")) /\ Len(a) = Len(r.steps) + 1
    BY <2>1, <2>2
  <2>4. next(r, x) = [steps |-> a, merged |-> [leafIndex |-> -1, asset |-> "asset", value |-> j.change]]
    BY DEF j
  <2> HIDE DEF a, next
  <2>5. [leafIndex |-> -1, asset |-> "asset", value |-> j.change] \in M
    BY <2>2
  <2>6. next(r, x) \in W
    <3> HIDE DEF M
    <3> QED BY <2>3, <2>4, <2>5
  <2> QED BY <2>2, <2>3, <2>4, <2>6
<1> HIDE DEF W, M, next
<1>10. \E f : F(f)
  <2> DEFINE join == [xr \in X \X W |-> next(xr[2], xr[1])]
  <2>1. \A x \in X, r \in W : <<x, r>> \in X \X W /\ join[<<x, r>>] = next(r, x)
    OBVIOUS
  <2>2. join \in [X \X W -> W]
    BY <1>9
  <2> HIDE DEF join
  <2>3. t \in Seq(X) /\ Len(t) = k - 1
    BY <1>3
  <2>4. PICK f : FoldsTo(f, join, base, t, W)
    <3> HIDE DEF base
    <3> QED BY <1>8, <2>2, <2>3, FoldOver
  <2>5. /\ f = [s \in SUBSET P |-> f[s]]
        /\ \A s \in SUBSET P :
             /\ f[s] \in W
             /\ s = {} => f[s] = base
             /\ s # {} => /\ Max(s) \in s /\ s \ {Max(s)} \in SUBSET P
                          /\ f[s] = join[<<t[Max(s)], f[s \ {Max(s)}]>>]
    <3> HIDE DEF base
    <3> QED BY <2>3, <2>4, Zenon DEF FoldsTo
  <2>6. \A s \in SUBSET P : f[s] = IF s = {} THEN base ELSE next(f[s \ {Max(s)}], t[Max(s)])
    <3> SUFFICES ASSUME NEW s \in SUBSET P
                 PROVE  f[s] = IF s = {} THEN base ELSE next(f[s \ {Max(s)}], t[Max(s)])
      OBVIOUS
    <3> HIDE DEF base
    <3>1. CASE s = {}
      BY <2>5, <3>1
    <3>2. CASE s # {}
      <4>1. /\ Max(s) \in s /\ s \ {Max(s)} \in SUBSET P
            /\ f[s] = join[<<t[Max(s)], f[s \ {Max(s)}]>>]
        BY <2>5, <3>2
      <4>2. f[s \ {Max(s)}] \in W /\ t[Max(s)] \in X
        BY <1>3, <2>5, <4>1
      <4> QED BY <2>1, <3>2, <4>1, <4>2
    <3> QED BY <3>1, <3>2
  <2>7. F(f)
    <3> HIDE DEF base
    <3> QED BY <2>5, <2>6
  <2> QED BY <2>7
<1> DEFINE g == CHOOSE f : F(f)
<1>11. F(g)
  <2> HIDE DEF F
  <2> QED BY <1>10
<1> HIDE DEF g
<1> DEFINE w == [i \in P |-> t[i].value]
           b == o[1].value
           Good == {s \in SUBSET P : /\ g[s] \in W /\ IsFiniteSet(s)
                                     /\ Len(g[s].steps) = Cardinality(s)
                                     /\ g[s].merged.value = b + Total(w, s)}
<1>12. b \in Nat /\ \A i \in P : w[i] \in Nat /\ w[i] = t[i].value /\ w[i] = o[1 + i].value
  BY <1>3, <1>5
<1> HIDE DEF w, b
<1>13. {} \in Good
  <2>1. g[{}] = base /\ base.steps = << >> /\ base.merged.value = b
    BY <1>3, <1>11 DEF b
  <2>2. Total(w, {}) = 0 /\ IsFiniteSet({}) /\ Cardinality({}) = 0
    BY TotalEmpty, FS_EmptySet
  <2> HIDE DEF base
  <2> QED BY <1>8, <1>12, <2>1, <2>2
<1>14. \A s \in SUBSET P : s # {} /\ Max(s) \in s /\ s \ {Max(s)} \in Good => s \in Good
  <2> SUFFICES ASSUME NEW s \in SUBSET P, s # {}, Max(s) \in s, s \ {Max(s)} \in Good
               PROVE  s \in Good
    OBVIOUS
  <2> DEFINE m == Max(s)
             q == s \ {m}
  <2>1. /\ g[q] \in W /\ IsFiniteSet(q) /\ Len(g[q].steps) = Cardinality(q)
        /\ g[q].merged.value = b + Total(w, q)
    OBVIOUS
  <2>2. g[s] = next(g[q], t[m]) /\ t[m] \in X /\ w[m] = t[m].value /\ w[m] \in Nat
    BY <1>3, <1>11, <1>12
  <2>3. q \cup {m} = s /\ m \notin q /\ \A i \in q \cup {m} : w[i] \in Nat
    BY <1>12
  <2> HIDE DEF m, q, Good
  <2>4. IsFiniteSet(s) /\ Cardinality(s) = Cardinality(q) + 1 /\ Cardinality(q) \in Nat
    BY <2>1, <2>3, FS_AddElement, FS_CardinalityType
  <2>5. Total(w, s) = w[m] + Total(w, q)
    BY <2>1, <2>3, TotalAdd
  <2>6. Total(w, q) \in Nat
    BY <2>1, <2>3, TotalNat
  <2>7. g[s] \in W /\ Len(g[s].steps) = Cardinality(s) /\ g[s].merged.value = b + Total(w, q) + w[m]
    BY <1>9, <2>1, <2>2, <2>4
  <2>8. b + Total(w, q) + w[m] = b + Total(w, s)
    BY <1>12, <2>2, <2>5, <2>6
  <2> QED BY <2>4, <2>7, <2>8 DEF Good
<1>15. P \in Good
  <2>1. k - 1 \in Nat
    BY <1>1, <1>2
  <2> HIDE DEF Good
  <2> QED BY <1>13, <1>14, <2>1, RoundInduction
<1>16. joined \in W /\ Len(joined.steps) = Cardinality(P) /\ joined.merged.value = b + Total(w, P)
  BY <1>4, <1>15 DEF g
<1>17. Cardinality(P) = k - 1
  <2>1. 1 \in Int /\ k - 1 \in Int
    BY <1>1
  <2>2. Cardinality(P) = IF 1 > k - 1 THEN 0 ELSE k - 1 - 1 + 1
    BY <2>1, FS_Interval
  <2> QED BY <1>1, <1>2, <2>2
<1>18. b + Total(w, P) = TotalValue(SetToSeq(X))
  <2> DEFINE u == [i \in 1 .. k |-> o[i].value]
  <2>1. \A i \in 1 .. k : u[i] = o[i].value /\ u[i] \in Nat
    BY <1>1, <1>5
  <2>2. u[1] = b /\ \A i \in P : w[i] \in Nat /\ w[i] = u[1 + i]
    BY <1>1, <1>2, <1>12 DEF b
  <2> HIDE DEF u
  <2>3. Total(u, 1 .. k) = TotalValue(SetToSeq(X))
    BY <1>1, <2>1
  <2>4. Total(w, P) = Total(u, 2 .. k)
    <3>1. PICK m \in Nat, a \in Nat : m = k - 1 /\ a = 1
      <4>1. k - 1 \in Nat
        BY <1>1, <1>2
      <4> QED BY <4>1
    <3>2. \A i \in 1 .. m : w[i] \in Nat /\ w[i] = u[a + i]
      BY <2>2, <3>1
    <3>3. Total(w, 1 .. m) = Total(u, a + 1 .. a + m)
      BY ONLY <3>2, m \in Nat, a \in Nat, TotalShift
    <3>4. a + 1 = 2 /\ a + m = k
      BY <1>1, <3>1
    <3> QED BY <3>1, <3>3, <3>4
  <2>5. Total(u, 1 .. k) = u[1] + Total(u, 2 .. k)
    <3>1. (1 .. k) \ {1} = 2 .. k /\ 1 \in 1 .. k
      BY <1>1, <1>2
    <3>2. IsFiniteSet(1 .. k)
      BY <1>1, Positions
    <3>3. Total(u, 1 .. k) = u[1] + Total(u, (1 .. k) \ {1})
      <4>1. PICK Q : Q = 1 .. k
        OBVIOUS
      <4>2. IsFiniteSet(Q) /\ 1 \in Q /\ \A i \in Q : u[i] \in Nat
        BY <2>1, <3>1, <3>2, <4>1
      <4>3. Total(u, Q) = u[1] + Total(u, Q \ {1})
        BY ONLY <4>2, TotalRemove
      <4> QED BY <4>1, <4>3
    <3> QED BY <3>1, <3>3
  <2> QED BY <2>2, <2>3, <2>4, <2>5
<1>19. joined.steps \in Seq(Step("JOIN")) /\ joined.merged.leafIndex \in Int
  <2>1. joined.steps \in Seq(Step("JOIN")) /\ joined.merged \in M
    BY <1>16 DEF W
  <2> QED BY <1>6, <2>1
<1> QED BY <1>1, <1>16, <1>17, <1>18, <1>19 DEF joined, base, t

-----------------------------------------------------------------------------
(***************************************************************************)
(* What planSpend answers.                                                 *)
(***************************************************************************)

\* One note covers the target.
OneStep(n, v, target, steps) ==
    /\ Len(steps) = 1
    /\ \E i \in 1 .. n : v[i] >= target /\ Last(steps).change = v[i] - target

\* No note does, and the notes X are joined: no fewer would do.
Joins(notes, n, v, target, steps) ==
    /\ \A i \in 1 .. n : v[i] < target
    /\ Len(steps) \in 1 .. n /\ Top(n, v, Len(steps)) >= target
    /\ \A l \in 1 .. n : Top(n, v, l) >= target => Len(steps) <= l
    /\ \E X \in SUBSET notes : /\ Cardinality(X) = Len(steps)
                               /\ Last(steps).change = TotalValue(SetToSeq(X)) - target

\* The notes of the cover are joined, and the target is spent from the last one.
LEMMA CoverJoins ==
    ASSUME NEW notes, Purse(notes), NEW n, NEW s, NEW v, Ascends(notes, n, s, v),
           NEW target \in Nat, \A i \in 1 .. n : v[i] < target, NEW op,
           NEW c \in Seq(notes), NEW k \in Nat, NEW st \in Nat, Covers(n, s, v, target, c, k, st)
    PROVE  LET ordered == inOrder(ToSet(c), older)
               merge(acc, x) ==
                 LET join == joinStep(acc.merged, x) IN
                 [steps |-> Append(acc.steps, join),
                  merged |-> [leafIndex |-> -1, asset |-> "asset", value |-> join.change]]
               joined == FoldLeft(merge, [steps |-> << >>, merged |-> Head(ordered)], Tail(ordered))
               spend(note) == [op |-> op, inputs |-> <<note.leafIndex>>, outgoing |-> target,
                               change |-> note.value - target]
               steps == Append(joined.steps, spend(joined.merged)) IN
           /\ steps \in Seq(Step("JOIN") \cup Step(op)) /\ Len(steps) = k
           /\ Joins(notes, n, v, target, steps)
<1> DEFINE X == ToSet(c)
           A == st + 1 .. st + k
           ordered == inOrder(X, older)
           merge(acc, x) ==
             LET join == joinStep(acc.merged, x) IN
             [steps |-> Append(acc.steps, join),
              merged |-> [leafIndex |-> -1, asset |-> "asset", value |-> join.change]]
           joined == FoldLeft(merge, [steps |-> << >>, merged |-> Head(ordered)], Tail(ordered))
           spend(note) == [op |-> op, inputs |-> <<note.leafIndex>>, outgoing |-> target,
                           change |-> note.value - target]
           steps == Append(joined.steps, spend(joined.merged))
<1>1. /\ k \in 1 .. n /\ st \in 0 .. n - k /\ n \in Nat
      /\ Len(c) = k /\ \A i \in 1 .. k : c[i] = s[st + i]
      /\ Total(v, st + 1 .. st + k) >= target
      /\ Top(n, v, k) >= target /\ \A l \in 1 .. n : Top(n, v, l) >= target => k <= l
  BY DEF Covers, Ascends
<1>2. A \in SUBSET (1 .. n) /\ AtPlaces(X, s, A)
  <2>1. A \in SUBSET (1 .. n)
    BY <1>1
  <2>2. X = {c[i] : i \in 1 .. k}
    <3>1. DOMAIN c = 1 .. k
      BY <1>1
    <3>2. X = {c[i] : i \in DOMAIN c}
      BY DEF ToSet
    <3> HIDE DEF X
    <3> QED BY <3>1, <3>2
  <2>3. \A i \in 1 .. k : st + i \in A /\ c[i] = s[st + i]
    BY <1>1
  <2>4. \A j \in A : j - st \in 1 .. k /\ c[j - st] = s[j]
    <3> SUFFICES ASSUME NEW j \in A PROVE j - st \in 1 .. k /\ c[j - st] = s[j]
      OBVIOUS
    <3>1. j - st \in 1 .. k /\ st + (j - st) = j
      BY <1>1
    <3>2. c[j - st] = s[st + (j - st)]
      BY <1>1, <3>1
    <3> QED BY <3>1, <3>2
  <2> HIDE DEF A, X
  <2>5. \A x \in X : \E i \in A : s[i] = x
    BY <2>2, <2>3
  <2>6. \A i \in A : s[i] \in X
    BY <2>2, <2>4
  <2> QED BY <2>1, <2>5, <2>6 DEF AtPlaces
<1>3. Cardinality(A) = k
  <2>1. st + 1 \in Int /\ st + k \in Int
    OBVIOUS
  <2>2. Cardinality(A) = IF st + 1 > st + k THEN 0 ELSE (st + k) - (st + 1) + 1
    BY <2>1, FS_Interval
  <2> QED BY <1>1, <2>2
<1>4. Total(v, A) >= target
  BY <1>1
<1> HIDE DEF A, X
<1>5. /\ X \in SUBSET notes /\ IsFiniteSet(X) /\ Cardinality(X) = k
      /\ TotalValue(SetToSeq(X)) = Total(v, A) /\ Total(v, A) \in Nat
  BY <1>2, <1>3, NotesAt
<1>6. X # {}
  BY <1>1, <1>5, FS_EmptySet
<1>7. /\ joined.steps \in Seq(Step("JOIN")) /\ Len(joined.steps) = k - 1
      /\ joined.merged.leafIndex \in Int /\ joined.merged.value = TotalValue(SetToSeq(X))
  <2>1. PICK kk : kk = Cardinality(X)
    OBVIOUS
  <2>2. PICK o : o = ordered
    OBVIOUS
  <2> HIDE DEF ordered
  <2>3. LET j == FoldLeft(merge, [steps |-> << >>, merged |-> Head(o)], Tail(o)) IN
        /\ j.steps \in Seq(Step("JOIN")) /\ kk \in Nat /\ Len(j.steps) = kk - 1
        /\ j.merged.leafIndex \in Int /\ j.merged.value = TotalValue(SetToSeq(X))
    BY <1>5, <1>6, <2>1, <2>2, Joined DEF ordered
  <2> QED BY <1>5, <2>1, <2>2, <2>3
<1> HIDE DEF joined
<1>8. joined.merged.value >= target /\ joined.merged.value \in Nat
  BY <1>4, <1>5, <1>7
<1> DEFINE last == spend(joined.merged)
<1>9. last \in Step(op) /\ last.change = TotalValue(SetToSeq(X)) - target
  <2>1. <<joined.merged.leafIndex>> \in Seq(Int) /\ joined.merged.value - target \in Nat
    BY <1>7, <1>8
  <2> QED BY <1>7, <2>1 DEF Step
<1> HIDE DEF last
<1>10. steps \in Seq(Step("JOIN") \cup Step(op)) /\ Len(steps) = k /\ Last(steps) = last
  <2> DEFINE U == Step("JOIN") \cup Step(op)
  <2>1. joined.steps \in Seq(U) /\ last \in U
    <3>1. \A B, C : B \subseteq C => Seq(B) \subseteq Seq(C)
      OBVIOUS
    <3>2. Step("JOIN") \subseteq U /\ last \in U
      BY <1>9
    <3> HIDE DEF U
    <3> QED BY <1>7, <3>1, <3>2
  <2>2. steps = Append(joined.steps, last)
    BY DEF last
  <2> HIDE DEF U, steps
  <2>3. steps \in Seq(U) /\ Len(steps) = k /\ steps[k] = last
    BY <1>1, <1>7, <2>1, <2>2
  <2> QED BY <2>3 DEF U, Last
<1> HIDE DEF steps
<1>11. Joins(notes, n, v, target, steps)
  BY <1>1, <1>5, <1>9, <1>10 DEF Joins
<1> QED BY <1>10, <1>11 DEF steps, joined, ordered, X

\* The answer, whatever the notes.
LEMMA PlanIs ==
    ASSUME NEW notes, Purse(notes), NEW n, NEW s, NEW v, Ascends(notes, n, s, v),
           s = forAsset(notes, "asset"), NEW target \in Nat, NEW op,
           NEW policy, policy.maxSteps \in Int,
           NEW plan, plan = planSpend(notes, op, "asset", target, policy)
    PROVE  /\ plan.failure = "none" =>
                /\ target >= 1 /\ plan.steps \in Seq(Step("JOIN") \cup Step(op))
                /\ \/ OneStep(n, v, target, plan.steps)
                   \/ Joins(notes, n, v, target, plan.steps) /\ Len(plan.steps) <= policy.maxSteps
           /\ plan.failure # "none" =>
                \/ target = 0
                \/ /\ \A i \in 1 .. n : v[i] < target
                   /\ \A l \in 1 .. n : l <= policy.maxSteps => Top(n, v, l) < target
<1> DEFINE single == bestFit(s, target, policy)
           c == minimalCover(s, target)
           ordered == inOrder(ToSet(c), older)
           merge(acc, x) ==
             LET join == joinStep(acc.merged, x) IN
             [steps |-> Append(acc.steps, join),
              merged |-> [leafIndex |-> -1, asset |-> "asset", value |-> join.change]]
           joined == FoldLeft(merge, [steps |-> << >>, merged |-> Head(ordered)], Tail(ordered))
           spend(note) == [op |-> op, inputs |-> <<note.leafIndex>>, outgoing |-> target,
                           change |-> note.value - target]
           steps == Append(joined.steps, spend(joined.merged))
<1>1. plan = CASE target <= 0 -> Refused("NON_POSITIVE_TARGET")
               [] target > 0 /\ s = << >> -> Refused("NO_NOTES_FOR_ASSET")
               [] target > 0 /\ s # << >> /\ single # 0 ->
                    [failure |-> "none", steps |-> <<spend(s[single])>>]
               [] OTHER ->
                    IF c = << >> THEN Refused("INSUFFICIENT_TOTAL")
                    ELSE IF Len(steps) > policy.maxSteps THEN Refused("EXCEEDS_MAX_STEPS")
                    ELSE [failure |-> "none", steps |-> steps]
  BY DEF planSpend
<1>2. /\ n \in Nat /\ s \in [1 .. n -> notes] /\ s \in Seq(notes) /\ Len(s) = n
      /\ \A i \in 1 .. n : v[i] \in Nat /\ v[i] = s[i].value
  BY DEF Ascends, ValuesOf
<1>3. /\ single \in 0 .. n
      /\ single # 0 => v[single] >= target
      /\ single = 0 => \A i \in 1 .. n : v[i] < target
  BY BestFitIs
<1>4. \/ c = << >> /\ \A k \in 1 .. n : Top(n, v, k) < target
      \/ /\ c \in Seq(notes) /\ c # << >>
         /\ \E k, st \in Nat : Covers(n, s, v, target, c, k, st)
  BY CoverIs
<1> HIDE DEF single, c
<1>5. ASSUME c # << >>, single = 0
      PROVE  /\ steps \in Seq(Step("JOIN") \cup Step(op)) /\ Len(steps) \in Nat
             /\ Joins(notes, n, v, target, steps)
  <2>1. PICK k \in Nat, st \in Nat : c \in Seq(notes) /\ Covers(n, s, v, target, c, k, st)
    BY <1>4, <1>5
  <2>2. /\ steps \in Seq(Step("JOIN") \cup Step(op)) /\ Len(steps) = k
        /\ Joins(notes, n, v, target, steps)
    BY <1>3, <1>5, <2>1, CoverJoins
  <2> HIDE DEF steps
  <2> QED BY <2>1, <2>2
<1> HIDE DEF steps
<1>6. Refused("NON_POSITIVE_TARGET").failure # "none" /\ Refused("NO_NOTES_FOR_ASSET").failure # "none"
      /\ Refused("INSUFFICIENT_TOTAL").failure # "none" /\ Refused("EXCEEDS_MAX_STEPS").failure # "none"
  BY DEF Refused
<1>7. CASE target = 0
  <2>1. plan = Refused("NON_POSITIVE_TARGET")
    BY <1>1, <1>7
  <2> QED BY <1>6, <1>7, <2>1
<1>8. CASE target # 0 /\ s = << >>
  <2>1. plan = Refused("NO_NOTES_FOR_ASSET")
    BY <1>1, <1>8
  <2>2. n = 0
    BY <1>2, <1>8
  <2> QED BY <1>6, <2>1, <2>2
<1>9. CASE target # 0 /\ s # << >> /\ single # 0
  <2>1. plan = [failure |-> "none", steps |-> <<spend(s[single])>>]
    BY <1>1, <1>9
  <2>2. single \in 1 .. n /\ v[single] >= target /\ s[single] \in notes
    BY <1>2, <1>3, <1>9
  <2>3. s[single].leafIndex \in Int /\ s[single].value = v[single] /\ v[single] - target \in Nat
    BY <1>2, <2>2 DEF Purse
  <2> DEFINE first == spend(s[single])
  <2>4. first \in Step(op) /\ first.change = v[single] - target
    <3>1. <<s[single].leafIndex>> \in Seq(Int)
      BY <2>3
    <3> QED BY <2>3, <3>1 DEF Step
  <2>5. plan.failure = "none" /\ plan.steps = <<first>>
    BY <2>1
  <2> HIDE DEF first
  <2>6. <<first>> \in Seq(Step("JOIN") \cup Step(op)) /\ Len(<<first>>) = 1 /\ Last(<<first>>) = first
    BY <2>4 DEF Last
  <2>7. OneStep(n, v, target, plan.steps)
    BY <2>2, <2>4, <2>5, <2>6 DEF OneStep
  <2>8. target >= 1
    BY <1>9
  <2>9. plan.steps \in Seq(Step("JOIN") \cup Step(op))
    BY <2>5, <2>6, Zenon
  <2> QED BY <2>5, <2>7, <2>8, <2>9
<1>10. CASE target # 0 /\ s # << >> /\ single = 0
  <2>1. plan = IF c = << >> THEN Refused("INSUFFICIENT_TOTAL")
               ELSE IF Len(steps) > policy.maxSteps THEN Refused("EXCEEDS_MAX_STEPS")
               ELSE [failure |-> "none", steps |-> steps]
    BY <1>1, <1>10
  <2>2. \A i \in 1 .. n : v[i] < target
    BY <1>3, <1>10
  <2>3. CASE c = << >>
    <3>1. plan.failure # "none"
      BY <1>6, <2>1, <2>3
    <3> QED BY <1>4, <2>2, <2>3, <3>1
  <2>4. CASE c # << >> /\ Len(steps) > policy.maxSteps
    <3>1. plan.failure # "none"
      BY <1>6, <2>1, <2>4
    <3>2. \A l \in 1 .. n : Top(n, v, l) >= target => Len(steps) <= l
      BY <1>5, <1>10, <2>4 DEF Joins
    <3>3. \A l \in 1 .. n : Top(n, v, l) \in Nat
      <4> SUFFICES ASSUME NEW l \in 1 .. n PROVE Top(n, v, l) \in Nat
        OBVIOUS
      <4>1. l \in 0 .. n
        BY <1>2
      <4> QED BY <4>1, TopIs
    <3>4. Len(steps) \in Nat
      BY <1>5, <1>10, <2>4
    <3>5. \A l \in 1 .. n : l <= policy.maxSteps => Top(n, v, l) < target
      BY <1>2, <2>4, <3>2, <3>3, <3>4
    <3> QED BY <2>2, <3>1, <3>5
  <2>5. CASE c # << >> /\ ~ (Len(steps) > policy.maxSteps)
    <3>1. plan.failure = "none" /\ plan.steps = steps
      BY <2>1, <2>5
    <3>2. /\ steps \in Seq(Step("JOIN") \cup Step(op)) /\ Len(steps) \in Nat
          /\ Joins(notes, n, v, target, steps)
      BY <1>5, <1>10, <2>5
    <3>3. Len(steps) <= policy.maxSteps /\ target >= 1
      BY <1>10, <2>5, <3>2
    <3>4. /\ plan.steps \in Seq(Step("JOIN") \cup Step(op)) /\ Len(plan.steps) <= policy.maxSteps
          /\ Joins(notes, n, v, target, plan.steps)
      BY <3>1, <3>2, <3>3
    <3> QED BY <3>1, <3>3, <3>4
  <2> QED BY <2>3, <2>4, <2>5
<1> QED BY <1>7, <1>8, <1>9, <1>10

\* What notes are worth together, and how many they are.
Sums(notes) == {<<TotalValue(SetToSeq(X)), Cardinality(X)>> : X \in SUBSET notes}

\* The plan for a target is what was shown.
Honest(plan, target, shown, sums) ==
    /\ plan.failure = "none" <=> target \in 1 .. shown.withPlan
    /\ plan.failure = "none" =>
         /\ Len(plan.steps) = 1 <=> target <= shown.inOneTx
         /\ \A sum \in sums : sum[1] >= target => sum[2] >= Len(plan.steps)
         /\ <<target + Last(plan.steps).change, Len(plan.steps)>> \in sums

\* What is shown is what can be planned, whatever the notes.
LEMMA PlansHonestly ==
    ASSUME NEW notes, Purse(notes), NEW target \in Nat, NEW op, NEW policy, policy.maxSteps \in Int,
           NEW plan, plan = planSpend(notes, op, "asset", target, policy),
           NEW shown, shown = spendableBalance(notes, "asset", policy)
    PROVE  Honest(plan, target, shown, Sums(notes))
<1> DEFINE sums == Sums(notes)
<1>1. PICK s, n, v : s = forAsset(notes, "asset") /\ n = Len(s) /\ v = [i \in 1 .. n |-> s[i].value]
  OBVIOUS
<1>2. Ascends(notes, n, s, v)
  BY <1>1, CandidatesAscend
<1>3. /\ n \in Nat /\ \A i \in 1 .. n : v[i] \in Nat
      /\ \A i, j \in 1 .. n : i < j => v[i] <= v[j]
  BY <1>2 DEF Ascends, ValuesOf
<1>0. PICK m \in Int : m = policy.maxSteps
  OBVIOUS
<1> DEFINE one == Min({1, n})
           most == Max({1, m})
           K == Min({most, n})
<1>4. one \in 0 .. n /\ (n >= 1 => one = 1)
  <2>1. one \in {1, n} /\ \A x \in {1, n} : one <= x
    BY <1>3, LeastIsMin
  <2> HIDE DEF one
  <2> QED BY <1>3, <2>1
<1>5. most \in Nat /\ most >= 1 /\ most >= m /\ (most = 1 \/ most = m)
  <2>1. IsFiniteSet({1, m}) /\ {1, m} \subseteq Int
    <3>1. IsFiniteSet({1} \cup {m})
      BY FS_Union, FS_Singleton
    <3>2. {1} \cup {m} = {1, m} /\ {1, m} \subseteq Int
      OBVIOUS
    <3> QED BY <3>1, <3>2
  <2>2. most \in {1, m} /\ \A x \in {1, m} : most >= x
    BY <2>1, FiniteMax
  <2> HIDE DEF most
  <2> QED BY <2>2
<1> HIDE DEF most
<1>6. K \in 0 .. n /\ K <= most /\ (K = most \/ K = n)
  <2>1. K \in {most, n} /\ \A x \in {most, n} : K <= x
    BY <1>3, <1>5, LeastIsMin
  <2> HIDE DEF K
  <2> QED BY <1>3, <1>5, <2>1
<1> HIDE DEF one, K
<1>7. shown.inOneTx = Top(n, v, one) /\ shown.withPlan = Top(n, v, K)
  <2>1. shown = [inOneTx |-> TotalValue(Largest(s, one)), withPlan |-> TotalValue(Largest(s, K))]
    BY <1>0, <1>1 DEF spendableBalance, one, K, most
  <2>2. TotalValue(Largest(s, one)) = Top(n, v, one) /\ TotalValue(Largest(s, K)) = Top(n, v, K)
    BY <1>2, <1>4, <1>6, TopIs
  <2> QED BY <2>1, <2>2
<1>8. \A k \in 0 .. n : Top(n, v, k) \in Nat /\ \A l \in 0 .. k : Top(n, v, l) <= Top(n, v, k)
  BY <1>2, TopIs
<1>9. Top(n, v, 0) = 0
  <2>1. n - 0 + 1 .. n = {}
    BY <1>3
  <2> QED BY <2>1, TotalEmpty DEF Top
<1>10. n >= 1 => Top(n, v, 1) = v[n] /\ \A i \in 1 .. n : v[i] <= Top(n, v, 1)
  <2> SUFFICES ASSUME n >= 1 PROVE Top(n, v, 1) = v[n] /\ \A i \in 1 .. n : v[i] <= Top(n, v, 1)
    OBVIOUS
  <2>1. n - 1 + 1 .. n = {n} /\ n \in 1 .. n
    BY <1>3
  <2>2. Total(v, {n}) = v[n]
    BY <1>3, <2>1, TotalOne
  <2>3. Top(n, v, 1) = v[n]
    BY <2>1, <2>2 DEF Top
  <2>4. \A i \in 1 .. n : v[i] <= v[n]
    BY <1>3, <2>1
  <2> QED BY <2>3, <2>4
<1>11. /\ plan.failure = "none" =>
            /\ target >= 1 /\ plan.steps \in Seq(Step("JOIN") \cup Step(op))
            /\ \/ OneStep(n, v, target, plan.steps)
               \/ Joins(notes, n, v, target, plan.steps) /\ Len(plan.steps) <= m
       /\ plan.failure # "none" =>
            \/ target = 0
            \/ /\ \A i \in 1 .. n : v[i] < target
               /\ \A l \in 1 .. n : l <= m => Top(n, v, l) < target
  <2>1. PICK t \in Nat : t = target
    OBVIOUS
  <2>2. s = forAsset(notes, "asset") /\ plan = planSpend(notes, op, "asset", t, policy)
    BY <1>1, <2>1
  <2>3. /\ plan.failure = "none" =>
             /\ t >= 1 /\ plan.steps \in Seq(Step("JOIN") \cup Step(op))
             /\ \/ OneStep(n, v, t, plan.steps)
                \/ Joins(notes, n, v, t, plan.steps) /\ Len(plan.steps) <= policy.maxSteps
        /\ plan.failure # "none" =>
             \/ t = 0
             \/ /\ \A i \in 1 .. n : v[i] < t
                /\ \A l \in 1 .. n : l <= policy.maxSteps => Top(n, v, l) < t
    BY ONLY <1>2, <2>2, t \in Nat, policy.maxSteps \in Int, Purse(notes), PlanIs
  <2> QED BY <1>0, <2>1, <2>3
<1>12. \A X \in SUBSET notes :
         /\ Cardinality(X) \in Nat /\ TotalValue(SetToSeq(X)) \in Nat
         /\ \E k \in 0 .. n : k <= Cardinality(X) /\ TotalValue(SetToSeq(X)) <= Top(n, v, k)
  BY <1>2, NoneWorthMore
<1>13. \A X \in SUBSET notes : TotalValue(SetToSeq(X)) >= target /\ target >= 1 =>
         \E k \in 1 .. n : k <= Cardinality(X) /\ Top(n, v, k) >= target
  <2> SUFFICES ASSUME NEW X \in SUBSET notes, TotalValue(SetToSeq(X)) >= target, target >= 1
               PROVE  \E k \in 1 .. n : k <= Cardinality(X) /\ Top(n, v, k) >= target
    OBVIOUS
  <2>1. PICK k \in 0 .. n : k <= Cardinality(X) /\ TotalValue(SetToSeq(X)) <= Top(n, v, k)
    BY <1>12
  <2>2. TotalValue(SetToSeq(X)) \in Nat /\ Top(n, v, k) \in Nat
    BY <1>8, <1>12
  <2>3. Top(n, v, k) >= target
    BY <2>1, <2>2
  <2>4. k # 0
    BY <1>9, <2>3
  <2> QED BY <1>3, <2>1, <2>3, <2>4
<1>14. ASSUME NEW X \in SUBSET notes, plan.failure = "none",
              Cardinality(X) = Len(plan.steps),
              Last(plan.steps).change = TotalValue(SetToSeq(X)) - target
       PROVE  <<target + Last(plan.steps).change, Len(plan.steps)>> \in sums
  <2>1. target + Last(plan.steps).change = TotalValue(SetToSeq(X))
    BY <1>12, <1>14
  <2>2. <<TotalValue(SetToSeq(X)), Cardinality(X)>> \in sums
    BY DEF Sums
  <2> QED BY <1>14, <2>1, <2>2
<1>15. CASE plan.failure = "none" /\ OneStep(n, v, target, plan.steps)
  <2>1. PICK i \in 1 .. n : v[i] >= target /\ Last(plan.steps).change = v[i] - target
    BY <1>15 DEF OneStep
  <2>2. Len(plan.steps) = 1 /\ n >= 1 /\ target >= 1 /\ v[i] \in Nat
    BY <1>3, <1>11, <1>15, <2>1 DEF OneStep
  <2>3. target <= Top(n, v, 1) /\ Top(n, v, 1) \in Nat
    <3>1. v[i] <= Top(n, v, 1)
      BY <1>10, <2>2
    <3>2. 1 \in 0 .. n
      BY <1>3, <2>2
    <3> QED BY <1>8, <2>1, <2>2, <3>1, <3>2
  <2>4. target <= shown.inOneTx
    BY <1>4, <1>7, <2>2, <2>3
  <2>5. target \in 1 .. shown.withPlan
    <3>1. K >= 1 /\ 1 \in 0 .. K /\ K \in 0 .. n
      BY <1>3, <1>5, <1>6, <2>2
    <3>2. Top(n, v, 1) <= Top(n, v, K) /\ Top(n, v, K) \in Nat
      BY <1>8, <3>1
    <3> QED BY <1>7, <2>2, <2>3, <3>2
  <2>6. \A sum \in sums : sum[1] >= target => sum[2] >= 1
    <3> SUFFICES ASSUME NEW X \in SUBSET notes, TotalValue(SetToSeq(X)) >= target
                 PROVE  Cardinality(X) >= 1
      BY DEF Sums
    <3>1. PICK k \in 1 .. n : k <= Cardinality(X)
      BY <1>13, <2>2
    <3> QED BY <1>3, <1>12, <3>1
  <2>7. <<target + Last(plan.steps).change, Len(plan.steps)>> \in sums
    <3> DEFINE X == {s[i]}
               A == {i}
    <3>1. A \in SUBSET (1 .. n) /\ AtPlaces(X, s, A) /\ Cardinality(A) = 1 /\ Total(v, A) = v[i]
      BY <2>2, TotalOne, FS_Singleton DEF AtPlaces
    <3> HIDE DEF X, A
    <3>2. X \in SUBSET notes /\ Cardinality(X) = 1 /\ TotalValue(SetToSeq(X)) = v[i]
      BY <1>2, <3>1, NotesAt
    <3> QED BY <1>14, <1>15, <2>1, <2>2, <3>2
  <2> QED BY <1>15, <2>2, <2>4, <2>5, <2>6, <2>7 DEF Honest
<1>16. CASE plan.failure = "none" /\ Joins(notes, n, v, target, plan.steps) /\ Len(plan.steps) <= m
  <2> DEFINE k == Len(plan.steps)
  <2>1. /\ \A i \in 1 .. n : v[i] < target
        /\ k \in 1 .. n /\ k <= m /\ Top(n, v, k) >= target
        /\ \A l \in 1 .. n : Top(n, v, l) >= target => k <= l
    BY <1>16 DEF Joins
  <2>2. PICK X \in SUBSET notes :
          Cardinality(X) = k /\ Last(plan.steps).change = TotalValue(SetToSeq(X)) - target
    BY <1>16 DEF Joins
  <2>3. target >= 1 /\ plan.steps \in Seq(Step("JOIN") \cup Step(op))
    BY <1>11, <1>16
  <2> HIDE DEF k
  <2>4. n >= 1 /\ k \in Nat /\ k \in 0 .. n /\ n \in 1 .. n
    BY <1>3, <2>1
  <2>5. Top(n, v, 1) < target /\ k # 1
    <3>1. Top(n, v, 1) = v[n] /\ v[n] < target /\ v[n] \in Nat
      BY <1>3, <1>10, <2>1, <2>4
    <3> QED BY <2>1, <3>1
  <2>6. ~ (target <= shown.inOneTx)
    <3>1. one = 1 /\ 1 \in 0 .. n
      BY <1>3, <1>4, <2>4
    <3>2. Top(n, v, 1) \in Nat
      BY <1>8, <3>1
    <3> QED BY <1>7, <2>5, <3>1, <3>2
  <2>7. target \in 1 .. shown.withPlan
    <3>1. k \in 0 .. K /\ K \in 0 .. n
      BY <1>3, <1>5, <1>6, <2>1, <2>4
    <3>2. Top(n, v, k) <= Top(n, v, K) /\ Top(n, v, K) \in Nat /\ Top(n, v, k) \in Nat
      BY <1>8, <2>4, <3>1
    <3> QED BY <1>7, <2>1, <2>3, <3>2
  <2>8. \A sum \in sums : sum[1] >= target => sum[2] >= k
    <3> SUFFICES ASSUME NEW Y \in SUBSET notes, TotalValue(SetToSeq(Y)) >= target
                 PROVE  Cardinality(Y) >= k
      BY DEF Sums
    <3>1. PICK l \in 1 .. n : l <= Cardinality(Y) /\ Top(n, v, l) >= target
      BY <1>13, <2>3
    <3>2. k <= l /\ l \in Nat /\ Cardinality(Y) \in Nat
      BY <1>3, <1>12, <2>1, <3>1
    <3> QED BY <2>4, <3>1, <3>2
  <2>9. <<target + Last(plan.steps).change, k>> \in sums
    BY <1>14, <1>16, <2>2 DEF k
  <2> QED BY <1>16, <2>5, <2>6, <2>7, <2>8, <2>9 DEF k, Honest
<1>17. CASE plan.failure # "none"
  <2>1. target \notin 1 .. shown.withPlan
    <3> SUFFICES ASSUME target \in 1 .. shown.withPlan PROVE FALSE
      OBVIOUS
    <3>1. target >= 1 /\ target <= Top(n, v, K) /\ Top(n, v, K) \in Nat
      BY <1>6, <1>7, <1>8
    <3>2. /\ \A i \in 1 .. n : v[i] < target
          /\ \A l \in 1 .. n : l <= m => Top(n, v, l) < target
      BY <1>11, <1>17, <3>1
    <3>3. K # 0
      BY <1>9, <3>1
    <3>4. n >= 1 /\ K \in 1 .. n /\ n \in 1 .. n
      BY <1>3, <1>6, <3>3
    <3>5. K # 1
      BY <1>10, <3>1, <3>2, <3>4
    <3>6. K <= m
      BY <1>5, <1>6, <3>4, <3>5
    <3> QED BY <3>1, <3>2, <3>4, <3>6
  <2> QED BY <1>17, <2>1 DEF Honest
<1> QED BY <1>11, <1>15, <1>16, <1>17 DEF Honest

-----------------------------------------------------------------------------
(***************************************************************************)
(* The notes of every state can be planned with.                           *)
(***************************************************************************)

\* What planning asks of a note, and minting of an output.
Worth(r) == r.value \in Nat /\ r.asset = "asset"

\* A step never spends more than it takes in.
StepsFit(steps) ==
    /\ IsSequence(steps)
    /\ \A i \in DOMAIN steps :
         steps[i].change \in Nat /\ (steps[i].op = "SPLIT" => steps[i].change >= 1)

\* A job under way has a step to do.
JobFits(r) ==
    StepsFit(r.steps) /\ (r.at \in {"mint", "build", "sent"} => r.n \in DOMAIN r.steps)

\* What is on chain, and what an intent may yet bring there.
PurseInv ==
    /\ \A p \in DOMAIN pool.leaves : Worth(pool.leaves[p])
    /\ \A j \in Job : JobFits(jobs[j])
    /\ \A tx \in mempool : \A k \in DOMAIN tx.outputs : Worth(tx.outputs[k])

\* A job that is done, or not begun.
LEMMA NoJobFits == \A at \in {"idle", "done"} : JobFits([NoJob EXCEPT !.at = at]) /\ JobFits(NoJob)
<1>1. StepsFit(<< >>)
  <2>1. << >> = [k \in 1 .. 0 |-> << >>[k]] /\ DOMAIN << >> = {} /\ 0 \in Nat
    OBVIOUS
  <2> QED BY <2>1 DEF StepsFit, IsSequence
<1>2. /\ NoJob.steps = << >> /\ NoJob.at = "idle"
      /\ \A at \in {"idle", "done"} : [NoJob EXCEPT !.at = at].steps = << >> /\ [NoJob EXCEPT !.at = at].at = at
  BY DEF NoJob
<1> QED BY <1>1, <1>2 DEF JobFits

\* What the pool holds at first is worth something.
LEMMA PurseInit == ASSUME Init PROVE PurseInv
<1>1. PICK first \in FirstLeaves : pool.leaves = first
  BY DEF Init
<1>2. \A p \in DOMAIN first : Worth(first[p])
  <2> DEFINE R == [tag : Nat \union {-1}, asset : {"asset"}, value : Nat, version : {1}]
  <2>1. first \in Seq(R)
    BY FirstLeavesAssumption
  <2>2. \A r \in R : Worth(r)
    BY DEF Worth
  <2> HIDE DEF R
  <2> QED BY <2>1, <2>2
<1>3. \A j \in Job : jobs[j] = NoJob
  BY DEF Init, Job
<1>4. mempool = {}
  BY DEF Init
<1> QED BY <1>1, <1>2, <1>3, <1>4, NoJobFits DEF PurseInv

\* Each note is worth something, and has a place of its own.
LEMMA PurseIs == ASSUME TagInv, PurseInv PROVE Purse(unspent)
<1> DEFINE P == DOMAIN pool.leaves
           f == [p \in P |-> [leafIndex |-> p - 1, asset |-> pool.leaves[p].asset,
                              value |-> pool.leaves[p].value]]
<1>1. IsFiniteSet(P) /\ \A p \in P : p \in Nat \ {0}
  <2>1. IsSequence(pool.leaves)
    BY DEF TagInv, LeavesOk
  <2>2. PICK n \in Nat : P = 1 .. n
    BY <2>1 DEF IsSequence
  <2>3. IsFiniteSet(1 .. n)
    BY Positions
  <2>4. \A p \in 1 .. n : p \in Nat \ {0}
    OBVIOUS
  <2> QED BY <2>2, <2>3, <2>4
<1>2. \A p \in P : f[p].value \in Nat /\ f[p].leafIndex = p - 1 /\ f[p].asset = "asset"
  BY DEF PurseInv, Worth
<1>3. Own = {f[p] : p \in P}
  BY DEF Own
<1>4. DOMAIN f = P /\ f = [p \in P |-> f[p]]
  OBVIOUS
<1> HIDE DEF f, P
<1>a. IsFiniteSet(Own)
  <2>1. f \in Surjection(P, Own)
    BY <1>3, <1>4 DEF Surjection
  <2> QED BY <1>1, <2>1, FS_Surjection
<1>5. unspent \subseteq Own
  BY DEF unspent
<1>6. IsFiniteSet(unspent)
  BY <1>a, <1>5, FS_Subset
<1>7. \A x \in Own : x.value \in Nat /\ x.leafIndex \in Nat /\ x.asset = "asset"
  BY <1>1, <1>2, <1>3
<1>8. \A x, y \in Own : x.leafIndex = y.leafIndex => x = y
  <2> SUFFICES ASSUME NEW p \in P, NEW q \in P, f[p].leafIndex = f[q].leafIndex PROVE p = q
    BY <1>3
  <2>1. p - 1 = q - 1
    BY <1>2
  <2> QED BY <1>1, <2>1
<1> QED BY <1>5, <1>6, <1>7, <1>8 DEF Purse

\* What is planned for the payment.
LEMMA PaymentPlanned ==
    ASSUME Purse(unspent), Planned.failure = "none"
    PROVE  /\ Planned.steps \in Seq(Step("JOIN") \cup Step("WITHDRAW"))
           /\ Len(Planned.steps) >= 1
<1>1. PICK s, n, v : s = forAsset(unspent, "asset") /\ n = Len(s) /\ v = [i \in 1 .. n |-> s[i].value]
  OBVIOUS
<1>2. Ascends(unspent, n, s, v)
  BY <1>1, CandidatesAscend
<1>3. PICK plan : plan = planSpend(unspent, "WITHDRAW", "asset", Target, Policy) /\ plan = Planned
  BY DEF Planned
<1>4. Target \in Nat /\ Policy.maxSteps \in Int
  BY SpendConstants
<1>5. /\ plan.steps \in Seq(Step("JOIN") \cup Step("WITHDRAW"))
      /\ \/ OneStep(n, v, Target, plan.steps)
         \/ Joins(unspent, n, v, Target, plan.steps)
  BY <1>1, <1>2, <1>3, <1>4, PlanIs
<1>6. Len(plan.steps) >= 1
  <2>1. n \in Nat
    BY <1>2 DEF Ascends
  <2>2. Len(plan.steps) = 1 \/ Len(plan.steps) \in 1 .. n
    BY <1>5 DEF OneStep, Joins
  <2>3. PICK k : k = Len(plan.steps)
    OBVIOUS
  <2>4. k = 1 \/ k \in 1 .. n
    BY <2>2, <2>3
  <2>5. k >= 1
    BY ONLY <2>1, <2>4
  <2> QED BY <2>3, <2>5
<1> QED BY <1>3, <1>5, <1>6

\* Where pool, mempool and jobs stay as they are, or jobs only lose.
LEMMA PurseStays ==
    ASSUME TagInv, PurseInv, pool'.leaves = pool.leaves, mempool' \subseteq mempool,
           \A j \in Job : JobFits(jobs'[j])
    PROVE  PurseInv'
BY DEF PurseInv

\* One job goes on.
LEMMA PurseGoes ==
    ASSUME TagInv, PurseInv, pool'.leaves = pool.leaves, mempool' \subseteq mempool,
           NEW j, NEW r, Go(j, r), j \in Job => JobFits(r)
    PROVE  PurseInv'
<1>1. \A k \in Job : jobs'[k] = IF k = j THEN r ELSE jobs[k]
  BY DEF TagInv, JobsOk, Go
<1>2. \A k \in Job : JobFits(jobs'[k])
  BY <1>1 DEF PurseInv
<1> QED BY <1>2, PurseStays

\* An intent starts: what was planned never spends more than there is.
LEMMA PurseIntent == ASSUME TagInv, PurseInv, planPayment \/ otherIntent PROVE PurseInv'
<1>1. UNCHANGED <<pool, mempool>>
  BY DEF planPayment, otherIntent
<1> DEFINE r(steps) == [NoJob EXCEPT !.at = "mint", !.steps = steps]
<1>2. ASSUME NEW steps, StepsFit(steps), 1 \in DOMAIN steps PROVE JobFits(r(steps))
  <2>1. r(steps).steps = steps /\ r(steps).n = 1 /\ r(steps).at = "mint"
    BY DEF NoJob
  <2> QED BY <1>2, <2>1 DEF JobFits
<1>3. ASSUME NEW e, e.change \in Nat, e.op = "SPLIT" => e.change >= 1
      PROVE  StepsFit(<<e>>) /\ 1 \in DOMAIN <<e>>
  <2>1. /\ DOMAIN <<e>> = 1 .. 1 /\ <<e>>[1] = e /\ 1 \in Nat
        /\ <<e>> = [k \in 1 .. 1 |-> <<e>>[k]]
    OBVIOUS
  <2>2. \A i \in 1 .. 1 : i = 1
    OBVIOUS
  <2> QED BY <1>3, <2>1, <2>2 DEF StepsFit, IsSequence
<1>4. \E j \in Job : \E steps : Go(j, r(steps)) /\ StepsFit(steps) /\ 1 \in DOMAIN steps
  <2>1. CASE planPayment
    <3>1. Planned.failure = "none" /\ Go("pay", r(Planned.steps))
      BY <2>1 DEF planPayment
    <3>2. PICK plan : plan = Planned
      OBVIOUS
    <3>3. plan.steps \in Seq(Step("JOIN") \cup Step("WITHDRAW")) /\ Len(plan.steps) >= 1
      BY <3>1, <3>2, PurseIs, PaymentPlanned
    <3>4. StepsFit(plan.steps) /\ 1 \in DOMAIN plan.steps
      <4> DEFINE U == Step("JOIN") \cup Step("WITHDRAW")
      <4>1. \A e \in U : e.change \in Nat /\ e.op # "SPLIT"
        BY DEF Step
      <4>2. plan.steps \in Seq(U) /\ Len(plan.steps) >= 1
        BY <3>3
      <4> HIDE DEF U
      <4>3. /\ IsSequence(plan.steps) /\ 1 \in DOMAIN plan.steps
            /\ \A i \in DOMAIN plan.steps : plan.steps[i] \in U
        BY <4>2, SeqIsSequence
      <4> QED BY <4>1, <4>3 DEF StepsFit
    <3> QED BY <3>1, <3>2, <3>4 DEF Job
  <2>2. CASE otherIntent
    <3> DEFINE deposit == [op |-> "DEPOSIT", inputs |-> << >>, outgoing |-> 0, change |-> 1]
               split(n) == [op |-> "SPLIT", inputs |-> <<n.leafIndex>>, outgoing |-> 0, change |-> n.value]
    <3>1. \/ Go("other", r(<<deposit>>))
          \/ \E n \in unspent : n.value > 1 /\ Go("other", r(<<split(n)>>))
      BY <2>2 DEF otherIntent
    <3>2. StepsFit(<<deposit>>) /\ 1 \in DOMAIN <<deposit>>
      BY <1>3
    <3>3. \A n \in unspent : n.value > 1 => StepsFit(<<split(n)>>) /\ 1 \in DOMAIN <<split(n)>>
      <4> SUFFICES ASSUME NEW n \in unspent, n.value > 1
                   PROVE  StepsFit(<<split(n)>>) /\ 1 \in DOMAIN <<split(n)>>
        OBVIOUS
      <4>1. n.value \in Nat
        BY PurseIs DEF Purse
      <4>2. split(n).change \in Nat /\ split(n).change >= 1
        BY <4>1
      <4> HIDE DEF split
      <4> QED BY <1>3, <4>2
    <3> HIDE DEF deposit, split, r
    <3> QED BY <3>1, <3>2, <3>3 DEF Job
  <2> QED BY <2>1, <2>2
<1> HIDE DEF r
<1>5. \E j \in Job : \E s : Go(j, s) /\ JobFits(s)
  BY <1>2, <1>4
<1> QED BY <1>1, <1>5, PurseGoes

\* The process dies.
LEMMA PurseRestart == ASSUME TagInv, PurseInv, crash \/ restoreFromSeed PROVE PurseInv'
<1>1. Restarted /\ UNCHANGED <<pool, mempool>>
  BY DEF crash, restoreFromSeed, Restarted
<1>2. DOMAIN jobs = Job
  BY DEF TagInv, JobsOk
<1>3. \A j \in Job : \/ jobs'[j] = NoJob
                     \/ \E at \in {"idle", "done"} : jobs'[j] = [NoJob EXCEPT !.at = at]
  BY <1>1, <1>2 DEF Restarted
<1>4. \A j \in Job : JobFits(jobs'[j])
  BY <1>3, NoJobFits
<1> QED BY <1>1, <1>4, PurseStays

\* The wallet takes authorizations, asks discovery, or moves its counter.
LEMMA PurseWaits ==
    ASSUME TagInv, PurseInv,
           \/ rotateComplianceKey \/ classify \/ reconcileCounterWithChain
           \/ \E j \in Job : allocate(j) \/ exhausted(j)
           \/ UNCHANGED vars
    PROVE  PurseInv'
<1>1. UNCHANGED <<jobs, mempool>> /\ pool'.leaves = pool.leaves
  <2>1. CASE rotateComplianceKey
    BY <2>1 DEF rotateComplianceKey, TagInv, LeavesOk, PoolShaped
  <2>2. CASE ~ rotateComplianceKey
    BY <2>2 DEF classify, reconcileCounterWithChain, allocate, exhausted, vars
  <2> QED BY <2>1, <2>2
<1>2. \A j \in Job : JobFits(jobs'[j])
  BY <1>1 DEF PurseInv
<1> QED BY <1>1, <1>2, PurseStays

\* A job that keeps its steps.
LEMMA SameSteps ==
    ASSUME NEW r, NEW q, JobFits(r), q.steps = r.steps, q.n = r.n, r.at \in {"mint", "build", "sent"}
    PROVE  JobFits(q)
BY DEF JobFits

\* A job that takes its authorizations keeps its steps.
LEMMA PurseIssue == ASSUME TagInv, PurseInv, NEW j \in Job, issueAuthorization(j) PROVE PurseInv'
<1>1. UNCHANGED <<pool, mempool>> /\ jobs[j].at = "mint"
  BY DEF issueAuthorization, Taking
<1>2. PICK handles : Go(j, [jobs[j] EXCEPT !.at = "build", !.handles = handles])
  BY DEF issueAuthorization
<1> DEFINE r == jobs[j]
           q == [r EXCEPT !.at = "build", !.handles = handles]
<1>3. JobShaped(r) /\ JobFits(r) /\ r.at \in {"mint", "build", "sent"}
  BY <1>1 DEF TagInv, JobsOk, PurseInv
<1> HIDE DEF r
<1>4. q.steps = r.steps /\ q.n = r.n
  BY <1>3 DEF JobShaped
<1> HIDE DEF q
<1>5. JobFits(q)
  BY <1>3, <1>4, SameSteps
<1> QED BY <1>1, <1>2, <1>5, PurseGoes DEF q, r

\* A transaction mints no more than its step has left over.
LEMMA PurseAssemble == ASSUME TagInv, PurseInv, NEW j \in Job, assemble(j) PROVE PurseInv'
<1> DEFINE r == jobs[j]
           s == step(j)
           values == IF s.op = "SPLIT" THEN <<1, s.change - 1>> ELSE <<s.change>>
           outs == [i \in DOMAIN values |-> mintSelfNote(jobs[j].handles[i], values[i])]
<1>1. UNCHANGED pool /\ r.at = "build"
  BY DEF assemble
<1>2. JobShaped(r) /\ JobFits(r) /\ r.at \in {"mint", "build", "sent"}
  BY <1>1 DEF TagInv, JobsOk, PurseInv
<1>3. PICK at \in {"sent", "mint"} : Go(j, [r EXCEPT !.at = at, !.handles = << >>])
  BY DEF assemble
<1>4. \A k \in Job : JobFits(jobs'[k])
  <2> DEFINE q == [r EXCEPT !.at = at, !.handles = << >>]
  <2>1. Go(j, q)
    BY <1>3
  <2> HIDE DEF r
  <2>2. q.steps = r.steps /\ q.n = r.n
    BY <1>2 DEF JobShaped
  <2> HIDE DEF q
  <2>3. JobFits(q)
    BY <1>2, <2>2, SameSteps
  <2>4. \A k \in Job : jobs'[k] = IF k = j THEN q ELSE jobs[k]
    BY <2>1 DEF TagInv, JobsOk, Go
  <2> QED BY <2>3, <2>4 DEF PurseInv
<1>5. s.change \in Nat /\ (s.op = "SPLIT" => s.change >= 1)
  <2>1. r.n \in DOMAIN r.steps /\ s = r.steps[r.n]
    BY <1>2 DEF JobFits, step
  <2> HIDE DEF s, r
  <2> QED BY <1>2, <2>1 DEF JobFits, StepsFit
<1>6. \A k \in DOMAIN outs : Worth(outs[k])
  <2>1. \A k \in DOMAIN values : values[k] \in Nat
    <3> HIDE DEF s
    <3>1. CASE s.op = "SPLIT"
      <4>1. values = <<1, s.change - 1>> /\ s.change - 1 \in Nat
        BY <1>5, <3>1
      <4> HIDE DEF values
      <4> QED BY <4>1
    <3>2. CASE s.op # "SPLIT"
      <4>1. values = <<s.change>>
        BY <3>2
      <4> HIDE DEF values
      <4> QED BY <1>5, <4>1
    <3> QED BY <3>1, <3>2
  <2> HIDE DEF values
  <2> QED BY <2>1 DEF Worth, mintSelfNote
<1>7. \A tx \in mempool' : tx \in mempool \/ tx.outputs = outs
  BY DEF assemble
<1> HIDE DEF outs
<1>8. \A tx \in mempool' : \A k \in DOMAIN tx.outputs : Worth(tx.outputs[k])
  BY <1>6, <1>7 DEF PurseInv
<1> QED BY <1>1, <1>4, <1>8 DEF PurseInv

\* The job that sent a transaction goes on, or starts again.
LEMMA PurseSettled ==
    ASSUME TagInv, PurseInv, NEW tx, \/ UNCHANGED jobs
                                     \/ jobs[tx.job].at = "sent" /\ Go(tx.job, Advanced(tx.job))
                                     \/ jobs[tx.job].at = "sent" /\ Go(tx.job, NoJob)
    PROVE  \A k \in Job : JobFits(jobs'[k])
<1>1. \A k \in Job : JobFits(jobs[k])
  BY DEF PurseInv
<1>2. ASSUME NEW r, Go(tx.job, r), tx.job \in Job => JobFits(r) PROVE \A k \in Job : JobFits(jobs'[k])
  <2>1. \A k \in Job : jobs'[k] = IF k = tx.job THEN r ELSE jobs[k]
    BY <1>2 DEF TagInv, JobsOk, Go
  <2> QED BY <1>1, <1>2, <2>1
<1>3. ASSUME tx.job \in Job, jobs[tx.job].at = "sent" PROVE JobFits(Advanced(tx.job))
  <2>1. CASE jobs[tx.job].n = Len(jobs[tx.job].steps)
    BY <2>1, NoJobFits DEF Advanced
  <2>2. CASE jobs[tx.job].n # Len(jobs[tx.job].steps)
    <3> DEFINE q == jobs[tx.job]
               r == [q EXCEPT !.at = "mint", !.n = @ + 1, !.previous = Len(pool'.leaves) - 1]
    <3>1. Advanced(tx.job) = r
      BY <2>2 DEF Advanced
    <3>2. JobShaped(q) /\ JobFits(q) /\ q.at = "sent" /\ q.n # Len(q.steps)
      BY <1>1, <1>3, <2>2 DEF TagInv, JobsOk
    <3> HIDE DEF q
    <3>3. r.steps = q.steps /\ r.n = q.n + 1
      BY <3>2 DEF JobShaped
    <3> HIDE DEF r
    <3>4. q.n \in DOMAIN q.steps /\ IsSequence(q.steps) /\ StepsFit(q.steps)
      BY <3>2 DEF JobFits, StepsFit
    <3>5. q.n + 1 \in DOMAIN q.steps
      <4>1. DOMAIN q.steps = 1 .. Len(q.steps) /\ Len(q.steps) \in Nat
        <5>1. PICK S : q.steps \in Seq(S)
          BY <3>4, SequenceOf
        <5> QED BY <5>1
      <4>2. PICK n, m : n = q.n /\ m = Len(q.steps)
        OBVIOUS
      <4>3. n \in 1 .. m /\ m \in Nat /\ n # m
        BY <3>2, <3>4, <4>1, <4>2
      <4>4. n + 1 \in 1 .. m
        BY ONLY <4>3
      <4> QED BY <4>1, <4>2, <4>4
    <3>6. JobFits(r)
      BY <3>3, <3>4, <3>5 DEF JobFits
    <3> QED BY <3>1, <3>6
  <2> QED BY <2>1, <2>2
<1>4. JobFits(NoJob)
  BY NoJobFits
<1> QED BY <1>1, <1>2, <1>3, <1>4

\* A transaction is lost.
LEMMA PurseDrop == ASSUME TagInv, PurseInv, NEW tx \in mempool, drop(tx) PROVE PurseInv'
<1>1. /\ mempool' = mempool \ {tx} /\ UNCHANGED pool
      /\ UNCHANGED jobs \/ (jobs[tx.job].at = "sent" /\ Go(tx.job, NoJob))
  BY DEF drop
<1>2. \A k \in Job : JobFits(jobs'[k])
  BY <1>1, PurseSettled
<1> QED BY <1>1, <1>2, PurseStays

\* What the pool takes is added to it.
LEMMA PurseMine == ASSUME TagInv, PurseInv, NEW tx \in mempool, mine(tx) PROVE PurseInv'
<1>1. /\ mempool' = mempool \ {tx}
      /\ \/ UNCHANGED jobs
         \/ jobs[tx.job].at = "sent" /\ Go(tx.job, Advanced(tx.job))
         \/ jobs[tx.job].at = "sent" /\ Go(tx.job, NoJob)
      /\ pool' = pool \/ pool' = Applied(tx)
  BY DEF mine
<1>2. \A k \in Job : JobFits(jobs'[k])
  BY <1>1, PurseSettled
<1>3. CASE pool' = pool
  BY <1>1, <1>2, <1>3, PurseStays
<1>4. CASE pool' = Applied(tx)
  <2> DEFINE s == pool.leaves
             t == tx.outputs
             c == s \o t
  <2>1. pool'.leaves = c
    BY <1>4 DEF Applied, TagInv, LeavesOk, PoolShaped
  <2>2. IsSequence(s) /\ IsSequence(t)
    <3>1. PICK n \in {1, 2} : t = [k \in 1 .. n |-> t[k]]
      BY DEF TagInv, MempoolOk
    <3>2. n \in Nat
      OBVIOUS
    <3> QED BY <3>1, <3>2 DEF TagInv, LeavesOk, IsSequence
  <2>3. (\A p \in DOMAIN s : Worth(s[p])) /\ (\A k \in DOMAIN t : Worth(t[k]))
    BY DEF PurseInv
  <2> HIDE DEF s, t
  <2>4. \A k \in DOMAIN c : \/ k \in DOMAIN s /\ c[k] = s[k]
                            \/ k - Len(s) \in DOMAIN t /\ c[k] = t[k - Len(s)]
    BY <2>2, Concatenated, ZenonT(60)
  <2> HIDE DEF c
  <2>5. \A k \in DOMAIN c : Worth(c[k])
    BY <2>3, <2>4
  <2> QED BY <1>1, <1>2, <2>1, <2>5 DEF PurseInv
<1> QED BY <1>1, <1>3, <1>4

\* Every step keeps it.
LEMMA PurseStep == ASSUME TagInv, PurseInv, [Next]_vars PROVE PurseInv'
<1>1. DOMAIN jobs = Job
  BY DEF TagInv, JobsOk
<1>2. ASSUME NEW j \in Job, Progress(j) PROVE PurseInv'
  BY <1>2, PurseWaits, PurseIssue, PurseAssemble DEF Progress
<1> QED BY <1>1, <1>2, PurseWaits, PurseIntent, PurseMine, PurseDrop, PurseRestart DEF Next

\* The property, of notes that can be planned with.
LEMMA PlansAre == ASSUME TagInv, PurseInv PROVE PlanHonest
<1> DEFINE shown == spendableBalance(unspent, "asset", Policy)
           sums == {<<TotalValue(SetToSeq(notes)), Cardinality(notes)>> : notes \in SUBSET unspent}
<1>1. Purse(unspent) /\ Policy.maxSteps \in Int
  BY PurseIs, SpendConstants
<1>2. Balance \in Nat
  <2> DEFINE n == Len(forAsset(unspent, "asset"))
             v == [i \in 1 .. n |-> forAsset(unspent, "asset")[i].value]
  <2>1. Ascends(unspent, n, forAsset(unspent, "asset"), v)
    BY <1>1, CandidatesAscend
  <2> HIDE DEF n, v
  <2>2. unspent \in SUBSET unspent
    OBVIOUS
  <2> QED BY <1>1, <2>1, <2>2, NoneWorthMore DEF Balance
<1>3. ASSUME NEW target \in 0 .. Balance + 1
      PROVE  Honest(planSpend(unspent, "TRANSFER", "asset", target, Policy), target, shown, sums)
  <2>1. target \in Nat
    BY <1>2
  <2>2. PICK plan, op : op = "TRANSFER" /\ plan = planSpend(unspent, op, "asset", target, Policy)
    OBVIOUS
  <2>3. PICK sh : sh = spendableBalance(unspent, "asset", Policy)
    OBVIOUS
  <2>4. Honest(plan, target, sh, Sums(unspent))
    BY ONLY <1>1, <2>1, <2>2, <2>3, PlansHonestly
  <2> QED BY <2>2, <2>3, <2>4 DEF Sums
<1> HIDE DEF shown, sums
<1> QED BY <1>3 DEF PlanHonest, Honest, shown, sums

\* What spendableBalance shows is what planSpend can do, for the notes of every
\* state the wallet reaches and whatever the policy: it plans every amount up to
\* withPlan and no other, in one step up to inOneTx, and with as many steps as
\* there must be notes (planSpend, minimalCover and spendableBalance of plan.ts).
THEOREM PlansAreHonest == Spec => []PlanHonest
<1>1. Init => TagInv /\ PurseInv
  BY TagInit, PurseInit
<1>2. TagInv /\ PurseInv /\ [Next]_vars => TagInv' /\ PurseInv'
  BY TagStep, PurseStep
<1>3. TagInv /\ PurseInv => PlanHonest
  BY PlansAre
<1> QED BY <1>1, <1>2, <1>3, PTL DEF Spec

-----------------------------------------------------------------------------
(***************************************************************************)
(* Positions                                                               *)
(***************************************************************************)

\* What holds of level 0 and of each next level holds of all.
LEMMA LevelInduction ==
    ASSUME NEW Good, 0 \in Good, \A l \in Level : l \in Good => l + 1 \in Good
    PROVE  \A l \in 0 .. TREE_DEPTH : l \in Good
<1> DEFINE Bad == {l \in 0 .. TREE_DEPTH : l \notin Good}
           m == Min(Bad)
<1> SUFFICES ASSUME Bad # {} PROVE FALSE
  OBVIOUS
<1>1. m \in Bad /\ (\A l \in Bad : m =< l) /\ TREE_DEPTH \in Nat
  <2>1. Bad \subseteq Nat
    BY TreeAssumption
  <2> HIDE DEF Bad
  <2> QED BY <2>1, LeastIsMin, TreeAssumption
<1> HIDE DEF m
<1>2. m # 0
  BY <1>1
<1>3. m - 1 \in Level /\ m - 1 \in 0 .. TREE_DEPTH /\ ~(m =< m - 1) /\ (m - 1) + 1 = m
  BY <1>1, <1>2 DEF Level
<1>4. m - 1 \in Good
  BY <1>1, <1>3
<1> QED BY <1>1, <1>3, <1>4

\* Powers are positive.
LEMMA Powers == \A l \in 0 .. TREE_DEPTH : 2^l \in Nat \ {0}
<1> DEFINE Good == {l \in 0 .. TREE_DEPTH : 2^l \in Nat \ {0}}
<1>1. 0 \in Good
  <2>1. 0 \in 0 .. TREE_DEPTH
    BY TreeAssumption
  <2> QED BY <2>1, PowersAssumption
<1>2. ASSUME NEW l \in Level, l \in Good PROVE l + 1 \in Good
  <2>1. l + 1 \in 0 .. TREE_DEPTH
    BY TreeAssumption DEF Level
  <2>2. 2^(l + 1) = 2 * 2^l
    BY PowersAssumption
  <2> QED BY <1>2, <2>1, <2>2
<1> HIDE DEF Good
<1>3. \A l \in 0 .. TREE_DEPTH : l \in Good
  BY <1>1, <1>2, LevelInduction
<1> QED BY <1>3 DEF Good

\* Positions, level by level.
LEMMA LevelPositions ==
    ASSUME NEW i \in Nat
    PROVE  /\ \A l \in 0 .. TREE_DEPTH : position(i, l) \in Nat
           /\ position(i, 0) = i
           /\ \A l \in Level : position(i, l + 1) = position(i, l) \div 2
<1>1. \A l \in 0 .. TREE_DEPTH : position(i, l) \in Nat
  <2> SUFFICES ASSUME NEW l \in 0 .. TREE_DEPTH PROVE position(i, l) \in Nat
    OBVIOUS
  <2> DEFINE d == 2^l
  <2>1. d \in Nat \ {0}
    BY Powers
  <2> HIDE DEF d
  <2>2. i \div d \in Nat
    BY <2>1
  <2> QED BY <2>2 DEF position, d
<1>2. position(i, 0) = i
  <2>1. position(i, 0) = i \div 1
    BY PowersAssumption DEF position
  <2> QED BY <2>1
<1>3. ASSUME NEW l \in Level PROVE position(i, l + 1) = position(i, l) \div 2
  <2> DEFINE d == 2^l
  <2>1. d \in Nat \ {0} /\ 2^(l + 1) = 2 * d
    <3>1. l \in 0 .. TREE_DEPTH
      BY TreeAssumption DEF Level
    <3> QED BY <3>1, Powers, PowersAssumption
  <2> HIDE DEF d
  <2>2. i \div (2 * d) = (i \div d) \div 2
    BY <2>1, Halved
  <2> QED BY <2>1, <2>2 DEF position, d
<1> QED BY <1>1, <1>2, <1>3

-----------------------------------------------------------------------------
(***************************************************************************)
(* The tree by definition                                                  *)
(***************************************************************************)

\* The recursion defines the levels of the full tree,
LEMMA TreeRounds ==
    ASSUME NEW s
    PROVE  \E f : /\ f[0] = s
                  /\ \A l \in Level : f[l + 1] = above(f[l], l)
                  /\ fullTree(s) = f
<1> DEFINE Rec(f, m) == f = [l \in 0 .. m |-> IF l = 0 THEN s ELSE above(f[l - 1], l - 1)]
           Good == {m \in 0 .. TREE_DEPTH : \E f : Rec(f, m)}
<1>1. 0 \in Good
  <2>1. Rec([l \in 0 .. 0 |-> s], 0)
    OBVIOUS
  <2>2. 0 \in 0 .. TREE_DEPTH
    BY TreeAssumption
  <2> HIDE DEF Rec
  <2> QED BY <2>1, <2>2
<1>2. ASSUME NEW n \in Level, n \in Good PROVE n + 1 \in Good
  <2> DEFINE m == n + 1
  <2>1. m \in 0 .. TREE_DEPTH /\ m # 0 /\ m - 1 = n /\ m - 1 \in 0 .. m
    BY TreeAssumption DEF Level
  <2>2. PICK f : Rec(f, m - 1)
    BY <1>2, <2>1
  <2> HIDE DEF m
  <2> DEFINE g == [l \in 0 .. m |-> IF l = m THEN above(f[m - 1], m - 1) ELSE f[l]]
  <2>3. \A l \in 0 .. m : g[l] = IF l = 0 THEN s ELSE above(g[l - 1], l - 1)
    <3> SUFFICES ASSUME NEW l \in 0 .. m
                 PROVE  g[l] = IF l = 0 THEN s ELSE above(g[l - 1], l - 1)
      OBVIOUS
    <3>1. CASE l = m
      <4>1. g[m - 1] = f[m - 1] /\ g[m] = above(f[m - 1], m - 1)
        BY <2>1
      <4> QED BY <2>1, <3>1, <4>1
    <3>2. CASE l # m
      <4>1. l \in 0 .. m - 1 /\ g[l] = f[l]
        BY <2>1, <3>2
      <4>2. l # 0 => g[l - 1] = f[l - 1]
        BY <2>1, <3>2
      <4>3. f[l] = IF l = 0 THEN s ELSE above(f[l - 1], l - 1)
        BY <2>2, <4>1
      <4> HIDE DEF g
      <4> QED BY <4>1, <4>2, <4>3
    <3> QED BY <3>1, <3>2
  <2>4. Rec(g, m)
    <3>1. g = [l \in 0 .. m |-> g[l]]
      OBVIOUS
    <3> HIDE DEF g
    <3> QED BY <2>3, <3>1
  <2> QED BY <2>1, <2>4 DEF m
<1> DEFINE F == CHOOSE f : Rec(f, TREE_DEPTH)
<1>3. Rec(F, TREE_DEPTH)
  <2>1. TREE_DEPTH \in Good
    <3>1. TREE_DEPTH \in 0 .. TREE_DEPTH
      BY TreeAssumption
    <3> HIDE DEF Good
    <3> QED BY <1>1, <1>2, <3>1, LevelInduction
  <2> HIDE DEF Rec
  <2> QED BY <2>1
<1>4. fullTree(s) = F
  BY DEF fullTree
<1>5. F = [l \in 0 .. TREE_DEPTH |-> IF l = 0 THEN s ELSE above(F[l - 1], l - 1)]
  BY <1>3
<1> HIDE DEF F
<1>6. ASSUME NEW l \in Level PROVE F[l + 1] = above(F[l], l)
  <2>1. l + 1 \in 0 .. TREE_DEPTH /\ l + 1 # 0 /\ (l + 1) - 1 = l
    BY TreeAssumption DEF Level
  <2> QED BY <1>5, <2>1
<1>7. F[0] = s
  <2>1. 0 \in 0 .. TREE_DEPTH
    BY TreeAssumption
  <2> QED BY <1>5, <2>1
<1> QED BY <1>4, <1>6, <1>7

\* the rounds of the contract's loop,
LEMMA ClimbRounds ==
    ASSUME NEW side, NEW leaf, NEW i
    PROVE  \E f : /\ f[0] = [node |-> leaf, side |-> side, done |-> FALSE]
                  /\ \A l \in Level : f[l + 1] = climbLevel(f[l], position(i, l), l)
                  /\ climb(side, leaf, i) = f[TREE_DEPTH]
<1> DEFINE Rec(f, m) == f = [l \in 0 .. m |-> IF l = 0 THEN [node |-> leaf, side |-> side, done |-> FALSE]
                                              ELSE climbLevel(f[l - 1], position(i, l - 1), l - 1)]
           Good == {m \in 0 .. TREE_DEPTH : \E f : Rec(f, m)}
<1>1. 0 \in Good
  <2>1. Rec([l \in 0 .. 0 |-> [node |-> leaf, side |-> side, done |-> FALSE]], 0)
    OBVIOUS
  <2>2. 0 \in 0 .. TREE_DEPTH
    BY TreeAssumption
  <2> HIDE DEF Rec
  <2> QED BY <2>1, <2>2
<1>2. ASSUME NEW n \in Level, n \in Good PROVE n + 1 \in Good
  <2> DEFINE m == n + 1
  <2>1. m \in 0 .. TREE_DEPTH /\ m # 0 /\ m - 1 = n /\ m - 1 \in 0 .. m
    BY TreeAssumption DEF Level
  <2>2. PICK f : Rec(f, m - 1)
    BY <1>2, <2>1
  <2> HIDE DEF m
  <2> DEFINE g == [l \in 0 .. m |-> IF l = m THEN climbLevel(f[m - 1], position(i, m - 1), m - 1)
                                    ELSE f[l]]
  <2>3. \A l \in 0 .. m : g[l] = IF l = 0 THEN [node |-> leaf, side |-> side, done |-> FALSE]
                                 ELSE climbLevel(g[l - 1], position(i, l - 1), l - 1)
    <3> SUFFICES ASSUME NEW l \in 0 .. m
                 PROVE  g[l] = IF l = 0 THEN [node |-> leaf, side |-> side, done |-> FALSE]
                               ELSE climbLevel(g[l - 1], position(i, l - 1), l - 1)
      OBVIOUS
    <3>1. CASE l = m
      <4>1. g[m - 1] = f[m - 1] /\ g[m] = climbLevel(f[m - 1], position(i, m - 1), m - 1)
        BY <2>1
      <4> QED BY <2>1, <3>1, <4>1
    <3>2. CASE l # m
      <4>1. l \in 0 .. m - 1 /\ g[l] = f[l]
        BY <2>1, <3>2
      <4>2. l # 0 => g[l - 1] = f[l - 1]
        BY <2>1, <3>2
      <4>3. f[l] = IF l = 0 THEN [node |-> leaf, side |-> side, done |-> FALSE]
                   ELSE climbLevel(f[l - 1], position(i, l - 1), l - 1)
        BY <2>2, <4>1
      <4> HIDE DEF g
      <4> QED BY <4>1, <4>2, <4>3
    <3> QED BY <3>1, <3>2
  <2>4. Rec(g, m)
    <3>1. g = [l \in 0 .. m |-> g[l]]
      OBVIOUS
    <3> HIDE DEF g
    <3> QED BY <2>3, <3>1
  <2> QED BY <2>1, <2>4 DEF m
<1> DEFINE F == CHOOSE f : Rec(f, TREE_DEPTH)
<1>3. Rec(F, TREE_DEPTH)
  <2>1. TREE_DEPTH \in Good
    <3>1. TREE_DEPTH \in 0 .. TREE_DEPTH
      BY TreeAssumption
    <3> HIDE DEF Good
    <3> QED BY <1>1, <1>2, <3>1, LevelInduction
  <2> HIDE DEF Rec
  <2> QED BY <2>1
<1>4. climb(side, leaf, i) = F[TREE_DEPTH]
  BY DEF climb
<1>5. F = [l \in 0 .. TREE_DEPTH |-> IF l = 0 THEN [node |-> leaf, side |-> side, done |-> FALSE]
                                     ELSE climbLevel(F[l - 1], position(i, l - 1), l - 1)]
  BY <1>3
<1> HIDE DEF F
<1>6. ASSUME NEW l \in Level PROVE F[l + 1] = climbLevel(F[l], position(i, l), l)
  <2>1. l + 1 \in 0 .. TREE_DEPTH /\ l + 1 # 0 /\ (l + 1) - 1 = l
    BY TreeAssumption DEF Level
  <2> QED BY <1>5, <2>1
<1>7. F[0] = [node |-> leaf, side |-> side, done |-> FALSE]
  <2>1. 0 \in 0 .. TREE_DEPTH
    BY TreeAssumption
  <2> QED BY <1>5, <2>1
<1> QED BY <1>4, <1>6, <1>7

\* the wallet's,
LEMMA InsertRounds ==
    ASSUME NEW leaf, treeInsert(leaf)
    PROVE  \E f : /\ f[0] = leaf
                  /\ \A l \in Level : f[l + 1] = nodeAbove(f[l], position(walletSize, l), l)
                  /\ /\ levels' = [l \in Level |-> put(levels[l], position(walletSize, l), f[l])]
                     /\ currentRoot' = f[TREE_DEPTH]
<1> DEFINE Rec(f, m) == f = [l \in 0 .. m |-> IF l = 0 THEN leaf
                                              ELSE nodeAbove(f[l - 1], position(walletSize, l - 1), l - 1)]
           Good == {m \in 0 .. TREE_DEPTH : \E f : Rec(f, m)}
<1>1. 0 \in Good
  <2>1. Rec([l \in 0 .. 0 |-> leaf], 0)
    OBVIOUS
  <2>2. 0 \in 0 .. TREE_DEPTH
    BY TreeAssumption
  <2> HIDE DEF Rec
  <2> QED BY <2>1, <2>2
<1>2. ASSUME NEW n \in Level, n \in Good PROVE n + 1 \in Good
  <2> DEFINE m == n + 1
  <2>1. m \in 0 .. TREE_DEPTH /\ m # 0 /\ m - 1 = n /\ m - 1 \in 0 .. m
    BY TreeAssumption DEF Level
  <2>2. PICK f : Rec(f, m - 1)
    BY <1>2, <2>1
  <2> HIDE DEF m
  <2> DEFINE g == [l \in 0 .. m |-> IF l = m THEN nodeAbove(f[m - 1], position(walletSize, m - 1), m - 1)
                                    ELSE f[l]]
  <2>3. \A l \in 0 .. m : g[l] = IF l = 0 THEN leaf
                                 ELSE nodeAbove(g[l - 1], position(walletSize, l - 1), l - 1)
    <3> SUFFICES ASSUME NEW l \in 0 .. m
                 PROVE  g[l] = IF l = 0 THEN leaf
                               ELSE nodeAbove(g[l - 1], position(walletSize, l - 1), l - 1)
      OBVIOUS
    <3>1. CASE l = m
      <4>1. g[m - 1] = f[m - 1] /\ g[m] = nodeAbove(f[m - 1], position(walletSize, m - 1), m - 1)
        BY <2>1
      <4> QED BY <2>1, <3>1, <4>1
    <3>2. CASE l # m
      <4>1. l \in 0 .. m - 1 /\ g[l] = f[l]
        BY <2>1, <3>2
      <4>2. l # 0 => g[l - 1] = f[l - 1]
        BY <2>1, <3>2
      <4>3. f[l] = IF l = 0 THEN leaf
                   ELSE nodeAbove(f[l - 1], position(walletSize, l - 1), l - 1)
        BY <2>2, <4>1
      <4> HIDE DEF g
      <4> QED BY <4>1, <4>2, <4>3
    <3> QED BY <3>1, <3>2
  <2>4. Rec(g, m)
    <3>1. g = [l \in 0 .. m |-> g[l]]
      OBVIOUS
    <3> HIDE DEF g
    <3> QED BY <2>3, <3>1
  <2> QED BY <2>1, <2>4 DEF m
<1> DEFINE F == CHOOSE f : Rec(f, TREE_DEPTH)
<1>3. Rec(F, TREE_DEPTH)
  <2>1. TREE_DEPTH \in Good
    <3>1. TREE_DEPTH \in 0 .. TREE_DEPTH
      BY TreeAssumption
    <3> HIDE DEF Good
    <3> QED BY <1>1, <1>2, <3>1, LevelInduction
  <2> HIDE DEF Rec
  <2> QED BY <2>1
<1>4. /\ levels' = [l \in Level |-> put(levels[l], position(walletSize, l), F[l])]
                     /\ currentRoot' = F[TREE_DEPTH]
  BY DEF treeInsert
<1>5. F = [l \in 0 .. TREE_DEPTH |-> IF l = 0 THEN leaf
                                     ELSE nodeAbove(F[l - 1], position(walletSize, l - 1), l - 1)]
  BY <1>3
<1> HIDE DEF F
<1>6. ASSUME NEW l \in Level PROVE F[l + 1] = nodeAbove(F[l], position(walletSize, l), l)
  <2>1. l + 1 \in 0 .. TREE_DEPTH /\ l + 1 # 0 /\ (l + 1) - 1 = l
    BY TreeAssumption DEF Level
  <2> QED BY <1>5, <2>1
<1>7. F[0] = leaf
  <2>1. 0 \in 0 .. TREE_DEPTH
    BY TreeAssumption
  <2> QED BY <1>5, <2>1
<1> QED BY <1>4, <1>6, <1>7

\* the circuit's,
LEMMA ProofRounds ==
    ASSUME NEW leaf, NEW i, NEW siblings
    PROVE  \E f : /\ f[0] = leaf
                  /\ \A l \in Level : f[l + 1] = ascend(f[l], position(i, l) % 2, siblings[l], l)
                  /\ lean_imt_inclusion_proof(leaf, i, siblings) = f[TREE_DEPTH]
<1> DEFINE Rec(f, m) == f = [l \in 0 .. m |-> IF l = 0 THEN leaf
                                              ELSE ascend(f[l - 1], position(i, l - 1) % 2, siblings[l - 1], l - 1)]
           Good == {m \in 0 .. TREE_DEPTH : \E f : Rec(f, m)}
<1>1. 0 \in Good
  <2>1. Rec([l \in 0 .. 0 |-> leaf], 0)
    OBVIOUS
  <2>2. 0 \in 0 .. TREE_DEPTH
    BY TreeAssumption
  <2> HIDE DEF Rec
  <2> QED BY <2>1, <2>2
<1>2. ASSUME NEW n \in Level, n \in Good PROVE n + 1 \in Good
  <2> DEFINE m == n + 1
  <2>1. m \in 0 .. TREE_DEPTH /\ m # 0 /\ m - 1 = n /\ m - 1 \in 0 .. m
    BY TreeAssumption DEF Level
  <2>2. PICK f : Rec(f, m - 1)
    BY <1>2, <2>1
  <2> HIDE DEF m
  <2> DEFINE g == [l \in 0 .. m |-> IF l = m THEN ascend(f[m - 1], position(i, m - 1) % 2, siblings[m - 1], m - 1)
                                    ELSE f[l]]
  <2>3. \A l \in 0 .. m : g[l] = IF l = 0 THEN leaf
                                 ELSE ascend(g[l - 1], position(i, l - 1) % 2, siblings[l - 1], l - 1)
    <3> SUFFICES ASSUME NEW l \in 0 .. m
                 PROVE  g[l] = IF l = 0 THEN leaf
                               ELSE ascend(g[l - 1], position(i, l - 1) % 2, siblings[l - 1], l - 1)
      OBVIOUS
    <3>1. CASE l = m
      <4>1. g[m - 1] = f[m - 1] /\ g[m] = ascend(f[m - 1], position(i, m - 1) % 2, siblings[m - 1], m - 1)
        BY <2>1
      <4> QED BY <2>1, <3>1, <4>1
    <3>2. CASE l # m
      <4>1. l \in 0 .. m - 1 /\ g[l] = f[l]
        BY <2>1, <3>2
      <4>2. l # 0 => g[l - 1] = f[l - 1]
        BY <2>1, <3>2
      <4>3. f[l] = IF l = 0 THEN leaf
                   ELSE ascend(f[l - 1], position(i, l - 1) % 2, siblings[l - 1], l - 1)
        BY <2>2, <4>1
      <4> HIDE DEF g
      <4> QED BY <4>1, <4>2, <4>3
    <3> QED BY <3>1, <3>2
  <2>4. Rec(g, m)
    <3>1. g = [l \in 0 .. m |-> g[l]]
      OBVIOUS
    <3> HIDE DEF g
    <3> QED BY <2>3, <3>1
  <2> QED BY <2>1, <2>4 DEF m
<1> DEFINE F == CHOOSE f : Rec(f, TREE_DEPTH)
<1>3. Rec(F, TREE_DEPTH)
  <2>1. TREE_DEPTH \in Good
    <3>1. TREE_DEPTH \in 0 .. TREE_DEPTH
      BY TreeAssumption
    <3> HIDE DEF Good
    <3> QED BY <1>1, <1>2, <3>1, LevelInduction
  <2> HIDE DEF Rec
  <2> QED BY <2>1
<1>4. lean_imt_inclusion_proof(leaf, i, siblings) = F[TREE_DEPTH]
  BY DEF lean_imt_inclusion_proof
<1>5. F = [l \in 0 .. TREE_DEPTH |-> IF l = 0 THEN leaf
                                     ELSE ascend(F[l - 1], position(i, l - 1) % 2, siblings[l - 1], l - 1)]
  BY <1>3
<1> HIDE DEF F
<1>6. ASSUME NEW l \in Level PROVE F[l + 1] = ascend(F[l], position(i, l) % 2, siblings[l], l)
  <2>1. l + 1 \in 0 .. TREE_DEPTH /\ l + 1 # 0 /\ (l + 1) - 1 = l
    BY TreeAssumption DEF Level
  <2> QED BY <1>5, <2>1
<1>7. F[0] = leaf
  <2>1. 0 \in 0 .. TREE_DEPTH
    BY TreeAssumption
  <2> QED BY <1>5, <2>1
<1> QED BY <1>4, <1>6, <1>7

\* Where all openings start, and what is left of them at the root.
Starts == {<<leaf, leaf, 0>> : leaf \in Commitment \cup {GENESIS}}
Ends(pairs) == {<<p[1], p[3]>> : p \in {q \in pairs : q[2] = latestRoot}}

\* and all of the circuit's at once.
LEMMA OpenRounds ==
    \E f : /\ f[0] = Starts
           /\ \A l \in Level : f[l + 1] = ascendAll(f[l], l)
           /\ Opened = Ends(f[TREE_DEPTH])
<1> DEFINE Rec(f, m) == f = [l \in 0 .. m |-> IF l = 0 THEN Starts
                                              ELSE ascendAll(f[l - 1], l - 1)]
           Good == {m \in 0 .. TREE_DEPTH : \E f : Rec(f, m)}
<1>1. 0 \in Good
  <2>1. Rec([l \in 0 .. 0 |-> Starts], 0)
    OBVIOUS
  <2>2. 0 \in 0 .. TREE_DEPTH
    BY TreeAssumption
  <2> HIDE DEF Rec
  <2> QED BY <2>1, <2>2
<1>2. ASSUME NEW n \in Level, n \in Good PROVE n + 1 \in Good
  <2> DEFINE m == n + 1
  <2>1. m \in 0 .. TREE_DEPTH /\ m # 0 /\ m - 1 = n /\ m - 1 \in 0 .. m
    BY TreeAssumption DEF Level
  <2>2. PICK f : Rec(f, m - 1)
    BY <1>2, <2>1
  <2> HIDE DEF m
  <2> DEFINE g == [l \in 0 .. m |-> IF l = m THEN ascendAll(f[m - 1], m - 1) ELSE f[l]]
  <2>3. \A l \in 0 .. m : g[l] = IF l = 0 THEN Starts ELSE ascendAll(g[l - 1], l - 1)
    <3> SUFFICES ASSUME NEW l \in 0 .. m
                 PROVE  g[l] = IF l = 0 THEN Starts ELSE ascendAll(g[l - 1], l - 1)
      OBVIOUS
    <3>1. CASE l = m
      <4>1. g[m - 1] = f[m - 1] /\ g[m] = ascendAll(f[m - 1], m - 1)
        BY <2>1
      <4> QED BY <2>1, <3>1, <4>1
    <3>2. CASE l # m
      <4>1. l \in 0 .. m - 1 /\ g[l] = f[l]
        BY <2>1, <3>2
      <4>2. l # 0 => g[l - 1] = f[l - 1]
        BY <2>1, <3>2
      <4>3. f[l] = IF l = 0 THEN Starts ELSE ascendAll(f[l - 1], l - 1)
        BY <2>2, <4>1
      <4> HIDE DEF g
      <4> QED BY <4>1, <4>2, <4>3
    <3> QED BY <3>1, <3>2
  <2>4. Rec(g, m)
    <3>1. g = [l \in 0 .. m |-> g[l]]
      OBVIOUS
    <3> HIDE DEF g
    <3> QED BY <2>3, <3>1
  <2> QED BY <2>1, <2>4 DEF m
<1> DEFINE F == CHOOSE f : Rec(f, TREE_DEPTH)
<1>3. Rec(F, TREE_DEPTH)
  <2>1. TREE_DEPTH \in Good
    <3>1. TREE_DEPTH \in 0 .. TREE_DEPTH
      BY TreeAssumption
    <3> HIDE DEF Good
    <3> QED BY <1>1, <1>2, <3>1, LevelInduction
  <2> HIDE DEF Rec
  <2> QED BY <2>1
<1>4. Opened = Ends(F[TREE_DEPTH])
  BY DEF Opened, Starts, Ends
<1>5. F = [l \in 0 .. TREE_DEPTH |-> IF l = 0 THEN Starts ELSE ascendAll(F[l - 1], l - 1)]
  BY <1>3
<1> HIDE DEF F
<1>6. ASSUME NEW l \in Level PROVE F[l + 1] = ascendAll(F[l], l)
  <2>1. l + 1 \in 0 .. TREE_DEPTH /\ l + 1 # 0 /\ (l + 1) - 1 = l
    BY TreeAssumption DEF Level
  <2> QED BY <1>5, <2>1
<1>7. F[0] = Starts
  <2>1. 0 \in 0 .. TREE_DEPTH
    BY TreeAssumption
  <2> QED BY <1>5, <2>1
<1> QED BY <1>4, <1>6, <1>7

\* The full tree, level by level: sequences whose lengths halve.
LEMMA NextLevel ==
    ASSUME NEW b, IsSequence(b), NEW l
    PROVE  /\ IsSequence(above(b, l)) /\ Len(b) \in Nat
           /\ Len(above(b, l)) = (Len(b) + 1) \div 2
           /\ DOMAIN above(b, l) = 1 .. (Len(b) + 1) \div 2
           /\ \A k \in 1 .. (Len(b) + 1) \div 2 :
                above(b, l)[k] = IF 2 * k =< Len(b) THEN hash_3(b[2 * k - 1], b[2 * k], l)
                                                     ELSE b[2 * k - 1]
<1> DEFINE h == (Len(b) + 1) \div 2
           e == [k \in 1 .. h |-> IF 2 * k <= Len(b) THEN hash_3(b[2 * k - 1], b[2 * k], l)
                                                      ELSE b[2 * k - 1]]
<1>1. Len(b) \in Nat
  BY SequenceOf
<1>2. h \in Nat
  BY <1>1
<1>3. above(b, l) = e
  BY DEF above
<1>4. \A k \in 1 .. h : e[k] = IF 2 * k =< Len(b) THEN hash_3(b[2 * k - 1], b[2 * k], l)
                                                   ELSE b[2 * k - 1]
  BY <1>1
<1>5. e = [k \in 1 .. h |-> e[k]]
  OBVIOUS
<1> HIDE DEF e, h
<1>6. IsSequence(e) /\ DOMAIN e = 1 .. h
  BY <1>2, <1>5 DEF IsSequence
<1>7. Len(e) = h
  <2>1. e \in Seq({e[k] : k \in DOMAIN e})
    BY <1>6, SequenceOf
  <2>2. Len(e) \in Nat /\ DOMAIN e = 1 .. Len(e)
    BY <2>1
  <2> HIDE DEF e, h
  <2> QED BY <1>2, <1>6, <2>2
<1> QED BY <1>1, <1>3, <1>4, <1>6, <1>7 DEF h

LEMMA FullTree ==
    ASSUME NEW s, IsSequence(s)
    PROVE  /\ fullTree(s)[0] = s
           /\ \A l \in Level : fullTree(s)[l + 1] = above(fullTree(s)[l], l)
           /\ \A l \in 0 .. TREE_DEPTH : IsSequence(fullTree(s)[l])
<1> DEFINE F == fullTree(s)
<1>1. F[0] = s /\ \A l \in Level : F[l + 1] = above(F[l], l)
  BY TreeRounds
<1> HIDE DEF F
<1> DEFINE Good == {l \in 0 .. TREE_DEPTH : IsSequence(F[l])}
<1>2. 0 \in Good
  BY <1>1, TreeAssumption
<1>3. ASSUME NEW l \in Level, l \in Good PROVE l + 1 \in Good
  <2>1. l + 1 \in 0 .. TREE_DEPTH
    BY TreeAssumption DEF Level
  <2> QED BY <1>1, <1>3, <2>1, NextLevel
<1> HIDE DEF Good
<1>4. \A l \in 0 .. TREE_DEPTH : l \in Good
  BY <1>2, <1>3, LevelInduction
<1> QED BY <1>1, <1>4 DEF Good, F

\* Levels below the top are levels.
LEMMA LevelsIn ==
    /\ TREE_DEPTH \in Nat /\ 0 \in 0 .. TREE_DEPTH /\ 0 \in Level
    /\ TREE_DEPTH \in 0 .. TREE_DEPTH
    /\ \A l \in Level : l \in Nat /\ l \in 0 .. TREE_DEPTH /\ l + 1 \in 0 .. TREE_DEPTH
BY TreeAssumption DEF Level

\* A leaf that is appended changes the nodes above it and no others: what is to
\* its left stays, nothing is to its right.
LEMMA AppendedTree ==
    ASSUME NEW s, IsSequence(s), NEW x
    PROVE  LET P(l) == position(Len(s), l)
               S(l) == fullTree(s)[l]
               T(l) == fullTree(Append(s, x))[l] IN
           /\ \A l \in 0 .. TREE_DEPTH :
                /\ P(l) \in Nat
                /\ Len(S(l)) \in {P(l), P(l) + 1} /\ DOMAIN S(l) = 1 .. Len(S(l))
                /\ Len(T(l)) = P(l) + 1 /\ DOMAIN T(l) = 1 .. P(l) + 1
                /\ \A k \in 1 .. P(l) : T(l)[k] = S(l)[k]
           /\ T(0)[P(0) + 1] = x
           /\ \A l \in Level :
                T(l + 1)[P(l + 1) + 1] =
                  IF P(l) % 2 = 0 THEN T(l)[P(l) + 1]
                                  ELSE hash_3(S(l)[P(l)], T(l)[P(l) + 1], l)
<1> DEFINE F == fullTree(s)
           G == fullTree(Append(s, x))
           P(l) == position(Len(s), l)
           Fits(l) == /\ Len(F[l]) \in {P(l), P(l) + 1} /\ Len(G[l]) = P(l) + 1
                      /\ \A k \in 1 .. P(l) : G[l][k] = F[l][k]
<1>1. /\ Len(s) \in Nat /\ IsSequence(Append(s, x)) /\ Len(Append(s, x)) = Len(s) + 1
      /\ \A k \in 1 .. Len(s) : Append(s, x)[k] = s[k]
      /\ Append(s, x)[Len(s) + 1] = x
  <2>1. /\ IsSequence(Append(s, x)) /\ Len(s) \in Nat /\ DOMAIN s = 1 .. Len(s)
        /\ DOMAIN Append(s, x) = 1 .. Len(s) + 1
        /\ \A k \in DOMAIN s : Append(s, x)[k] = s[k]
        /\ Append(s, x)[Len(s) + 1] = x
    BY Appended
  <2>2. Len(Append(s, x)) \in Nat /\ DOMAIN Append(s, x) = 1 .. Len(Append(s, x))
    <3> DEFINE t == Append(s, x)
    <3> HIDE DEF t
    <3>1. IsSequence(t)
      BY <2>1 DEF t
    <3>2. t \in Seq({t[k] : k \in DOMAIN t})
      BY <3>1, SequenceOf
    <3>3. Len(t) \in Nat /\ DOMAIN t = 1 .. Len(t)
      BY <3>2
    <3> QED BY <3>3 DEF t
  <2> QED BY <2>1, <2>2
<1>2. /\ \A l \in 0 .. TREE_DEPTH : P(l) \in Nat
      /\ P(0) = Len(s) /\ \A l \in Level : P(l + 1) = P(l) \div 2
  BY <1>1, LevelPositions
<1>3. /\ F[0] = s /\ \A l \in Level : F[l + 1] = above(F[l], l)
      /\ \A l \in 0 .. TREE_DEPTH : IsSequence(F[l])
  BY FullTree
<1>4. /\ G[0] = Append(s, x) /\ \A l \in Level : G[l + 1] = above(G[l], l)
      /\ \A l \in 0 .. TREE_DEPTH : IsSequence(G[l])
  BY <1>1, FullTree
<1> HIDE DEF F, G, P
<1>5. Fits(0)
  BY <1>1, <1>2, <1>3, <1>4
<1>6. ASSUME NEW l \in Level, Fits(l)
      PROVE  /\ Fits(l + 1)
             /\ G[l + 1][P(l + 1) + 1] = IF P(l) % 2 = 0 THEN G[l][P(l) + 1]
                                         ELSE hash_3(F[l][P(l)], G[l][P(l) + 1], l)
  <2> DEFINE p == P(l)
             q == P(l + 1)
  <2>1. p \in Nat /\ q \in Nat /\ q = p \div 2
    BY <1>2, LevelsIn
  <2>2. p = 2 * q \/ p = 2 * q + 1
    BY <2>1
  <2>3. /\ Len(F[l]) \in {p, p + 1} /\ Len(G[l]) = p + 1
        /\ \A k \in 1 .. p : G[l][k] = F[l][k]
    BY <1>6
  <2> HIDE DEF p, q
  <2> DEFINE a == Len(F[l])
  <2> HIDE DEF a
  <2>4. /\ Len(F[l + 1]) = (a + 1) \div 2
        /\ \A k \in 1 .. (a + 1) \div 2 :
             F[l + 1][k] = IF 2 * k =< a THEN hash_3(F[l][2 * k - 1], F[l][2 * k], l)
                                         ELSE F[l][2 * k - 1]
    <3>1. F[l + 1] = above(F[l], l) /\ IsSequence(F[l])
      BY <1>3, LevelsIn
    <3>2. (Len(F[l]) + 1) \div 2 = (a + 1) \div 2 /\ Len(F[l]) = a
      BY DEF a
    <3> QED BY <3>1, <3>2, NextLevel
  <2>5. /\ Len(G[l + 1]) = (p + 2) \div 2
         /\ \A k \in 1 .. (p + 2) \div 2 :
              G[l + 1][k] = IF 2 * k =< p + 1 THEN hash_3(G[l][2 * k - 1], G[l][2 * k], l)
                                              ELSE G[l][2 * k - 1]
    <3>1. G[l + 1] = above(G[l], l) /\ IsSequence(G[l])
      BY <1>4, LevelsIn
    <3>2. (Len(G[l]) + 1) \div 2 = (p + 2) \div 2
      BY <2>1, <2>3
    <3> QED BY <2>3, <3>1, <3>2, NextLevel
  <2>6. a \in {p, p + 1}
    BY <2>3 DEF a
  <2>7. (a + 1) \div 2 \in {q, q + 1} /\ (p + 2) \div 2 = q + 1
    BY <2>1, <2>2, <2>6
  <2>8. Len(F[l + 1]) \in {q, q + 1} /\ Len(G[l + 1]) = q + 1
    BY <2>4, <2>5, <2>7
  <2>9. ASSUME NEW k \in 1 .. q PROVE G[l + 1][k] = F[l + 1][k]
    <3>1. /\ 2 * k \in 1 .. p /\ 2 * k - 1 \in 1 .. p
          /\ k \in 1 .. (a + 1) \div 2 /\ k \in 1 .. (p + 2) \div 2
          /\ 2 * k =< a /\ 2 * k =< p + 1
      BY <2>1, <2>2, <2>6, <2>7
    <3>2. F[l + 1][k] = hash_3(F[l][2 * k - 1], F[l][2 * k], l)
      BY <2>4, <3>1
    <3>3. G[l + 1][k] = hash_3(G[l][2 * k - 1], G[l][2 * k], l)
      BY <2>5, <3>1
    <3> QED BY <2>3, <3>1, <3>2, <3>3
  <2>10. q + 1 \in 1 .. (p + 2) \div 2
    BY <2>1, <2>7
  <2>11. CASE p = 2 * q
    <3>1. ~(2 * (q + 1) =< p + 1) /\ 2 * (q + 1) - 1 = p + 1 /\ p % 2 = 0
      BY <2>1, <2>11
    <3>2. G[l + 1][q + 1] = G[l][p + 1]
      BY <2>5, <2>10, <3>1
    <3> QED BY <2>8, <2>9, <3>1, <3>2 DEF p, q
  <2>12. CASE p = 2 * q + 1
    <3>1. /\ 2 * (q + 1) =< p + 1 /\ 2 * (q + 1) - 1 = p /\ 2 * (q + 1) = p + 1
          /\ p % 2 # 0 /\ p \in 1 .. p
      BY <2>1, <2>12
    <3>2. G[l + 1][q + 1] = hash_3(G[l][p], G[l][p + 1], l)
      BY <2>5, <2>10, <3>1
    <3>3. G[l + 1][q + 1] = hash_3(F[l][p], G[l][p + 1], l)
      BY <2>3, <3>1, <3>2
    <3> QED BY <2>8, <2>9, <3>1, <3>3 DEF p, q
  <2> QED BY <2>2, <2>11, <2>12
<1> HIDE DEF Fits
<1>7. \A l \in 0 .. TREE_DEPTH : Fits(l)
  <2> DEFINE Good == {l \in 0 .. TREE_DEPTH : Fits(l)}
  <2>1. 0 \in Good /\ \A l \in Level : l \in Good => l + 1 \in Good
    BY <1>5, <1>6, LevelsIn
  <2> HIDE DEF Good
  <2>2. \A l \in 0 .. TREE_DEPTH : l \in Good
    BY <2>1, LevelInduction
  <2> QED BY <2>2 DEF Good
<1>8. \A l \in Level : G[l + 1][P(l + 1) + 1] = IF P(l) % 2 = 0 THEN G[l][P(l) + 1]
                                         ELSE hash_3(F[l][P(l)], G[l][P(l) + 1], l)
  BY <1>6, <1>7, LevelsIn
<1>9. \A l \in 0 .. TREE_DEPTH : DOMAIN F[l] = 1 .. Len(F[l]) /\ DOMAIN G[l] = 1 .. P(l) + 1
  <2> SUFFICES ASSUME NEW l \in 0 .. TREE_DEPTH
               PROVE  DOMAIN F[l] = 1 .. Len(F[l]) /\ DOMAIN G[l] = 1 .. P(l) + 1
    OBVIOUS
  <2>1. \A t : IsSequence(t) => DOMAIN t = 1 .. Len(t)
    BY Appended
  <2> QED BY <1>3, <1>4, <1>7, <2>1 DEF Fits
<1>10. G[0][P(0) + 1] = x
  BY <1>1, <1>2, <1>4
<1> QED BY <1>2, <1>7, <1>8, <1>9, <1>10 DEF F, G, P, Fits

\* Below the root there is one position.
LEMMA TopPosition ==
    ASSUME NEW i \in Nat, i < 2^TREE_DEPTH
    PROVE  position(i, TREE_DEPTH) = 0
<1> DEFINE d == 2^TREE_DEPTH
<1>1. d \in Nat \ {0} /\ i < d
  BY Powers, LevelsIn
<1> HIDE DEF d
<1>2. i = 0 * d + i
  BY <1>1
<1>3. i \div d = 0
  BY <1>1, <1>2, Quotient
<1> QED BY <1>3 DEF d, position

\* A level of the full tree over n leaves has a node for each position of a leaf
\* and ends with that of the last one.
LEMMA LevelLengths ==
    ASSUME NEW s, IsSequence(s), NEW i \in Nat, i < Len(s)
    PROVE  /\ \A l \in 0 .. TREE_DEPTH :
                /\ Len(fullTree(s)[l]) \in Nat /\ position(i, l) < Len(fullTree(s)[l])
                /\ DOMAIN fullTree(s)[l] = 1 .. Len(fullTree(s)[l])
           /\ Len(s) =< 2^TREE_DEPTH => Len(fullTree(s)[TREE_DEPTH]) = 1
<1> DEFINE F == fullTree(s)
           e == Len(s) - 1
           Fits(l) == position(i, l) < Len(F[l]) /\ Len(F[l]) = position(e, l) + 1
           Good == {l \in 0 .. TREE_DEPTH : Fits(l)}
<1>1. Len(s) \in Nat /\ e \in Nat /\ Len(s) = e + 1
  <2>1. Len(s) \in Nat
    BY Appended
  <2> QED BY <2>1
<1>2. /\ \A l \in 0 .. TREE_DEPTH : position(i, l) \in Nat /\ position(e, l) \in Nat
      /\ position(i, 0) = i /\ position(e, 0) = e
      /\ \A l \in Level : /\ position(i, l + 1) = position(i, l) \div 2
                          /\ position(e, l + 1) = position(e, l) \div 2
  <2> HIDE DEF e
  <2> QED BY <1>1, LevelPositions
<1>3. /\ F[0] = s /\ \A l \in Level : F[l + 1] = above(F[l], l)
      /\ \A l \in 0 .. TREE_DEPTH : IsSequence(F[l])
  BY FullTree
<1> HIDE DEF F, e
<1>4. 0 \in Good
  BY <1>1, <1>2, <1>3, LevelsIn
<1>5. ASSUME NEW l \in Level, l \in Good PROVE l + 1 \in Good
  <2> DEFINE p == position(i, l)
             q == position(e, l)
  <2>1. p \in Nat /\ q \in Nat /\ l + 1 \in 0 .. TREE_DEPTH /\ IsSequence(F[l])
    BY <1>2, <1>3, LevelsIn
  <2>2. p < q + 1 /\ Len(F[l]) = q + 1
    BY <1>5
  <2>3. position(i, l + 1) = p \div 2 /\ position(e, l + 1) = q \div 2
    BY <1>2
  <2>4. Len(F[l + 1]) = (Len(F[l]) + 1) \div 2
    BY <1>3, <2>1, NextLevel
  <2> HIDE DEF p, q
  <2>5. (q + 1 + 1) \div 2 = q \div 2 + 1 /\ p \div 2 < q \div 2 + 1
    BY <2>1, <2>2
  <2> QED BY <2>1, <2>2, <2>3, <2>4, <2>5
<1>6. \A l \in 0 .. TREE_DEPTH : Fits(l)
  <2> HIDE DEF Fits
  <2>1. 0 \in Good /\ \A l \in Level : l \in Good => l + 1 \in Good
    BY <1>4, <1>5
  <2> HIDE DEF Good
  <2>2. \A l \in 0 .. TREE_DEPTH : l \in Good
    BY <2>1, LevelInduction
  <2> QED BY <2>2 DEF Good
<1>7. \A l \in 0 .. TREE_DEPTH : Len(F[l]) \in Nat /\ DOMAIN F[l] = 1 .. Len(F[l])
  BY <1>3, Appended
<1>8. Len(s) =< 2^TREE_DEPTH => Len(F[TREE_DEPTH]) = 1
  <2> SUFFICES ASSUME Len(s) =< 2^TREE_DEPTH PROVE Len(F[TREE_DEPTH]) = 1
    OBVIOUS
  <2>1. 2^TREE_DEPTH \in Nat
    BY Powers, LevelsIn
  <2>2. e < 2^TREE_DEPTH
    BY <1>1, <2>1
  <2>3. position(e, TREE_DEPTH) = 0
    BY <1>1, <2>2, TopPosition
  <2>4. Len(F[TREE_DEPTH]) = position(e, TREE_DEPTH) + 1
    BY <1>6, LevelsIn
  <2> QED BY <2>3, <2>4
<1> QED BY <1>6, <1>7, <1>8 DEF F

-----------------------------------------------------------------------------
(***************************************************************************)
(* Hashes                                                                  *)
(***************************************************************************)

TreeLeaf == Commitment \cup {GENESIS}

\* No hash is a leaf or zero: the commitments users choose are hashes of their
\* own with another arity, and a preimage of zero is not to be found.
HashesApart == \A a, b, l : hash_3(a, b, l) \notin TreeLeaf \cup {Zero}

\* A hash is three values long, a failure is not.
LEMMA HashNotFailed == \A a, b, l : hash_3(a, b, l) # Failed
<1> SUFFICES ASSUME NEW a, NEW b, NEW l PROVE hash_3(a, b, l) # Failed
  OBVIOUS
<1>1. Len(<<a, b, l>>) = 3 /\ Len(Failed) = 1
  BY DEF Failed
<1> QED BY <1>1 DEF hash_3

\* A value that can stand on level l: it was not made there or further up.
Under(x, l) == \A a, b : \A m \in Nat : m >= l => x # hash_3(a, b, m)

\* The nodes of level l are neither zero nor a failure, and were made below.
LEMMA ProperNodes ==
    ASSUME HashesApart, NEW s \in Seq(TreeLeaf)
    PROVE  \A l \in 0 .. TREE_DEPTH : \A k \in DOMAIN fullTree(s)[l] :
             fullTree(s)[l][k] \notin {Zero, Failed} /\ Under(fullTree(s)[l][k], l)
<1> DEFINE F == fullTree(s)
           Good == {l \in 0 .. TREE_DEPTH :
                      \A k \in DOMAIN F[l] : F[l][k] \notin {Zero, Failed} /\ Under(F[l][k], l)}
<1>1. IsSequence(s)
  BY SeqIsSequence
<1>2. /\ F[0] = s /\ \A l \in Level : F[l + 1] = above(F[l], l)
      /\ \A l \in 0 .. TREE_DEPTH : IsSequence(F[l])
  BY <1>1, FullTree
<1> HIDE DEF F
<1>3. 0 \in Good
  <2> SUFFICES ASSUME NEW k \in DOMAIN s PROVE s[k] \notin {Zero, Failed} /\ Under(s[k], 0)
    BY <1>2, LevelsIn
  <2>1. s[k] \in TreeLeaf
    OBVIOUS
  <2> QED BY <2>1, LeafAssumption DEF Under, HashesApart, TreeLeaf
<1>4. ASSUME NEW l \in Level, l \in Good PROVE l + 1 \in Good
  <2> SUFFICES ASSUME NEW k \in DOMAIN F[l + 1]
               PROVE  F[l + 1][k] \notin {Zero, Failed} /\ Under(F[l + 1][k], l + 1)
    BY LevelsIn
  <2> DEFINE a == Len(F[l])
  <2> HIDE DEF a
  <2>1. /\ a \in Nat /\ k \in 1 .. (a + 1) \div 2
        /\ F[l + 1][k] = IF 2 * k =< a THEN hash_3(F[l][2 * k - 1], F[l][2 * k], l)
                                       ELSE F[l][2 * k - 1]
    <3>0. k \in DOMAIN F[l + 1]
      OBVIOUS
    <3>1. F[l + 1] = above(F[l], l) /\ IsSequence(F[l])
      BY <1>2, LevelsIn
    <3>2. Len(F[l]) = a /\ (Len(F[l]) + 1) \div 2 = (a + 1) \div 2
      BY DEF a
    <3> DEFINE b == F[l]
    <3>3. /\ Len(b) \in Nat /\ DOMAIN above(b, l) = 1 .. (Len(b) + 1) \div 2
          /\ \A j \in 1 .. (Len(b) + 1) \div 2 :
               above(b, l)[j] = IF 2 * j =< Len(b) THEN hash_3(b[2 * j - 1], b[2 * j], l)
                                                   ELSE b[2 * j - 1]
      <4>1. IsSequence(b)
        BY <3>1
      <4> HIDE DEF b
      <4> QED BY ONLY <4>1, NextLevel
    <3> QED BY ONLY <3>0, <3>1, <3>2, <3>3
  <2>2. DOMAIN F[l] = 1 .. a /\ l \in Nat
    BY <1>2, LevelsIn, Appended DEF a
  <2>3. 2 * k - 1 \in 1 .. a
    BY <2>1
  <2>4. CASE 2 * k =< a
    <3> DEFINE h == hash_3(F[l][2 * k - 1], F[l][2 * k], l)
    <3>1. F[l + 1][k] = h
      BY <2>1, <2>4
    <3>2. h \notin {Zero, Failed}
      BY HashNotFailed DEF HashesApart
    <3>3. Under(h, l + 1)
      <4> SUFFICES ASSUME NEW c, NEW d, NEW m \in Nat, m >= l + 1, h = hash_3(c, d, m)
                   PROVE  FALSE
        BY DEF Under
      <4>1. l = m
        BY DEF hash_3
      <4> QED BY <2>2, <4>1
    <3> QED BY <3>1, <3>2, <3>3
  <2>5. CASE ~(2 * k =< a)
    <3>1. F[l + 1][k] = F[l][2 * k - 1]
      BY <2>1, <2>5
    <3>2. F[l][2 * k - 1] \notin {Zero, Failed} /\ Under(F[l][2 * k - 1], l)
      BY <1>4, <2>2, <2>3
    <3>3. \A m \in Nat : m >= l + 1 => m >= l
      BY <2>2
    <3> QED BY <3>1, <3>2, <3>3 DEF Under
  <2> QED BY <2>4, <2>5
<1> HIDE DEF Good
<1>5. \A l \in 0 .. TREE_DEPTH : l \in Good
  BY <1>3, <1>4, LevelInduction
<1> QED BY <1>5 DEF Good, F

-----------------------------------------------------------------------------
(***************************************************************************)
(* Paths                                                                   *)
(***************************************************************************)

\* The circuit's round on a node and the sibling the wallet gives it is the node
\* above.
LEMMA PathUp ==
    ASSUME HashesApart, NEW s \in Seq(TreeLeaf), NEW i \in Nat, i < Len(s), NEW l \in Level
    PROVE  LET F == fullTree(s)
               p == position(i, l) IN
           /\ ascend(F[l][p + 1], p % 2, sibling(F[l], p), l) = F[l + 1][position(i, l + 1) + 1]
           /\ sibling(F[l], p) = Zero \/ \E k \in DOMAIN F[l] : sibling(F[l], p) = F[l][k]
           /\ p % 2 \in {0, 1} /\ position(i, l) = 2 * position(i, l + 1) + (p % 2)
<1> DEFINE F == fullTree(s)
           p == position(i, l)
           q == position(i, l + 1)
           a == Len(F[l])
<1>1. IsSequence(s)
  BY SeqIsSequence
<1>2. F[l + 1] = above(F[l], l) /\ IsSequence(F[l])
  BY <1>1, FullTree, LevelsIn
<1>3. p \in Nat /\ q \in Nat /\ q = p \div 2
  BY LevelPositions, LevelsIn
<1>4. /\ a \in Nat /\ p < a /\ DOMAIN F[l] = 1 .. a
      /\ q < Len(F[l + 1])
  BY <1>1, LevelLengths, LevelsIn
<1> HIDE DEF a
<1>5. a = Len(F[l])
  BY DEF a
<1>6. /\ Len(F[l + 1]) = (a + 1) \div 2 /\ DOMAIN F[l + 1] = 1 .. (a + 1) \div 2
      /\ \A k \in 1 .. (a + 1) \div 2 :
           F[l + 1][k] = IF 2 * k =< a THEN hash_3(F[l][2 * k - 1], F[l][2 * k], l)
                                       ELSE F[l][2 * k - 1]
  <2>1. Len(F[l]) = a /\ (Len(F[l]) + 1) \div 2 = (a + 1) \div 2
    BY <1>5
  <2> HIDE DEF F
  <2> QED BY <1>2, <2>1, NextLevel, SMTT(30)
<1>7. \A k \in 1 .. a : F[l][k] \notin {Zero, Failed}
  BY <1>4, ProperNodes, LevelsIn
<1> HIDE DEF F, p, q
<1>8. q + 1 \in 1 .. (a + 1) \div 2 /\ p + 1 \in 1 .. a
  BY <1>3, <1>4, <1>6
<1>9. p % 2 \in {0, 1} /\ p = 2 * q + (p % 2)
  BY <1>3
<1>10. CASE p % 2 = 0 /\ p + 1 < a
  <2>1. sibling(F[l], p) = F[l][p + 2] /\ p + 2 \in 1 .. a
    <3>1. p + 1 + 1 = p + 2
      BY <1>3
    <3> QED BY <1>3, <1>5, <1>10, <3>1 DEF sibling
  <2>2. 2 * (q + 1) =< a /\ 2 * (q + 1) - 1 = p + 1 /\ 2 * (q + 1) = p + 2
    BY <1>3, <1>4, <1>9, <1>10
  <2>3. F[l + 1][q + 1] = hash_3(F[l][p + 1], F[l][p + 2], l)
    BY <1>6, <1>8, <2>2
  <2>4. ascend(F[l][p + 1], p % 2, F[l][p + 2], l) = hash_3(F[l][p + 1], F[l][p + 2], l)
    BY <1>7, <1>8, <1>10, <2>1 DEF ascend
  <2> QED BY <1>4, <1>9, <2>1, <2>3, <2>4 DEF F, p, q
<1>11. CASE p % 2 = 0 /\ ~(p + 1 < a)
  <2>1. sibling(F[l], p) = Zero
    BY <1>5, <1>11 DEF sibling
  <2>2. ~(2 * (q + 1) =< a) /\ 2 * (q + 1) - 1 = p + 1
    BY <1>3, <1>4, <1>9, <1>11
  <2>3. F[l + 1][q + 1] = F[l][p + 1]
    BY <1>6, <1>8, <2>2
  <2>4. ascend(F[l][p + 1], p % 2, Zero, l) = F[l][p + 1]
    BY <1>7, <1>8, <1>11 DEF ascend
  <2> QED BY <1>9, <2>1, <2>3, <2>4 DEF F, p, q
<1>12. CASE p % 2 = 1
  <2>1. sibling(F[l], p) = F[l][p] /\ p \in 1 .. a
    <3>1. p - 1 + 1 = p /\ p - 1 < a /\ p \in 1 .. a
      BY <1>3, <1>4, <1>12
    <3> QED BY <1>5, <1>12, <3>1 DEF sibling
  <2>2. 2 * (q + 1) =< a /\ 2 * (q + 1) - 1 = p /\ 2 * (q + 1) = p + 1
    BY <1>3, <1>4, <1>9, <1>12
  <2>3. F[l + 1][q + 1] = hash_3(F[l][p], F[l][p + 1], l)
    BY <1>6, <1>8, <2>2
  <2>4. ascend(F[l][p + 1], p % 2, F[l][p], l) = hash_3(F[l][p], F[l][p + 1], l)
    BY <1>7, <1>8, <1>12, <2>1 DEF ascend
  <2> QED BY <1>4, <1>9, <2>1, <2>3, <2>4 DEF F, p, q
<1> QED BY <1>9, <1>10, <1>11, <1>12

\* And only there: whatever sibling is given, who comes out at node k of the next
\* level came from the child of k that the bit names, and that child exists.
LEMMA AscendInto ==
    ASSUME HashesApart, NEW s \in Seq(TreeLeaf), NEW l \in Level, NEW x, Under(x, l),
           NEW bit \in {0, 1}, NEW sib, NEW k \in DOMAIN fullTree(s)[l + 1],
           ascend(x, bit, sib, l) = fullTree(s)[l + 1][k]
    PROVE  2 * k - 1 + bit \in DOMAIN fullTree(s)[l] /\ x = fullTree(s)[l][2 * k - 1 + bit]
<1> DEFINE F == fullTree(s)
           a == Len(F[l])
<1>1. IsSequence(s)
  BY SeqIsSequence
<1>2. F[l + 1] = above(F[l], l) /\ IsSequence(F[l])
  BY <1>1, FullTree, LevelsIn
<1>3. a \in Nat /\ DOMAIN F[l] = 1 .. a
  BY <1>2, Appended
<1>4. l \in Nat
  BY LevelsIn
<1> HIDE DEF a
<1>5. a = Len(F[l])
  BY DEF a
<1>6. /\ DOMAIN F[l + 1] = 1 .. (a + 1) \div 2
      /\ \A n \in 1 .. (a + 1) \div 2 :
           F[l + 1][n] = IF 2 * n =< a THEN hash_3(F[l][2 * n - 1], F[l][2 * n], l)
                                       ELSE F[l][2 * n - 1]
  <2>1. Len(F[l]) = a /\ (Len(F[l]) + 1) \div 2 = (a + 1) \div 2
    BY <1>5
  <2> HIDE DEF F
  <2> QED BY <1>2, <2>1, NextLevel, SMTT(30)
<1>7. F[l + 1][k] # Failed
  BY ProperNodes, LevelsIn
<1>8. \A n \in 1 .. a : Under(F[l][n], l)
  BY <1>3, ProperNodes, LevelsIn
<1>9. k \in DOMAIN F[l + 1] /\ ascend(x, bit, sib, l) = F[l + 1][k]
  OBVIOUS
<1> HIDE DEF F
<1>10. k \in Nat /\ 2 * k - 1 \in 1 .. a /\ (2 * k =< a => 2 * k \in 1 .. a)
  BY <1>3, <1>6, <1>9
<1>11. F[l + 1][k] = IF 2 * k =< a THEN hash_3(F[l][2 * k - 1], F[l][2 * k], l)
                                   ELSE F[l][2 * k - 1]
  BY <1>6, <1>9
<1>12. x # Failed
  BY <1>7, <1>9 DEF ascend
<1>13. CASE sib = Zero
  <2>1. bit = 0 /\ x = F[l + 1][k]
    BY <1>7, <1>9, <1>12, <1>13 DEF ascend
  <2>2. ~(2 * k =< a)
    <3> SUFFICES ASSUME 2 * k =< a PROVE FALSE
      OBVIOUS
    <3>1. x = hash_3(F[l][2 * k - 1], F[l][2 * k], l)
      BY <1>11, <2>1
    <3>2. l >= l
      BY <1>4
    <3> QED BY <1>4, <3>1, <3>2 DEF Under
  <2>3. 2 * k - 1 + bit = 2 * k - 1
    BY <1>10, <2>1
  <2> QED BY <1>3, <1>10, <1>11, <2>1, <2>2, <2>3 DEF F
<1>14. CASE sib # Zero
  <2>1. \E c, d : F[l + 1][k] = hash_3(c, d, l)
    BY <1>9, <1>12, <1>14 DEF ascend
  <2>2. 2 * k =< a
    <3> SUFFICES ASSUME ~(2 * k =< a) PROVE FALSE
      OBVIOUS
    <3>1. Under(F[l + 1][k], l)
      BY <1>8, <1>10, <1>11
    <3>2. l >= l
      BY <1>4
    <3> QED BY <1>4, <2>1, <3>1, <3>2 DEF Under
  <2>3. F[l + 1][k] = hash_3(F[l][2 * k - 1], F[l][2 * k], l)
    BY <1>11, <2>2
  <2>4. CASE bit = 0
    <3>1. F[l + 1][k] = hash_3(x, sib, l)
      BY <1>9, <1>12, <1>14, <2>4 DEF ascend
    <3>2. hash_3(x, sib, l) = hash_3(F[l][2 * k - 1], F[l][2 * k], l)
      BY <2>3, <3>1
    <3>3. x = F[l][2 * k - 1]
      BY <3>2 DEF hash_3
    <3>4. 2 * k - 1 + bit = 2 * k - 1
      BY <1>10, <2>4
    <3> QED BY <1>3, <1>10, <3>3, <3>4 DEF F
  <2>5. CASE bit = 1
    <3>1. F[l + 1][k] = hash_3(sib, x, l)
      BY <1>9, <1>12, <1>14, <2>5 DEF ascend
    <3>2. hash_3(sib, x, l) = hash_3(F[l][2 * k - 1], F[l][2 * k], l)
      BY <2>3, <3>1
    <3>3. x = F[l][2 * k]
      BY <3>2 DEF hash_3
    <3>4. 2 * k - 1 + bit = 2 * k
      BY <1>10, <2>5
    <3> QED BY <1>3, <1>10, <2>2, <3>3, <3>4 DEF F
  <2> QED BY <2>4, <2>5
<1> QED BY <1>13, <1>14

\* What a round makes was made below the next level.
LEMMA AscendUnder ==
    ASSUME NEW l \in Level, NEW x, Under(x, l), NEW bit \in {0, 1}, NEW sib
    PROVE  Under(ascend(x, bit, sib, l), l + 1)
<1>1. l \in Nat
  BY LevelsIn
<1> SUFFICES ASSUME NEW c, NEW d, NEW m \in Nat, m >= l + 1,
                    ascend(x, bit, sib, l) = hash_3(c, d, m)
             PROVE  FALSE
  BY DEF Under
<1>2. m >= l /\ m # l
  BY <1>1
<1>3. x # hash_3(c, d, m)
  BY <1>2 DEF Under
<1>4. PICK e, f : ascend(x, bit, sib, l) = hash_3(e, f, l)
  BY <1>3, HashNotFailed DEF ascend
<1>5. hash_3(e, f, l) = hash_3(c, d, m)
  BY <1>4
<1>6. l = m
  BY <1>5 DEF hash_3
<1> QED BY <1>2, <1>6

\* Every leaf opens, at its own index, with the siblings of its path.
LEMMA CircuitAccepts ==
    ASSUME HashesApart, NEW s \in Seq(TreeLeaf), Len(s) =< 2^TREE_DEPTH, NEW i \in Nat, i < Len(s),
           NEW path, path = [l \in Level |-> sibling(fullTree(s)[l], position(i, l))]
    PROVE  lean_imt_inclusion_proof(s[i + 1], i, path) = fullTree(s)[TREE_DEPTH][1]
<1> DEFINE F == fullTree(s)
<1>1. PICK f : /\ f[0] = s[i + 1]
               /\ \A l \in Level : f[l + 1] = ascend(f[l], position(i, l) % 2, path[l], l)
               /\ lean_imt_inclusion_proof(s[i + 1], i, path) = f[TREE_DEPTH]
  <2>1. PICK x : x = s[i + 1]
    OBVIOUS
  <2>2. PICK f : /\ f[0] = x
                 /\ \A l \in Level : f[l + 1] = ascend(f[l], position(i, l) % 2, path[l], l)
                 /\ lean_imt_inclusion_proof(x, i, path) = f[TREE_DEPTH]
    BY ProofRounds
  <2> QED BY <2>1, <2>2
<1>2. F[0] = s
  <2>1. IsSequence(s)
    BY SeqIsSequence
  <2> QED BY <2>1, FullTree
<1>3. \A l \in Level :
         ascend(F[l][position(i, l) + 1], position(i, l) % 2, path[l], l)
           = F[l + 1][position(i, l + 1) + 1]
  BY PathUp
<1>4. position(i, 0) = i /\ position(i, TREE_DEPTH) = 0
  <2>1. Len(s) \in Nat /\ 2^TREE_DEPTH \in Nat
    BY Powers, LevelsIn
  <2>2. i < 2^TREE_DEPTH
    BY <2>1
  <2> QED BY <2>2, TopPosition, LevelPositions
<1> HIDE DEF F
<1> DEFINE Good == {l \in 0 .. TREE_DEPTH : f[l] = F[l][position(i, l) + 1]}
<1>5. 0 \in Good
  BY <1>1, <1>2, <1>4, LevelsIn
<1>6. ASSUME NEW l \in Level, l \in Good PROVE l + 1 \in Good
  BY <1>1, <1>3, <1>6, LevelsIn
<1> HIDE DEF Good
<1>7. \A l \in 0 .. TREE_DEPTH : l \in Good
  BY <1>5, <1>6, LevelInduction
<1>8. f[TREE_DEPTH] = F[TREE_DEPTH][position(i, TREE_DEPTH) + 1]
  BY <1>7, LevelsIn DEF Good
<1>9. position(i, TREE_DEPTH) + 1 = 1
  BY <1>4
<1> QED BY <1>1, <1>8, <1>9 DEF F

\* Nothing else does: whatever siblings a prover makes up, a proof that ends in
\* the root began with the leaf at that index.
LEMMA CircuitSound ==
    ASSUME HashesApart, NEW s \in Seq(TreeLeaf), Len(s) > 0, Len(s) =< 2^TREE_DEPTH,
           NEW leaf \in TreeLeaf, NEW i \in Nat, i < 2^TREE_DEPTH, NEW siblings,
           lean_imt_inclusion_proof(leaf, i, siblings) = fullTree(s)[TREE_DEPTH][1]
    PROVE  i < Len(s) /\ leaf = s[i + 1]
<1> DEFINE F == fullTree(s)
<1>1. PICK f : /\ f[0] = leaf
               /\ \A l \in Level : f[l + 1] = ascend(f[l], position(i, l) % 2, siblings[l], l)
               /\ lean_imt_inclusion_proof(leaf, i, siblings) = f[TREE_DEPTH]
  BY ProofRounds
<1>2. /\ \A l \in 0 .. TREE_DEPTH : position(i, l) \in Nat
      /\ position(i, 0) = i /\ position(i, TREE_DEPTH) = 0
      /\ \A l \in Level : position(i, l + 1) = position(i, l) \div 2
  BY TopPosition, LevelPositions
<1>3. F[0] = s /\ DOMAIN F[TREE_DEPTH] = 1 .. 1 /\ DOMAIN s = 1 .. Len(s) /\ Len(s) \in Nat
  <2>1. IsSequence(s) /\ Len(s) \in Nat /\ DOMAIN s = 1 .. Len(s)
    BY SeqIsSequence
  <2>2. 0 \in Nat /\ 0 < Len(s)
    BY <2>1
  <2>3. Len(F[TREE_DEPTH]) = 1 /\ DOMAIN F[TREE_DEPTH] = 1 .. Len(F[TREE_DEPTH])
    BY <2>1, <2>2, LevelLengths, LevelsIn
  <2>4. F[0] = s
    BY <2>1, FullTree
  <2> QED BY <2>1, <2>3, <2>4
<1>4. \A l \in 0 .. TREE_DEPTH : Under(f[l], l)
  <2> DEFINE Good == {l \in 0 .. TREE_DEPTH : Under(f[l], l)}
  <2>1. 0 \in Good
    BY <1>1, LevelsIn DEF Under, HashesApart
  <2>2. ASSUME NEW l \in Level, l \in Good PROVE l + 1 \in Good
    <3>1. position(i, l) % 2 \in {0, 1}
      <4>1. position(i, l) \in Nat
        BY <1>2, LevelsIn
      <4> QED BY ONLY <4>1
    <3>2. Under(ascend(f[l], position(i, l) % 2, siblings[l], l), l + 1)
      BY <2>2, <3>1, AscendUnder
    <3> QED BY <1>1, <3>2, LevelsIn
  <2> HIDE DEF Good
  <2>3. \A l \in 0 .. TREE_DEPTH : l \in Good
    BY <2>1, <2>2, LevelInduction
  <2> QED BY <2>3 DEF Good
<1>5. ASSUME NEW l \in Level,
             position(i, l + 1) + 1 \in DOMAIN F[l + 1], f[l + 1] = F[l + 1][position(i, l + 1) + 1]
      PROVE  position(i, l) + 1 \in DOMAIN F[l] /\ f[l] = F[l][position(i, l) + 1]
  <2> DEFINE bit == position(i, l) % 2
             k == position(i, l + 1) + 1
  <2>1. bit \in {0, 1} /\ 2 * k - 1 + bit = position(i, l) + 1
    <3> DEFINE p == position(i, l)
               q == position(i, l + 1)
    <3>1. p \in Nat /\ q = p \div 2
      BY <1>2, LevelsIn
    <3> HIDE DEF p, q
    <3>2. p % 2 \in {0, 1} /\ 2 * (q + 1) - 1 + (p % 2) = p + 1
      BY <3>1
    <3> QED BY <3>2 DEF p, q
  <2>2. ascend(f[l], bit, siblings[l], l) = F[l + 1][k] /\ k \in DOMAIN F[l + 1]
    BY <1>1, <1>5
  <2>3. Under(f[l], l)
    BY <1>4, LevelsIn
  <2> HIDE DEF bit, k
  <2>4. 2 * k - 1 + bit \in DOMAIN F[l] /\ f[l] = F[l][2 * k - 1 + bit]
    BY <2>1, <2>2, <2>3, AscendInto
  <2> QED BY <2>1, <2>4
<1> HIDE DEF F
<1> DEFINE Meets(l) == position(i, l) + 1 \in DOMAIN F[l] /\ f[l] = F[l][position(i, l) + 1]
           Good == {m \in 0 .. TREE_DEPTH : Meets(TREE_DEPTH - m)}
<1>6. Meets(TREE_DEPTH)
  <2>1. position(i, TREE_DEPTH) + 1 = 1 /\ f[TREE_DEPTH] = F[TREE_DEPTH][1]
    BY <1>1, <1>2 DEF F
  <2> QED BY <1>3, <2>1
<1>7. 0 \in Good
  <2> HIDE DEF Meets
  <2>1. TREE_DEPTH - 0 = TREE_DEPTH
    BY LevelsIn
  <2> QED BY <1>6, <2>1, LevelsIn
<1>8. ASSUME NEW m \in Level, m \in Good PROVE m + 1 \in Good
  <2> DEFINE l == TREE_DEPTH - (m + 1)
  <2>1. l \in Level /\ l + 1 = TREE_DEPTH - m /\ m + 1 \in 0 .. TREE_DEPTH
    BY TreeAssumption DEF Level
  <2>2. Meets(l + 1)
    BY <1>8, <2>1
  <2> HIDE DEF l
  <2>3. Meets(l)
    BY <1>5, <2>1, <2>2
  <2> QED BY <2>1, <2>3 DEF l
<1>9. Meets(0)
  <2> HIDE DEF Meets
  <2>1. 0 \in Good /\ \A l \in Level : l \in Good => l + 1 \in Good
    BY <1>7, <1>8
  <2> HIDE DEF Good
  <2>2. TREE_DEPTH \in Good
    BY <2>1, LevelInduction, LevelsIn
  <2>3. TREE_DEPTH - TREE_DEPTH = 0
    BY LevelsIn
  <2> QED BY <2>2, <2>3 DEF Good
<1> QED BY <1>1, <1>2, <1>3, <1>9

\* A round on one pair is among the rounds on all.
LEMMA AscendAllHas ==
    ASSUME NEW pairs, NEW l, NEW r \in pairs, NEW bit \in {0, 1}, NEW sib \in Nodes \cup {Zero},
           NEW u, u = <<r[1], ascend(r[2], bit, sib, l), r[3] + bit * 2^l>>, u[2] \in Nodes
    PROVE  u \in ascendAll(pairs, l)
<1> DEFINE All == {<<p[1], ascend(p[2], b, z, l), p[3] + b * 2^l>> :
                     p \in pairs, b \in {0, 1}, z \in Nodes \cup {Zero}}
<1>1. u \in All
  OBVIOUS
<1>2. ascendAll(pairs, l) = {q \in All : q[2] \in Nodes}
  BY DEF ascendAll
<1> HIDE DEF All
<1> QED BY <1>1, <1>2

\* All openings at once: those of the leaves and no others.
LEMMA OpensExactly ==
    ASSUME HashesApart, leaves \in Seq(TreeLeaf), Len(leaves) > 0, Len(leaves) =< 2^TREE_DEPTH,
           latestRoot = fullTree(leaves)[TREE_DEPTH][1]
    PROVE  RootOpensItsLeavesOnly
<1> DEFINE F == fullTree(leaves)
           R(l) == DOMAIN F[l]
<1>1. PICK f : /\ f[0] = Starts
               /\ \A l \in Level : f[l + 1] = ascendAll(f[l], l)
               /\ Opened = Ends(f[TREE_DEPTH])
  BY OpenRounds
<1>2. /\ IsSequence(leaves) /\ Len(leaves) \in Nat /\ DOMAIN leaves = 1 .. Len(leaves)
      /\ \A k \in 1 .. Len(leaves) : leaves[k] \in TreeLeaf
  BY SeqIsSequence
<1>3. /\ F[0] = leaves /\ DOMAIN F[TREE_DEPTH] = 1 .. 1
      /\ \A l \in 0 .. TREE_DEPTH : Len(F[l]) \in Nat /\ DOMAIN F[l] = 1 .. Len(F[l])
  <2>1. 0 \in Nat /\ 0 < Len(leaves)
    BY <1>2
  <2>2. F[0] = leaves
    BY <1>2, FullTree
  <2>3. /\ \A l \in 0 .. TREE_DEPTH : Len(F[l]) \in Nat /\ DOMAIN F[l] = 1 .. Len(F[l])
        /\ Len(F[TREE_DEPTH]) = 1
    BY <1>2, <2>1, LevelLengths
  <2> QED BY <2>2, <2>3, LevelsIn
<1>4. \A l \in 0 .. TREE_DEPTH : \A k \in DOMAIN F[l] : F[l][k] \in Nodes
  BY DEF Nodes, Range
<1>5. \A l \in 0 .. TREE_DEPTH : 2^l \in Nat \ {0}
  BY Powers
<1>6. 2^0 = 1 /\ \A l \in Level : 2^(l + 1) = 2 * 2^l
  BY PowersAssumption
<1> HIDE DEF F
<1> DEFINE True(l, p) ==
      /\ p[1] \in TreeLeaf /\ p[3] \in Nat /\ Under(p[2], l)
      /\ \A k \in DOMAIN F[l] :
           p[2] = F[l][k] => /\ (k - 1) * 2^l + p[3] + 1 \in DOMAIN leaves
                             /\ p[1] = leaves[(k - 1) * 2^l + p[3] + 1]
<1>7. \A l \in 0 .. TREE_DEPTH : \A p \in f[l] : True(l, p)
  <2> DEFINE Good == {l \in 0 .. TREE_DEPTH : \A p \in f[l] : True(l, p)}
  <2>1. 0 \in Good
    <3> SUFFICES ASSUME NEW leaf \in TreeLeaf PROVE True(0, <<leaf, leaf, 0>>)
      BY <1>1, LevelsIn DEF Starts, TreeLeaf
    <3>1. Under(leaf, 0)
      BY DEF Under, HashesApart
    <3>2. ASSUME NEW k \in DOMAIN F[0], leaf = F[0][k]
          PROVE  (k - 1) * 2^0 + 0 + 1 \in DOMAIN leaves /\ leaf = leaves[(k - 1) * 2^0 + 0 + 1]
      <4>1. (k - 1) * 2^0 + 0 + 1 = k
        BY <1>2, <1>3, <1>6, <3>2
      <4> QED BY <1>3, <3>2, <4>1
    <3> QED BY <3>1, <3>2
  <2>2. ASSUME NEW l \in Level, l \in Good PROVE l + 1 \in Good
    <3> SUFFICES ASSUME NEW q \in ascendAll(f[l], l) PROVE True(l + 1, q)
      BY <1>1, LevelsIn
    <3>1. PICK p \in f[l], bit \in {0, 1}, sib \in Nodes \cup {Zero} :
             q = <<p[1], ascend(p[2], bit, sib, l), p[3] + bit * 2^l>>
      BY DEF ascendAll
    <3> DEFINE d == 2^l
    <3>2. d \in Nat \ {0} /\ 2^(l + 1) = 2 * d
      BY <1>5, <1>6, LevelsIn
    <3>3. True(l, p)
      BY <2>2
    <3>4. q[1] = p[1] /\ q[2] = ascend(p[2], bit, sib, l) /\ q[3] = p[3] + bit * d
      BY <3>1
    <3> HIDE DEF d
    <3>5. q[1] \in TreeLeaf /\ q[3] \in Nat /\ Under(q[2], l + 1)
      <4>1. Under(ascend(p[2], bit, sib, l), l + 1)
        BY <3>3, AscendUnder
      <4>2. bit * d \in Nat
        BY <3>2
      <4> QED BY <3>3, <3>4, <4>1, <4>2
    <3>6. ASSUME NEW k \in DOMAIN F[l + 1], q[2] = F[l + 1][k]
          PROVE  /\ (k - 1) * 2^(l + 1) + q[3] + 1 \in DOMAIN leaves
                 /\ q[1] = leaves[(k - 1) * 2^(l + 1) + q[3] + 1]
      <4> DEFINE n == 2 * k - 1 + bit
      <4>1. n \in DOMAIN F[l] /\ p[2] = F[l][n]
        <5> DEFINE x == p[2]
        <5>1. Under(x, l)
          BY <3>3
        <5>2. k \in DOMAIN fullTree(leaves)[l + 1] /\ ascend(x, bit, sib, l) = fullTree(leaves)[l + 1][k]
          BY <3>4, <3>6 DEF F
        <5> HIDE DEF x, True
        <5>3. 2 * k - 1 + bit \in DOMAIN fullTree(leaves)[l] /\ x = fullTree(leaves)[l][2 * k - 1 + bit]
          BY <5>1, <5>2, AscendInto
        <5> QED BY <5>3 DEF F, x
      <4>2. k \in Nat /\ n - 1 = 2 * (k - 1) + bit
        <5>1. k \in Nat
          BY <1>3, LevelsIn
        <5>2. bit \in Int
          BY <3>2
        <5> QED BY ONLY <5>1, <5>2
      <4>3. (n - 1) * d + p[3] + 1 \in DOMAIN leaves /\ p[1] = leaves[(n - 1) * d + p[3] + 1]
        BY <3>3, <4>1 DEF d
      <4> HIDE DEF n
      <4>4. (n - 1) * d + p[3] + 1 = (k - 1) * (2 * d) + (p[3] + bit * d) + 1
        <5> DEFINE j == k - 1
        <5>1. j \in Int /\ n - 1 = 2 * j + bit /\ p[3] \in Nat
          BY <3>3, <4>2
        <5> HIDE DEF j
        <5>2. (2 * j + bit) * d = j * (2 * d) + bit * d
          BY <3>2, <5>1
        <5>3. j * (2 * d) \in Int /\ bit * d \in Int
          BY <3>2, <5>1
        <5> QED BY <5>1, <5>2, <5>3 DEF j
      <4> QED BY <3>2, <3>4, <4>3, <4>4
    <3> QED BY <3>5, <3>6
  <2> HIDE DEF Good
  <2>3. \A l \in 0 .. TREE_DEPTH : l \in Good
    BY <2>1, <2>2, LevelInduction
  <2> QED BY <2>3 DEF Good
<1>8. ASSUME NEW i \in 0 .. Len(leaves) - 1 PROVE <<leaves[i + 1], i>> \in Opened
  <2> DEFINE Pair(l) == <<leaves[i + 1], F[l][position(i, l) + 1], i - position(i, l) * 2^l>>
             Good == {l \in 0 .. TREE_DEPTH : Pair(l) \in f[l]}
  <2>1. i \in Nat /\ i < Len(leaves) /\ i + 1 \in 1 .. Len(leaves) /\ i < 2^TREE_DEPTH
    BY <1>2, <1>5, LevelsIn
  <2>2. /\ \A l \in 0 .. TREE_DEPTH : position(i, l) \in Nat
        /\ position(i, 0) = i /\ position(i, TREE_DEPTH) = 0
    BY <2>1, TopPosition, LevelPositions
  <2>3. 0 \in Good
    <3>1. Pair(0) = <<leaves[i + 1], leaves[i + 1], 0>>
      <4>1. i - i * 1 = 0
        BY <2>1
      <4> QED BY <1>3, <1>6, <2>2, <4>1
    <3> QED BY <1>1, <1>2, <2>1, <3>1, LevelsIn DEF Starts, TreeLeaf
  <2>4. ASSUME NEW l \in Level, l \in Good PROVE l + 1 \in Good
    <3> DEFINE p == position(i, l)
               q == position(i, l + 1)
               bit == p % 2
               sib == sibling(F[l], p)
               d == 2^l
    <3>1. /\ ascend(F[l][p + 1], bit, sib, l) = F[l + 1][q + 1]
          /\ sib = Zero \/ \E k \in DOMAIN F[l] : sib = F[l][k]
          /\ bit \in {0, 1} /\ p = 2 * q + bit
      BY <2>1, PathUp DEF F
    <3>2. p \in Nat /\ q \in Nat /\ d \in Nat \ {0} /\ 2^(l + 1) = 2 * d
      BY <1>5, <1>6, <2>2, LevelsIn
    <3>3. sib \in Nodes \cup {Zero}
      BY <1>4, <3>1, LevelsIn
    <3>4. F[l + 1][q + 1] \in Nodes
      <4>1. q < Len(F[l + 1])
        BY <1>2, <2>1, LevelLengths, LevelsIn DEF F
      <4>2. Len(F[l + 1]) \in Nat /\ DOMAIN F[l + 1] = 1 .. Len(F[l + 1])
        BY <1>3, LevelsIn
      <4> HIDE DEF q
      <4>3. q + 1 \in DOMAIN F[l + 1]
        BY <3>2, <4>1, <4>2
      <4> QED BY <1>4, <4>3, LevelsIn
    <3>5. Pair(l) \in f[l] /\ Pair(l) = <<leaves[i + 1], F[l][p + 1], i - p * d>>
      BY <2>4
    <3> HIDE DEF p, q, bit, sib, d
    <3>6. (i - p * d) + bit * d = i - q * (2 * d)
      <4>1. (2 * q + bit) * d = q * (2 * d) + bit * d
        BY <3>1, <3>2
      <4>2. q * (2 * d) \in Int /\ bit * d \in Int
        BY <3>1, <3>2
      <4> QED BY <2>1, <3>1, <4>1, <4>2
    <3>7. <<leaves[i + 1], F[l + 1][q + 1], i - q * (2 * d)>> \in ascendAll(f[l], l)
      <4> DEFINE t == <<leaves[i + 1], F[l][p + 1], i - p * d>>
                 u == <<t[1], ascend(t[2], bit, sib, l), t[3] + bit * 2^l>>
      <4>1. t \in f[l]
        BY <3>5
      <4>2. t[1] = leaves[i + 1] /\ t[2] = F[l][p + 1] /\ t[3] = i - p * d
        OBVIOUS
      <4>3. u = <<leaves[i + 1], F[l + 1][q + 1], i - q * (2 * d)>>
        BY <3>1, <3>6, <4>2 DEF d
      <4>4. u[2] \in Nodes
        BY <3>4, <4>3
      <4> HIDE DEF t
      <4>5. u \in ascendAll(f[l], l)
        BY <3>1, <3>3, <4>1, <4>4, AscendAllHas
      <4> QED BY <4>3, <4>5
    <3> QED BY <1>1, <3>2, <3>7, LevelsIn DEF q
  <2> HIDE DEF Good
  <2>5. \A l \in 0 .. TREE_DEPTH : l \in Good
    BY <2>3, <2>4, LevelInduction
  <2>6. Pair(TREE_DEPTH) \in f[TREE_DEPTH]
    BY <2>5, LevelsIn DEF Good
  <2>7. Pair(TREE_DEPTH) = <<leaves[i + 1], latestRoot, i>>
    <3>1. i - 0 * 2^TREE_DEPTH = i /\ 0 + 1 = 1
      BY <1>5, <2>1, LevelsIn
    <3> QED BY <2>2, <3>1 DEF F
  <2> QED BY <1>1, <2>6, <2>7 DEF Ends
<1>9. ASSUME NEW o \in Opened PROVE \E i \in 0 .. Len(leaves) - 1 : o = <<leaves[i + 1], i>>
  <2>1. PICK p \in f[TREE_DEPTH] : p[2] = latestRoot /\ o = <<p[1], p[3]>>
    BY <1>1 DEF Ends
  <2>2. True(TREE_DEPTH, p)
    BY <1>7, LevelsIn
  <2>3. 1 \in DOMAIN F[TREE_DEPTH] /\ p[2] = F[TREE_DEPTH][1]
    BY <1>3, <2>1 DEF F
  <2>4. (1 - 1) * 2^TREE_DEPTH + p[3] + 1 = p[3] + 1
    <3>1. (1 - 1) * 2^TREE_DEPTH = 0
      BY <1>5, LevelsIn
    <3> QED BY <2>2, <3>1
  <2>5. p[3] + 1 \in DOMAIN leaves /\ p[1] = leaves[p[3] + 1] /\ p[3] \in Nat
    BY <2>2, <2>3, <2>4
  <2>6. p[3] \in 0 .. Len(leaves) - 1
    BY <1>2, <2>5
  <2> QED BY <2>1, <2>5, <2>6
<1>10. Opened = {<<leaves[i + 1], i>> : i \in 0 .. Len(leaves) - 1}
  BY <1>8, <1>9
<1> QED BY <1>10 DEF RootOpensItsLeavesOnly, nextLeafIndex

-----------------------------------------------------------------------------
(***************************************************************************)
(* The contract's frontier                                                 *)
(***************************************************************************)

\* Where an odd position is next, its left sibling waits.
Frontier(side, s) ==
    /\ side = [l \in Level |-> side[l]]
    /\ \A l \in Level :
         position(Len(s), l) % 2 = 1 => side[l] = fullTree(s)[l][position(Len(s), l)]

\* The next position is this one or the one after it, on every level.
LEMMA NextPosition ==
    ASSUME NEW n \in Nat
    PROVE  \A l \in 0 .. TREE_DEPTH : position(n + 1, l) \in {position(n, l), position(n, l) + 1}
<1> DEFINE P(l) == position(n, l)
           Q(l) == position(n + 1, l)
           Good == {l \in 0 .. TREE_DEPTH : Q(l) \in {P(l), P(l) + 1}}
<1>1. /\ \A l \in 0 .. TREE_DEPTH : P(l) \in Nat
      /\ P(0) = n /\ \A l \in Level : P(l + 1) = P(l) \div 2
  BY LevelPositions
<1>2. Q(0) = n + 1 /\ \A l \in Level : Q(l + 1) = Q(l) \div 2
  <2>1. n + 1 \in Nat
    OBVIOUS
  <2> QED BY <2>1, LevelPositions
<1> HIDE DEF P, Q
<1>3. 0 \in Good
  BY <1>1, <1>2, LevelsIn
<1>4. ASSUME NEW l \in Level, l \in Good PROVE l + 1 \in Good
  <2>1. P(l) \in Nat /\ Q(l) \in {P(l), P(l) + 1}
    BY <1>1, <1>4, LevelsIn
  <2>2. Q(l) \div 2 \in {P(l) \div 2, P(l) \div 2 + 1}
    BY <2>1
  <2> QED BY <1>1, <1>2, <2>2, LevelsIn
<1> HIDE DEF Good
<1>5. \A l \in 0 .. TREE_DEPTH : l \in Good
  BY <1>3, <1>4, LevelInduction
<1> QED BY <1>5 DEF Good, P, Q

\* The loop of insert turns the frontier of the leaves into the frontier of the
\* leaves and one more, and ends with the root of the full tree.
LEMMA ClimbsToRoot ==
    ASSUME NEW s, IsSequence(s), NEW x, NEW side, Frontier(side, s), Len(s) < 2^TREE_DEPTH
    PROVE  /\ climb(side, x, Len(s)).node = fullTree(Append(s, x))[TREE_DEPTH][1]
           /\ Frontier(climb(side, x, Len(s)).side, Append(s, x))
<1> DEFINE n == Len(s)
           F == fullTree(s)
           G == fullTree(Append(s, x))
           P(l) == position(n, l)
           Q(l) == position(n + 1, l)
           N(l) == G[l][P(l) + 1]
<1>1. n \in Nat /\ Len(Append(s, x)) = n + 1
  <2>1. n \in Nat /\ IsSequence(Append(s, x)) /\ DOMAIN Append(s, x) = 1 .. n + 1
    BY Appended
  <2>2. DOMAIN Append(s, x) = 1 .. Len(Append(s, x)) /\ Len(Append(s, x)) \in Nat
    <3> DEFINE t == Append(s, x)
    <3> HIDE DEF t
    <3>1. IsSequence(t)
      BY <2>1 DEF t
    <3>2. DOMAIN t = 1 .. Len(t) /\ Len(t) \in Nat
      BY <3>1, Appended
    <3> QED BY <3>2 DEF t
  <2> HIDE DEF n
  <2> QED BY <2>1, <2>2
<1>2. PICK f : /\ f[0] = [node |-> x, side |-> side, done |-> FALSE]
               /\ \A l \in Level : f[l + 1] = climbLevel(f[l], P(l), l)
               /\ climb(side, x, n) = f[TREE_DEPTH]
  BY ClimbRounds
<1>3. /\ \A l \in 0 .. TREE_DEPTH : P(l) \in Nat /\ \A k \in 1 .. P(l) : G[l][k] = F[l][k]
      /\ N(0) = x
      /\ \A l \in Level : N(l + 1) = IF P(l) % 2 = 0 THEN N(l)
                                     ELSE hash_3(F[l][P(l)], N(l), l)
  BY AppendedTree
<1>4. /\ \A l \in Level : P(l + 1) = P(l) \div 2 /\ Q(l + 1) = Q(l) \div 2
      /\ \A l \in 0 .. TREE_DEPTH : Q(l) \in {P(l), P(l) + 1}
      /\ P(TREE_DEPTH) = 0
  <2> HIDE DEF n
  <2>1. n + 1 \in Nat /\ n < 2^TREE_DEPTH
    BY <1>1 DEF n
  <2> QED BY <1>1, <2>1, LevelPositions, NextPosition, TopPosition
<1>5. \A l \in Level : P(l) % 2 = 1 => side[l] = F[l][P(l)]
  BY DEF Frontier
<1>6. side = [l \in Level |-> side[l]]
  BY DEF Frontier
<1> HIDE DEF n, F, G, P, Q, N
<1> DEFINE Sided(l, b) ==
             /\ b = [m \in Level |-> b[m]]
             /\ \A m \in Level : m >= l => b[m] = side[m]
             /\ \A m \in Level : m < l /\ Q(m) % 2 = 1 => b[m] = G[m][Q(m)]
           Stands(l, b, d) ==
             /\ f[l] = [node |-> N(l), side |-> b, done |-> d]
             /\ d => P(l) = 0 /\ Q(l) = 0
           Climbed(l) == \E b : \E d \in BOOLEAN : Sided(l, b) /\ Stands(l, b, d)
<1>7. Climbed(0)
  <2>1. Sided(0, side)
    BY <1>6, LevelsIn
  <2>2. Stands(0, side, FALSE)
    BY <1>2, <1>3
  <2> HIDE DEF Sided, Stands
  <2> QED BY <2>1, <2>2
<1>8. ASSUME NEW l \in Level, Climbed(l) PROVE Climbed(l + 1)
  <2>1. PICK b : \E d \in BOOLEAN : Sided(l, b) /\ Stands(l, b, d)
    <3> HIDE DEF Sided, Stands
    <3> QED BY <1>8
  <2>2. PICK d \in BOOLEAN : Sided(l, b) /\ Stands(l, b, d)
    <3> HIDE DEF Sided, Stands
    <3> QED BY <2>1
  <2> DEFINE p == P(l)
             q == Q(l)
  <2>3. p \in Nat /\ q \in {p, p + 1} /\ P(l + 1) = p \div 2 /\ Q(l + 1) = q \div 2
    BY <1>3, <1>4, LevelsIn
  <2>4. f[l + 1] = climbLevel(f[l], p, l)
    BY <1>2
  <2>5. f[l].node = N(l) /\ f[l].side = b /\ f[l].done = d
    BY <2>2
  <2>6. l \in Nat /\ \A m \in Level : m \in Nat
    BY LevelsIn
  <2>7. N(l + 1) = IF p % 2 = 0 THEN N(l) ELSE hash_3(F[l][p], N(l), l)
    BY <1>3
  <2> HIDE DEF p, q
  <2>8. CASE d
    <3>1. p = 0 /\ q = 0
      BY <2>2, <2>8 DEF p, q
    <3>2. f[l + 1] = f[l]
      BY <2>4, <2>5, <2>8 DEF climbLevel
    <3>3. N(l + 1) = N(l)
      BY <2>7, <3>1
    <3>4. P(l + 1) = 0 /\ Q(l + 1) = 0
      BY <2>3, <3>1
    <3>5. ASSUME NEW m \in Level, m < l + 1, Q(m) % 2 = 1 PROVE b[m] = G[m][Q(m)]
      <4>1. m # l
        BY <3>1, <3>5 DEF q
      <4>2. m < l
        BY <2>6, <3>5, <4>1
      <4> QED BY <2>2, <3>5, <4>2
    <3>6. Sided(l + 1, b)
      BY <2>2, <2>6, <3>5
    <3>7. Stands(l + 1, b, d)
      BY <2>2, <3>2, <3>3, <3>4
    <3> HIDE DEF Sided, Stands
    <3> QED BY <3>6, <3>7
  <2>9. CASE ~d /\ p % 2 = 0
    <3> DEFINE c == [b EXCEPT ![l] = N(l)]
               e == (p = 0)
    <3>1. f[l + 1] = [node |-> f[l].node, side |-> [f[l].side EXCEPT ![l] = f[l].node], done |-> (p = 0)]
      BY <2>4, <2>5, <2>9 DEF climbLevel
    <3>2. f[l + 1] = [node |-> N(l), side |-> c, done |-> e]
      BY <2>5, <3>1
    <3>3. N(l + 1) = N(l)
      BY <2>7, <2>9
    <3>4. e \in BOOLEAN /\ (e => P(l + 1) = 0 /\ Q(l + 1) = 0)
      BY <2>3
    <3>5. c[l] = N(l) /\ \A m \in Level : m # l => c[m] = b[m]
      BY <2>2
    <3>6. c = [m \in Level |-> c[m]]
      BY <2>2
    <3> HIDE DEF c, e
    <3>7. ASSUME NEW m \in Level, m < l + 1, Q(m) % 2 = 1 PROVE c[m] = G[m][Q(m)]
      <4>1. CASE m = l
        <5>1. q = p + 1
          BY <2>3, <2>9, <3>7, <4>1 DEF q
        <5> QED BY <3>5, <4>1, <5>1 DEF q, p, N
      <4>2. CASE m # l
        <5>1. m < l
          BY <2>6, <3>7, <4>2
        <5> QED BY <2>2, <3>5, <3>7, <4>2, <5>1
      <4> QED BY <4>1, <4>2
    <3>8. ASSUME NEW m \in Level, m >= l + 1 PROVE c[m] = side[m]
      <4>1. m >= l /\ m # l
        BY <2>6, <3>8
      <4> QED BY <2>2, <3>5, <4>1
    <3>9. Sided(l + 1, c)
      BY <3>6, <3>7, <3>8
    <3>10. Stands(l + 1, c, e)
      BY <3>2, <3>3, <3>4
    <3> HIDE DEF Sided, Stands
    <3> QED BY <3>4, <3>9, <3>10
  <2>10. CASE ~d /\ p % 2 = 1
    <3>1. f[l + 1] = [f[l] EXCEPT !.node = hash_3(b[l], N(l), l)]
      <4>1. p % 2 # 0
        BY <2>10
      <4> QED BY <2>4, <2>5, <2>10, <4>1 DEF climbLevel
    <3>2. b[l] = F[l][p]
      <4>1. b[l] = side[l]
        BY <2>2, <2>6
      <4> QED BY <1>5, <2>10, <4>1 DEF p
    <3>3. f[l + 1] = [node |-> N(l + 1), side |-> b, done |-> d]
      BY <2>2, <2>7, <2>10, <3>1, <3>2
    <3>4. ASSUME NEW m \in Level, m < l + 1, Q(m) % 2 = 1 PROVE b[m] = G[m][Q(m)]
      <4>1. CASE m = l
        <5>1. q = p /\ p \in 1 .. p
          BY <2>3, <2>10, <3>4, <4>1 DEF q
        <5>2. G[l][p] = F[l][p]
          BY <1>3, <5>1, LevelsIn DEF p
        <5> QED BY <3>2, <4>1, <5>1, <5>2 DEF q
      <4>2. CASE m # l
        <5>1. m < l
          BY <2>6, <3>4, <4>2
        <5> QED BY <2>2, <3>4, <5>1
      <4> QED BY <4>1, <4>2
    <3>5. Sided(l + 1, b)
      BY <2>2, <2>6, <3>4
    <3>6. Stands(l + 1, b, d)
      BY <2>10, <3>3
    <3> HIDE DEF Sided, Stands
    <3> QED BY <3>5, <3>6
  <2>11. p % 2 \in {0, 1}
    BY <2>3
  <2> HIDE DEF Climbed
  <2> QED BY <2>8, <2>9, <2>10, <2>11
<1>9. Climbed(TREE_DEPTH)
  <2> DEFINE Good == {l \in 0 .. TREE_DEPTH : Climbed(l)}
  <2> HIDE DEF Climbed
  <2>1. 0 \in Good /\ \A l \in Level : l \in Good => l + 1 \in Good
    BY <1>7, <1>8, LevelsIn
  <2> HIDE DEF Good
  <2>2. TREE_DEPTH \in Good
    BY <2>1, LevelInduction, LevelsIn
  <2> QED BY <2>2 DEF Good
<1>10. PICK b : \E d \in BOOLEAN : Sided(TREE_DEPTH, b) /\ Stands(TREE_DEPTH, b, d)
  <2> HIDE DEF Sided, Stands
  <2> QED BY <1>9
<1>11. climb(side, x, n).node = G[TREE_DEPTH][1] /\ climb(side, x, n).side = b
  BY <1>2, <1>4, <1>10 DEF N
<1>12. Frontier(b, Append(s, x))
  <2>1. \A l \in Level : l < TREE_DEPTH
    BY LevelsIn DEF Level
  <2> QED BY <1>1, <1>10, <2>1 DEF Frontier, Q, G
<1> QED BY <1>11, <1>12 DEF n, G

-----------------------------------------------------------------------------
(***************************************************************************)
(* The wallet's tree                                                       *)
(***************************************************************************)

\* Sequences with the same elements are the same.
LEMMA SameSequence ==
    ASSUME NEW a, NEW b, IsSequence(a), IsSequence(b), DOMAIN a = DOMAIN b,
           \A k \in DOMAIN a : a[k] = b[k]
    PROVE  a = b
<1>1. a = [k \in DOMAIN a |-> a[k]] /\ b = [k \in DOMAIN b |-> b[k]]
  BY DEF IsSequence
<1> QED BY <1>1, Zenon

\* A leaf more keeps a sequence of leaves one.
LEMMA MoreLeaves ==
    ASSUME NEW s \in Seq(TreeLeaf), NEW x \in TreeLeaf
    PROVE  /\ Append(s, x) \in Seq(TreeLeaf) /\ IsSequence(s) /\ IsSequence(Append(s, x))
           /\ Len(s) \in Nat /\ Len(Append(s, x)) = Len(s) + 1
<1>1. Append(s, x) \in Seq(TreeLeaf) /\ Len(s) \in Nat /\ Len(Append(s, x)) = Len(s) + 1
  OBVIOUS
<1> DEFINE t == Append(s, x)
<1> HIDE DEF t
<1>2. t \in Seq(TreeLeaf)
  BY <1>1 DEF t
<1> QED BY <1>1, <1>2, SeqIsSequence DEF t

\* The wallet's insert turns the full tree of the leaves it replayed into the
\* full tree of these and the next, whose root it takes over.
LEMMA InsertsNode ==
    ASSUME HashesApart, NEW s \in Seq(TreeLeaf), NEW x \in TreeLeaf, Len(s) < 2^TREE_DEPTH,
           levels = [l \in Level |-> fullTree(s)[l]], treeInsert(x)
    PROVE  /\ levels' = [l \in Level |-> fullTree(Append(s, x))[l]]
           /\ currentRoot' = fullTree(Append(s, x))[TREE_DEPTH][1]
<1> DEFINE n == Len(s)
           F == fullTree(s)
           G == fullTree(Append(s, x))
           P(l) == position(n, l)
           N(l) == G[l][P(l) + 1]
<1>1. /\ n \in Nat /\ IsSequence(s) /\ IsSequence(Append(s, x)) /\ Append(s, x) \in Seq(TreeLeaf)
  BY MoreLeaves
<1>2. walletSize = n
  <2>1. levels[0] = s
    BY <1>1, FullTree, LevelsIn
  <2> QED BY <2>1 DEF walletSize
<1>3. PICK f : /\ f[0] = x
               /\ \A l \in Level : f[l + 1] = nodeAbove(f[l], P(l), l)
               /\ levels' = [l \in Level |-> put(levels[l], P(l), f[l])]
               /\ currentRoot' = f[TREE_DEPTH]
  <2>1. PICK f : /\ f[0] = x
                 /\ \A l \in Level : f[l + 1] = nodeAbove(f[l], position(walletSize, l), l)
                 /\ levels' = [l \in Level |-> put(levels[l], position(walletSize, l), f[l])]
                 /\ currentRoot' = f[TREE_DEPTH]
    BY InsertRounds
  <2> QED BY <1>2, <2>1
<1>4. /\ \A l \in 0 .. TREE_DEPTH :
           /\ P(l) \in Nat
           /\ Len(F[l]) \in {P(l), P(l) + 1} /\ DOMAIN F[l] = 1 .. Len(F[l])
           /\ DOMAIN G[l] = 1 .. P(l) + 1
           /\ \A k \in 1 .. P(l) : G[l][k] = F[l][k]
      /\ N(0) = x
      /\ \A l \in Level : N(l + 1) = IF P(l) % 2 = 0 THEN N(l)
                                     ELSE hash_3(F[l][P(l)], N(l), l)
  BY ONLY <1>1, AppendedTree
<1>5. \A l \in 0 .. TREE_DEPTH : IsSequence(F[l]) /\ IsSequence(G[l])
  BY <1>1, FullTree
<1>6. /\ \A l \in 0 .. TREE_DEPTH : \A k \in DOMAIN F[l] : F[l][k] # Zero
      /\ \A l \in 0 .. TREE_DEPTH : \A k \in DOMAIN G[l] : G[l][k] # Zero
  BY <1>1, ProperNodes
<1>7. P(TREE_DEPTH) = 0
  <2> HIDE DEF n
  <2>1. n < 2^TREE_DEPTH
    BY DEF n
  <2> QED BY <1>1, <2>1, TopPosition
<1>8. \A l \in Level : levels[l] = F[l]
  OBVIOUS
<1> HIDE DEF n, F, G, P
<1> DEFINE Good == {l \in 0 .. TREE_DEPTH : f[l] = N(l)}
<1>9. 0 \in Good
  BY <1>3, <1>4, LevelsIn
<1>10. ASSUME NEW l \in Level, l \in Good PROVE l + 1 \in Good
  <2> DEFINE p == P(l)
             a == Len(F[l])
             v == N(l)
  <2>1. /\ p \in Nat /\ a \in {p, p + 1} /\ DOMAIN F[l] = 1 .. a /\ DOMAIN G[l] = 1 .. p + 1
        /\ v = G[l][p + 1]
        /\ N(l + 1) = IF p % 2 = 0 THEN v ELSE hash_3(F[l][p], v, l)
    BY <1>4, LevelsIn
  <2>2. f[l] = v /\ f[l + 1] = nodeAbove(v, p, l) /\ levels[l] = F[l]
    BY <1>3, <1>8, <1>10
  <2>3. v # Zero
    <3>1. p + 1 \in DOMAIN G[l]
      BY <2>1
    <3> QED BY <1>6, <2>1, <3>1, LevelsIn
  <2> HIDE DEF p, a, v, N
  <2>4. CASE p % 2 = 0
    <3>1. sibling(F[l], p) = Zero
      <4>1. ~(p + 1 < a)
        BY <2>1
      <4> QED BY <2>4, <4>1 DEF sibling, a
    <3>2. nodeAbove(v, p, l) = v
      BY <2>2, <2>4, <3>1 DEF nodeAbove, parent
    <3> QED BY <2>1, <2>2, <2>4, <3>2, LevelsIn
  <2>5. CASE p % 2 = 1
    <3>1. p % 2 # 0 /\ p \in 1 .. a /\ p - 1 < a /\ p - 1 + 1 = p
      <4>1. p \in Nat /\ a \in {p, p + 1} /\ p % 2 = 1
        BY <2>1, <2>5
      <4> QED BY <4>1
    <3>2. sibling(F[l], p) = F[l][p]
      BY <3>1 DEF sibling, a
    <3>3. F[l][p] # Zero
      BY <1>6, <2>1, <3>1, LevelsIn
    <3>4. nodeAbove(v, p, l) = hash_3(F[l][p], v, l)
      BY <2>2, <2>3, <3>1, <3>2, <3>3 DEF nodeAbove, parent
    <3> QED BY <2>1, <2>2, <3>1, <3>4, LevelsIn
  <2>6. p % 2 \in {0, 1}
    BY <2>1
  <2> QED BY <2>4, <2>5, <2>6
<1>11. \A l \in 0 .. TREE_DEPTH : f[l] = N(l)
  <2> HIDE DEF Good
  <2>1. \A l \in 0 .. TREE_DEPTH : l \in Good
    BY <1>9, <1>10, LevelInduction
  <2> QED BY <2>1 DEF Good
<1>12. ASSUME NEW l \in Level PROVE put(levels[l], P(l), f[l]) = G[l]
  <2> DEFINE p == P(l)
             a == Len(F[l])
             b == F[l]
             g == G[l]
  <2>1. /\ p \in Nat /\ a \in {p, p + 1} /\ DOMAIN b = 1 .. a /\ DOMAIN g = 1 .. p + 1
        /\ (\A k \in 1 .. p : g[k] = b[k]) /\ IsSequence(b) /\ IsSequence(g)
    BY <1>4, <1>5, LevelsIn
  <2>2. levels[l] = b /\ f[l] = g[p + 1] /\ a = Len(b)
    BY <1>8, <1>11, LevelsIn
  <2> HIDE DEF p, a, b, g
  <2>3. CASE a = p
    <3> DEFINE t == Append(b, g[p + 1])
    <3>1. put(b, p, g[p + 1]) = t
      BY <2>1, <2>2, <2>3 DEF put
    <3>2. /\ IsSequence(t) /\ DOMAIN t = 1 .. p + 1 /\ t[p + 1] = g[p + 1]
          /\ \A k \in 1 .. p : t[k] = b[k]
      BY <2>1, <2>2, <2>3, Appended
    <3> HIDE DEF t
    <3>3. \A k \in 1 .. p + 1 : k \in 1 .. p \/ k = p + 1
      BY <2>1
    <3>4. \A k \in DOMAIN t : t[k] = g[k]
      BY <2>1, <3>2, <3>3
    <3>5. t = g
      BY <2>1, <3>2, <3>4, SameSequence
    <3> QED BY <2>2, <3>1, <3>5 DEF p, g
  <2>4. CASE a = p + 1
    <3> DEFINE t == [b EXCEPT ![p + 1] = g[p + 1]]
    <3>1. put(b, p, g[p + 1]) = t
      BY <2>1, <2>2, <2>4 DEF put
    <3>2. p + 1 \in Nat /\ DOMAIN b = 1 .. p + 1 /\ b = [k \in 1 .. p + 1 |-> b[k]]
      BY <2>1, <2>4 DEF IsSequence
    <3>3. /\ t = [k \in 1 .. p + 1 |-> t[k]] /\ DOMAIN t = 1 .. p + 1
          /\ \A k \in 1 .. p + 1 : t[k] = IF k = p + 1 THEN g[p + 1] ELSE b[k]
      BY <3>2
    <3> HIDE DEF t
    <3>4. IsSequence(t)
      BY <3>2, <3>3 DEF IsSequence
    <3>5. \A k \in DOMAIN t : t[k] = g[k]
      BY <2>1, <3>3
    <3>6. t = g
      BY <2>1, <3>3, <3>4, <3>5, SameSequence
    <3> QED BY <2>2, <3>1, <3>6 DEF p, g
  <2> QED BY <2>1, <2>3, <2>4
<1>13. levels' = [l \in Level |-> G[l]]
  BY <1>3, <1>12
<1>14. currentRoot' = G[TREE_DEPTH][1]
  <2>1. P(TREE_DEPTH) + 1 = 1
    BY <1>7
  <2> QED BY <1>3, <1>11, <2>1, LevelsIn
<1> QED BY <1>13, <1>14 DEF G

-----------------------------------------------------------------------------
(***************************************************************************)
(* The invariant                                                           *)
(***************************************************************************)

Root(s) == fullTree(s)[TREE_DEPTH][1]

\* The leaves under the m-th root.
First(m) == SubSeq(leaves, 1, m)

LeavesFit == leaves \in Seq(TreeLeaf) /\ 0 < Len(leaves) /\ Len(leaves) =< 2^TREE_DEPTH

\* The contract's frontier and roots are those of the full tree, and the roots it
\* knows are those the tree had.
ContractAgrees ==
    /\ Frontier(sideNodes, leaves)
    /\ latestRoot = Root(leaves)
    /\ known = {Root(First(m)) : m \in 1 .. Len(leaves)}

\* The wallet has the full tree over the leaves it replayed.
WalletAgrees ==
    \E w \in 0 .. Len(leaves) :
      /\ levels = [l \in Level |-> fullTree(First(w))[l]]
      /\ w > 0 => currentRoot = Root(First(w))

TreeInv == LeavesFit /\ ContractAgrees /\ WalletAgrees

\* Initial parts of a sequence of leaves, and of it with a leaf more.
LEMMA FirstPart ==
    ASSUME NEW s \in Seq(TreeLeaf)
    PROVE  /\ \A m \in 0 .. Len(s) :
                /\ SubSeq(s, 1, m) \in Seq(TreeLeaf) /\ Len(SubSeq(s, 1, m)) = m
                /\ \A k \in 1 .. m : SubSeq(s, 1, m)[k] = s[k]
           /\ SubSeq(s, 1, Len(s)) = s
           /\ \A m \in 0 .. Len(s) - 1 : SubSeq(s, 1, m + 1) = Append(SubSeq(s, 1, m), s[m + 1])
<1>1. Len(s) \in Nat /\ \A k \in 1 .. Len(s) : s[k] \in TreeLeaf
  OBVIOUS
<1>2. ASSUME NEW m \in 0 .. Len(s)
      PROVE  /\ SubSeq(s, 1, m) \in Seq(TreeLeaf) /\ Len(SubSeq(s, 1, m)) = m
             /\ \A k \in 1 .. m : SubSeq(s, 1, m)[k] = s[k]
  BY <1>1
<1>3. ASSUME NEW a \in Seq(TreeLeaf), NEW b \in Seq(TreeLeaf), Len(a) = Len(b),
             \A k \in 1 .. Len(a) : a[k] = b[k]
      PROVE  a = b
  <2>1. DOMAIN a = 1 .. Len(a) /\ DOMAIN b = 1 .. Len(b) /\ IsSequence(a) /\ IsSequence(b)
    BY SeqIsSequence
  <2> QED BY <1>3, <2>1, SameSequence
<1>4. SubSeq(s, 1, Len(s)) = s
  <2> DEFINE t == SubSeq(s, 1, Len(s))
  <2>1. t \in Seq(TreeLeaf) /\ Len(t) = Len(s) /\ \A k \in 1 .. Len(s) : t[k] = s[k]
    <3>1. Len(s) \in 0 .. Len(s)
      BY <1>1
    <3> QED BY <1>2, <3>1
  <2> HIDE DEF t
  <2>2. t = s
    BY <1>3, <2>1
  <2> QED BY <2>2 DEF t
<1>5. ASSUME NEW m \in 0 .. Len(s) - 1
      PROVE  SubSeq(s, 1, m + 1) = Append(SubSeq(s, 1, m), s[m + 1])
  <2> DEFINE a == SubSeq(s, 1, m + 1)
             b == SubSeq(s, 1, m)
             c == Append(b, s[m + 1])
  <2>1. m \in Nat /\ m \in 0 .. Len(s) /\ m + 1 \in 0 .. Len(s) /\ m + 1 \in 1 .. Len(s)
    BY <1>1
  <2>2. a \in Seq(TreeLeaf) /\ Len(a) = m + 1 /\ \A k \in 1 .. m + 1 : a[k] = s[k]
    BY <1>2, <2>1
  <2>3. b \in Seq(TreeLeaf) /\ Len(b) = m /\ \A k \in 1 .. m : b[k] = s[k]
    BY <1>2, <2>1
  <2> HIDE DEF a, b
  <2>4. c \in Seq(TreeLeaf) /\ Len(c) = m + 1 /\ c[m + 1] = s[m + 1] /\ \A k \in 1 .. m : c[k] = s[k]
    BY <1>1, <2>1, <2>3
  <2> HIDE DEF c
  <2>5. \A k \in 1 .. m + 1 : k \in 1 .. m \/ k = m + 1
    BY <2>1
  <2>6. \A k \in 1 .. m + 1 : a[k] = c[k]
    BY <2>2, <2>4, <2>5
  <2>7. a = c
    BY <1>3, <2>2, <2>4, <2>6
  <2> QED BY <2>7 DEF a, b, c
<1> QED BY <1>2, <1>4, <1>5

LEMMA FirstOfMore ==
    ASSUME NEW s \in Seq(TreeLeaf), NEW x \in TreeLeaf
    PROVE  \A m \in 0 .. Len(s) : SubSeq(Append(s, x), 1, m) = SubSeq(s, 1, m)
<1> DEFINE t == Append(s, x)
<1>1. /\ t \in Seq(TreeLeaf) /\ Len(s) \in Nat /\ Len(t) = Len(s) + 1
      /\ \A k \in 1 .. Len(s) : t[k] = s[k]
  OBVIOUS
<1> HIDE DEF t
<1> SUFFICES ASSUME NEW m \in 0 .. Len(s) PROVE SubSeq(t, 1, m) = SubSeq(s, 1, m)
  BY DEF t
<1> DEFINE a == SubSeq(t, 1, m)
           b == SubSeq(s, 1, m)
<1>2. a \in Seq(TreeLeaf) /\ Len(a) = m /\ \A k \in 1 .. m : a[k] = t[k]
  <2>1. m \in 0 .. Len(t)
    BY <1>1
  <2> QED BY <1>1, <2>1, FirstPart
<1>3. b \in Seq(TreeLeaf) /\ Len(b) = m /\ \A k \in 1 .. m : b[k] = s[k]
  <2>1. s \in Seq(TreeLeaf) /\ m \in 0 .. Len(s)
    OBVIOUS
  <2> QED BY ONLY <2>1, FirstPart
<1> HIDE DEF a, b
<1>4. \A k \in 1 .. m : a[k] = b[k]
  BY <1>1, <1>2, <1>3
<1>5. DOMAIN a = 1 .. m /\ DOMAIN b = 1 .. m /\ IsSequence(a) /\ IsSequence(b)
  BY <1>2, <1>3, SeqIsSequence
<1>6. a = b
  BY <1>4, <1>5, SameSequence
<1> QED BY <1>6 DEF a, b

LEMMA TreeFirst ==
    ASSUME InitTree
    PROVE  TreeInv
<1> DEFINE side == [l \in Level |-> Zero]
           none == << >>
<1>1. none \in Seq(TreeLeaf) /\ IsSequence(none) /\ Len(none) = 0 /\ Append(none, GENESIS) = <<GENESIS>>
  BY EmptySequence
<1>2. 2^TREE_DEPTH \in Nat \ {0}
  BY Powers, LevelsIn
<1>3. leaves = <<GENESIS>> /\ leaves \in Seq(TreeLeaf) /\ Len(leaves) = 1
  BY DEF InitTree, TreeLeaf
<1>4. LeavesFit
  BY <1>2, <1>3 DEF LeavesFit
<1>5. Frontier(side, none)
  <2>1. 0 \in Nat /\ 0 < 2^TREE_DEPTH
    BY <1>2
  <2>2. \A l \in 0 .. TREE_DEPTH : position(0, l) = 0
    <3> DEFINE Good == {l \in 0 .. TREE_DEPTH : position(0, l) = 0}
    <3>1. position(0, 0) = 0 /\ \A l \in Level : position(0, l + 1) = position(0, l) \div 2
      BY <2>1, LevelPositions
    <3>2. 0 \in Good
      BY <3>1, LevelsIn
    <3>3. ASSUME NEW l \in Level, l \in Good PROVE l + 1 \in Good
      BY <3>1, <3>3, LevelsIn
    <3> HIDE DEF Good
    <3>4. \A l \in 0 .. TREE_DEPTH : l \in Good
      BY <3>2, <3>3, LevelInduction
    <3> QED BY <3>4 DEF Good
  <2>3. \A l \in Level : position(Len(none), l) % 2 # 1
    <3>1. 0 % 2 # 1
      OBVIOUS
    <3> HIDE DEF none
    <3> QED BY <1>1, <2>2, <3>1, LevelsIn
  <2>4. side = [l \in Level |-> side[l]]
    OBVIOUS
  <2> HIDE DEF side, none
  <2> QED BY <2>3, <2>4 DEF Frontier
<1>6. /\ climb(side, GENESIS, 0).node = Root(<<GENESIS>>)
      /\ Frontier(climb(side, GENESIS, 0).side, <<GENESIS>>)
  <2> HIDE DEF side, none
  <2>1. Len(none) < 2^TREE_DEPTH
    BY <1>1, <1>2
  <2>2. /\ climb(side, GENESIS, Len(none)).node = fullTree(Append(none, GENESIS))[TREE_DEPTH][1]
        /\ Frontier(climb(side, GENESIS, Len(none)).side, Append(none, GENESIS))
    BY <1>1, <1>5, <2>1, ClimbsToRoot
  <2> QED BY <1>1, <2>2 DEF Root
<1>7. /\ sideNodes = climb(side, GENESIS, 0).side /\ latestRoot = climb(side, GENESIS, 0).node
      /\ known = {latestRoot}
      /\ levels = [l \in Level |-> << >>]
  BY DEF InitTree
<1>8. First(1) = leaves /\ First(0) = << >>
  <2>1. First(1) = leaves
    BY <1>3, FirstPart DEF First
  <2>2. First(0) \in Seq(TreeLeaf) /\ Len(First(0)) = 0
    BY <1>3, FirstPart DEF First
  <2> QED BY <2>1, <2>2
<1>9. ContractAgrees
  <2>1. 1 .. Len(leaves) = {1}
    BY <1>3
  <2>2. {Root(First(m)) : m \in 1 .. Len(leaves)} = {Root(leaves)}
    BY <1>8, <2>1
  <2> QED BY <1>3, <1>6, <1>7, <2>2 DEF ContractAgrees
<1>10. \A l \in Level : fullTree(<< >>)[l] = << >>
  <2> DEFINE Good == {l \in 0 .. TREE_DEPTH : fullTree(none)[l] = none}
  <2>1. 0 \in Good
    BY <1>1, FullTree, LevelsIn
  <2>2. ASSUME NEW l \in Level, l \in Good PROVE l + 1 \in Good
    <3>1. fullTree(none)[l + 1] = above(none, l)
      BY <1>1, <2>2, FullTree
    <3>2. above(none, l) = none
      <4> DEFINE u == above(none, l)
      <4>1. (Len(none) + 1) \div 2 = 0
        BY <1>1
      <4>2. IsSequence(u) /\ DOMAIN u = 1 .. (Len(none) + 1) \div 2
        BY <1>1, NextLevel
      <4>3. DOMAIN u = 1 .. 0 /\ DOMAIN none = 1 .. 0
        BY <4>1, <4>2
      <4> HIDE DEF u, none
      <4>4. u = none
        BY <1>1, <4>2, <4>3, SameSequence
      <4> QED BY <4>4 DEF u
    <3> QED BY <3>1, <3>2, LevelsIn
  <2> HIDE DEF Good, none
  <2>3. \A l \in 0 .. TREE_DEPTH : l \in Good
    BY <2>1, <2>2, LevelInduction
  <2> QED BY <2>3, LevelsIn DEF Good, none
<1>11. WalletAgrees
  <2>1. 0 \in 0 .. Len(leaves) /\ ~(0 > 0)
    BY <1>3
  <2>2. levels = [l \in Level |-> fullTree(First(0))[l]]
    BY <1>7, <1>8, <1>10
  <2> QED BY <2>1, <2>2 DEF WalletAgrees
<1> QED BY <1>4, <1>9, <1>11 DEF TreeInv

\* The contract inserts a leaf.
LEMMA InsertKeeps ==
    ASSUME TreeInv, InsertNote
    PROVE  TreeInv'
<1>1. PICK x \in Commitment \cup {Zero} : insert(x)
  BY DEF InsertNote
<1>2. PICK s : s = leaves
  OBVIOUS
<1>3. PICK side : side = sideNodes
  OBVIOUS
<1> DEFINE t == Append(s, x)
<1>4. s \in Seq(TreeLeaf) /\ x \in TreeLeaf /\ 0 < Len(s) /\ Len(s) < 2^TREE_DEPTH
  BY <1>1, <1>2 DEF TreeInv, LeavesFit, insert, nextLeafIndex, TreeLeaf
<1>5. /\ t \in Seq(TreeLeaf) /\ IsSequence(s) /\ Len(s) \in Nat /\ Len(t) = Len(s) + 1
  BY <1>4, MoreLeaves
<1>6. /\ leaves' = t
      /\ sideNodes' = climb(side, x, Len(s)).side
      /\ latestRoot' = climb(side, x, Len(s)).node
      /\ known' = known \cup {climb(side, x, Len(s)).node}
      /\ levels' = levels /\ currentRoot' = currentRoot
  BY <1>1, <1>2, <1>3 DEF insert, nextLeafIndex, InsertNote
<1>7. /\ climb(side, x, Len(s)).node = Root(t)
      /\ Frontier(climb(side, x, Len(s)).side, t)
  <2>1. Frontier(side, s)
    BY <1>2, <1>3 DEF TreeInv, ContractAgrees
  <2> QED BY <1>4, <1>5, <2>1, ClimbsToRoot DEF Root
<1>8. known = {Root(SubSeq(s, 1, m)) : m \in 1 .. Len(s)}
  BY <1>2 DEF TreeInv, ContractAgrees, First
<1>9. /\ \A m \in 0 .. Len(s) : SubSeq(t, 1, m) = SubSeq(s, 1, m)
      /\ SubSeq(t, 1, Len(s) + 1) = t
  BY <1>4, <1>5, FirstOfMore, FirstPart
<1>10. PICK w \in 0 .. Len(s) :
         /\ levels = [l \in Level |-> fullTree(SubSeq(s, 1, w))[l]]
         /\ w > 0 => currentRoot = Root(SubSeq(s, 1, w))
  BY <1>2 DEF TreeInv, WalletAgrees, First
<1> HIDE DEF t
<1>11. LeavesFit'
  <2>1. 2^TREE_DEPTH \in Nat
    BY Powers, LevelsIn
  <2>2. t \in Seq(TreeLeaf) /\ 0 < Len(t) /\ Len(t) =< 2^TREE_DEPTH
    BY <1>4, <1>5, <2>1
  <2> QED BY <1>6, <2>2 DEF LeavesFit
<1>12. ContractAgrees'
  <2>1. {Root(SubSeq(t, 1, m)) : m \in 1 .. Len(t)}
          = {Root(SubSeq(s, 1, m)) : m \in 1 .. Len(s)} \cup {Root(t)}
    <3>1. \A m : m \in 1 .. Len(t) <=> m \in 1 .. Len(s) \/ m = Len(s) + 1
      BY <1>5
    <3>2. \A m \in 1 .. Len(s) : SubSeq(t, 1, m) = SubSeq(s, 1, m)
      BY <1>5, <1>9
    <3> QED BY <1>9, <3>1, <3>2
  <2>2. known' = {Root(SubSeq(t, 1, m)) : m \in 1 .. Len(t)}
    BY <1>6, <1>7, <1>8, <2>1
  <2>3. Frontier(sideNodes', t) /\ latestRoot' = Root(t)
    BY <1>6, <1>7
  <2>4. {Root(First(m)') : m \in 1 .. Len(leaves')} = {Root(SubSeq(t, 1, m)) : m \in 1 .. Len(t)}
    BY <1>6 DEF First
  <2> QED BY <1>6, <2>2, <2>3, <2>4 DEF ContractAgrees, Frontier, First, Root
<1>13. WalletAgrees'
  <2>1. w \in 0 .. Len(t) /\ SubSeq(t, 1, w) = SubSeq(s, 1, w)
    BY <1>5, <1>9
  <2>2. /\ levels' = [l \in Level |-> fullTree(SubSeq(t, 1, w))[l]]
        /\ w > 0 => currentRoot' = Root(SubSeq(t, 1, w))
    BY <1>6, <1>10, <2>1
  <2> QED BY <1>6, <2>1, <2>2 DEF WalletAgrees, First, Root
<1> QED BY <1>11, <1>12, <1>13 DEF TreeInv

\* The wallet replays a leaf.
LEMMA ReplayKeeps ==
    ASSUME HashesApart, TreeInv, ReplayLeaf
    PROVE  TreeInv'
<1>1. PICK s : s = leaves
  OBVIOUS
<1>2. s \in Seq(TreeLeaf) /\ 0 < Len(s) /\ Len(s) =< 2^TREE_DEPTH /\ Len(s) \in Nat
  BY <1>1 DEF TreeInv, LeavesFit
<1>3. PICK w \in 0 .. Len(s) : levels = [l \in Level |-> fullTree(SubSeq(s, 1, w))[l]]
  BY <1>1 DEF TreeInv, WalletAgrees, First
<1> DEFINE r == SubSeq(s, 1, w)
<1>4. r \in Seq(TreeLeaf) /\ Len(r) = w
  BY <1>2, <1>3, FirstPart
<1> HIDE DEF r
<1>5. walletSize = w
  <2>1. IsSequence(r)
    BY <1>4, SeqIsSequence
  <2>2. levels[0] = r
    BY <1>3, <2>1, FullTree, LevelsIn DEF r
  <2> QED BY <1>4, <2>2 DEF walletSize
<1>6. /\ w < Len(s) /\ treeInsert(leaves[w + 1])
      /\ leaves' = s /\ sideNodes' = sideNodes /\ latestRoot' = latestRoot /\ known' = known
  BY <1>1, <1>5 DEF ReplayLeaf, nextLeafIndex
<1>7. PICK x : x = leaves[w + 1]
  OBVIOUS
<1>8. w \in Nat /\ w + 1 \in 1 .. Len(s) /\ w \in 0 .. Len(s) - 1
  BY <1>2, <1>3, <1>6
<1>9. x \in TreeLeaf /\ Append(r, x) = SubSeq(s, 1, w + 1)
  <2>1. x = s[w + 1]
    BY <1>1, <1>7
  <2> QED BY <1>2, <1>8, <2>1, FirstPart DEF r
<1>10. treeInsert(x)
  BY <1>6, <1>7
<1>11. Len(r) < 2^TREE_DEPTH
  <2>1. 2^TREE_DEPTH \in Nat
    BY Powers, LevelsIn
  <2> QED BY <1>2, <1>4, <1>6, <1>8, <2>1
<1>12. /\ levels' = [l \in Level |-> fullTree(Append(r, x))[l]]
       /\ currentRoot' = fullTree(Append(r, x))[TREE_DEPTH][1]
  BY <1>3, <1>4, <1>9, <1>10, <1>11, InsertsNode DEF r
<1>13. LeavesFit' /\ ContractAgrees'
  BY <1>1, <1>6 DEF TreeInv, LeavesFit, ContractAgrees, Frontier, First, Root
<1>14. WalletAgrees'
  <2>1. w + 1 \in 0 .. Len(s)
    BY <1>8
  <2>2. /\ levels' = [l \in Level |-> fullTree(SubSeq(s, 1, w + 1))[l]]
        /\ currentRoot' = Root(SubSeq(s, 1, w + 1))
    BY <1>9, <1>12 DEF Root
  <2> QED BY <1>6, <2>1, <2>2 DEF WalletAgrees, First, Root
<1> QED BY <1>13, <1>14 DEF TreeInv

LEMMA TreeStep ==
    ASSUME HashesApart, TreeInv, [NextTree]_treeVars
    PROVE  TreeInv'
<1>1. CASE InsertNote
  BY <1>1, InsertKeeps
<1>2. CASE ReplayLeaf
  BY <1>2, ReplayKeeps
<1>3. CASE UNCHANGED treeVars
  BY <1>3 DEF TreeInv, LeavesFit, ContractAgrees, WalletAgrees, Frontier, First, Root, treeVars
<1> QED BY <1>1, <1>2, <1>3 DEF NextTree

-----------------------------------------------------------------------------
(***************************************************************************)
(* The theorems                                                            *)
(***************************************************************************)

\* No root the contract ever saved opens to anything but a leaf it inserted, at
\* that leaf's index, whatever siblings a prover makes up: a note has one index
\* under all roots, and so one nullifier.
KnownRootsOpenLeavesOnly ==
    \A r \in known, leaf \in TreeLeaf, i \in 0 .. 2^TREE_DEPTH - 1 : \A siblings :
       lean_imt_inclusion_proof(leaf, i, siblings) = r
         => i < nextLeafIndex /\ leaf = leaves[i + 1]

\* The latest root is one of those of the first leaves.
LEMMA LatestIsLast ==
    ASSUME TreeInv
    PROVE  latestRoot \in known
<1>1. Len(leaves) \in 1 .. Len(leaves) /\ First(Len(leaves)) = leaves
  BY FirstPart DEF TreeInv, LeavesFit, First
<1> QED BY <1>1 DEF TreeInv, ContractAgrees

LEMMA InvOpens ==
    ASSUME HashesApart, TreeInv
    PROVE  RootOpensItsLeavesOnly
BY OpensExactly DEF TreeInv, LeavesFit, ContractAgrees, Root

LEMMA InvKnown ==
    ASSUME HashesApart, TreeInv
    PROVE  KnownRootsOpenLeavesOnly
<1> SUFFICES ASSUME NEW m \in 1 .. Len(leaves), NEW leaf \in TreeLeaf,
                    NEW i \in 0 .. 2^TREE_DEPTH - 1, NEW siblings,
                    lean_imt_inclusion_proof(leaf, i, siblings) = Root(First(m))
             PROVE  i < nextLeafIndex /\ leaf = leaves[i + 1]
  BY DEF TreeInv, ContractAgrees, KnownRootsOpenLeavesOnly
<1>1. /\ leaves \in Seq(TreeLeaf) /\ Len(leaves) \in Nat /\ Len(leaves) =< 2^TREE_DEPTH
      /\ 2^TREE_DEPTH \in Nat /\ m \in 0 .. Len(leaves) /\ m > 0
  BY Powers, LevelsIn DEF TreeInv, LeavesFit
<1>2. i \in Nat /\ i < 2^TREE_DEPTH
  BY <1>1
<1> DEFINE s == First(m)
<1>3. s \in Seq(TreeLeaf) /\ Len(s) = m /\ \A k \in 1 .. m : s[k] = leaves[k]
  BY <1>1, FirstPart DEF First
<1> HIDE DEF s
<1>4. Len(s) > 0 /\ Len(s) =< 2^TREE_DEPTH
  BY <1>1, <1>3
<1>5. lean_imt_inclusion_proof(leaf, i, siblings) = fullTree(s)[TREE_DEPTH][1]
  BY DEF s, Root
<1>6. i < Len(s) /\ leaf = s[i + 1]
  BY <1>2, <1>3, <1>4, <1>5, CircuitSound
<1>7. i + 1 \in 1 .. m /\ i < Len(leaves)
  BY <1>1, <1>2, <1>3, <1>6
<1> QED BY <1>3, <1>6, <1>7 DEF nextLeafIndex

LEMMA InvAgrees ==
    ASSUME HashesApart, TreeInv
    PROVE  TreesAgree
<1>1. latestRoot = fullTree(leaves)[TREE_DEPTH][1] /\ latestRoot \in known
  BY LatestIsLast DEF TreeInv, ContractAgrees, Root
<1>2. PICK w \in 0 .. Len(leaves) :
         /\ levels = [l \in Level |-> fullTree(First(w))[l]]
         /\ w > 0 => currentRoot = Root(First(w))
  BY DEF TreeInv, WalletAgrees
<1> DEFINE s == First(w)
<1>3. leaves \in Seq(TreeLeaf) /\ Len(leaves) \in Nat /\ Len(leaves) =< 2^TREE_DEPTH
  BY DEF TreeInv, LeavesFit
<1>4. s \in Seq(TreeLeaf) /\ Len(s) = w
  BY <1>2, <1>3, FirstPart DEF First
<1> HIDE DEF s
<1>5. levels[0] = s
  <2>1. IsSequence(s)
    BY <1>4, SeqIsSequence
  <2>2. levels[0] = fullTree(s)[0]
    BY <1>2, LevelsIn DEF s
  <2> QED BY <2>1, <2>2, FullTree
<1>6. walletSize = w
  BY <1>4, <1>5 DEF walletSize
<1>7. Len(s) =< 2^TREE_DEPTH
  <2>1. 2^TREE_DEPTH \in Nat
    BY Powers, LevelsIn
  <2> QED BY <1>2, <1>3, <1>4, <2>1
<1>8. ASSUME walletSize > 0 PROVE currentRoot \in known /\ currentRoot = Root(s)
  <2>1. w \in 1 .. Len(leaves) /\ w > 0
    BY <1>2, <1>6, <1>8
  <2> QED BY <1>2, <2>1 DEF TreeInv, ContractAgrees, s
<1>9. ASSUME NEW i \in 0 .. walletSize - 1
      PROVE  lean_imt_inclusion_proof(levels[0][i + 1], i, getMerklePath(i)) = Root(s)
  <2>1. i \in Nat /\ i < Len(s)
    BY <1>2, <1>3, <1>4, <1>6
  <2>2. getMerklePath(i) = [l \in Level |-> sibling(fullTree(s)[l], position(i, l))]
    BY <1>2 DEF s, getMerklePath
  <2> QED BY <1>4, <1>5, <1>7, <2>1, <2>2, CircuitAccepts DEF Root
<1> QED BY <1>1, <1>8, <1>9 DEF TreesAgree

LEMMA TreeAlways == HashesApart => (SpecTree => []TreeInv)
<1> SUFFICES ASSUME HashesApart PROVE SpecTree => []TreeInv
  OBVIOUS
<1>1. InitTree => TreeInv
  BY TreeFirst
<1>2. TreeInv /\ [NextTree]_treeVars => TreeInv'
  BY TreeStep
<1> QED BY <1>1, <1>2, PTL DEF SpecTree

\* For every depth: the latest root opens its leaves at their indices and nothing
\* else (computeRoot of the circuits against MerkleTreeLib.insert).
THEOREM TreeOpens == HashesApart => (SpecTree => []RootOpensItsLeavesOnly)
<1> SUFFICES ASSUME HashesApart PROVE SpecTree => []RootOpensItsLeavesOnly
  OBVIOUS
<1>1. TreeInv => RootOpensItsLeavesOnly
  BY InvOpens
<1>2. SpecTree => []TreeInv
  BY TreeAlways
<1> QED BY <1>1, <1>2, PTL

\* And so does each root isKnownRoot accepts, of however long ago.
THEOREM KnownRootsOpen == HashesApart => (SpecTree => []KnownRootsOpenLeavesOnly)
<1> SUFFICES ASSUME HashesApart PROVE SpecTree => []KnownRootsOpenLeavesOnly
  OBVIOUS
<1>1. TreeInv => KnownRootsOpenLeavesOnly
  BY InvKnown
<1>2. SpecTree => []TreeInv
  BY TreeAlways
<1> QED BY <1>1, <1>2, PTL

\* For every depth: the contract's frontier computes the root of the full tree,
\* and a wallet that is any number of leaves behind has paths the circuit accepts
\* against a root the contract knows.
THEOREM TreeAgrees == HashesApart => (SpecTree => []TreesAgree)
<1> SUFFICES ASSUME HashesApart PROVE SpecTree => []TreesAgree
  OBVIOUS
<1>1. TreeInv => TreesAgree
  BY InvAgrees
<1>2. SpecTree => []TreeInv
  BY TreeAlways
<1> QED BY <1>1, <1>2, PTL

=============================================================================
