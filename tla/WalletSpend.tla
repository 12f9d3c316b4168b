---------------------------- MODULE WalletSpend ----------------------------
(***************************************************************************)
(* How a wallet spends: it plans (Plan), takes authorizations to mint      *)
(* self notes from SelfMintPreflight, assembles the witness of each step,  *)
(* sends it and waits for the pool.  A self note's tag is the index it was *)
(* minted with; an index used twice links two notes in public and repeats  *)
(* the content key, so the whole chain of counter store, discovery and     *)
(* one-shot authority exists to prevent that - while another payment is    *)
(* under way in the same wallet, the compliance key rotates, transactions  *)
(* are lost, the process dies or the wallet is restored from its seed.     *)
(*                                                                         *)
(* Indices of odd y, which the allocator burns, are left out here: see     *)
(* KeyRepository.                                                          *)
(***************************************************************************)
EXTENDS Plan, TLC

CONSTANTS
  FirstLeaves,   \* what the pool may hold at first, a set of sequences
  Target,        \* what "pay" withdraws
  Policy,        \* PlanPolicy: [dustFloor, maxSteps]
  BatchSize,     \* PREFLIGHT_COLLISION_BATCH_SIZE
  MaxCandidates, \* MAX_PREFLIGHT_CANDIDATES
  Window,        \* candidate tags reconcileCounterWithChain is given
  MaxVersion,    \* bound: versions of the compliance key
  MaxEvents      \* bound: losses, failures, crashes and restores together

ASSUME SpendConstants ==
  /\ {Target, BatchSize, MaxCandidates, MaxVersion} \subseteq Nat \ {0}
  /\ {Window, MaxEvents} \subseteq Nat
  /\ Policy \in [dustFloor : Int, maxSteps : Int]

\* At first the wallet was used in order: a tag -1 is somebody else's, and no
\* own tag is there twice.
ASSUME FirstLeavesAssumption ==
  \A leaves \in FirstLeaves :
    /\ leaves \in Seq([tag : Nat \union {-1}, asset : {"asset"}, value : Nat, version : {1}])
    /\ \A p, q \in DOMAIN leaves : leaves[p].tag = leaves[q].tag => p = q \/ leaves[p].tag = -1

VARIABLES
  pool,      \* [leaves, spent, version, paid, deposited]: the chain
  counter,   \* the counter store's high-water of self indices, durable
  preflight, \* [version, ready, taker, fresh, tested]: the SelfMintPreflight
  history,   \* compliance version the application's context is built from
  jobs,      \* the payment, and what else the user does with the wallet
  mempool,   \* transactions sent and not mined
  forgotten, \* history: the tags that waited to be mined when a counter was lost
  events     \* what of MaxEvents has happened

vars == <<pool, counter, preflight, history, jobs, mempool, forgotten, events>>

happens == events < MaxEvents /\ events' = events + 1

(***************************************************************************)
(* The pool                                                                *)
(***************************************************************************)
\* A leaf of tag -1 was paid to the wallet by somebody.
Own == {[leafIndex |-> p - 1, asset |-> pool.leaves[p].asset, value |-> pool.leaves[p].value]
        : p \in DOMAIN pool.leaves}
unspent == {n \in Own : n.leafIndex \notin pool.spent}

Balance == TotalValue(SetToSeq(unspent))

\* What circuits and contract ask of a transaction.
Valid(tx) ==
  /\ tx.version = pool.version
  /\ \A i \in ToSet(tx.inputs) : i \notin pool.spent
  /\ tx.op = "JOIN" => tx.inputs[1] < tx.inputs[2]
  /\ tx.op # "DEPOSIT" => TotalValue([i \in DOMAIN tx.inputs |-> pool.leaves[tx.inputs[i] + 1]])
                           = tx.outgoing + TotalValue(tx.outputs)

\* The outputs take the next leaves; the wallet's own is the last one.
Applied(tx) ==
  [pool EXCEPT !.leaves = @ \o tx.outputs,
               !.spent = @ \union ToSet(tx.inputs),
               !.paid = @ + tx.outgoing,
               !.deposited = @ + (IF tx.op = "DEPOSIT" THEN TotalValue(tx.outputs) ELSE 0)]

rotateComplianceKey ==
  /\ pool.version < MaxVersion
  /\ pool' = [pool EXCEPT !.version = @ + 1]
  /\ UNCHANGED <<counter, preflight, history, jobs, mempool, forgotten, events>>

(***************************************************************************)
(* Intents                                                                 *)
(***************************************************************************)
NoJob == [at |-> "idle", steps |-> << >>, n |-> 1, previous |-> -1, handles |-> << >>]
step(j) == jobs[j].steps[jobs[j].n]
Go(j, next) == jobs' = [jobs EXCEPT ![j] = next]

InMempool(j) == \E tx \in mempool : tx.job = j

NewPreflight(version) ==
  [version |-> version, ready |-> << >>, taker |-> "none", fresh |-> << >>, tested |-> 0]

\* An intent starts with the chain's compliance key.  When it is a new one the
\* history is read and context and preflight are made anew: what was ready is
\* forgotten, a take under way is given up.
renewContext ==
  /\ history' = pool.version
  /\ preflight' = IF preflight.version = pool.version THEN preflight ELSE NewPreflight(pool.version)

\* The user asks for the payment until the chain shows it, and not while a
\* transaction of it may still be mined.
Wanted == jobs["pay"].at = "idle" /\ pool.paid = 0 /\ ~InMempool("pay")
Planned == planSpend(unspent, "WITHDRAW", "asset", Target, Policy)

planPayment ==
  /\ Wanted /\ Planned.failure = "none"
  /\ Go("pay", [NoJob EXCEPT !.at = "mint", !.steps = Planned.steps])
  /\ renewContext
  /\ UNCHANGED <<pool, counter, mempool, forgotten, events>>

\* Meanwhile, and once: a deposit, or a note split in two.
otherIntent ==
  /\ jobs["other"].at = "idle"
  /\ \/ Go("other", [NoJob EXCEPT !.at = "mint",
                       !.steps = <<[op |-> "DEPOSIT", inputs |-> << >>, outgoing |-> 0, change |-> 1]>>])
     \/ \E n \in {n \in unspent : n.value > 1} :
          Go("other", [NoJob EXCEPT !.at = "mint",
                         !.steps = <<[op |-> "SPLIT", inputs |-> <<n.leafIndex>>, outgoing |-> 0,
                                      change |-> n.value]>>])
  /\ renewContext
  /\ UNCHANGED <<pool, counter, mempool, forgotten, events>>

(***************************************************************************)
(* SelfMintPreflight                                                       *)
(***************************************************************************)
outputs(op) == IF op = "SPLIT" THEN 2 ELSE 1

\* take calls run one after the other (#takeTail).
Taking(j) == jobs[j].at = "mint" /\ preflight.taker \in {"none", j} /\ preflight.fresh = << >>

\* Reserve durably, then claim: the missing ones first, then batch by batch.
allocate(j) ==
  /\ Taking(j) /\ Len(preflight.ready) < outputs(step(j).op) /\ preflight.tested < MaxCandidates
  /\ LET first == preflight.taker = "none"
         count == IF first THEN outputs(step(j).op) - Len(preflight.ready)
                           ELSE Min({BatchSize, MaxCandidates - preflight.tested}) IN
     /\ counter' = counter + count
     /\ preflight' = [preflight EXCEPT !.taker = j, !.tested = @ + count,
                                       !.fresh = [i \in 1 .. count |-> counter + i - 1]]
  /\ UNCHANGED <<pool, history, jobs, mempool, forgotten, events>>

\* Slip: the candidates tested are counted over all takes.
exhausted_forGood(j) ==
  /\ Taking(j) /\ Len(preflight.ready) < outputs(step(j).op) /\ preflight.tested = MaxCandidates
  /\ preflight' = [preflight EXCEPT !.taker = "none"]
  /\ UNCHANGED <<pool, counter, history, jobs, mempool, forgotten, events>>

\* CANDIDATES_EXHAUSTED: the caller takes again.
exhausted(j) ==
  /\ Taking(j) /\ Len(preflight.ready) < outputs(step(j).op) /\ preflight.tested = MaxCandidates
  /\ preflight' = [preflight EXCEPT !.taker = "none", !.tested = 0]
  /\ UNCHANGED <<pool, counter, history, jobs, mempool, forgotten, events>>

\* Slip: only the current compliance key is tried on the row discovery has.
opensExistingSelfRecord_current(index, version) ==
  \E p \in DOMAIN pool.leaves : pool.leaves[p].tag = index /\ pool.leaves[p].version = version

\* Every key of the history is tried on the row discovery has for the tag.
opensExistingSelfRecord(index, version) ==
  \E p \in DOMAIN pool.leaves : pool.leaves[p].tag = index /\ pool.leaves[p].version \in 1 .. version

\* Discovery is asked about the whole batch at once; an answer that does not
\* come or is malformed burns the batch.
classify ==
  /\ preflight.fresh # << >>
  /\ \/ /\ preflight' = [preflight EXCEPT
             !.fresh = << >>,
             !.ready = FoldLeft(LAMBDA ready, i :
                                  IF opensExistingSelfRecord(i, preflight.version) THEN ready
                                  ELSE Append(ready, i),
                                @, preflight.fresh)]
        /\ UNCHANGED events
     \/ /\ happens
        /\ preflight' = [preflight EXCEPT !.fresh = << >>, !.taker = "none", !.tested = 0]
  /\ UNCHANGED <<pool, counter, history, jobs, mempool, forgotten>>

\* A handle carries its candidate and the context it was certified for.
issueAuthorization(j) ==
  /\ Taking(j) /\ Len(preflight.ready) >= outputs(step(j).op)
  /\ LET k == outputs(step(j).op) IN
     /\ preflight' = [preflight EXCEPT !.ready = SubSeq(@, k + 1, Len(@)), !.taker = "none", !.tested = 0]
     /\ Go(j, [jobs[j] EXCEPT !.at = "build",
                 !.handles = [i \in 1 .. k |-> [index |-> preflight.ready[i],
                                                version |-> preflight.version]]])
  /\ UNCHANGED <<pool, counter, history, mempool, forgotten, events>>

(***************************************************************************)
(* Assembly                                                                *)
(***************************************************************************)
resolve(j) == [i \in DOMAIN step(j).inputs |->
                 IF step(j).inputs[i] = -1 THEN jobs[j].previous ELSE step(j).inputs[i]]

\* Sorted by leaf index, whatever the plan says.
assembleJoin(pair) == IF pair[1] < pair[2] THEN pair ELSE <<pair[2], pair[1]>>

\* All handles or none, each once, and only in the context they were certified for.
consumeSelfMints(handles, version) == \A i \in DOMAIN handles : handles[i].version = version

mintSelfNote(handle, value) ==
  [tag |-> handle.index, asset |-> "asset", value |-> value, version |-> history]

\* The witness of the step, the proof, and the transaction into the mempool.
assemble(j) ==
  /\ jobs[j].at = "build"
  /\ IF consumeSelfMints(jobs[j].handles, history)
       THEN /\ LET s == step(j)
                   inputs == IF s.op = "JOIN" THEN assembleJoin(resolve(j)) ELSE resolve(j)
                   values == IF s.op = "SPLIT" THEN <<1, s.change - 1>> ELSE <<s.change>> IN
               mempool' = mempool \union
                 {[job |-> j, op |-> s.op, inputs |-> inputs, version |-> history,
                   outgoing |-> s.outgoing,
                   outputs |-> [i \in DOMAIN values |-> mintSelfNote(jobs[j].handles[i], values[i])]]}
            /\ Go(j, [jobs[j] EXCEPT !.at = "sent", !.handles = << >>])
       ELSE Go(j, [jobs[j] EXCEPT !.at = "mint", !.handles = << >>]) /\ UNCHANGED mempool
  /\ UNCHANGED <<pool, counter, preflight, history, forgotten, events>>

\* The step is done: on to the next, or the intent is fulfilled.
Advanced(j) ==
  IF jobs[j].n = Len(jobs[j].steps) THEN [NoJob EXCEPT !.at = "done"]
  ELSE [jobs[j] EXCEPT !.at = "mint", !.n = @ + 1, !.previous = Len(pool'.leaves) - 1]

\* The pool takes the transaction or refuses it; who lost plans again.
mine(tx) ==
  /\ mempool' = mempool \ {tx}
  /\ IF Valid(tx)
       THEN /\ pool' = Applied(tx)
            /\ IF jobs[tx.job].at = "sent" THEN Go(tx.job, Advanced(tx.job)) ELSE UNCHANGED jobs
       ELSE /\ UNCHANGED pool
            /\ IF jobs[tx.job].at = "sent" THEN Go(tx.job, NoJob) ELSE UNCHANGED jobs
  /\ UNCHANGED <<counter, preflight, history, forgotten, events>>

drop(tx) ==
  /\ happens
  /\ mempool' = mempool \ {tx}
  /\ IF jobs[tx.job].at = "sent" THEN Go(tx.job, NoJob) ELSE UNCHANGED jobs
  /\ UNCHANGED <<pool, counter, preflight, history, forgotten>>

(***************************************************************************)
(* Crash, restore, reconcile                                               *)
(***************************************************************************)
Restarted ==
  /\ happens
  /\ jobs' = [j \in DOMAIN jobs |-> IF jobs[j].at = "idle" THEN NoJob ELSE [NoJob EXCEPT !.at =
                                      IF j = "pay" /\ jobs[j].at # "done" THEN "idle" ELSE "done"]]
  /\ history' = pool.version
  /\ preflight' = NewPreflight(pool.version)
  /\ UNCHANGED <<pool, mempool>>

crash == Restarted /\ UNCHANGED <<counter, forgotten>>

Minted(tx) == {tx.outputs[k].tag : k \in DOMAIN tx.outputs}

\* The counter is gone with the device, at any moment: what is still in the
\* mempool no discovery sees.
restoreFromSeed ==
  /\ Restarted
  /\ counter' = 0
  /\ forgotten' = forgotten \union UNION {Minted(tx) : tx \in mempool}

occupiedTags == {i \in 0 .. Window - 1 : \E p \in DOMAIN pool.leaves : pool.leaves[p].tag = i}

\* Never lowers the counter: the span up to the target is burned.
ratchetCounter(toExclusive) == Max({counter, toExclusive})

\* Advised after a restore and before the first mint, forced by nothing.
reconcileCounterWithChain ==
  /\ \A j \in DOMAIN jobs : jobs[j].at \in {"idle", "done"}
  /\ counter' = ratchetCounter(Max({-1} \union occupiedTags) + 1)
  /\ counter' # counter
  /\ UNCHANGED <<pool, preflight, history, jobs, mempool, forgotten, events>>

Init ==
  /\ \E leaves \in FirstLeaves :
       /\ pool = [leaves |-> leaves, spent |-> {}, version |-> 1, paid |-> 0,
                 deposited |-> TotalValue(leaves)]
       /\ counter = 1 + Max({-1} \union {l.tag : l \in ToSet(leaves)})
  /\ history = 1
  /\ preflight = NewPreflight(1)
  /\ jobs = [j \in {"pay", "other"} |-> NoJob]
  /\ mempool = {}
  /\ forgotten = {}
  /\ events = 0

Progress(j) == allocate(j) \/ exhausted(j) \/ issueAuthorization(j) \/ assemble(j)

Next ==
  \/ rotateComplianceKey \/ planPayment \/ otherIntent \/ classify
  \/ \E j \in DOMAIN jobs : Progress(j)
  \/ \E tx \in mempool : mine(tx) \/ drop(tx)
  \/ crash \/ restoreFromSeed \/ reconcileCounterWithChain

Spec == Init /\ [][Next]_vars

\* The user insists on the payment - SF_vars(planPayment), with what enables it
\* written out -, each call of the wallet returns, and the chain mines what it
\* is sent.
FairSpec ==
  /\ Spec
  /\ []<>(Wanted /\ Planned.failure = "none") => []<><<planPayment>>_vars
  /\ WF_vars(classify)
  /\ \A j \in {"pay", "other"} : SF_vars(Progress(j))
  /\ WF_vars(\E tx \in mempool : mine(tx))

(***************************************************************************)
(* Properties                                                              *)
(***************************************************************************)
\* No self tag is in two transactions that were sent - mined or waiting -
\* although authorizations are taken by two jobs at once, batches are burned,
\* the key rotates and the counter is lost with the device (SelfMintPreflight).
\* Only the tags that waited to be mined when the counter was lost are not
\* covered: neither discovery nor reconcileCounterWithChain sees them, and they
\* may be handed out again.
TagsUnique ==
  LET own == {p \in DOMAIN pool.leaves : pool.leaves[p].tag \notin {-1} \union forgotten}
      tag(t) == t[1].outputs[t[2]].tag
      sent == {t \in mempool \X (1 .. 2) : t[2] \in DOMAIN t[1].outputs /\ tag(t) \notin forgotten} IN
  /\ \A p, q \in own : pool.leaves[p].tag = pool.leaves[q].tag => p = q
  /\ \A t \in sent, p \in own : pool.leaves[p].tag # tag(t)
  /\ \A t, u \in sent : tag(t) = tag(u) => t = u

\* What spendableBalance shows the user is what planSpend can do, for the notes
\* of every state and every amount: it plans up to withPlan and no further, in
\* one step up to inOneTx, and never with more steps than notes are needed.
PlanHonest ==
  LET shown == spendableBalance(unspent, "asset", Policy)
      sums == {<<TotalValue(SetToSeq(notes)), Cardinality(notes)>> : notes \in SUBSET unspent} IN
  \A target \in 0 .. Balance + 1 :
    LET plan == planSpend(unspent, "TRANSFER", "asset", target, Policy) IN
    /\ plan.failure = "none" <=> target \in 1 .. shown.withPlan
    /\ plan.failure = "none" =>
         /\ Len(plan.steps) = 1 <=> target <= shown.inOneTx
         /\ \A sum \in sums : sum[1] >= target => sum[2] >= Len(plan.steps)
         /\ <<target + Last(plan.steps).change, Len(plan.steps)>> \in sums

\* A payment is made, once, and costs what it should, however its joins are
\* interrupted - or the user is shown that it takes too many steps by now.
PaymentCompletes ==
  <>[](/\ Balance = pool.deposited - pool.paid
       /\ \/ pool.paid = Target
          \/ pool.paid = 0 /\ Target > spendableBalance(unspent, "asset", Policy).withPlan)

=============================================================================
