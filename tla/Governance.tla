---------------------------- MODULE Governance ----------------------------
(***************************************************************************)
(* How the registry is governed: the scripts under scripts/gov, run by     *)
(* people, against the chain.  generate-owners.ts makes the owner keys,    *)
(* create-safes.ts the two Safes; register-nodes.ts and safe-exec.ts go    *)
(* through the Gov Safe and the Timelock, guardian.ts through the Guardian *)
(* Safe alone.  A script reads the chain, decides, signs with the nonce it *)
(* read, sends, and waits; between any two of these the chain moves, and   *)
(* the process may die with its transaction still in the mempool.          *)
(*                                                                         *)
(* Abstracted: a hash (operation id, salt, Safe transaction hash) is the   *)
(* tuple of what is hashed; addresses, keys and signatures are checked by  *)
(* the generation of owner keys they come from; the delay of an operation  *)
(* is its phase - Waiting; Due, the wall clock is past it but no block     *)
(* is; Ready.                                                              *)
(***************************************************************************)
EXTENDS NoxRegistry, Sequences, SequencesExt

CONSTANTS
  Nodes,          \* the nodes file: address -> [key, text, role]
  Procs,          \* processes that run scripts
  Lead,           \* the operator who keeps re-running register-nodes.ts
  MinDelays,      \* what the Timelock's minimum delay may be: 0, 1
  FirstStates,    \* what the registry and the Timelock may hold at first
  MaxGenerations, \* bound: generations of owner keys
  MaxSalts,       \* bound: fresh salts handed to a script
  MaxMischief     \* bound: steps of others, crashes and second operators

\* A nodes file that register-nodes.ts accepts: well-formed entries, no
\* address and no key twice.
parseNodes(nodes) ==
  /\ DOMAIN nodes \subseteq Addresses
  /\ \A a \in DOMAIN nodes : /\ nodes[a].key \in Keys /\ nodes[a].role \in Roles
                             /\ nodes[a].text \in Texts
  /\ \A a, b \in DOMAIN nodes : nodes[a].key = nodes[b].key => a = b

ASSUME GovernanceConstants == parseNodes(Nodes) /\ MinDelays \subseteq {0, 1}

\* A registry that calls of its functions may have led to, a new one among them.
ASSUME FirstRegistries ==
  \A first \in FirstStates :
    LET r == first.registry IN
    /\ r \in Storage /\ indexesAgree(r) /\ stakeBacked(r)
    /\ \A a \in Addresses \ registered(r) : r.relayers[a] = NoRelayer

VARIABLES
  files,      \* on disk: owner keys, public owners, the record of the Safes
  safes,      \* on chain: [role, gen] of every Safe created
  nonces,     \* on chain: nonce of each Safe in use
  minDelay,   \* the Timelock's
  operations, \* the Timelock's: id -> phase
  mempool,    \* process -> its transactions not mined yet, oldest first
  procs,      \* process -> its program counter and locals
  salts,      \* how many fresh salts were handed out
  mischief    \* how much mischief has happened

govVars == <<files, safes, nonces, minDelay, operations, mempool, procs, salts, mischief>>
vars == <<registry, govVars>>

(***************************************************************************)
(* Processes                                                               *)
(***************************************************************************)
\* What a failed run tells the operator, and so what is run next: again with
\* a fresh TIMELOCK_SALT, with REREGISTER_MISMATCHED, or safe-exec.ts first.
NoHint == <<"">>
FreshSalt == <<"fresh salt">>
Mismatch == <<"mismatch">>
KeyTaken(owner) == <<"key taken", owner>>
Paused == <<"paused">>

\* env is the TIMELOCK_SALT in the operator's environment, 0 when not set.
Idle(hint, env) ==
  [pc |-> "idle", script |-> "", seen |-> <<>>, calls |-> <<>>, salt |-> <<>>,
   step |-> "", nonce |-> 0, tries |-> 1, hint |-> hint, env |-> env]

Init ==
  /\ \E first \in FirstStates : registry = first.registry /\ operations = first.operations
  /\ files = [made |-> 0, keys |-> 0, owners |-> 0, safes |-> 0]
  /\ safes = {}
  /\ nonces = [gov |-> 0, guardian |-> 0]
  /\ minDelay \in MinDelays
  /\ mempool = [p \in Procs |-> << >>]
  /\ procs = [p \in Procs |-> Idle(NoHint, 0)]
  /\ salts = 0
  /\ mischief = 0

at(p, pc) == procs[p].pc = pc
goto(p, pc) == procs' = [procs EXCEPT ![p].pc = pc]
exit(p, hint) == procs' = [procs EXCEPT ![p] = Idle(hint, @.env)]

chain == <<registry, safes, nonces, minDelay, operations>>
bother == mischief < MaxMischief /\ mischief' = mischief + 1
\* Starting a script is part of the plan for the lead, mischief for others.
bothers(p) == IF p = Lead THEN UNCHANGED mischief ELSE bother

(***************************************************************************)
(* generate-owners.ts: two files, neither ever overwritten                 *)
(***************************************************************************)
\* Slip: the public file is written first.
generateOwners_publicFirst(p) ==
  /\ files.keys = 0 /\ files.owners = 0 /\ files.made < MaxGenerations
  /\ files' = [files EXCEPT !.made = @ + 1, !.owners = files.made + 1]
  /\ goto(p, "second file")

generateOwners(p) ==
  /\ files.keys = 0 /\ files.owners = 0 /\ files.made < MaxGenerations
  /\ files' = [files EXCEPT !.made = @ + 1, !.keys = files.made + 1]
  /\ goto(p, "second file")

startGenerate(p) ==
  /\ at(p, "idle") /\ files.safes = 0
  /\ bothers(p)
  /\ generateOwners(p)
  /\ UNCHANGED <<chain, mempool, salts>>

\* The write of the other file, which fails if it exists.
writeSecondFile(p) ==
  /\ at(p, "second file")
  /\ files' = IF files.owners = 0 THEN [files EXCEPT !.owners = files.made]
              ELSE IF files.keys = 0 THEN [files EXCEPT !.keys = files.made]
              ELSE files
  /\ exit(p, NoHint)
  /\ UNCHANGED <<chain, mempool, salts, mischief>>

\* A run that died between its files leaves keys that no Safe can be made
\* for; they are moved away by hand before the script is run again.
discardKeys ==
  /\ files.keys # 0 /\ files.owners = 0
  /\ \A p \in Procs : ~at(p, "second file")
  /\ files' = [files EXCEPT !.keys = 0]
  /\ UNCHANGED <<chain, mempool, procs, salts, mischief>>

(***************************************************************************)
(* create-safes.ts: create or adopt, Gov Safe first                        *)
(***************************************************************************)
SafeOf(role) == [role |-> role, gen |-> files.owners]

startCreate(p) ==
  /\ at(p, "idle") /\ files.owners # 0 /\ files.safes = 0
  /\ bothers(p)
  /\ procs' = [procs EXCEPT ![p] = 
       [Idle(NoHint, @.env) EXCEPT !.pc = "ensure", !.script = "create", !.step = "gov"]]
  /\ UNCHANGED <<chain, files, mempool, salts>>

\* After a Safe of the configured owners is found at its address: the next
\* one, or the record.
ensured(p) ==
  IF procs[p].step = "gov"
  THEN /\ procs' = [procs EXCEPT ![p].pc = "ensure", ![p].step = "guardian"]
       /\ UNCHANGED files
  ELSE files' = [files EXCEPT !.safes = files.owners] /\ exit(p, NoHint)

ensureSafe(p) ==
  /\ at(p, "ensure")
  /\ \/ /\ SafeOf(procs[p].step) \in safes
        /\ ensured(p)
        /\ UNCHANGED mempool
     \/ /\ SafeOf(procs[p].step) \notin safes
        /\ mempool' = [mempool EXCEPT ![p] = Append(@, [kind |-> "create", safe |-> SafeOf(procs[p].step)])]
        /\ goto(p, "receipt")
        /\ UNCHANGED files
  /\ UNCHANGED <<chain, salts, mischief>>

(***************************************************************************)
(* register-nodes.ts                                                       *)
(***************************************************************************)
\* The row is the one the nodes file asks for.
matches(a) ==
  LET row == registry.relayers[a] IN
  /\ row.key = Nodes[a].key /\ row.text = Nodes[a].text
  /\ registry.nodeRoles[a] = Nodes[a].role
  /\ row.status = "Registered" /\ ~row.frozen

\* A run after FreshSalt is given a salt never used before.
nextEnv(p) == IF procs[p].hint = FreshSalt THEN salts + 1 ELSE procs[p].env
takeSalt(p) ==
  IF procs[p].hint = FreshSalt THEN salts < MaxSalts /\ salts' = salts + 1 ELSE UNCHANGED salts

\* Reading the state of every node.
startRegister(p) ==
  /\ at(p, "idle") /\ files.safes # 0
  /\ procs[p].hint \in {NoHint, FreshSalt, Mismatch}
  /\ bothers(p) /\ takeSalt(p)
  /\ LET known == {a \in DOMAIN Nodes : isRegistered(registry, a)} IN
     procs' = [procs EXCEPT ![p] =
       [Idle(NoHint, nextEnv(p)) EXCEPT
          !.pc = "owners", !.script = "register",
          !.seen = [missing |-> DOMAIN Nodes \ known,
                    replace |-> {a \in known : procs[p].hint = Mismatch /\ ~matches(a)}]]]
  /\ UNCHANGED <<chain, files, mempool>>

registerCall(a) ==
  [fn |-> "registerPrivileged", a |-> a, key |-> Nodes[a].key, text |-> Nodes[a].text, role |-> Nodes[a].role]
unregisterCall(a) == [fn |-> "forceUnregister", a |-> a]
forEach(call(_), set) == [i \in 1..Cardinality(set) |-> call(SetToSeq(set)[i])]

\* Slip: each replaced node is unregistered just before it is registered.
registrationCalls_nodeByNode(missing, replace) ==
  forEach(registerCall, missing)
    \o FlattenSeq(forEach(LAMBDA a : <<unregisterCall(a), registerCall(a)>>, replace))

registrationCalls(missing, replace) ==
  forEach(unregisterCall, replace)
    \o forEach(registerCall, missing) \o forEach(registerCall, replace)

\* Who else holds a key that is to be registered, and is to keep it.
keyHolders(missing, replace) ==
  {owner \in Addresses \ replace : \E a \in (missing \cup replace) \ {owner} :
     registry.sphinxKeyOwner[Nodes[a].key] = owner}

\* The owners of the keys are looked up, the calls are made, and the salt
\* from what the registry holds now.
planRegistration(p) ==
  LET missing == procs[p].seen.missing
      replace == procs[p].seen.replace IN
  /\ at(p, "owners")
  /\ \/ \E owner \in keyHolders(missing, replace) : exit(p, KeyTaken(owner))
     \/ /\ keyHolders(missing, replace) = {}
        /\ procs' = [procs EXCEPT
             ![p].pc = IF missing \cup replace = {} THEN "verify" ELSE "timelock",
             ![p].seen = <<>>,
             ![p].calls = registrationCalls(missing, replace),
             ![p].salt = IF missing \cup replace = {} THEN <<>>
                         ELSE IF procs[p].env # 0 THEN <<"env", procs[p].env>>
                         ELSE <<"register", registry.topologyFingerprint, registry.relayerCount>>]
  /\ UNCHANGED <<chain, files, mempool, salts, mischief>>

NodesServe == ~registry.paused /\ \A a \in DOMAIN Nodes : matches(a)

verifyRegistration(p) ==
  /\ at(p, "verify")
  /\ exit(p, IF NodesServe THEN NoHint ELSE IF registry.paused THEN Paused ELSE Mismatch)
  /\ UNCHANGED <<chain, files, mempool, salts, mischief>>

(***************************************************************************)
(* safe-exec.ts through the Timelock, and guardian.ts                      *)
(***************************************************************************)
\* The calls file the operator writes: what the last run asked for, or a
\* change of the registry's configuration.
callsFiles(p) ==
  CASE procs[p].hint[1] = "key taken" -> {<<unregisterCall(procs[p].hint[2])>>}
    [] procs[p].hint = Paused -> {<<[fn |-> "unpause"]>>}
    [] OTHER -> {<<[fn |-> "pause"]>>}
                  \cup {<<[fn |-> "updateConfig", minStake |-> m]>> : m \in MinStakes}

safeExec(p) ==
  /\ at(p, "idle") /\ files.safes # 0
  /\ IF procs[p].hint \in {NoHint, FreshSalt, Mismatch} THEN bother ELSE bothers(p)
  /\ \E calls \in callsFiles(p) :
       procs' = [procs EXCEPT ![p] =
         [Idle(NoHint, @.env) EXCEPT
            !.pc = "timelock", !.script = "exec", !.calls = calls,
            !.salt = IF procs[p].env # 0 THEN <<"env", procs[p].env>> ELSE <<"exec">>]]
  /\ UNCHANGED <<chain, files, mempool, salts>>

\* Nodes already in the wanted state are skipped, one that is not registered
\* ends the run.
guardian(p, freeze) ==
  /\ at(p, "idle") /\ files.safes # 0 /\ bother
  /\ \E a \in Addresses :
       LET may == IF freeze THEN mayFreeze(registry, a) ELSE mayUnfreeze(registry, a) IN
       /\ may
       /\ procs' = [procs EXCEPT ![p] =
            [Idle(@.hint, @.env) EXCEPT
               !.pc = "sign", !.script = "guardian", !.step = "direct",
               !.calls = <<[fn |-> IF freeze THEN "freeze" ELSE "unfreeze", a |-> a]>>]]
  /\ UNCHANGED <<chain, files, mempool, salts>>

(***************************************************************************)
(* executeThroughTimelock                                                  *)
(***************************************************************************)
operationId(x) == <<x.calls, x.salt>>
phase(x) == IF operationId(x) \in DOMAIN operations THEN operations[operationId(x)] ELSE "Unset"
chainSaysWaiting(x) == phase(x) \in {"Waiting", "Due"}

\* The state of the operation decides: done earlier, which the scripts
\* report as a failure that asks for a fresh salt; not known, to schedule,
\* together with its execution when there is no delay; under way.
beginBatch(p) ==
  /\ at(p, "timelock")
  /\ \/ phase(procs[p]) = "Done" /\ exit(p, FreshSalt)
     \/ /\ phase(procs[p]) = "Unset"
        /\ procs' = [procs EXCEPT ![p].pc = "sign",
                                  ![p].step = IF minDelay = 0 THEN "both" ELSE "schedule"]
     \/ phase(procs[p]) \notin {"Done", "Unset"} /\ goto(p, "wait")
  /\ UNCHANGED <<chain, files, mempool, salts, mischief>>

\* WAIT_FOR_DELAY is false: a later run resumes.
leaveScheduled(p) ==
  /\ at(p, "wait") /\ chainSaysWaiting(procs[p])
  /\ exit(p, NoHint)
  /\ UNCHANGED <<chain, files, mempool, salts, mischief>>

waitForDelay(p) ==
  /\ at(p, "wait") /\ phase(procs[p]) # "Waiting"
  /\ procs' = [procs EXCEPT ![p].pc = "sign", ![p].step = "execute"]
  /\ UNCHANGED <<chain, files, mempool, salts, mischief>>

(***************************************************************************)
(* execSafeTransaction                                                     *)
(***************************************************************************)
safeRole(p) == IF procs[p].script = "guardian" THEN "guardian" ELSE "gov"

\* The generation of owner keys on disk, which must be the Safe's.
loadOwnerKeys == files.keys

\* The keys file must open the Safe; the nonce is read and signed over.
sign(p) ==
  /\ at(p, "sign")
  /\ IF loadOwnerKeys = files.safes
     THEN procs' = [procs EXCEPT ![p].pc = "submit", ![p].nonce = nonces[safeRole(p)]]
     ELSE exit(p, NoHint)
  /\ UNCHANGED <<chain, files, mempool, salts, mischief>>

\* The calls of a batch, or of a MultiSend, run in order and all or none.
runCalls(calls) ==
  FoldLeft(LAMBDA acc, c : IF acc.ok /\ accepts(acc.reg, c)
                           THEN [acc EXCEPT !.reg = apply(acc.reg, c)]
                           ELSE [acc EXCEPT !.ok = FALSE],
           [ok |-> TRUE, reg |-> registry], calls)

\* Whether a transaction would succeed now, and what it would do.
succeeds(tx) ==
  \/ tx.kind = "create" /\ tx.safe \notin safes
  \/ /\ tx.kind # "create" /\ tx.nonce = nonces[tx.safe]
     /\ \/ tx.kind = "schedule" /\ phase(tx) = "Unset"
        \/ tx.kind = "execute" /\ phase(tx) = "Ready" /\ runCalls(tx.calls).ok
        \/ tx.kind = "both" /\ phase(tx) = "Unset" /\ runCalls(tx.calls).ok
        \/ tx.kind = "direct" /\ runCalls(tx.calls).ok

takeEffect(tx) ==
  /\ safes' = IF tx.kind = "create" THEN safes \cup {tx.safe} ELSE safes
  /\ nonces' = IF tx.kind = "create" THEN nonces ELSE [nonces EXCEPT ![tx.safe] = @ + 1]
  /\ operations' = CASE tx.kind = "schedule" -> (operationId(tx) :> "Waiting") @@ operations
                     [] tx.kind \in {"execute", "both"} -> (operationId(tx) :> "Done") @@ operations
                     [] OTHER -> operations
  /\ registry' = IF tx.kind \in {"execute", "both", "direct"} THEN runCalls(tx.calls).reg ELSE registry

\* Only an execution that the chain still holds to be early is tried again.
failed(p) ==
  IF procs[p].step = "execute" /\ procs[p].tries < 3 /\ chainSaysWaiting(procs[p])
  THEN procs' = [procs EXCEPT ![p].pc = "sign", ![p].tries = @ + 1]
  ELSE exit(p, NoHint)

signedTx(p) ==
  [kind |-> procs[p].step, safe |-> safeRole(p), nonce |-> procs[p].nonce,
   calls |-> procs[p].calls, salt |-> procs[p].salt]

\* The gas is estimated on the state of the chain now, then it is sent.
submit(p) ==
  /\ at(p, "submit")
  /\ IF succeeds(signedTx(p))
     THEN mempool' = [mempool EXCEPT ![p] = Append(@, signedTx(p))] /\ goto(p, "receipt")
     ELSE failed(p) /\ UNCHANGED mempool
  /\ UNCHANGED <<chain, files, salts, mischief>>

\* DRY_RUN: nothing is sent.
dryRun(p) ==
  /\ at(p, "submit") /\ bother
  /\ exit(p, NoHint)
  /\ UNCHANGED <<chain, files, mempool, salts>>

\* The receipt of its last transaction.
receipt(p) ==
  /\ procs[p].pc \in {"mined", "reverted"}
  /\ IF at(p, "reverted") THEN failed(p) /\ UNCHANGED files
     ELSE IF procs[p].script = "create" THEN ensured(p)
     ELSE /\ UNCHANGED files
          /\ CASE procs[p].step = "schedule" -> goto(p, "wait")
               [] procs[p].script = "register" -> goto(p, "verify")
               [] OTHER -> exit(p, procs[p].hint)
  /\ UNCHANGED <<chain, mempool, salts, mischief>>

(***************************************************************************)
(* The chain                                                               *)
(***************************************************************************)
\* The oldest transaction of a process is mined; one that reverts leaves
\* nothing behind, the Safe's nonce included.
mine(p) ==
  /\ mempool[p] # << >>
  /\ LET tx == Head(mempool[p])
         waiting == at(p, "receipt") /\ Len(mempool[p]) = 1 IN
     /\ IF succeeds(tx) THEN takeEffect(tx) /\ UNCHANGED minDelay ELSE UNCHANGED chain
     /\ procs' = IF waiting
                 THEN [procs EXCEPT ![p].pc = IF succeeds(tx) THEN "mined" ELSE "reverted"]
                 ELSE procs
  /\ mempool' = [mempool EXCEPT ![p] = Tail(@)]
  /\ UNCHANGED <<files, salts, mischief>>

\* The wall clock passes an operation's time; a block then carries it.
delayPasses(id) ==
  /\ operations[id] = "Waiting"
  /\ operations' = [operations EXCEPT ![id] = "Due"]
  /\ UNCHANGED <<registry, safes, nonces, minDelay, files, mempool, procs, salts, mischief>>

blockMined(id) ==
  /\ operations[id] = "Due"
  /\ operations' = [operations EXCEPT ![id] = "Ready"]
  /\ UNCHANGED <<registry, safes, nonces, minDelay, files, mempool, procs, salts, mischief>>

(***************************************************************************)
(* Mischief: relayers, the slasher, a veto, a crash                        *)
(***************************************************************************)
relayerActs(a) ==
  /\ files.safes # 0 /\ bother
  /\ \/ \E k \in Keys, t \in Texts, role \in Roles : register(a, k, t, role, MaxStake)
     \/ \E t \in Texts \ {registry.relayers[a].text} : updateUrl(a, t)
     \/ \E role \in Roles \ {registry.nodeRoles[a]} : updateRole(a, role)
     \/ \E k \in Keys : rotateKey(a, k)
     \/ \E amount \in 1..MaxStake : addStake(a, amount)
     \/ requestUnstake(a)
     \/ cancelUnstake(a)
  /\ UNCHANGED <<safes, nonces, minDelay, operations, files, mempool, procs, salts>>

guardianSlashes(a) ==
  /\ files.safes # 0 /\ bother
  /\ \E amount \in 1..MaxStake : slash(a, amount)
  /\ UNCHANGED <<safes, nonces, minDelay, operations, files, mempool, procs, salts>>

\* Steps that end by themselves, and so cost nothing.
relayerLeaves(a) ==
  /\ unlockTimePasses(a) \/ executeUnstake(a) \/ removeUnderCollateralized(a)
  /\ UNCHANGED govVars

cancelOperation(id) ==
  /\ bother /\ operations[id] # "Done"
  /\ operations' = [i \in DOMAIN operations \ {id} |-> operations[i]]
  /\ UNCHANGED <<registry, safes, nonces, minDelay, files, mempool, procs, salts>>

crash(p) ==
  /\ ~at(p, "idle") /\ bother
  /\ exit(p, NoHint)
  /\ UNCHANGED <<chain, files, mempool, salts>>

(***************************************************************************)
(* Specification                                                           *)
(***************************************************************************)
\* One process, past its start.
advance(p) ==
  \/ writeSecondFile(p) \/ ensureSafe(p) \/ planRegistration(p) \/ verifyRegistration(p)
  \/ beginBatch(p) \/ waitForDelay(p) \/ sign(p) \/ submit(p) \/ receipt(p)

start(p) == startGenerate(p) \/ startCreate(p) \/ startRegister(p)

Next ==
  \/ \E p \in Procs :
       \/ start(p) \/ safeExec(p) \/ guardian(p, TRUE) \/ guardian(p, FALSE)
       \/ advance(p) \/ leaveScheduled(p) \/ dryRun(p) \/ crash(p) \/ mine(p)
  \/ discardKeys
  \/ \E a \in Addresses : relayerActs(a) \/ guardianSlashes(a) \/ relayerLeaves(a)
  \/ \E id \in DOMAIN operations : delayPasses(id) \/ blockMined(id) \/ cancelOperation(id)

\* Blocks are mined and time passes; a process that runs goes on; the lead
\* keeps running the scripts a run before asked for.
Fairness ==
  /\ \A p \in Procs : WF_vars(advance(p)) /\ WF_vars(mine(p))
  /\ WF_vars(discardKeys)
  /\ WF_vars(start(Lead)) /\ WF_vars(procs[Lead].hint \notin {NoHint, FreshSalt, Mismatch} /\ safeExec(Lead))
  /\ WF_vars(\E id \in DOMAIN operations : delayPasses(id))
  /\ WF_vars(\E id \in DOMAIN operations : blockMined(id))

Spec == Init /\ [][Next]_vars /\ Fairness

(***************************************************************************)
(* Properties                                                              *)
(***************************************************************************)
\* Whoever finds a Safe on the chain finds on disk the keys that open it:
\* generate-owners.ts may die between its two files, and be run again, and
\* create-safes.ts only knows the public one.
SafesOpenable ==
  \A s \in safes : s.gen = files.keys

\* The stake of a frozen relayer stays in the registry, whatever the relayer
\* or anyone else calls, until it is slashed or a transaction of a Safe
\* unfreezes or removes the relayer.
FrozenIsHeld ==
  [][\A a \in Addresses :
       registry.relayers[a].frozen /\ registry'.relayers[a].stake < registry.relayers[a].stake
         => guardianSlashes(a) \/ nonces' # nonces]_vars

\* Once the others are done, register-nodes.ts run again and again, as its
\* errors ask, ends with every node of the file registered and active, and
\* stays there: through nodes that left, changed or swapped keys, nodes that
\* others took the key of, a pause, vetoes, lost races for the Safe's nonce,
\* crashes with a transaction under way, and batches that had run before.
NodesEventuallyServe == <>[]NodesServe
==========================================================================
