------------------------------- MODULE Deploy -------------------------------
(***************************************************************************)
(* The governed deployment: scripts/deploy.ts run one or more times on a   *)
(* network, any run of which may die at any step, while whoever else holds *)
(* the deployer's key may still use it and while the two Safes already     *)
(* exercise the roles they were given.                                     *)
(*                                                                         *)
(* One run builds one set of contracts.  Two sets matter: the one under    *)
(* construction and the one the latest record names; a set whose run died  *)
(* unpublished, and one that was replaced, is not looked at again.         *)
(* Accounts are named by what they are: "timelock" and "entryPoint" are    *)
(* the set's own contracts, Strangers those the deployment does not name.  *)
(* A role is named by its contract where two contracts have one of the     *)
(* same name.  Addresses, code hashes, constructor links and the           *)
(* explorer's verification carry no decision and are left out; a read of a *)
(* log is complete (no lagging index).  Roles are granted, given up and,   *)
(* by the script, revoked; nobody else takes a role from its intended      *)
(* holder.                                                                 *)
(***************************************************************************)
EXTENDS Naturals, Sequences, FiniteSets

CONSTANTS
    Envs,          \* the environments an operator may run it in
    Strangers,     \* accounts that no environment names
    TargetRoles,   \* roles a foreign Timelock operation may grant
    MaxEvents      \* runs of the script and grants of others, together

ASSUME EventsAssumption == MaxEvents \in Nat

VARIABLES
    pc,        \* where the running script is; "idle" when none runs
    run,       \* its run, the number of runs begun
    env,       \* its environment
    check,     \* its governance integrity check under way
    chain,     \* the contract set being built, and the one on record
    secrets,   \* the runs whose compliance secret is on disk
    records,   \* the runs whose deployment record is on disk
    latest,    \* the run and flags under <network>-latest.json
    mischief   \* Timelock roles granted outside the script so far

script == <<pc, run, env, check>>
disk == <<secrets, records, latest>>
vars == <<pc, run, env, check, chain, secrets, records, latest, mischief>>

TimelockRoles == {"TimelockAdmin", "PROPOSER", "EXECUTOR", "CANCELLER"}

GovernedRoles ==
    {"DarkPoolAdmin", "PAUSER", "DarkPoolUpgrader",
     "RegistryAdmin", "CONFIG", "SLASHER", "RegistryUpgrader",
     "RewardAdmin", "ADMIN", "DISTRIBUTOR", "ENTRYPOINT", "RewardUpgrader",
     "ComplianceAdmin", "COMMITTEE_ADMIN", "MEMBER"}

Role == TimelockRoles \cup GovernedRoles

ASSUME TargetsAssumption == TargetRoles \subseteq Role
ASSUME StrangerAssumption ==
    /\ Strangers \cap {"timelock", "deployer", "entryPoint", "guardian"} = {}
    /\ \A e \in Envs : {e.gov, e.guardian} \cap Strangers = {}

Contract ==
    {"libraries", "timelock", "noxRegistry", "rewardPool", "darkPool",
     "paidExecution", "feeAssets", "complianceRegistry"}

NoOp == [call |-> "none", role |-> "none", to |-> "none", ready |-> FALSE]

Sets == {"new", "live"}

\* granted is the RoleGranted log: whoever was ever granted a role.  logged is
\* the Timelock's log of calls.  contested is history: when the last integrity
\* check read the Timelock's grants, who administered it was not as intended.
NoSet ==
    [run |-> 0, built |-> {}, key |-> "none", roles |-> [x \in Role |-> {}],
     granted |-> [x \in Role |-> {}], op |-> NoOp, logged |-> {}, upgraded |-> FALSE,
     paused |-> FALSE, contested |-> FALSE]

NoRecord == [run |-> 0, verified |-> FALSE, adaptor |-> FALSE]

\* What the integrity checks read, in order: the roles contract by contract, the
\* two operation logs of the Timelock, the proxies' implementation slots.
RoleOrder ==
    <<"TimelockAdmin", "PROPOSER", "EXECUTOR", "CANCELLER",
      "DarkPoolAdmin", "PAUSER", "DarkPoolUpgrader",
      "RegistryAdmin", "CONFIG", "SLASHER", "RegistryUpgrader",
      "RewardAdmin", "ADMIN", "DISTRIBUTOR", "ENTRYPOINT", "RewardUpgrader",
      "ComplianceAdmin", "COMMITTEE_ADMIN", "MEMBER">>
CallScheduled == 20
CallExecuted == 21
Slots == 22
AllRead == 23

contractOf(x) ==
    CASE x \in TimelockRoles -> "timelock"
      [] x \in {"DarkPoolAdmin", "PAUSER", "DarkPoolUpgrader"} -> "darkPool"
      [] x \in {"RegistryAdmin", "CONFIG", "SLASHER", "RegistryUpgrader"} -> "noxRegistry"
      [] x \in {"RewardAdmin", "ADMIN", "DISTRIBUTOR", "ENTRYPOINT", "RewardUpgrader"} ->
            "rewardPool"
      [] OTHER -> "complianceRegistry"

\* read: which read is next; log: the contract whose grants were read last;
\* candidates: the accounts to ask for, by role; waiting: those whose answer for
\* the next role is outstanding; held: those who answered that they hold it.
FirstRead ==
    [read |-> 1, log |-> "none", candidates |-> [x \in Role |-> {}], waiting |-> {},
     held |-> {}]

-----------------------------------------------------------------------------
(***************************************************************************)
(* The environment, checked before anything is written or sent.            *)
(***************************************************************************)

\* A delay below 48 hours (e.delay = 0) only on the short-delay chains.
governanceDelays(e) == e.delay = 1 \/ e.shortDelayChain

\* Two distinct multisigs with code; an account without code only locally.
safes(e) == e.gov # e.guardian /\ (e.safesHaveCode \/ e.local)

\* Fee assets are listed, valid and distinct, or defaulted locally.
configuredFeeAssets(e) == e.feeAssets = "valid" \/ (e.feeAssets = "none" /\ e.local)

\* The local fixture key is for local networks, and at most one key is given;
\* a supplied key is positive and not a multiple of the group order.
complianceKey(e) ==
    /\ e.key \in {"none", "configured"} \/ (e.key = "fixture" /\ e.local)

\* t-of-n with 0 < t <= n.
committee(e) == 0 < e.threshold /\ e.threshold <= e.committeeSize

\* Supplied tokens and router are contracts.
dependencies(e) == e.dependenciesHaveCode

\* A recorded deployment is only repointed on purpose.
assertNoPriorDeployment(e) == e.local \/ latest = NoRecord \/ e.allowRedeploy

begin(e) ==
    /\ pc = "idle"
    /\ run + mischief < MaxEvents
    /\ governanceDelays(e) /\ safes(e) /\ configuredFeeAssets(e)
    /\ complianceKey(e) /\ committee(e) /\ dependencies(e)
    /\ assertNoPriorDeployment(e)
    /\ run' = run + 1
    /\ env' = e
    /\ pc' = "secret"
    /\ chain' = [chain EXCEPT !.new = [NoSet EXCEPT !.run = run + 1]]
    /\ UNCHANGED <<check, disk, mischief>>

-----------------------------------------------------------------------------
(***************************************************************************)
(* Steps of the running script.                                            *)
(***************************************************************************)

step(from, to) ==
    /\ pc = from
    /\ pc' = to
    /\ UNCHANGED <<run, env>>

\* An account is granted a role, which the contract logs.
granting(s, x, account) ==
    [s EXCEPT !.roles[x] = @ \cup {account}, !.granted[x] = @ \cup {account}]

\* Merge freshly granted roles into those of the set being built.
initialized(s, contract, grants) ==
    [s EXCEPT
        !.built = @ \cup {contract},
        !.roles = [x \in Role |-> IF x \in DOMAIN grants THEN grants[x] ELSE @[x]],
        !.granted = [x \in Role |-> IF x \in DOMAIN grants THEN @[x] \cup grants[x] ELSE @[x]]]

build(contract, grants) == chain' = [chain EXCEPT !.new = initialized(@, contract, grants)]

\* Slip: the secret waits in memory for the deployment record.
writeSecret_later ==
    /\ step("secret", "hashes")
    /\ UNCHANGED <<check, chain, disk, mischief>>

\* Step 0: a generated secret is on disk before the first transaction.
writeSecret ==
    /\ step("secret", "hashes")
    /\ secrets' = IF env.key = "none" THEN secrets \cup {run} ELSE secrets
    /\ UNCHANGED <<check, chain, records, latest, mischief>>

\* Everything read from the file system, off local every circuit artifact.
hashArtifacts ==
    /\ step("hashes", "libraries")
    /\ env.artifacts \/ env.local
    /\ UNCHANGED <<check, chain, disk, mischief>>

\* Steps 1-3: Poseidon2, the verifiers and, locally, a mock staking token.
deployLibraries ==
    /\ step("libraries", "timelock")
    /\ env.stakingToken \/ env.local
    /\ build("libraries", <<>>)
    /\ UNCHANGED <<check, disk, mischief>>

\* Step 4: the constructor makes every proposer a canceller.
deployTimelock ==
    /\ step("timelock", "noxRegistry")
    /\ build("timelock",
             [TimelockAdmin |-> {"timelock", "deployer"}, PROPOSER |-> {env.gov},
              EXECUTOR |-> {env.gov}, CANCELLER |-> {env.gov}])
    /\ UNCHANGED <<check, disk, mischief>>

\* Step 5.
deployNoxRegistry ==
    /\ step("noxRegistry", "rewardPool")
    /\ build("noxRegistry",
             [RegistryAdmin |-> {"timelock"}, CONFIG |-> {"timelock"},
              SLASHER |-> {env.guardian}, RegistryUpgrader |-> {"timelock"}])
    /\ UNCHANGED <<check, disk, mischief>>

\* Step 6: the deployer administers the reward pool until it is wired.
deployRewardPool ==
    /\ step("rewardPool", "darkPool")
    /\ build("rewardPool",
             [RewardAdmin |-> {"timelock"}, ADMIN |-> {"deployer"},
              DISTRIBUTOR |-> {env.guardian}, RewardUpgrader |-> {"timelock"}])
    /\ UNCHANGED <<check, disk, mischief>>

\* Step 7: the pool is bound to the compliance key for good.
deployDarkPool ==
    /\ step("darkPool", "paidExecution")
    /\ LET s == initialized(chain.new, "darkPool",
                   [DarkPoolAdmin |-> {"timelock"}, PAUSER |-> {env.guardian},
                    DarkPoolUpgrader |-> {"timelock"}]) IN
       chain' = [chain EXCEPT !.new =
           [s EXCEPT !.key = IF env.key = "none" THEN "generated" ELSE "supplied"]]
    /\ UNCHANGED <<check, disk, mischief>>

\* Step 7a: sandbox, entry point, payment adapter, bundle executor.
deployPaidExecution ==
    /\ step("paidExecution", "feeAssets")
    /\ build("paidExecution", <<>>)
    /\ UNCHANGED <<check, disk, mischief>>

\* Supported and classified, as the pool's admin.
classifyFeeAssets ==
    /\ step("feeAssets", "entryPoint")
    /\ build("feeAssets", <<>>)
    /\ UNCHANGED <<check, disk, mischief>>

grantEntryPoint ==
    /\ step("entryPoint", "operationalAdmin")
    /\ chain' = [chain EXCEPT !.new = granting(@, "ENTRYPOINT", "entryPoint")]
    /\ UNCHANGED <<check, disk, mischief>>

transferOperationalAdmin ==
    /\ step("operationalAdmin", "complianceRegistry")
    /\ LET s == granting(chain.new, "ADMIN", env.guardian) IN
       chain' = [chain EXCEPT !.new = [s EXCEPT !.roles.ADMIN = @ \ {"deployer"}]]
    /\ UNCHANGED <<check, disk, mischief>>

\* Step 7b.
deployComplianceRegistry ==
    /\ step("complianceRegistry", "wiring")
    /\ build("complianceRegistry",
             [ComplianceAdmin |-> {"timelock"}, COMMITTEE_ADMIN |-> {"timelock"}])
    /\ UNCHANGED <<check, disk, mischief>>

\* Step 8: the veto goes to the governance Safe, not to the pauser.
wireCanceller ==
    /\ step("wiring", "preflight")
    /\ chain' = [chain EXCEPT !.new = granting(@, "CANCELLER", env.gov)]
    /\ UNCHANGED <<check, disk, mischief>>

-----------------------------------------------------------------------------
(***************************************************************************)
(* Step 9: the preflight, the renounce and the re-check.                   *)
(***************************************************************************)

\* What the deployer must not hold although it still administers the Timelock.
deployerMustNotHoldYet(roles) ==
    \A x \in {"DarkPoolAdmin", "DarkPoolUpgrader", "PAUSER", "RegistryAdmin",
              "RegistryUpgrader", "RewardAdmin", "RewardUpgrader", "ADMIN",
              "PROPOSER", "EXECUTOR", "CANCELLER"} :
        "deployer" \notin roles[x]

\* The named holders, and the exact set of cancellers.
wiring(s, e) ==
    /\ "timelock" \in s.roles.DarkPoolAdmin \cap s.roles.DarkPoolUpgrader
    /\ "timelock" \in s.roles.RegistryAdmin \cap s.roles.RewardAdmin
    /\ "timelock" \in s.roles.TimelockAdmin
    /\ e.guardian \in s.roles.PAUSER \cap s.roles.ADMIN
    /\ e.guardian \notin s.roles.CANCELLER
    /\ "entryPoint" \in s.roles.ENTRYPOINT
    /\ "feeAssets" \in s.built
    /\ e.gov \in s.roles.PROPOSER \cap s.roles.EXECUTOR
    /\ s.roles.CANCELLER = {e.gov}

\* The intended holders of every governed role.
roleTables(e) ==
    [DarkPoolAdmin |-> {"timelock"}, PAUSER |-> {e.guardian},
     DarkPoolUpgrader |-> {"timelock"},
     RegistryAdmin |-> {"timelock"}, CONFIG |-> {"timelock"},
     SLASHER |-> {e.guardian}, RegistryUpgrader |-> {"timelock"},
     RewardAdmin |-> {"timelock"}, ADMIN |-> {e.guardian},
     DISTRIBUTOR |-> {e.guardian}, ENTRYPOINT |-> {"entryPoint"},
     RewardUpgrader |-> {"timelock"},
     ComplianceAdmin |-> {"timelock"}, COMMITTEE_ADMIN |-> {"timelock"},
     MEMBER |-> {}]

\* The intended holders of the Timelock's own roles.
timelockTable(e, admins) ==
    [TimelockAdmin |-> admins, PROPOSER |-> {e.gov},
     EXECUTOR |-> {e.gov}, CANCELLER |-> {e.gov}]

\* The deployer administers the Timelock until it renounces.
timelockAdmins ==
    IF pc = "integrity" THEN {"timelock", "deployer"} ELSE {"timelock"}

expected(x) ==
    IF x \in TimelockRoles THEN timelockTable(env, timelockAdmins)[x] ELSE roleTables(env)[x]

\* The accounts every role is asked for; they include its intended holders.
integrityProbe == {"deployer", "timelock", env.gov, env.guardian, "entryPoint"}

\* Slip: only the accounts that the script knows are asked for.
candidates_known(x) == integrityProbe

\* And whoever the contract's log names: a later grantee is not looked at.
candidates(x) == integrityProbe \cup chain.new.granted[x]

\* Slip: every intended holder is there.
roleHolderProblems_named(holders, want) == ~(want \subseteq holders)

\* A role is held by exactly its intended holders.
roleHolderProblems(holders, want) == holders # want

checkWiring ==
    /\ step("preflight", "integrity")
    /\ deployerMustNotHoldYet(chain.new.roles)
    /\ wiring(chain.new, env)
    /\ check' = FirstRead
    /\ UNCHANGED <<chain, disk, mischief>>

\* A throw, a lost connection, a third failed read, the process killed.
abort ==
    /\ pc # "idle"
    /\ pc' = "idle"
    /\ check' = FirstRead
    /\ chain' = [chain EXCEPT !.new = NoSet]
    /\ UNCHANGED <<run, env, disk, mischief>>

checking(first, last) ==
    /\ pc \in {"integrity", "recheck"}
    /\ check.read \in first .. last

\* What is read settles the next read; with a problem the run ends in a throw.
settled(problems, next) ==
    \/ problems /\ abort
    \/ /\ ~problems
       /\ check' = next
       /\ UNCHANGED <<pc, run, env, chain, disk, mischief>>

\* The grants of the next role's contract are read, once for all its roles.
queryRoleGranted ==
    /\ checking(1, 19)
    /\ LET role == RoleOrder[check.read]
           asked == [x \in Role |-> IF contractOf(x) = contractOf(role) THEN candidates(x) ELSE {}] IN
       /\ contractOf(role) # check.log
       /\ check' = [check EXCEPT !.log = contractOf(role), !.candidates = asked,
                                 !.waiting = asked[role], !.held = {}]
       /\ chain' = IF role = "TimelockAdmin"
                   THEN [chain EXCEPT !.new.contested = chain.new.roles[role] # timelockAdmins]
                   ELSE chain
    /\ UNCHANGED <<pc, run, env, disk, mischief>>

\* All candidates of a role are asked at once and answer one by one, those of the
\* probe together: of them only the guardian can come by a role meanwhile.  The
\* last answer settles the role; the next is asked for then.
hasRole ==
    /\ checking(1, 19)
    /\ LET role == RoleOrder[check.read]
           next == check.read + 1 IN
       /\ contractOf(role) = check.log
       /\ \E S \in {integrityProbe} \cup {{a} : a \in check.waiting \ integrityProbe} :
            LET holders == check.held \cup (S \cap chain.new.roles[role]) IN
            /\ S \subseteq check.waiting
            /\ \/ /\ S # check.waiting
                  /\ check' = [check EXCEPT !.held = holders, !.waiting = @ \ S]
                  /\ UNCHANGED <<pc, run, env, chain, disk, mischief>>
               \/ /\ S = check.waiting
                  /\ settled(roleHolderProblems(holders, expected(role)),
                         [check EXCEPT !.read = next, !.held = {},
                             !.waiting = IF next = CallScheduled THEN {}
                                         ELSE check.candidates[RoleOrder[next]]])

\* After the roles the two operation logs, then the implementations.
queryOperations ==
    /\ checking(CallScheduled, Slots)
    /\ settled(\/ check.read = CallScheduled /\ "scheduled" \in chain.new.logged
               \/ check.read = CallExecuted /\ "executed" \in chain.new.logged
               \/ check.read = Slots /\ chain.new.upgraded,
               [check EXCEPT !.read = @ + 1])

\* Each read of the check is awaited before the next, and others act between.
governanceIntegrity == queryRoleGranted \/ hasRole \/ queryOperations

\* A failed read starts the check over.  Its tries, three in the code, are not
\* counted here: more of them only add behaviours.
withRetries ==
    /\ pc \in {"integrity", "recheck"}
    /\ check' = FirstRead
    /\ UNCHANGED <<pc, run, env, chain, disk, mischief>>

\* Storage-layout manifest: off local it lists the proxies of this run.
readManifest ==
    /\ step("integrity", "snapshot")
    /\ check.read = AllRead
    /\ env.manifest \/ env.local
    /\ UNCHANGED <<check, chain, disk, mischief>>

buildRecord(verified, adaptor) ==
    [run |-> run, verified |-> verified, adaptor |-> adaptor]

\* The record names its run; the latest pointer is repointed when asked.
writeRecord(isLatest, verified, adaptor) ==
    /\ records' = records \cup {run}
    /\ latest' = IF isLatest THEN buildRecord(verified, adaptor) ELSE latest
    /\ UNCHANGED secrets

\* Slip: one record, written at the end.
snapshot_none ==
    /\ step("snapshot", "renounce")
    /\ UNCHANGED <<check, chain, disk, mischief>>

snapshot ==
    /\ step("snapshot", "renounce")
    /\ writeRecord(FALSE, FALSE, FALSE)
    /\ UNCHANGED <<check, chain, mischief>>

renounce ==
    /\ step("renounce", "assert")
    /\ chain' = [chain EXCEPT !.new.roles.TimelockAdmin = @ \ {"deployer"}]
    /\ UNCHANGED <<check, disk, mischief>>

\* Step 10.
assertRenounced ==
    /\ step("assert", "recheck")
    /\ "deployer" \notin chain.new.roles.TimelockAdmin
    /\ check' = FirstRead
    /\ UNCHANGED <<chain, disk, mischief>>

\* Nobody reads the logs of a set on record.
unlogged(s) == [s EXCEPT !.granted = NoSet.granted, !.logged = NoSet.logged]

publish ==
    /\ step("recheck", "adaptor")
    /\ check.read = AllRead
    /\ writeRecord(TRUE, TRUE, FALSE)
    /\ chain' = [new |-> NoSet, live |-> unlogged(chain.new)]
    /\ UNCHANGED <<check, mischief>>

\* Steps 12-13, then the record once more.
finish ==
    /\ step("adaptor", "idle")
    /\ writeRecord(TRUE, TRUE, env.swapRouter)
    /\ check' = FirstRead
    /\ UNCHANGED <<chain, mischief>>

-----------------------------------------------------------------------------
(***************************************************************************)
(* The contracts' other users.  TimelockController is external: an         *)
(* administrator grants its roles, a proposer schedules, an executor       *)
(* executes what is ready, a canceller cancels; what it executes it does   *)
(* as the administrator of every other contract.                           *)
(***************************************************************************)

\* What a call leaves of a set.
calling(r, s) == chain' = [chain EXCEPT ![r] = IF r = "live" THEN unlogged(s) ELSE s]

\* The Timelock's administrator: the deployer's key, or whom it promoted.
grantTimelockRole(r, by, x, account) ==
    /\ run + mischief < MaxEvents
    /\ by \in chain[r].roles.TimelockAdmin
    /\ account \notin chain[r].roles[x]
    /\ calling(r, granting(chain[r], x, account))
    /\ mischief' = mischief + 1
    /\ UNCHANGED <<script, disk>>

\* A holder may drop its role again, before anyone looks.
renounceTimelockRole(r, x, account) ==
    /\ account \in chain[r].roles[x]
    /\ chain' = [chain EXCEPT ![r].roles[x] = @ \ {account}]
    /\ UNCHANGED <<script, disk, mischief>>

scheduleOperation(r, by, call, x, to) ==
    /\ by \in chain[r].roles.PROPOSER
    /\ chain[r].op = NoOp
    /\ calling(r, [chain[r] EXCEPT
           !.op = [call |-> call, role |-> x, to |-> to, ready |-> FALSE],
           !.logged = @ \cup {"scheduled"}])
    /\ UNCHANGED <<script, disk, mischief>>

\* The delay passes.
operationReady(r) ==
    /\ chain[r].op # NoOp /\ ~chain[r].op.ready
    /\ chain' = [chain EXCEPT ![r].op.ready = TRUE]
    /\ UNCHANGED <<script, disk, mischief>>

cancelOperation(r, by) ==
    /\ by \in chain[r].roles.CANCELLER
    /\ chain[r].op # NoOp
    /\ chain' = [chain EXCEPT ![r].op = NoOp]
    /\ UNCHANGED <<script, disk, mischief>>

executeOperation(r, by) ==
    /\ by \in chain[r].roles.EXECUTOR
    /\ chain[r].op.ready
    /\ LET op == chain[r].op
           s == IF op.call = "grant" THEN granting(chain[r], op.role, op.to) ELSE chain[r] IN
       calling(r, [s EXCEPT
           !.op = NoOp,
           !.logged = @ \cup {"executed"},
           !.paused = @ /\ op.call # "unpause",
           !.upgraded = @ \/ op.call = "upgrade"])
    /\ UNCHANGED <<script, disk, mischief>>

\* The guardian's emergency stop of the pool on record.
pause ==
    /\ chain.live.roles.PAUSER # {}
    /\ ~chain.live.paused
    /\ chain' = [chain EXCEPT !.live.paused = TRUE]
    /\ UNCHANGED <<script, disk, mischief>>

\* Governance works on the recorded deployment and ends its pauses.
proposeUnpause ==
    /\ chain.live.paused
    /\ scheduleOperation("live", "gov", "unpause", "none", "none")

executeUnpause ==
    /\ chain.live.op.call = "unpause"
    /\ executeOperation("live", "gov")

\* What a foreign operation does, and who may run one.
mischiefOperation(r, by) ==
    \/ \E x \in TargetRoles, to \in Strangers : scheduleOperation(r, by, "grant", x, to)
    \/ scheduleOperation(r, by, "upgrade", "none", "none")
    \/ executeOperation(r, by)

-----------------------------------------------------------------------------
Init ==
    /\ pc = "idle" /\ run = 0 /\ env = CHOOSE e \in Envs : TRUE
    /\ check = FirstRead
    /\ chain = [r \in Sets |-> NoSet]
    /\ secrets = {} /\ records = {} /\ latest = NoRecord
    /\ mischief = 0

\* The script itself, in the order of its steps.
Script ==
    \/ writeSecret \/ hashArtifacts \/ deployLibraries \/ deployTimelock
    \/ deployNoxRegistry \/ deployRewardPool \/ deployDarkPool
    \/ deployPaidExecution \/ classifyFeeAssets \/ grantEntryPoint
    \/ transferOperationalAdmin \/ deployComplianceRegistry \/ wireCanceller
    \/ checkWiring \/ governanceIntegrity \/ withRetries \/ readManifest
    \/ snapshot \/ renounce \/ assertRenounced \/ publish \/ finish

Outside(r) ==
    \/ \E by \in {"deployer"} \cup Strangers, x \in TimelockRoles,
          account \in {"guardian"} \cup Strangers :
          grantTimelockRole(r, by, x, account)
    \/ \E x \in TimelockRoles, account \in Strangers : renounceTimelockRole(r, x, account)
    \/ \E by \in Strangers : mischiefOperation(r, by)
    \/ \E by \in {"guardian"} \cup Strangers : cancelOperation(r, by)

Governance == proposeUnpause \/ executeUnpause

Next ==
    \/ \E e \in Envs : begin(e)
    \/ Script
    \/ abort
    \/ \E r \in {"live"} \cup (IF pc = "idle" THEN {} ELSE {"new"}) :
          Outside(r) \/ operationReady(r)
    \/ pause
    \/ Governance

\* The governance Safe keeps proposing and executing, and time passes.  The
\* script, the guardian and the key's other holder may stop at any time.
Fairness ==
    /\ WF_vars(proposeUnpause)
    /\ WF_vars(operationReady("live"))
    /\ WF_vars(executeUnpause)

Spec == Init /\ [][Next]_vars /\ Fairness

-----------------------------------------------------------------------------
(***************************************************************************)
(* Properties.                                                             *)
(***************************************************************************)

\* The set that <network>-latest.json names, the one every governance script
\* works on, is governed as intended and stays so: neither the deployer nor
\* anyone the deployment does not name holds a role on it, whatever was done
\* with the deployer's key before the renounce and whatever happens between the
\* reads of the two integrity checks; only the Timelock administers and
\* upgrades; who can pause cannot veto; and the proxies run the code that was
\* deployed.  With one exception, which roleHolderProblems leaves open: someone
\* who still administers the Timelock when the re-check reads the log of its
\* grants can grant a role that the log it read does not show, give up its own
\* before it is asked for it, and the set goes on record all the same.
LatestIsGoverned ==
    latest # NoRecord =>
        LET s == chain.live IN
        /\ latest.verified /\ latest.run = s.run
        /\ ~s.contested =>
             /\ ~s.upgraded
             /\ \A x \in Role : s.roles[x] \cap ({"deployer"} \cup Strangers) = {}
             /\ s.roles.PAUSER \cap s.roles.CANCELLER = {}
             /\ \A x \in {"TimelockAdmin", "DarkPoolAdmin", "DarkPoolUpgrader",
                          "RegistryAdmin", "CONFIG", "RegistryUpgrader",
                          "RewardAdmin", "RewardUpgrader", "ComplianceAdmin"} :
                    s.roles[x] = {"timelock"}

\* Wherever the script dies, what is needed afterwards is on disk: the addresses
\* of a set the deployer can no longer repair, and the secret of the key that a
\* pool of this script encrypts to.
DiskKeepsUp ==
    \A r \in Sets :
        /\ ("timelock" \in chain[r].built
            /\ "deployer" \notin chain[r].roles.TimelockAdmin) => chain[r].run \in records
        /\ chain[r].key = "generated" => chain[r].run \in secrets

\* The guardian's pause of the recorded pool is not a veto over its end: the
\* Timelock's unpause goes through, however often the guardian pauses - on a set
\* whose Timelock nobody else administered when the re-check read its grants;
\* where somebody did, a canceller may be left that no check has seen.
PauseEnds == (chain.live.paused /\ ~chain.live.contested) ~> ~chain.live.paused
=============================================================================
