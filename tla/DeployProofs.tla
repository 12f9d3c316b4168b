---------------------------- MODULE DeployProofs ----------------------------
(***************************************************************************)
(* Whatever run of scripts/deploy.ts dies at whatever step, and whatever   *)
(* the deployer's key is used for meanwhile: the deployment on record is   *)
(* governed as intended, and the disk holds what is needed afterwards.     *)
(* For every set of environments and any number of runs and misuses.       *)
(***************************************************************************)
EXTENDS Deploy, TLAPS

-----------------------------------------------------------------------------
(***************************************************************************)
(* The inductive invariant.                                                *)
(***************************************************************************)

\* "none" is whom an operation that grants nothing names.
Account ==
    {"timelock", "deployer", "entryPoint", "guardian", "none"} \cup Strangers
        \cup {e.gov : e \in Envs} \cup {e.guardian : e \in Envs}

Operation == [call : {"none", "grant", "upgrade", "unpause"},
              role : Role \cup {"none"}, to : Strangers \cup {"none"}, ready : BOOLEAN]

ContractSet ==
    [run : Nat, built : SUBSET Contract, key : {"none", "generated", "supplied"},
     roles : [Role -> SUBSET Account], granted : [Role -> SUBSET Account], op : Operation,
     logged : SUBSET {"scheduled", "executed"}, upgraded : BOOLEAN, paused : BOOLEAN,
     contested : BOOLEAN]

Check ==
    [read : 1 .. AllRead, log : Contract \cup {"none"}, candidates : [Role -> SUBSET Account],
     waiting : SUBSET Account, held : SUBSET Account]

Step == {"idle", "secret", "hashes", "libraries", "timelock", "noxRegistry", "rewardPool",
         "darkPool", "paidExecution", "feeAssets", "entryPoint", "operationalAdmin",
         "complianceRegistry", "wiring", "preflight", "integrity", "snapshot", "renounce",
         "assert", "recheck", "adaptor"}

\* Every set is a set of contracts with their roles, and a running script runs in an
\* environment it accepted.
WellTyped ==
    /\ pc \in Step
    /\ run \in Nat
    /\ pc # "idle" => env \in Envs /\ safes(env)
    /\ check \in Check
    /\ chain \in [Sets -> ContractSet]
    /\ secrets \subseteq Nat /\ records \subseteq Nat

\* Of the set being built, an operation that runs or an upgrade that happened was
\* logged when it was scheduled, and every holder of a role when it was granted.
LogComplete ==
    LET s == chain.new IN
    /\ "scheduled" \notin s.logged => s.op = NoOp /\ ~ s.upgraded
    /\ \A x \in Role : s.roles[x] \subseteq s.granted[x]

\* The Timelock's roles, and all others, are held by their intended holders.
TimelockGoverned(s, gov) ==
    /\ s.roles.TimelockAdmin = {"timelock"} /\ s.roles.PROPOSER = {gov}
    /\ s.roles.EXECUTOR = {gov} /\ s.roles.CANCELLER = {gov}

RolesGoverned(s, e) == \A x \in GovernedRoles : s.roles[x] = roleTables(e)[x]

\* Who the re-check wants to hold a role.
intended(x, e) ==
    IF x \in TimelockRoles THEN timelockTable(e, {"timelock"})[x] ELSE roleTables(e)[x]

\* Set s is governed as environment e intends, and only ends pauses.
GovernedBy(s, e) ==
    /\ e \in Envs /\ safes(e)
    /\ e.gov # "deployer" /\ e.guardian # "deployer"
    /\ TimelockGoverned(s, e.gov)
    /\ RolesGoverned(s, e)
    /\ ~ s.upgraded
    /\ s.op = NoOp \/ s.op.call = "unpause"

\* After the preflight the Safes are not the deployer.
Vetted ==
    pc \in {"integrity", "snapshot", "renounce", "assert", "recheck"} =>
        env.gov # "deployer" /\ env.guardian # "deployer"

\* The re-check has read the Timelock's grants, when nobody else administered it,
\* and nobody has scheduled anything.
Uncontested ==
    /\ pc = "recheck" /\ check.log # "none"
    /\ ~ chain.new.contested /\ "scheduled" \notin chain.new.logged

\* Then the Timelock alone administers itself, and roles are only given up; so
\* whoever holds one is a candidate,
AllAsked ==
    Uncontested =>
        /\ chain.new.roles.TimelockAdmin = {"timelock"}
        /\ \A x \in Role : contractOf(x) = check.log =>
               chain.new.roles[x] \subseteq check.candidates[x]

\* of the role that is asked for, who holds it and has answered said so, and
\* whoever said so holds it or has no business here,
AnswersStand ==
    Uncontested /\ check.read <= 19 /\ contractOf(RoleOrder[check.read]) = check.log =>
        LET role == RoleOrder[check.read] IN
        /\ chain.new.roles[role] \subseteq check.held \cup check.waiting
        /\ check.held \ Strangers \subseteq chain.new.roles[role]

\* and what was settled stays so,
SettledStays ==
    Uncontested =>
        \A i \in 1 .. 19 : i < check.read => chain.new.roles[RoleOrder[i]] = intended(RoleOrder[i], env)

\* so that nobody schedules anything any more once the Timelock's log was read.
NothingScheduled ==
    /\ check.log = "none" => check.read = 1
    /\ pc = "recheck" /\ check.read > CallScheduled /\ ~ chain.new.contested =>
           "scheduled" \notin chain.new.logged

ReadsLast == AllAsked /\ AnswersStand /\ SettledStays /\ NothingScheduled

\* The set on record is governed, unless its Timelock was contested.
LiveGoverned ==
    /\ \/ chain.live = NoSet \/ chain.live.contested
       \/ \E e \in Envs : GovernedBy(chain.live, e)
    /\ latest # NoRecord => /\ latest.verified /\ latest.run = chain.live.run
                            /\ chain.live # NoSet
    /\ pc = "adaptor" => latest # NoRecord /\ latest.run = run

\* What is on disk while the script runs.
DiskInTime ==
    /\ pc \notin {"idle", "adaptor"} => chain.new.run = run
    /\ pc \notin {"idle", "secret"} /\ env.key = "none" => run \in secrets
    /\ pc \in {"renounce", "assert", "recheck"} => run \in records

DeployInv ==
    /\ WellTyped /\ LogComplete /\ Vetted /\ ReadsLast /\ LiveGoverned
    /\ DiskInTime /\ DiskKeepsUp

-----------------------------------------------------------------------------
(***************************************************************************)
(* Building the set, up to the preflight.                                  *)
(***************************************************************************)

\* Replacing one of the two sets leaves the other alone.
LEMMA Replace ==
    ASSUME NEW c \in [Sets -> ContractSet], NEW d, NEW s \in ContractSet, NEW r \in Sets,
           d = [c EXCEPT ![r] = s]
    PROVE  /\ d \in [Sets -> ContractSet]
           /\ d[r] = s /\ \A q \in Sets : q # r => d[q] = c[q]
OBVIOUS

\* A set nothing was deployed of yet.
LEMMA NoSetTyped == NoSet \in ContractSet /\ NoSet.run = 0
<1>1. [x \in Role |-> {}] \in [Role -> SUBSET Account] /\ NoOp \in Operation
  BY DEF NoOp, Operation
<1> QED BY <1>1 DEF NoSet, ContractSet

\* A check starts with nothing read.
LEMMA FirstReadTyped == FirstRead \in Check /\ FirstRead.read = 1 /\ FirstRead.log = "none"
BY DEF FirstRead, Check, AllRead

\* Every role is read, the Timelock's first.
LEMMA RolesInOrder ==
    /\ \A i \in 1 .. 19 : RoleOrder[i] \in Role
    /\ \A x \in Role : \E i \in 1 .. 19 : RoleOrder[i] = x
    /\ RoleOrder[1] = "TimelockAdmin" /\ RoleOrder[2] = "PROPOSER"
    /\ \A i \in 1 .. 19 : RoleOrder[i] = "TimelockAdmin" => i = 1
    /\ \A x \in Role : contractOf(x) \in Contract /\ contractOf(x) # "none"
<1>1. /\ \A i \in 1 .. 19 : RoleOrder[i] \in Role
      /\ RoleOrder[1] = "TimelockAdmin" /\ RoleOrder[2] = "PROPOSER"
      /\ \A i \in 1 .. 19 : RoleOrder[i] = "TimelockAdmin" => i = 1
  BY DEF RoleOrder, Role, TimelockRoles, GovernedRoles
<1>2. /\ \A x \in TimelockRoles : \E i \in 1 .. 19 : RoleOrder[i] = x
      /\ \A x \in GovernedRoles : \E i \in 1 .. 19 : RoleOrder[i] = x
  BY DEF RoleOrder, TimelockRoles, GovernedRoles
<1>3. \A x \in Role : contractOf(x) \in Contract /\ contractOf(x) # "none"
  BY DEF contractOf, Contract
<1> QED BY <1>1, <1>2, <1>3 DEF Role

\* No stranger is meant to hold a role.
LEMMA IntendedAreKnown ==
    ASSUME NEW e \in Envs, NEW x \in Role PROVE intended(x, e) \cap Strangers = {}
<1>1. /\ {"timelock", "entryPoint"} \cap Strangers = {}
      /\ e.gov \notin Strangers /\ e.guardian \notin Strangers
  BY StrangerAssumption
<1>2. CASE x \in TimelockRoles
  BY <1>1, <1>2 DEF intended, timelockTable, TimelockRoles
<1>3. CASE x \in GovernedRoles
  <2>1. x \notin TimelockRoles
    BY <1>3 DEF TimelockRoles, GovernedRoles
  <2> QED BY <1>1, <1>3, <2>1 DEF intended, roleTables, GovernedRoles
<1> QED BY <1>2, <1>3 DEF Role

\* The script advances by building, granting or writing a secret.
Progress ==
    /\ pc \notin {"idle", "adaptor"}
    /\ pc' \in Step \ {"idle", "integrity", "snapshot", "renounce", "assert", "recheck", "adaptor"}
    /\ UNCHANGED <<run, env, check, records, latest>>
    /\ secrets' = secrets \/ (secrets' = secrets \cup {run})
    /\ pc = "secret" /\ env.key = "none" => run \in secrets'
    /\ \E s \in ContractSet :
         /\ chain' = [chain EXCEPT !["new"] = s]
         /\ s.run = chain.new.run /\ s.op = chain.new.op
         /\ s.logged = chain.new.logged /\ s.upgraded = chain.new.upgraded
         /\ \A x \in Role : s.roles[x] \subseteq s.granted[x]
         /\ "timelock" \in s.built /\ "deployer" \notin s.roles.TimelockAdmin =>
              "timelock" \in chain.new.built /\ "deployer" \notin chain.new.roles.TimelockAdmin
         /\ s.key # chain.new.key => pc # "secret" /\ (s.key = "generated" => env.key = "none")

\* Such a step keeps the invariant.
LEMMA ProgressKeepsInv == ASSUME DeployInv, Progress PROVE DeployInv'
<1>1. PICK s \in ContractSet :
         /\ chain' = [chain EXCEPT !["new"] = s]
         /\ s.run = chain.new.run /\ s.op = chain.new.op
         /\ s.logged = chain.new.logged /\ s.upgraded = chain.new.upgraded
         /\ \A x \in Role : s.roles[x] \subseteq s.granted[x]
         /\ "timelock" \in s.built /\ "deployer" \notin s.roles.TimelockAdmin =>
              "timelock" \in chain.new.built /\ "deployer" \notin chain.new.roles.TimelockAdmin
         /\ s.key # chain.new.key => pc # "secret" /\ (s.key = "generated" => env.key = "none")
  BY DEF Progress
<1>2. /\ chain' \in [Sets -> ContractSet] /\ chain'.new = s /\ chain'.live = chain.live
      /\ chain["new"] \in ContractSet /\ "new" \in Sets /\ "live" \in Sets
  BY <1>1, Replace DEF Sets, DeployInv, WellTyped
<1>3. WellTyped'
  BY <1>2 DEF Progress, DeployInv, WellTyped, safes
<1>4. LogComplete'
  BY <1>1, <1>2 DEF DeployInv, LogComplete
<1>5. Vetted' /\ ReadsLast'
  BY DEF Progress, Vetted, DeployInv, ReadsLast, AllAsked, AnswersStand, SettledStays,
         NothingScheduled, Uncontested
<1>6. LiveGoverned'
  BY <1>2 DEF Progress, DeployInv, LiveGoverned
<1>7. DiskInTime'
  BY <1>1, <1>2 DEF Progress, DeployInv, DiskInTime
<1>8. DiskKeepsUp'
  BY <1>1, <1>2 DEF Progress, DeployInv, DiskKeepsUp, DiskInTime, Sets
<1> QED BY <1>3, <1>4, <1>5, <1>6, <1>7, <1>8 DEF DeployInv

\* Steps that leave the chain alone.
LEMMA WriteSecretStep == ASSUME DeployInv, writeSecret \/ hashArtifacts PROVE DeployInv'
<1>1. /\ chain' = [chain EXCEPT !["new"] = chain.new] /\ chain.new \in ContractSet
      /\ \A x \in Role : chain.new.roles[x] \subseteq chain.new.granted[x]
  BY DEF DeployInv, WellTyped, LogComplete, Sets, writeSecret, hashArtifacts
<1>2. Progress
  BY <1>1 DEF Progress, writeSecret, hashArtifacts, step, disk, Step
<1> QED BY <1>2, ProgressKeepsInv

\* A contract joins the set with the roles its initializer grants.
LEMMA BuildStep ==
    ASSUME DeployInv, NEW from, NEW to, NEW contract \in Contract, NEW grants,
           step(from, to), build(contract, grants), UNCHANGED <<check, disk, mischief>>,
           from \notin {"idle", "secret", "adaptor"},
           to \in Step \ {"idle", "integrity", "snapshot", "renounce", "assert", "recheck", "adaptor"},
           \A x \in DOMAIN grants : grants[x] \subseteq Account,
           contract = "timelock" => "TimelockAdmin" \in DOMAIN grants,
           "TimelockAdmin" \in DOMAIN grants => "deployer" \in grants["TimelockAdmin"]
    PROVE  DeployInv'
<1> DEFINE rs == [x \in Role |-> IF x \in DOMAIN grants THEN grants[x] ELSE chain.new.roles[x]]
           gs == [x \in Role |-> IF x \in DOMAIN grants
                                 THEN chain.new.granted[x] \cup grants[x] ELSE chain.new.granted[x]]
           s == [chain.new EXCEPT !.built = @ \cup {contract}, !.roles = rs, !.granted = gs]
<1>1. /\ chain \in [Sets -> ContractSet] /\ chain.new \in ContractSet
      /\ \A x \in Role : chain.new.roles[x] \subseteq chain.new.granted[x]
  BY DEF DeployInv, WellTyped, LogComplete, Sets
<1>2. /\ rs \in [Role -> SUBSET Account] /\ gs \in [Role -> SUBSET Account]
      /\ \A x \in Role : rs[x] \subseteq gs[x]
  BY <1>1 DEF ContractSet
<1>3. chain' = [chain EXCEPT !["new"] = s]
  BY <1>1 DEF build, initialized, ContractSet
<1>4. rs.TimelockAdmin = IF "TimelockAdmin" \in DOMAIN grants THEN grants["TimelockAdmin"]
                         ELSE chain.new.roles.TimelockAdmin
  BY DEF Role, TimelockRoles
<1> HIDE DEF rs, gs
<1>5. /\ s \in ContractSet /\ s.roles = rs /\ s.granted = gs
      /\ s.built = chain.new.built \cup {contract}
      /\ s.run = chain.new.run /\ s.op = chain.new.op /\ s.key = chain.new.key
      /\ s.logged = chain.new.logged /\ s.upgraded = chain.new.upgraded
  BY <1>1, <1>2 DEF ContractSet
<1> HIDE DEF s
<1>6. Progress
  BY <1>2, <1>3, <1>4, <1>5 DEF Progress, step, disk
<1> QED BY <1>6, ProgressKeepsInv

\* Steps 1 to 7b of the script that deploy, except for the pool.
LEMMA DeployStep ==
    ASSUME DeployInv,
           \/ deployLibraries \/ deployTimelock \/ deployNoxRegistry \/ deployRewardPool
           \/ deployPaidExecution \/ classifyFeeAssets \/ deployComplianceRegistry
    PROVE  DeployInv'
<1>1. pc # "idle" => env.gov \in Account /\ env.guardian \in Account
  BY DEF DeployInv, WellTyped, Account
<1>2. "deployer" \in Account /\ "timelock" \in Account
  BY DEF Account
<1>3. CASE deployLibraries
  BY <1>3, BuildStep DEF deployLibraries, Step, Contract
<1>4. CASE deployTimelock
  BY <1>1, <1>2, <1>4, BuildStep DEF deployTimelock, Step, Contract, step
<1>5. CASE deployNoxRegistry
  BY <1>1, <1>2, <1>5, BuildStep DEF deployNoxRegistry, Step, Contract, step
<1>6. CASE deployRewardPool
  BY <1>1, <1>2, <1>6, BuildStep DEF deployRewardPool, Step, Contract, step
<1>7. CASE deployPaidExecution
  BY <1>7, BuildStep DEF deployPaidExecution, Step, Contract
<1>8. CASE classifyFeeAssets
  BY <1>8, BuildStep DEF classifyFeeAssets, Step, Contract
<1>9. CASE deployComplianceRegistry
  BY <1>1, <1>2, <1>9, BuildStep DEF deployComplianceRegistry, Step, Contract, step
<1> QED BY <1>3, <1>4, <1>5, <1>6, <1>7, <1>8, <1>9

\* The pool is bound to its key, supplied or generated and written down before.
LEMMA DeployDarkPoolStep == ASSUME DeployInv, deployDarkPool PROVE DeployInv'
<1> DEFINE grants == [DarkPoolAdmin |-> {"timelock"}, PAUSER |-> {env.guardian},
                      DarkPoolUpgrader |-> {"timelock"}]
           rs == [x \in Role |-> IF x \in DOMAIN grants THEN grants[x] ELSE chain.new.roles[x]]
           gs == [x \in Role |-> IF x \in DOMAIN grants
                                 THEN chain.new.granted[x] \cup grants[x] ELSE chain.new.granted[x]]
           key == IF env.key = "none" THEN "generated" ELSE "supplied"
           s == [chain.new EXCEPT !.built = @ \cup {"darkPool"}, !.roles = rs, !.granted = gs,
                                  !.key = key]
<1>1. /\ chain \in [Sets -> ContractSet] /\ chain.new \in ContractSet
      /\ \A x \in Role : chain.new.roles[x] \subseteq chain.new.granted[x]
  BY DEF DeployInv, WellTyped, LogComplete, Sets
<1>2. env.guardian \in Account /\ "timelock" \in Account
  BY DEF DeployInv, WellTyped, Account, deployDarkPool, step
<1>3. \A x \in DOMAIN grants : grants[x] \subseteq Account
  BY <1>2
<1>4. chain' = [chain EXCEPT !["new"] = s]
  BY <1>1 DEF deployDarkPool, initialized, ContractSet
<1>5. "TimelockAdmin" \notin DOMAIN grants
  OBVIOUS
<1> HIDE DEF grants
<1>6. /\ rs \in [Role -> SUBSET Account] /\ gs \in [Role -> SUBSET Account]
      /\ \A x \in Role : rs[x] \subseteq gs[x]
      /\ rs.TimelockAdmin = chain.new.roles.TimelockAdmin
  BY <1>1, <1>3, <1>5 DEF ContractSet, Role, TimelockRoles
<1> HIDE DEF rs, gs
<1>7. /\ s \in ContractSet /\ s.roles = rs /\ s.granted = gs
      /\ s.built = chain.new.built \cup {"darkPool"}
      /\ s.run = chain.new.run /\ s.op = chain.new.op /\ s.key = key
      /\ s.logged = chain.new.logged /\ s.upgraded = chain.new.upgraded
  BY <1>1, <1>6 DEF ContractSet, Contract
<1> HIDE DEF s
<1>8. Progress
  BY <1>4, <1>6, <1>7 DEF Progress, deployDarkPool, step, disk, Step
<1> QED BY <1>8, ProgressKeepsInv

\* The script's own grants and revocations touch no administrator of the Timelock.
LEMMA GrantStep ==
    ASSUME DeployInv, grantEntryPoint \/ transferOperationalAdmin \/ wireCanceller
    PROVE  DeployInv'
<1>1. /\ chain \in [Sets -> ContractSet] /\ chain.new \in ContractSet
      /\ chain.new.roles \in [Role -> SUBSET Account]
      /\ chain.new.granted \in [Role -> SUBSET Account]
      /\ \A x \in Role : chain.new.roles[x] \subseteq chain.new.granted[x]
      /\ env.gov \in Account /\ env.guardian \in Account /\ "entryPoint" \in Account
  BY DEF DeployInv, WellTyped, LogComplete, Sets, ContractSet, Account, grantEntryPoint,
         transferOperationalAdmin, wireCanceller, step
<1>2. ASSUME NEW x \in Role \ {"TimelockAdmin"}, NEW a \in Account, NEW S,
             S \subseteq chain.new.roles[x] \cup {a},
             chain' = [chain EXCEPT !["new"] = [chain.new EXCEPT
                 !.roles = [chain.new.roles EXCEPT ![x] = S],
                 !.granted = [chain.new.granted EXCEPT ![x] = chain.new.granted[x] \cup {a}]]]
      PROVE  DeployInv'
  <2> DEFINE rs == [chain.new.roles EXCEPT ![x] = S]
             gs == [chain.new.granted EXCEPT ![x] = chain.new.granted[x] \cup {a}]
             s == [chain.new EXCEPT !.roles = rs, !.granted = gs]
  <2>1. /\ rs \in [Role -> SUBSET Account] /\ gs \in [Role -> SUBSET Account]
        /\ \A y \in Role : rs[y] \subseteq gs[y]
    BY <1>1, <1>2
  <2>2. rs.TimelockAdmin = chain.new.roles.TimelockAdmin
    BY <1>1 DEF Role, TimelockRoles
  <2> HIDE DEF rs, gs
  <2>3. /\ s \in ContractSet /\ s.roles = rs /\ s.granted = gs /\ s.built = chain.new.built
        /\ s.run = chain.new.run /\ s.op = chain.new.op /\ s.key = chain.new.key
        /\ s.logged = chain.new.logged /\ s.upgraded = chain.new.upgraded
    BY <1>1, <2>1 DEF ContractSet
  <2>4. chain' = [chain EXCEPT !["new"] = s]
    BY <1>2 DEF rs, gs
  <2> HIDE DEF s
  <2>5. Progress
    BY <2>1, <2>2, <2>3, <2>4
       DEF Progress, grantEntryPoint, transferOperationalAdmin, wireCanceller, step, disk, Step
  <2> QED BY <2>5, ProgressKeepsInv
<1>3. CASE grantEntryPoint
  <2>1. "ENTRYPOINT" \in Role \ {"TimelockAdmin"}
    BY DEF Role, GovernedRoles
  <2>2. chain' = [chain EXCEPT !["new"] = [chain.new EXCEPT
            !.roles = [chain.new.roles EXCEPT
                !["ENTRYPOINT"] = chain.new.roles["ENTRYPOINT"] \cup {"entryPoint"}],
            !.granted = [chain.new.granted EXCEPT
                !["ENTRYPOINT"] = chain.new.granted["ENTRYPOINT"] \cup {"entryPoint"}]]]
    BY <1>3 DEF grantEntryPoint, granting
  <2> QED BY <1>1, <1>2, <2>1, <2>2
<1>4. CASE transferOperationalAdmin
  <2>1. "ADMIN" \in Role \ {"TimelockAdmin"}
    BY DEF Role, GovernedRoles
  <2>2. chain' = [chain EXCEPT !["new"] = [chain.new EXCEPT
            !.roles = [chain.new.roles EXCEPT
                !["ADMIN"] = (chain.new.roles["ADMIN"] \cup {env.guardian}) \ {"deployer"}],
            !.granted = [chain.new.granted EXCEPT
                !["ADMIN"] = chain.new.granted["ADMIN"] \cup {env.guardian}]]]
    <3> DEFINE c == chain.new
               R == [c.roles EXCEPT !["ADMIN"] = c.roles["ADMIN"] \cup {env.guardian}]
               G == [c.granted EXCEPT !["ADMIN"] = c.granted["ADMIN"] \cup {env.guardian}]
               s == [c EXCEPT !.roles = R, !.granted = G]
    <3>1. chain' = [chain EXCEPT !["new"] =
                       [s EXCEPT !.roles = [s.roles EXCEPT !["ADMIN"] = s.roles["ADMIN"] \ {"deployer"}]]]
      BY <1>4 DEF transferOperationalAdmin, granting
    <3>2. R \in [Role -> SUBSET Account] /\ c \in ContractSet
      BY <1>1, <2>1
    <3>3. [R EXCEPT !["ADMIN"] = R["ADMIN"] \ {"deployer"}]
              = [c.roles EXCEPT !["ADMIN"] = (c.roles["ADMIN"] \cup {env.guardian}) \ {"deployer"}]
      BY <1>1, <2>1
    <3> HIDE DEF R, G, c
    <3>4. s.roles = R
      BY <3>2 DEF ContractSet
    <3>5. [s EXCEPT !.roles = [R EXCEPT !["ADMIN"] = R["ADMIN"] \ {"deployer"}]]
              = [c EXCEPT !.roles = [R EXCEPT !["ADMIN"] = R["ADMIN"] \ {"deployer"}], !.granted = G]
      BY <3>2 DEF ContractSet
    <3> QED BY <3>1, <3>3, <3>4, <3>5 DEF c, G
  <2> DEFINE S == (chain.new.roles["ADMIN"] \cup {env.guardian}) \ {"deployer"}
  <2>3. S \subseteq chain.new.roles["ADMIN"] \cup {env.guardian}
    OBVIOUS
  <2>4. chain' = [chain EXCEPT !["new"] = [chain.new EXCEPT
            !.roles = [chain.new.roles EXCEPT !["ADMIN"] = S],
            !.granted = [chain.new.granted EXCEPT
                !["ADMIN"] = chain.new.granted["ADMIN"] \cup {env.guardian}]]]
    BY <2>2
  <2> HIDE DEF S
  <2> QED BY <1>1, <1>2, <2>1, <2>3, <2>4
<1>5. CASE wireCanceller
  <2>1. "CANCELLER" \in Role \ {"TimelockAdmin"}
    BY DEF Role, TimelockRoles
  <2>2. chain' = [chain EXCEPT !["new"] = [chain.new EXCEPT
            !.roles = [chain.new.roles EXCEPT
                !["CANCELLER"] = chain.new.roles["CANCELLER"] \cup {env.gov}],
            !.granted = [chain.new.granted EXCEPT
                !["CANCELLER"] = chain.new.granted["CANCELLER"] \cup {env.gov}]]]
    BY <1>5 DEF wireCanceller, granting
  <2> QED BY <1>1, <1>2, <2>1, <2>2
<1> QED BY <1>3, <1>4, <1>5

-----------------------------------------------------------------------------
(***************************************************************************)
(* The checks, the renounce and the records.                               *)
(***************************************************************************)

\* The preflight: the Safes the deployment names are not the deployer.
LEMMA CheckWiringStep == ASSUME DeployInv, checkWiring PROVE DeployInv'
<1>1. UNCHANGED <<run, env, chain, secrets, records, latest>> /\ pc = "preflight"
      /\ pc' = "integrity" /\ check' = FirstRead
  BY DEF checkWiring, step, disk
<1>2. env.gov # "deployer" /\ env.guardian # "deployer"
  BY DEF checkWiring, deployerMustNotHoldYet, wiring
<1>3. WellTyped'
  BY <1>1, FirstReadTyped DEF DeployInv, WellTyped, Step
<1>4. ReadsLast'
  BY <1>1, FirstReadTyped DEF ReadsLast, AllAsked, AnswersStand, SettledStays, NothingScheduled,
                              Uncontested, CallScheduled
<1> QED BY <1>1, <1>2, <1>3, <1>4 DEF DeployInv, LogComplete, Vetted, LiveGoverned,
                                      DiskInTime, DiskKeepsUp

\* The record is written once more, or the run ends where it stands.
LEMMA EndStep == ASSUME DeployInv, finish \/ abort PROVE DeployInv'
<1>1. pc # "idle" /\ pc' = "idle" /\ UNCHANGED <<run, env, secrets>> /\ check' = FirstRead
  BY DEF finish, abort, step, writeRecord, disk
<1>2. /\ records' = records \/ records' = records \cup {run}
      /\ \/ latest' = latest
         \/ pc = "adaptor" /\ \E b : latest' = [run |-> run, verified |-> TRUE, adaptor |-> b]
  <2>1. CASE finish
    BY <2>1 DEF finish, step, writeRecord, buildRecord
  <2>2. CASE abort
    BY <2>2 DEF abort, disk
  <2> QED BY <2>1, <2>2
<1>3. chain' = chain \/ chain' = [chain EXCEPT !["new"] = NoSet]
  BY DEF finish, abort
<1>4. chain' \in [Sets -> ContractSet] /\ chain'.live = chain.live
      /\ (chain'.new = chain.new \/ chain'.new = NoSet)
  BY <1>3, NoSetTyped DEF DeployInv, WellTyped, Sets
<1>5. /\ NoSet.op = NoOp /\ ~ NoSet.upgraded /\ NoSet.built = {} /\ NoSet.key = "none"
      /\ \A x \in Role : NoSet.roles[x] \subseteq NoSet.granted[x]
  BY DEF NoSet
<1>6. WellTyped'
  <2>1. run \in Nat /\ secrets \subseteq Nat /\ records' \subseteq Nat
    BY <1>2 DEF DeployInv, WellTyped
  <2> QED BY <1>1, <1>4, <2>1, FirstReadTyped DEF DeployInv, WellTyped, Step
<1>7. LiveGoverned'
  BY <1>1, <1>2, <1>4 DEF DeployInv, LiveGoverned, NoRecord
<1>8. LogComplete' /\ Vetted' /\ DiskInTime'
  BY <1>1, <1>2, <1>4, <1>5 DEF DeployInv, LogComplete, Vetted, DiskInTime
<1>9. ReadsLast'
  BY <1>1, FirstReadTyped DEF ReadsLast, AllAsked, AnswersStand, SettledStays, NothingScheduled,
                              Uncontested
<1>10. DiskKeepsUp'
  BY <1>1, <1>2, <1>4, <1>5 DEF DeployInv, DiskKeepsUp, Sets
<1> QED BY <1>6, <1>7, <1>8, <1>9, <1>10 DEF DeployInv

\* A read leaves everything alone but what the check knows.
LEMMA ReadKeepsInv ==
    ASSUME DeployInv, NEW b \in BOOLEAN, UNCHANGED <<pc, run, env, secrets, records, latest>>,
           chain' = [chain EXCEPT !["new"] = [chain.new EXCEPT !.contested = b]],
           check' \in Check, ReadsLast', pc # "adaptor"
    PROVE  DeployInv'
<1> DEFINE s == [chain.new EXCEPT !.contested = b]
<1>1. chain \in [Sets -> ContractSet] /\ chain.new \in ContractSet /\ "new" \in Sets
  BY DEF DeployInv, WellTyped, Sets
<1>2. /\ s \in ContractSet /\ s.run = chain.new.run /\ s.built = chain.new.built
      /\ s.key = chain.new.key /\ s.roles = chain.new.roles /\ s.granted = chain.new.granted
      /\ s.op = chain.new.op /\ s.logged = chain.new.logged /\ s.upgraded = chain.new.upgraded
  BY <1>1 DEF ContractSet
<1> HIDE DEF s
<1>3. chain' \in [Sets -> ContractSet] /\ chain'.new = s /\ chain'.live = chain.live
  BY <1>1, <1>2, Replace DEF Sets, s
<1>4. WellTyped' /\ LogComplete' /\ Vetted' /\ LiveGoverned' /\ DiskInTime'
  BY <1>2, <1>3 DEF DeployInv, WellTyped, LogComplete, Vetted, LiveGoverned, DiskInTime, safes
<1>5. DiskKeepsUp'
  BY <1>2, <1>3 DEF DeployInv, DiskKeepsUp, Sets
<1> QED BY <1>4, <1>5 DEF DeployInv

\* A read of the grants of a contract: its candidates are all who hold its roles,
\* and the Timelock's, read first, tell who administers it.
LEMMA QueryStep == ASSUME DeployInv, queryRoleGranted PROVE DeployInv'
<1> DEFINE role == RoleOrder[check.read]
           asked == [x \in Role |-> IF contractOf(x) = contractOf(role) THEN candidates(x) ELSE {}]
           was == chain.new
<1>1. /\ pc \in {"integrity", "recheck"} /\ check.read \in 1 .. 19 /\ check \in Check
      /\ UNCHANGED <<pc, run, env, secrets, records, latest>>
      /\ contractOf(role) # check.log /\ env \in Envs
      /\ check' = [check EXCEPT !.log = contractOf(role), !.candidates = asked,
                                !.waiting = asked[role], !.held = {}]
  BY DEF queryRoleGranted, checking, disk, DeployInv, WellTyped
<1>2. role \in Role /\ contractOf(role) \in Contract /\ contractOf(role) # "none"
      /\ (role = "TimelockAdmin" <=> check.read = 1)
  BY <1>1, RolesInOrder
<1>3. /\ was \in ContractSet /\ chain \in [Sets -> ContractSet]
      /\ \A x \in Role : was.granted[x] \subseteq Account /\ was.roles[x] \subseteq was.granted[x]
  BY DEF DeployInv, WellTyped, LogComplete, Sets, ContractSet
<1>4. asked \in [Role -> SUBSET Account] /\ \A x \in Role :
          contractOf(x) = contractOf(role) => was.roles[x] \subseteq asked[x]
  <2>1. \A x \in Role : candidates(x) \subseteq Account /\ was.roles[x] \subseteq candidates(x)
    BY <1>1, <1>3 DEF candidates, integrityProbe, Account
  <2> QED BY <2>1
<1> HIDE DEF asked, role
<1>5. /\ check' \in Check /\ check'.read = check.read /\ check'.log = contractOf(role)
      /\ check'.candidates = asked /\ check'.waiting = asked[role] /\ check'.held = {}
  BY <1>1, <1>2, <1>4 DEF Check
<1>6. PICK b \in BOOLEAN :
        /\ chain' = [chain EXCEPT !["new"] = [was EXCEPT !.contested = b]]
        /\ b <=> IF role = "TimelockAdmin" THEN was.roles.TimelockAdmin # timelockAdmins
                 ELSE was.contested
  <2>1. CASE role = "TimelockAdmin"
    <3>1. PICK b \in BOOLEAN : b = (was.roles[role] # timelockAdmins)
      OBVIOUS
    <3>2. chain' = [chain EXCEPT !["new"] = [was EXCEPT !.contested = b]]
      BY <2>1, <3>1 DEF queryRoleGranted, role
    <3> QED BY <2>1, <3>1, <3>2
  <2>2. CASE role # "TimelockAdmin"
    <3>1. chain' = chain /\ was.contested \in BOOLEAN
      BY <1>3, <2>2 DEF queryRoleGranted, role, ContractSet
    <3>2. chain = [chain EXCEPT !["new"] = [was EXCEPT !.contested = was.contested]]
      BY <1>3 DEF ContractSet, Sets
    <3> QED BY <2>2, <3>1, <3>2
  <2> QED BY <2>1, <2>2
<1>7. /\ chain'.new.roles = was.roles /\ chain'.new.logged = was.logged
      /\ chain'.new.contested = b
  BY <1>3, <1>6 DEF ContractSet, Sets
<1> HIDE DEF was
<1>8. ASSUME Uncontested'
      PROVE  /\ was.roles.TimelockAdmin = {"timelock"}
             /\ check.read # 1 => Uncontested
  <2>1. pc = "recheck" /\ ~ b /\ "scheduled" \notin was.logged
    BY <1>1, <1>7, <1>8 DEF Uncontested
  <2>2. CASE role = "TimelockAdmin"
    BY <1>2, <1>6, <2>1, <2>2 DEF timelockAdmins
  <2>3. CASE role # "TimelockAdmin"
    <3>1. Uncontested
      BY <1>2, <1>6, <2>1, <2>3 DEF DeployInv, ReadsLast, NothingScheduled, Uncontested, was
    <3> QED BY <3>1 DEF DeployInv, ReadsLast, AllAsked, was
  <2> QED BY <2>2, <2>3
<1>9. AllAsked'
  BY <1>4, <1>5, <1>7, <1>8 DEF AllAsked
<1>10. AnswersStand'
  BY <1>2, <1>4, <1>5, <1>7 DEF AnswersStand, role
<1>11. SettledStays'
  <2> SUFFICES ASSUME Uncontested', NEW i \in 1 .. 19, i < check.read
               PROVE  was.roles[RoleOrder[i]] = intended(RoleOrder[i], env)
    BY <1>1, <1>5, <1>7 DEF SettledStays, intended, timelockTable, roleTables
  <2> QED BY <1>1, <1>8 DEF DeployInv, ReadsLast, SettledStays, was
<1>12. NothingScheduled'
  BY <1>1, <1>2, <1>5 DEF NothingScheduled, CallScheduled
<1> QED BY <1>1, <1>5, <1>6, <1>9, <1>10, <1>11, <1>12, ReadKeepsInv DEF ReadsLast, was

\* A read that changes neither the chain nor what is asked of which contract.
LEMMA SameChain ==
    ASSUME DeployInv, UNCHANGED <<pc, run, env, chain, secrets, records, latest>>,
           check' \in Check, ReadsLast', pc # "adaptor"
    PROVE  DeployInv'
<1>1. chain = [chain EXCEPT !["new"] = [chain.new EXCEPT !.contested = chain.new.contested]]
      /\ chain.new.contested \in BOOLEAN
  BY DEF DeployInv, WellTyped, ContractSet, Sets
<1> QED BY <1>1, ReadKeepsInv

\* The answers for a role: who is left to answer is known, and the last answer
\* settles that its holders are the intended ones.
LEMMA AnswerStep == ASSUME DeployInv, hasRole PROVE DeployInv'
<1> DEFINE role == RoleOrder[check.read]
           next == check.read + 1
           was == chain.new.roles
<1>1. /\ pc \in {"integrity", "recheck"} /\ check.read \in 1 .. 19 /\ check \in Check
      /\ contractOf(role) = check.log /\ role \in Role /\ was[role] \subseteq Account
      /\ contractOf(role) # "none" /\ check.waiting \subseteq Account /\ check.held \subseteq Account
  BY RolesInOrder DEF hasRole, checking, DeployInv, WellTyped, Sets, ContractSet, Check
<1>2. PICK S \in SUBSET check.waiting :
        \/ /\ check' = [check EXCEPT !.held = check.held \cup (S \cap was[role]),
                                     !.waiting = check.waiting \ S]
           /\ UNCHANGED <<pc, run, env, chain, disk, mischief>>
        \/ /\ S = check.waiting
           /\ settled(roleHolderProblems(check.held \cup (S \cap was[role]), expected(role)),
                      [check EXCEPT !.read = next, !.held = {},
                          !.waiting = IF next = CallScheduled THEN {}
                                      ELSE check.candidates[RoleOrder[next]]])
  BY DEF hasRole
<1> DEFINE holders == check.held \cup (S \cap was[role])
<1>3. CASE /\ check' = [check EXCEPT !.held = holders, !.waiting = check.waiting \ S]
           /\ UNCHANGED <<pc, run, env, chain, disk, mischief>>
  <2>1. /\ check' \in Check /\ check'.read = check.read /\ check'.log = check.log
        /\ check'.candidates = check.candidates /\ check'.waiting = check.waiting \ S
        /\ check'.held = holders
    <3>1. holders \in SUBSET Account /\ check.waiting \ S \in SUBSET Account
      BY <1>1
    <3> HIDE DEF holders
    <3> QED BY <1>1, <1>3, <3>1 DEF Check
  <2>2. UNCHANGED <<pc, run, env, chain, secrets, records, latest>>
    BY <1>3 DEF disk
  <2>3. Uncontested' => Uncontested
    BY <2>1, <2>2 DEF Uncontested
  <2>4. AllAsked' /\ SettledStays' /\ NothingScheduled'
    BY <2>1, <2>2, <2>3 DEF DeployInv, ReadsLast, AllAsked, SettledStays, NothingScheduled,
                            intended, timelockTable, roleTables
  <2>5. AnswersStand'
    BY <1>1, <2>1, <2>2, <2>3 DEF DeployInv, ReadsLast, AnswersStand
  <2> QED BY <1>1, <2>1, <2>2, <2>4, <2>5, SameChain DEF ReadsLast
<1>4. CASE /\ S = check.waiting
           /\ settled(roleHolderProblems(holders, expected(role)),
                      [check EXCEPT !.read = next, !.held = {},
                          !.waiting = IF next = CallScheduled THEN {}
                                      ELSE check.candidates[RoleOrder[next]]])
  <2> DEFINE ask == IF next = CallScheduled THEN {} ELSE check.candidates[RoleOrder[next]]
  <2>1. CASE abort
    BY <2>1, EndStep
  <2>2. ASSUME ~ abort
        PROVE  /\ holders = expected(role)
               /\ check' = [check EXCEPT !.read = next, !.held = {}, !.waiting = ask]
               /\ UNCHANGED <<pc, run, env, chain, secrets, records, latest>>
    BY <1>4, <2>2 DEF settled, roleHolderProblems, disk
  <2>3. next \in 2 .. 20 /\ (next # CallScheduled => next \in 1 .. 19 /\ RoleOrder[next] \in Role)
    BY <1>1, RolesInOrder DEF CallScheduled
  <2>4. ask \in SUBSET Account
    BY <1>1, <2>3 DEF Check
  <2> HIDE DEF ask
  <2>5. ASSUME ~ abort
        PROVE  /\ check' \in Check /\ check'.read = next /\ check'.log = check.log
               /\ check'.candidates = check.candidates /\ check'.waiting = ask
               /\ check'.held = {}
    <3>1. check' = [check EXCEPT !.read = next, !.held = {}, !.waiting = ask]
      BY <2>2, <2>5
    <3>2. next \in 1 .. AllRead
      BY <2>3 DEF AllRead
    <3> HIDE DEF next
    <3> QED BY <1>1, <2>4, <3>1, <3>2 DEF Check
  <2>6. ASSUME ~ abort, Uncontested' PROVE Uncontested
    BY <2>2, <2>5, <2>6 DEF Uncontested
  <2>7. ASSUME ~ abort, Uncontested' PROVE was[role] = intended(role, env)
    <3>1. /\ was[role] \subseteq check.held \cup check.waiting
          /\ check.held \ Strangers \subseteq was[role]
      BY <1>1, <2>6, <2>7 DEF DeployInv, ReadsLast, AnswersStand
    <3>2. holders = intended(role, env)
      BY <2>2, <2>6, <2>7 DEF Uncontested, expected, intended, timelockAdmins, timelockTable
    <3>3. intended(role, env) \cap Strangers = {}
      BY <1>1, IntendedAreKnown DEF DeployInv, WellTyped
    <3>4. was[role] \subseteq holders
      BY <1>4, <3>1
    <3>5. holders \subseteq was[role]
      BY <3>1, <3>2, <3>3
    <3> QED BY <3>2, <3>4, <3>5
  <2>8. ASSUME ~ abort PROVE AllAsked'
    BY <2>2, <2>5, <2>6, <2>8 DEF DeployInv, ReadsLast, AllAsked
  <2>9. ASSUME ~ abort PROVE AnswersStand'
    <3> SUFFICES ASSUME Uncontested', next <= 19, contractOf(RoleOrder[next]) = check.log
                 PROVE  was[RoleOrder[next]] \subseteq ask
      BY <2>2, <2>5, <2>9 DEF AnswersStand
    <3>1. RoleOrder[next] \in Role /\ ask = check.candidates[RoleOrder[next]]
      BY <2>3 DEF ask, CallScheduled
    <3> QED BY <2>6, <2>9, <3>1 DEF DeployInv, ReadsLast, AllAsked
  <2>10. ASSUME ~ abort PROVE SettledStays'
    <3> SUFFICES ASSUME Uncontested', NEW i \in 1 .. 19, i < next
                 PROVE  was[RoleOrder[i]] = intended(RoleOrder[i], env)
      BY <2>2, <2>5, <2>10 DEF SettledStays, intended, timelockTable, roleTables
    <3>1. i = check.read \/ i < check.read
      BY <1>1
    <3> QED BY <2>6, <2>7, <2>10, <3>1 DEF DeployInv, ReadsLast, SettledStays
  <2>11. ASSUME ~ abort PROVE NothingScheduled'
    BY <1>1, <2>3, <2>5, <2>11 DEF NothingScheduled, CallScheduled
  <2>12. ASSUME ~ abort PROVE DeployInv'
    <3>1. ReadsLast' /\ pc # "adaptor"
      BY <1>1, <2>8, <2>9, <2>10, <2>11, <2>12 DEF ReadsLast
    <3> QED BY <2>2, <2>5, <2>12, <3>1, SameChain
  <2> QED BY <2>1, <2>12
<1> QED BY <1>2, <1>3, <1>4

\* The Timelock's two logs and the implementations, and a check started over.
LEMMA ReadStep == ASSUME DeployInv, governanceIntegrity \/ withRetries PROVE DeployInv'
<1>1. CASE queryRoleGranted
  BY <1>1, QueryStep
<1>2. CASE hasRole
  BY <1>2, AnswerStep
<1>3. CASE queryOperations
  <2>1. /\ pc \in {"integrity", "recheck"} /\ check.read \in 20 .. 22 /\ check \in Check
    BY <1>3 DEF queryOperations, checking, DeployInv, WellTyped, CallScheduled, Slots
  <2>2. \/ abort
        \/ /\ check' = [check EXCEPT !.read = check.read + 1]
           /\ UNCHANGED <<pc, run, env, chain, secrets, records, latest>>
           /\ check.read = CallScheduled => "scheduled" \notin chain.new.logged
    BY <1>3 DEF queryOperations, settled, disk
  <2>3. CASE abort
    BY <2>3, EndStep
  <2>4. CASE /\ check' = [check EXCEPT !.read = check.read + 1]
             /\ UNCHANGED <<pc, run, env, chain, secrets, records, latest>>
             /\ check.read = CallScheduled => "scheduled" \notin chain.new.logged
    <3>1. /\ check' \in Check /\ check'.read = check.read + 1 /\ check'.log = check.log
          /\ check'.candidates = check.candidates
      BY <2>1, <2>4 DEF Check, AllRead
    <3>2. Uncontested' => Uncontested
      BY <2>4, <3>1 DEF Uncontested
    <3>3. AllAsked' /\ AnswersStand'
      BY <2>1, <2>4, <3>1, <3>2 DEF DeployInv, ReadsLast, AllAsked, AnswersStand
    <3>4. SettledStays'
      BY <2>1, <2>4, <3>1, <3>2 DEF DeployInv, ReadsLast, SettledStays, intended, timelockTable,
                                    roleTables
    <3>5. NothingScheduled'
      BY <2>1, <2>4, <3>1 DEF DeployInv, ReadsLast, NothingScheduled, CallScheduled
    <3> QED BY <2>1, <2>4, <3>1, <3>3, <3>4, <3>5, SameChain DEF ReadsLast
  <2> QED BY <2>2, <2>3, <2>4
<1>4. CASE withRetries
  <2>1. /\ check' = FirstRead /\ pc # "adaptor"
        /\ UNCHANGED <<pc, run, env, chain, secrets, records, latest>>
    BY <1>4 DEF withRetries, disk
  <2>2. ReadsLast'
    BY <2>1, FirstReadTyped DEF ReadsLast, AllAsked, AnswersStand, SettledStays,
                                NothingScheduled, Uncontested, CallScheduled
  <2> QED BY <2>1, <2>2, FirstReadTyped, SameChain
<1> QED BY <1>1, <1>2, <1>3, <1>4 DEF governanceIntegrity

\* Saving the record before the renounce, and asserting the renounce.
LEMMA RecordStep ==
    ASSUME DeployInv, readManifest \/ snapshot \/ assertRenounced
    PROVE  DeployInv'
<1>1. /\ UNCHANGED <<run, env, chain, secrets, latest>> /\ records \subseteq records'
      /\ pc \in {"integrity", "snapshot", "assert"} /\ pc' \in {"snapshot", "renounce", "recheck"}
      /\ pc' = "renounce" => run \in records' /\ pc = "snapshot"
      /\ pc' = "recheck" => check' = FirstRead /\ pc = "assert"
      /\ check' = check \/ check' = FirstRead
      /\ records' \subseteq records \cup {run}
  BY DEF readManifest, snapshot, assertRenounced, step, disk, writeRecord
<1>2. WellTyped'
  BY <1>1, FirstReadTyped DEF DeployInv, WellTyped, Step
<1>3. ReadsLast'
  BY <1>1, FirstReadTyped DEF DeployInv, ReadsLast, AllAsked, AnswersStand, SettledStays,
                              NothingScheduled, Uncontested, CallScheduled
<1>4. Vetted' /\ LogComplete' /\ LiveGoverned'
  BY <1>1 DEF DeployInv, Vetted, LogComplete, LiveGoverned
<1>5. DiskInTime' /\ DiskKeepsUp'
  BY <1>1 DEF DeployInv, DiskInTime, DiskKeepsUp
<1> QED BY <1>2, <1>3, <1>4, <1>5 DEF DeployInv

\* The deployer gives up the Timelock when the addresses are on disk.
LEMMA RenounceStep == ASSUME DeployInv, renounce PROVE DeployInv'
<1> DEFINE rs == [chain.new.roles EXCEPT !.TimelockAdmin = @ \ {"deployer"}]
           s == [chain.new EXCEPT !.roles = rs]
<1>1. chain \in [Sets -> ContractSet] /\ chain.new \in ContractSet /\ "new" \in Sets
      /\ \A x \in Role : chain.new.roles[x] \subseteq chain.new.granted[x]
  BY DEF DeployInv, WellTyped, LogComplete, Sets
<1>2. rs \in [Role -> SUBSET Account] /\ \A x \in Role : rs[x] \subseteq chain.new.granted[x]
  BY <1>1 DEF ContractSet, Role, TimelockRoles
<1>3. chain' = [chain EXCEPT !["new"] = s]
  BY DEF renounce
<1> HIDE DEF rs
<1>4. /\ s \in ContractSet /\ s.run = chain.new.run /\ s.op = chain.new.op
      /\ s.key = chain.new.key /\ s.roles = rs /\ s.granted = chain.new.granted
      /\ s.logged = chain.new.logged /\ s.upgraded = chain.new.upgraded
  BY <1>1, <1>2 DEF ContractSet
<1> HIDE DEF s
<1>5. chain' \in [Sets -> ContractSet] /\ chain'.new = s /\ chain'.live = chain.live
  BY <1>1, <1>3, <1>4, Replace DEF Sets
<1>6. pc = "renounce" /\ pc' = "assert" /\ UNCHANGED <<run, env, check, secrets, records, latest>>
  BY DEF renounce, step, disk
<1>7. WellTyped' /\ LogComplete'
  BY <1>2, <1>4, <1>5, <1>6 DEF DeployInv, WellTyped, Step, LogComplete
<1>8. Vetted' /\ ReadsLast' /\ LiveGoverned'
  BY <1>5, <1>6 DEF DeployInv, Vetted, ReadsLast, AllAsked, AnswersStand, SettledStays,
                    NothingScheduled, Uncontested, LiveGoverned
<1>9. DiskInTime' /\ DiskKeepsUp'
  BY <1>4, <1>5, <1>6 DEF DeployInv, DiskInTime, DiskKeepsUp, Sets
<1> QED BY <1>7, <1>8, <1>9 DEF DeployInv

\* What all reads of the re-check passed is what goes on record.
LEMMA PublishStep == ASSUME DeployInv, publish PROVE DeployInv'
<1> DEFINE s == unlogged(chain.new)
<1>1. /\ pc = "recheck" /\ pc' = "adaptor" /\ UNCHANGED <<run, env, check, secrets>>
      /\ records' = records \cup {run}
      /\ latest' = [run |-> run, verified |-> TRUE, adaptor |-> FALSE]
      /\ chain' = [new |-> NoSet, live |-> s]
      /\ check.read = AllRead
  BY DEF publish, step, writeRecord, buildRecord
<1>2. chain'.new = NoSet /\ chain'.live = s
  BY <1>1
<1>3. NoSet \in ContractSet /\ chain.new \in ContractSet /\ NoSet.run = 0 /\ chain.new.run = run
      /\ env \in Envs
  BY <1>1, NoSetTyped DEF DeployInv, WellTyped, DiskInTime, Sets
<1>4. /\ s \in ContractSet /\ s.run = run /\ s.roles = chain.new.roles /\ s.op = chain.new.op
      /\ s.upgraded = chain.new.upgraded /\ s.contested = chain.new.contested
      /\ s.built = chain.new.built /\ s.key = chain.new.key
  BY <1>3, NoSetTyped DEF unlogged, ContractSet
<1> HIDE DEF s
<1>5. WellTyped'
  <2>1. chain' \in [Sets -> ContractSet]
    BY <1>1, <1>3, <1>4 DEF Sets
  <2> QED BY <1>1, <2>1 DEF DeployInv, WellTyped, Step
<1>6. ASSUME ~ s.contested PROVE GovernedBy(s, env)
  <2>1. Uncontested
    BY <1>1, <1>4, <1>6 DEF DeployInv, ReadsLast, NothingScheduled, Uncontested, AllRead,
                            CallScheduled
  <2>2. chain.new.op = NoOp /\ ~ chain.new.upgraded
    BY <2>1 DEF DeployInv, LogComplete, Uncontested
  <2>3. \A x \in Role : s.roles[x] = intended(x, env)
    BY <1>1, <1>4, <2>1, RolesInOrder DEF DeployInv, ReadsLast, SettledStays, AllRead
  <2>4. TimelockGoverned(s, env.gov)
    BY <2>3 DEF TimelockGoverned, intended, timelockTable, Role, TimelockRoles
  <2>5. RolesGoverned(s, env)
    <3>1. \A x \in GovernedRoles : x \in Role /\ x \notin TimelockRoles
      BY DEF Role, GovernedRoles, TimelockRoles
    <3> QED BY <2>3, <3>1 DEF RolesGoverned, intended
  <2> QED BY <1>1, <1>4, <2>2, <2>4, <2>5 DEF DeployInv, WellTyped, Vetted, GovernedBy
<1>7. s # NoSet
  <2>1. ~ NoSet.contested
    BY DEF NoSet
  <2>2. GovernedBy(s, env) => s # NoSet
    BY DEF GovernedBy, TimelockGoverned, NoSet, Role, TimelockRoles
  <2> QED BY <1>6, <2>1, <2>2
<1>8. LiveGoverned'
  BY <1>1, <1>2, <1>3, <1>4, <1>6, <1>7 DEF LiveGoverned, NoRecord
<1>9. LogComplete' /\ Vetted'
  BY <1>1, <1>2 DEF LogComplete, Vetted, NoSet
<1>10. ReadsLast'
  BY <1>1 DEF DeployInv, ReadsLast, AllAsked, AnswersStand, SettledStays, NothingScheduled,
              Uncontested
<1>11. DiskInTime' /\ DiskKeepsUp'
  BY <1>1, <1>2, <1>3, <1>4 DEF DeployInv, DiskInTime, DiskKeepsUp, Sets, NoSet
<1> QED BY <1>5, <1>8, <1>9, <1>10, <1>11 DEF DeployInv

\* A run starts in an environment it accepts, with a set of its own.
LEMMA BeginStep == ASSUME DeployInv, NEW e \in Envs, begin(e) PROVE DeployInv'
<1> DEFINE s == [NoSet EXCEPT !.run = run + 1]
<1>1. run + 1 \in Nat /\ [NoSet EXCEPT !.run = run + 1].run = run + 1
  BY NoSetTyped DEF DeployInv, WellTyped, ContractSet
<1>2. /\ s \in ContractSet /\ s.run = run + 1 /\ s.op = NoOp /\ s.built = {} /\ s.key = "none"
      /\ ~ s.upgraded /\ \A x \in Role : s.roles[x] \subseteq s.granted[x]
  <2>1. /\ s.op = NoSet.op /\ s.built = NoSet.built /\ s.key = NoSet.key
        /\ s.roles = NoSet.roles /\ s.granted = NoSet.granted
        /\ s.upgraded = NoSet.upgraded /\ s \in ContractSet
    BY <1>1, NoSetTyped DEF ContractSet
  <2> QED BY <1>1, <2>1 DEF NoSet
<1>3. chain' = [chain EXCEPT !["new"] = s] /\ chain \in [Sets -> ContractSet]
  BY DEF begin, DeployInv, WellTyped
<1> HIDE DEF s
<1>4. chain' \in [Sets -> ContractSet] /\ chain'.new = s /\ chain'.live = chain.live
  BY <1>2, <1>3, Replace DEF Sets
<1>5. /\ pc = "idle" /\ pc' = "secret" /\ run' = run + 1 /\ env' = e /\ safes(e)
      /\ UNCHANGED <<check, secrets, records, latest>>
  BY DEF begin, disk
<1>6. WellTyped' /\ LogComplete'
  BY <1>2, <1>4, <1>5 DEF DeployInv, WellTyped, Step, LogComplete, safes
<1>7. Vetted' /\ ReadsLast' /\ LiveGoverned'
  BY <1>4, <1>5 DEF DeployInv, Vetted, ReadsLast, AllAsked, AnswersStand, SettledStays,
                    NothingScheduled, Uncontested, LiveGoverned
<1>8. DiskInTime' /\ DiskKeepsUp'
  BY <1>2, <1>4, <1>5 DEF DeployInv, DiskInTime, DiskKeepsUp, Sets
<1> QED BY <1>6, <1>7, <1>8 DEF DeployInv

-----------------------------------------------------------------------------
(***************************************************************************)
(* The contracts' other users.                                             *)
(***************************************************************************)

\* What others do to set r: only its roles, its operation, its logs and its code
\* change; the deployer keeps the Timelock if it has it; what is governed stays so;
\* and on the set being built what the re-check relies on: while the Timelock
\* administers itself and nothing was scheduled, strangers can but give up roles,
\* and with no stranger among the proposers nothing will be scheduled.
Touches(r, s) ==
    /\ s \in ContractSet
    /\ chain' = [chain EXCEPT ![r] = s]
    /\ UNCHANGED <<script, disk>>
    /\ s.run = chain[r].run /\ s.built = chain[r].built /\ s.key = chain[r].key
    /\ s.contested = chain[r].contested
    /\ "deployer" \in chain[r].roles.TimelockAdmin => "deployer" \in s.roles.TimelockAdmin
    /\ \A e \in Envs : GovernedBy(chain[r], e) => GovernedBy(s, e)
    /\ r = "new" =>
         /\ "scheduled" \notin s.logged =>
              s.op = NoOp /\ ~ s.upgraded /\ "scheduled" \notin chain[r].logged
         /\ \A x \in Role : s.roles[x] \subseteq s.granted[x]
         /\ "scheduled" \notin chain[r].logged /\ chain[r].roles.TimelockAdmin = {"timelock"} =>
              /\ \A x \in Role : /\ s.roles[x] \subseteq chain[r].roles[x]
                                /\ chain[r].roles[x] \ Strangers \subseteq s.roles[x]
              /\ chain[r].roles.PROPOSER \cap Strangers = {} => "scheduled" \notin s.logged
    /\ chain[r] = NoSet => s = NoSet

\* Such a step keeps the invariant.
LEMMA TouchKeepsInv ==
    ASSUME DeployInv, NEW r \in Sets, NEW s, Touches(r, s)
    PROVE  DeployInv'
<1>1. /\ chain' \in [Sets -> ContractSet] /\ chain'[r] = s
      /\ \A q \in Sets : q # r => chain'[q] = chain[q]
  <2>1. chain \in [Sets -> ContractSet] /\ s \in ContractSet /\ chain' = [chain EXCEPT ![r] = s]
    BY DEF Touches, DeployInv, WellTyped
  <2> QED BY <2>1, Replace
<1>2. UNCHANGED <<pc, run, env, check, secrets, records, latest>>
  BY DEF Touches, script, disk
<1>3. WellTyped' /\ LogComplete'
  <2>1. CASE r = "new"
    BY <1>1, <1>2, <2>1 DEF Touches, DeployInv, WellTyped, LogComplete, safes
  <2>2. CASE r # "new"
    BY <1>1, <1>2, <2>2 DEF Touches, DeployInv, WellTyped, LogComplete, safes, Sets
  <2> QED BY <2>1, <2>2
<1>4. Vetted'
  BY <1>2 DEF DeployInv, Vetted
<1>5. ReadsLast'
  <2>1. CASE r = "new"
    <3>1. chain'.new = s /\ s.contested = chain.new.contested
      BY <1>1, <2>1 DEF Touches
    <3>2. ASSUME Uncontested'
          PROVE  /\ Uncontested /\ chain.new.roles.TimelockAdmin = {"timelock"}
                 /\ \A x \in Role : /\ s.roles[x] \subseteq chain.new.roles[x]
                                   /\ chain.new.roles[x] \ Strangers \subseteq s.roles[x]
      <4>1. Uncontested
        BY <1>2, <2>1, <3>1, <3>2 DEF Uncontested, Touches
      <4> QED BY <2>1, <4>1 DEF DeployInv, ReadsLast, AllAsked, Uncontested, Touches
    <3>3. "TimelockAdmin" \in Role /\ "timelock" \notin Strangers
      BY StrangerAssumption DEF Role, TimelockRoles
    <3>4. AllAsked'
      BY <1>2, <3>1, <3>2, <3>3 DEF DeployInv, ReadsLast, AllAsked
    <3>5. AnswersStand'
      <4> SUFFICES ASSUME Uncontested', check.read <= 19, contractOf(RoleOrder[check.read]) = check.log
                   PROVE  LET role == RoleOrder[check.read] IN
                          /\ s.roles[role] \subseteq check.held \cup check.waiting
                          /\ check.held \ Strangers \subseteq s.roles[role]
        BY <1>2, <3>1 DEF AnswersStand
      <4>1. RoleOrder[check.read] \in Role
        BY RolesInOrder DEF DeployInv, WellTyped, Check
      <4> QED BY <3>2, <4>1 DEF DeployInv, ReadsLast, AnswersStand
    <3>6. SettledStays'
      <4> SUFFICES ASSUME Uncontested', NEW i \in 1 .. 19, i < check.read
                   PROVE  s.roles[RoleOrder[i]] = intended(RoleOrder[i], env)
        BY <1>2, <3>1 DEF SettledStays, intended, timelockTable, roleTables
      <4>1. RoleOrder[i] \in Role /\ env \in Envs
        BY <3>2, RolesInOrder DEF DeployInv, WellTyped, Uncontested
      <4>2. chain.new.roles[RoleOrder[i]] = intended(RoleOrder[i], env)
        BY <1>2, <3>2 DEF DeployInv, ReadsLast, SettledStays
      <4>3. intended(RoleOrder[i], env) \cap Strangers = {}
        BY <4>1, IntendedAreKnown
      <4>4. /\ s.roles[RoleOrder[i]] \subseteq chain.new.roles[RoleOrder[i]]
            /\ chain.new.roles[RoleOrder[i]] \ Strangers \subseteq s.roles[RoleOrder[i]]
        BY <3>2, <4>1
      <4> QED BY <4>2, <4>3, <4>4
    <3>7. NothingScheduled'
      <4> SUFFICES ASSUME pc = "recheck", check.read > CallScheduled, ~ chain.new.contested
                   PROVE  "scheduled" \notin s.logged
        BY <1>2, <3>1 DEF DeployInv, ReadsLast, NothingScheduled
      <4>1. Uncontested /\ env \in Envs
        BY DEF DeployInv, WellTyped, ReadsLast, NothingScheduled, Uncontested, CallScheduled
      <4>2. chain.new.roles.TimelockAdmin = {"timelock"}
        BY <4>1 DEF DeployInv, ReadsLast, AllAsked
      <4>3. chain.new.roles.PROPOSER \cap Strangers = {}
        <5>1. RoleOrder[2] = "PROPOSER" /\ "PROPOSER" \in Role /\ 2 < check.read
          BY RolesInOrder DEF Role, TimelockRoles, CallScheduled, DeployInv, WellTyped, Check
        <5>2. chain.new.roles.PROPOSER = intended("PROPOSER", env)
          BY <4>1, <5>1 DEF DeployInv, ReadsLast, SettledStays
        <5> QED BY <4>1, <5>1, <5>2, IntendedAreKnown
      <4> QED BY <2>1, <4>1, <4>2, <4>3 DEF Touches, Uncontested
    <3> QED BY <3>4, <3>5, <3>6, <3>7 DEF ReadsLast
  <2>2. CASE r # "new"
    <3>1. chain'.new = chain.new
      BY <1>1, <2>2 DEF Sets
    <3> QED BY <1>2, <3>1 DEF DeployInv, ReadsLast, AllAsked, AnswersStand, SettledStays,
                              NothingScheduled, Uncontested, intended, timelockTable, roleTables
  <2> QED BY <2>1, <2>2
<1>6. LiveGoverned'
  <2>1. CASE r = "live"
    <3>1. s = NoSet \/ s.contested \/ \E e \in Envs : GovernedBy(s, e)
      BY <2>1 DEF Touches, DeployInv, LiveGoverned
    <3>2. chain["live"] # NoSet => s # NoSet
      <4>1. \A e \in Envs : GovernedBy(s, e) => s # NoSet
        BY DEF GovernedBy, TimelockGoverned, NoSet, Role, TimelockRoles
      <4>2. ~ NoSet.contested
        BY DEF NoSet
      <4> QED BY <2>1, <4>1, <4>2 DEF Touches, DeployInv, LiveGoverned
    <3> QED BY <1>1, <1>2, <2>1, <3>1, <3>2 DEF Touches, DeployInv, LiveGoverned
  <2>2. CASE r # "live"
    BY <1>1, <1>2, <2>2 DEF DeployInv, LiveGoverned, Sets
  <2> QED BY <2>1, <2>2
<1>7. DiskInTime' /\ DiskKeepsUp'
  BY <1>1, <1>2 DEF Touches, DeployInv, DiskInTime, DiskKeepsUp, Sets
<1> QED BY <1>3, <1>4, <1>5, <1>6, <1>7 DEF DeployInv

\* A call leaves on record what it does, but for the logs of the set on record.
LEMMA CallingTouches ==
    ASSUME NEW r \in Sets, NEW s \in ContractSet, calling(r, s)
    PROVE  \E t \in ContractSet :
             /\ chain' = [chain EXCEPT ![r] = t]
             /\ t.run = s.run /\ t.built = s.built /\ t.key = s.key /\ t.roles = s.roles
             /\ t.op = s.op /\ t.upgraded = s.upgraded /\ t.contested = s.contested
             /\ r = "new" => t = s
<1> DEFINE t == IF r = "live" THEN unlogged(s) ELSE s
<1>1. /\ t \in ContractSet
      /\ t.run = s.run /\ t.built = s.built /\ t.key = s.key /\ t.roles = s.roles
      /\ t.op = s.op /\ t.upgraded = s.upgraded /\ t.contested = s.contested
  BY NoSetTyped DEF unlogged, ContractSet
<1>2. chain' = [chain EXCEPT ![r] = t] /\ (r = "new" => t = s)
  BY DEF calling
<1> HIDE DEF t
<1> QED BY <1>1, <1>2

\* The Timelock's roles change only by an administrator, or by their holder.
LEMMA TimelockRoleStep ==
    ASSUME DeployInv, NEW r \in Sets, NEW x \in TimelockRoles,
           \/ \E by \in {"deployer"} \cup Strangers, account \in {"guardian"} \cup Strangers :
                 grantTimelockRole(r, by, x, account)
           \/ \E account \in Strangers : renounceTimelockRole(r, x, account)
    PROVE  DeployInv'
<1> DEFINE c == chain[r]
<1>1. /\ c \in ContractSet /\ c.roles \in [Role -> SUBSET Account]
      /\ c.granted \in [Role -> SUBSET Account] /\ x \in Role
      /\ "timelock" \notin Strangers /\ "deployer" \notin Strangers
  BY StrangerAssumption DEF DeployInv, WellTyped, ContractSet, Role
<1>2. r = "new" => /\ "scheduled" \notin c.logged => c.op = NoOp /\ ~ c.upgraded
                  /\ \A y \in Role : c.roles[y] \subseteq c.granted[y]
  BY DEF DeployInv, LogComplete
<1>3. ASSUME NEW by \in {"deployer"} \cup Strangers, NEW account \in {"guardian"} \cup Strangers,
             grantTimelockRole(r, by, x, account)
      PROVE  DeployInv'
  <2> DEFINE rs == [c.roles EXCEPT ![x] = c.roles[x] \cup {account}]
             gs == [c.granted EXCEPT ![x] = c.granted[x] \cup {account}]
             s == [c EXCEPT !.roles = rs, !.granted = gs]
  <2>1. /\ calling(r, s) /\ UNCHANGED <<script, disk>> /\ by \in c.roles.TimelockAdmin
    BY <1>3 DEF grantTimelockRole, granting
  <2>2. /\ rs \in [Role -> SUBSET Account] /\ gs \in [Role -> SUBSET Account]
        /\ c.roles.TimelockAdmin \subseteq rs.TimelockAdmin
        /\ r = "new" => \A y \in Role : rs[y] \subseteq gs[y]
    <3>1. account \in Account
      BY DEF Account
    <3> QED BY <1>1, <1>2, <3>1 DEF Role, TimelockRoles
  <2> HIDE DEF rs, gs, c
  <2>3. /\ s \in ContractSet /\ s.run = c.run /\ s.built = c.built /\ s.key = c.key
        /\ s.op = c.op /\ s.logged = c.logged /\ s.upgraded = c.upgraded
        /\ s.contested = c.contested /\ s.roles = rs /\ s.granted = gs
    BY <1>1, <2>2 DEF ContractSet
  <2> HIDE DEF s
  <2>4. PICK t \in ContractSet :
          /\ chain' = [chain EXCEPT ![r] = t]
          /\ t.run = s.run /\ t.built = s.built /\ t.key = s.key /\ t.roles = s.roles
          /\ t.op = s.op /\ t.upgraded = s.upgraded /\ t.contested = s.contested
          /\ r = "new" => t = s
    BY <2>1, <2>3, CallingTouches
  <2>5. c.roles.TimelockAdmin # {"timelock"} /\ by \in t.roles.TimelockAdmin
    BY <1>1, <2>1, <2>2, <2>3, <2>4
  <2>6. \A e \in Envs : ~ GovernedBy(c, e)
    BY <2>5 DEF GovernedBy, TimelockGoverned
  <2>7. c # NoSet
    BY <2>1 DEF NoSet, Role, TimelockRoles
  <2>8. Touches(r, t)
    BY <1>2, <2>1, <2>2, <2>3, <2>4, <2>5, <2>6, <2>7 DEF Touches, c
  <2> QED BY <2>8, TouchKeepsInv
<1>4. ASSUME NEW account \in Strangers, renounceTimelockRole(r, x, account) PROVE DeployInv'
  <2> DEFINE rs == [c.roles EXCEPT ![x] = c.roles[x] \ {account}]
             s == [c EXCEPT !.roles = rs]
  <2>1. /\ chain' = [chain EXCEPT ![r] = s] /\ UNCHANGED <<script, disk>>
        /\ account \in c.roles[x]
    BY <1>4 DEF renounceTimelockRole
  <2>2. /\ rs \in [Role -> SUBSET Account]
        /\ c.roles.TimelockAdmin \ Strangers \subseteq rs.TimelockAdmin
        /\ \A y \in Role : rs[y] \subseteq c.roles[y] /\ c.roles[y] \ Strangers \subseteq rs[y]
    BY <1>1, <1>4 DEF Role, TimelockRoles
  <2> HIDE DEF rs, c
  <2>3. /\ s \in ContractSet /\ s.run = c.run /\ s.built = c.built /\ s.key = c.key
        /\ s.op = c.op /\ s.logged = c.logged /\ s.upgraded = c.upgraded
        /\ s.contested = c.contested /\ s.roles = rs /\ s.granted = c.granted
    BY <1>1, <2>2 DEF ContractSet
  <2> HIDE DEF s
  <2>4. \A e \in Envs : ~ GovernedBy(c, e)
    BY <1>4, <2>1, StrangerAssumption DEF GovernedBy, TimelockGoverned, TimelockRoles
  <2>5. c # NoSet
    BY <1>1, <2>1 DEF NoSet
  <2>6. Touches(r, s)
    BY <1>1, <1>2, <2>1, <2>2, <2>3, <2>4, <2>5 DEF Touches, c
  <2> QED BY <2>6, TouchKeepsInv
<1> QED BY <1>3, <1>4

\* An operation is scheduled by a proposer: where the Timelock is governed, only
\* by governance, to end a pause.
LEMMA ScheduleStep ==
    ASSUME DeployInv, NEW r \in Sets, NEW by, NEW call \in {"grant", "upgrade", "unpause"},
           NEW x \in Role \cup {"none"}, NEW to \in Strangers \cup {"none"},
           scheduleOperation(r, by, call, x, to),
           by \in Strangers \/ (r = "live" /\ call = "unpause")
    PROVE  DeployInv'
<1> DEFINE c == chain[r]
           op == [call |-> call, role |-> x, to |-> to, ready |-> FALSE]
           s == [c EXCEPT !.op = op, !.logged = c.logged \cup {"scheduled"}]
<1>1. c \in ContractSet /\ op \in Operation /\ op.call = call
  BY DEF DeployInv, WellTyped, Operation
<1>2. calling(r, s) /\ UNCHANGED <<script, disk>> /\ by \in c.roles.PROPOSER
  BY DEF scheduleOperation
<1> HIDE DEF op, c
<1>3. /\ s \in ContractSet /\ s.run = c.run /\ s.built = c.built /\ s.key = c.key
      /\ s.op = op /\ "scheduled" \in s.logged /\ s.upgraded = c.upgraded
      /\ s.contested = c.contested /\ s.roles = c.roles /\ s.granted = c.granted
  BY <1>1 DEF ContractSet
<1> HIDE DEF s
<1>4. PICK t \in ContractSet :
        /\ chain' = [chain EXCEPT ![r] = t]
        /\ t.run = s.run /\ t.built = s.built /\ t.key = s.key /\ t.roles = s.roles
        /\ t.op = s.op /\ t.upgraded = s.upgraded /\ t.contested = s.contested
        /\ r = "new" => t = s
  BY <1>2, <1>3, CallingTouches
<1>5. by \in Strangers => \A e \in Envs : ~ TimelockGoverned(c, e.gov)
  BY <1>2, StrangerAssumption DEF TimelockGoverned
<1>6. c # NoSet
  BY <1>2 DEF NoSet, Role, TimelockRoles
<1>7. \A x1 \in Role : r = "new" => c.roles[x1] \subseteq c.granted[x1]
  BY DEF DeployInv, LogComplete, c
<1>8. ASSUME NEW e \in Envs, GovernedBy(c, e) PROVE GovernedBy(t, e)
  BY <1>1, <1>3, <1>4, <1>5, <1>8 DEF GovernedBy, TimelockGoverned, RolesGoverned
<1>9. r = "new" => c.roles.PROPOSER \cap Strangers # {}
  BY <1>2
<1>10. Touches(r, t)
  BY <1>2, <1>3, <1>4, <1>6, <1>7, <1>8, <1>9 DEF Touches, c
<1> QED BY <1>10, TouchKeepsInv

\* An operation becomes ready, or is cancelled, and the pool is paused.
LEMMA OperationStep ==
    ASSUME DeployInv, NEW r \in Sets,
           operationReady(r) \/ (\E by : cancelOperation(r, by)) \/ (r = "live" /\ pause)
    PROVE  DeployInv'
<1> DEFINE c == chain[r]
<1>1. c \in ContractSet
  BY DEF DeployInv, WellTyped
<1>2. PICK op, p :
         /\ chain' = [chain EXCEPT ![r] = [c EXCEPT !.op = op, !.paused = p]]
         /\ op \in Operation /\ p \in BOOLEAN /\ UNCHANGED <<script, disk>>
         /\ op = NoOp \/ op = c.op \/ (c.op # NoOp /\ op.call = c.op.call)
         /\ c.op # NoOp \/ c.roles.PAUSER # {}
         /\ c.op = NoOp => op = NoOp
  <2>1. CASE operationReady(r)
    <3> DEFINE op == [c.op EXCEPT !.ready = TRUE]
    <3>1. op \in Operation /\ op.call = c.op.call
      BY <1>1 DEF ContractSet, Operation
    <3>2. chain' = [chain EXCEPT ![r] = [c EXCEPT !.op = op, !.paused = c.paused]]
      BY <1>1, <2>1 DEF operationReady, ContractSet
    <3> HIDE DEF op
    <3> QED BY <1>1, <2>1, <3>1, <3>2 DEF operationReady, ContractSet
  <2>2. ASSUME NEW by, cancelOperation(r, by)
        PROVE  /\ chain' = [chain EXCEPT ![r] = [c EXCEPT !.op = NoOp, !.paused = c.paused]]
               /\ NoOp \in Operation /\ c.paused \in BOOLEAN /\ UNCHANGED <<script, disk>>
               /\ c.op # NoOp
    BY <1>1, <2>2 DEF cancelOperation, ContractSet, Operation, NoOp
  <2>3. CASE r = "live" /\ pause
    <3>1. chain' = [chain EXCEPT ![r] = [c EXCEPT !.op = c.op, !.paused = TRUE]]
      BY <1>1, <2>3 DEF pause, ContractSet
    <3> QED BY <1>1, <2>3, <3>1 DEF pause, ContractSet
  <2> QED BY <2>1, <2>2, <2>3
<1> DEFINE s == [c EXCEPT !.op = op, !.paused = p]
<1> HIDE DEF c
<1>3. /\ s \in ContractSet /\ s.run = c.run /\ s.built = c.built /\ s.key = c.key
      /\ s.op = op /\ s.logged = c.logged /\ s.upgraded = c.upgraded
      /\ s.contested = c.contested /\ s.roles = c.roles /\ s.granted = c.granted
  BY <1>1, <1>2 DEF ContractSet
<1>4. chain' = [chain EXCEPT ![r] = s]
  BY <1>2
<1> HIDE DEF s
<1>5. c # NoSet
  BY <1>2 DEF NoSet, Role, GovernedRoles
<1>6. r = "new" => /\ "scheduled" \notin c.logged => c.op = NoOp /\ ~ c.upgraded
                  /\ \A x \in Role : c.roles[x] \subseteq c.granted[x]
  BY DEF DeployInv, LogComplete, c
<1>7. ASSUME NEW e \in Envs, GovernedBy(c, e) PROVE GovernedBy(s, e)
  BY <1>2, <1>3, <1>7 DEF TimelockGoverned, RolesGoverned, GovernedBy
<1>8. Touches(r, s)
  BY <1>2, <1>3, <1>4, <1>5, <1>6, <1>7 DEF Touches, c
<1> QED BY <1>8, TouchKeepsInv

\* An operation is executed by an executor: where the Timelock is governed, only
\* by governance, to end a pause.
LEMMA ExecuteStep ==
    ASSUME DeployInv, NEW r \in Sets, NEW by, executeOperation(r, by),
           by \in Strangers \/ (r = "live" /\ chain[r].op.call = "unpause")
    PROVE  DeployInv'
<1> DEFINE c == chain[r]
           op == c.op
           gives == op.call = "grant" /\ op.role \in Role
           rs == IF gives THEN [c.roles EXCEPT ![op.role] = c.roles[op.role] \cup {op.to}]
                 ELSE c.roles
           gs == IF gives THEN [c.granted EXCEPT ![op.role] = c.granted[op.role] \cup {op.to}]
                 ELSE c.granted
           logs == c.logged \cup {"executed"}
<1>1. /\ c \in ContractSet /\ op \in Operation /\ c.roles \in [Role -> SUBSET Account]
      /\ c.granted \in [Role -> SUBSET Account] /\ by \in c.roles.EXECUTOR /\ op.ready
      /\ UNCHANGED <<script, disk>>
  BY DEF DeployInv, WellTyped, executeOperation, ContractSet
<1>2. r = "new" => /\ "scheduled" \notin c.logged => c.op = NoOp /\ ~ c.upgraded
                  /\ \A x \in Role : c.roles[x] \subseteq c.granted[x]
  BY DEF DeployInv, LogComplete
<1>3. PICK p \in BOOLEAN, u \in BOOLEAN :
        /\ calling(r, [c EXCEPT !.op = NoOp, !.logged = logs, !.paused = p, !.upgraded = u,
                                !.roles = rs, !.granted = gs])
        /\ op.call = "unpause" => (u <=> c.upgraded)
  <2> DEFINE g == IF op.call = "grant" THEN granting(c, op.role, op.to) ELSE c
  <2>1. PICK p \in BOOLEAN, u \in BOOLEAN :
          p = (g.paused /\ op.call # "unpause") /\ u = (g.upgraded \/ op.call = "upgrade")
    OBVIOUS
  <2>2. calling(r, [g EXCEPT !.op = NoOp, !.logged = g.logged \cup {"executed"},
                             !.paused = p, !.upgraded = u])
    BY <2>1 DEF executeOperation
  <2>3. g = [c EXCEPT !.roles = rs, !.granted = gs]
    <3>1. CASE op.call # "grant"
      BY <1>1, <3>1 DEF ContractSet
    <3>2. CASE gives
      BY <3>2 DEF granting
    <3>3. CASE op.call = "grant" /\ op.role \notin Role
      <4>1. g = [c EXCEPT !.roles = [c.roles EXCEPT ![op.role] = c.roles[op.role] \cup {op.to}],
                          !.granted = [c.granted EXCEPT ![op.role] = c.granted[op.role] \cup {op.to}]]
        BY <3>3 DEF granting
      <4>2. /\ [c.roles EXCEPT ![op.role] = c.roles[op.role] \cup {op.to}] = c.roles
            /\ [c.granted EXCEPT ![op.role] = c.granted[op.role] \cup {op.to}] = c.granted
        BY <1>1, <3>3
      <4> QED BY <3>3, <4>1, <4>2
    <3> QED BY <3>1, <3>2, <3>3
  <2> HIDE DEF g, rs, gs, c
  <2>4. /\ g.logged = c.logged /\ g.upgraded = c.upgraded
        /\ [g EXCEPT !.op = NoOp, !.logged = logs, !.paused = p, !.upgraded = u]
             = [c EXCEPT !.op = NoOp, !.logged = logs, !.paused = p, !.upgraded = u,
                         !.roles = rs, !.granted = gs]
    BY <1>1, <2>3 DEF ContractSet
  <2>5. op.call = "unpause" => (u <=> c.upgraded)
    BY <2>1, <2>4
  <2> QED BY <2>2, <2>4, <2>5
<1>4. /\ rs \in [Role -> SUBSET Account] /\ gs \in [Role -> SUBSET Account]
      /\ "deployer" \in c.roles.TimelockAdmin => "deployer" \in rs.TimelockAdmin
      /\ r = "new" => \A x \in Role : rs[x] \subseteq gs[x]
  <2>1. CASE gives
    <3>1. op.to \in Account
      BY <1>1 DEF Operation, Account
    <3>2. /\ rs = [c.roles EXCEPT ![op.role] = c.roles[op.role] \cup {op.to}]
          /\ gs = [c.granted EXCEPT ![op.role] = c.granted[op.role] \cup {op.to}]
      BY <2>1
    <3>3. "TimelockAdmin" \in Role /\ op.role \in Role
      BY <2>1 DEF Role, TimelockRoles
    <3> HIDE DEF rs, gs, op, c
    <3> QED BY <1>1, <1>2, <3>1, <3>2, <3>3
  <2>2. CASE ~ gives
    <3>1. rs = c.roles /\ gs = c.granted
      BY <2>2
    <3> QED BY <1>1, <1>2, <3>1
  <2> QED BY <2>1, <2>2
<1>5. op.call = "unpause" => rs = c.roles
  OBVIOUS
<1> HIDE DEF rs, gs, op, c
<1> DEFINE s == [c EXCEPT !.op = NoOp, !.logged = logs, !.paused = p, !.upgraded = u,
                          !.roles = rs, !.granted = gs]
<1>6. NoOp \in Operation
  BY DEF NoOp, Operation
<1>7. /\ s \in ContractSet /\ s.run = c.run /\ s.built = c.built /\ s.key = c.key
      /\ s.op = NoOp /\ s.logged = logs /\ s.upgraded = u
      /\ s.contested = c.contested /\ s.roles = rs /\ s.granted = gs
  BY <1>1, <1>4, <1>6 DEF ContractSet
<1>8. PICK t \in ContractSet :
        /\ chain' = [chain EXCEPT ![r] = t]
        /\ t.run = s.run /\ t.built = s.built /\ t.key = s.key /\ t.roles = s.roles
        /\ t.op = s.op /\ t.upgraded = s.upgraded /\ t.contested = s.contested
        /\ r = "new" => t = s
  <2>1. calling(r, s) /\ s \in ContractSet
    BY <1>3, <1>7
  <2> HIDE DEF s
  <2> QED BY <2>1, CallingTouches
<1> HIDE DEF s
<1>9. c # NoSet /\ c.op # NoOp
  BY <1>1 DEF NoSet, NoOp, op, Role, TimelockRoles
<1>10. by \in Strangers => \A e \in Envs : ~ TimelockGoverned(c, e.gov)
  BY <1>1, StrangerAssumption DEF TimelockGoverned
<1>11. ASSUME NEW e \in Envs, GovernedBy(c, e) PROVE GovernedBy(t, e)
  BY <1>3, <1>5, <1>7, <1>8, <1>10, <1>11
     DEF GovernedBy, TimelockGoverned, RolesGoverned, op, c
<1>12. r = "new" => "scheduled" \in c.logged
  BY <1>2, <1>9
<1>13. Touches(r, t)
  BY <1>1, <1>4, <1>7, <1>8, <1>9, <1>11, <1>12 DEF Touches, c
<1> QED BY <1>13, TouchKeepsInv

-----------------------------------------------------------------------------
(***************************************************************************)
(* Results.                                                                *)
(***************************************************************************)

\* Init establishes the invariant.
LEMMA DeployInvInit == Init => DeployInv
<1> SUFFICES ASSUME Init PROVE DeployInv
  OBVIOUS
<1>1. chain = [r \in Sets |-> NoSet] /\ chain.new = NoSet /\ chain.live = NoSet
  BY DEF Init, Sets
<1>2. /\ NoSet.run = 0 /\ NoSet.op = NoOp /\ NoSet.built = {} /\ NoSet.key = "none"
      /\ ~ NoSet.upgraded /\ \A x \in Role : NoSet.roles[x] \subseteq NoSet.granted[x]
  BY DEF NoSet
<1>3. WellTyped
  BY <1>1, NoSetTyped, FirstReadTyped DEF Init, WellTyped, Step
<1>4. LogComplete /\ Vetted /\ LiveGoverned
  BY <1>1, <1>2 DEF Init, LogComplete, Vetted, LiveGoverned
<1>6. ReadsLast
  BY FirstReadTyped DEF Init, ReadsLast, AllAsked, AnswersStand, SettledStays, NothingScheduled,
                        Uncontested
<1>5. DiskInTime /\ DiskKeepsUp
  BY <1>1, <1>2 DEF Init, DiskInTime, DiskKeepsUp, Sets
<1> QED BY <1>3, <1>4, <1>5, <1>6 DEF DeployInv

\* Every step of the script, of governance and of others keeps the invariant.
LEMMA DeployInvNext == DeployInv /\ [Next]_vars => DeployInv'
<1> SUFFICES ASSUME DeployInv, [Next]_vars PROVE DeployInv'
  OBVIOUS
<1>1. ASSUME NEW e \in Envs, begin(e) PROVE DeployInv'
  BY <1>1, BeginStep
<1>2. CASE Script
  BY <1>2, WriteSecretStep, DeployStep, DeployDarkPoolStep, GrantStep, CheckWiringStep, ReadStep,
     RecordStep, RenounceStep, PublishStep, EndStep DEF Script
<1>3. CASE abort
  BY <1>3, EndStep
<1>4. ASSUME NEW r \in Sets, Outside(r) PROVE DeployInv'
  <2>1. CASE \E by \in {"deployer"} \cup Strangers, x \in TimelockRoles,
                account \in {"guardian"} \cup Strangers : grantTimelockRole(r, by, x, account)
    BY <2>1, TimelockRoleStep
  <2>2. CASE \E x \in TimelockRoles, account \in Strangers : renounceTimelockRole(r, x, account)
    BY <2>2, TimelockRoleStep
  <2>3. ASSUME NEW by \in Strangers, mischiefOperation(r, by) PROVE DeployInv'
    <3>1. ASSUME NEW x \in TargetRoles, NEW to \in Strangers,
                 scheduleOperation(r, by, "grant", x, to)
          PROVE  DeployInv'
      BY <3>1, ScheduleStep, TargetsAssumption
    <3>2. CASE scheduleOperation(r, by, "upgrade", "none", "none")
      BY <3>2, ScheduleStep
    <3>3. CASE executeOperation(r, by)
      BY <3>3, ExecuteStep
    <3> QED BY <2>3, <3>1, <3>2, <3>3 DEF mischiefOperation
  <2>4. CASE \E by : cancelOperation(r, by)
    BY <2>4, OperationStep
  <2> QED BY <1>4, <2>1, <2>2, <2>3, <2>4 DEF Outside
<1>5. ASSUME NEW r \in Sets, operationReady(r) PROVE DeployInv'
  BY <1>5, OperationStep
<1>6. CASE pause
  BY <1>6, OperationStep DEF Sets
<1>7. CASE Governance
  <2>1. "live" \in Sets /\ "none" \in Role \cup {"none"}
    BY DEF Sets
  <2>2. CASE proposeUnpause
    BY <2>1, <2>2, ScheduleStep DEF proposeUnpause
  <2>3. CASE executeUnpause
    BY <2>1, <2>3, ExecuteStep DEF executeUnpause
  <2> QED BY <1>7, <2>2, <2>3 DEF Governance
<1>8. CASE UNCHANGED vars
  BY <1>8 DEF vars, DeployInv, WellTyped, LogComplete, Vetted, LiveGoverned,
              DiskInTime, DiskKeepsUp, ReadsLast, AllAsked, AnswersStand, SettledStays,
              NothingScheduled, Uncontested, intended, timelockTable, roleTables, safes
<1>9. {"live"} \cup (IF pc = "idle" THEN {} ELSE {"new"}) \subseteq Sets
  BY DEF Sets
<1> QED BY <1>1, <1>2, <1>3, <1>4, <1>5, <1>6, <1>7, <1>8, <1>9 DEF Next

\* The invariant holds in every reachable state.
LEMMA DeployInvariant == Spec => []DeployInv
<1> QED BY DeployInvInit, DeployInvNext, PTL DEF Spec

\* The recorded deployment is governed as intended from the moment it is on
\* record and for ever, unless somebody else still administered the Timelock when
\* the re-check read its grants: all later reads and answers of the check, in the
\* order in which they come, leave nobody a way to undo what an earlier one has
\* seen, and whoever comes by a role meanwhile is a candidate that is asked.
THEOREM DeployLatestIsGoverned == Spec => []LatestIsGoverned
<1>1. DeployInv => LatestIsGoverned
  <2> SUFFICES ASSUME DeployInv, latest # NoRecord, ~ chain.live.contested
               PROVE  LatestIsGoverned
    BY DEF LatestIsGoverned, DeployInv, LiveGoverned
  <2> DEFINE others == {"deployer"} \cup Strangers
  <2>1. latest.verified /\ latest.run = chain.live.run
    BY DEF DeployInv, LiveGoverned
  <2>2. PICK e \in Envs : GovernedBy(chain.live, e)
    BY DEF DeployInv, LiveGoverned
  <2>3. /\ e.gov \notin others /\ e.guardian \notin others /\ e.gov # e.guardian
        /\ {"timelock", "entryPoint"} \cap others = {}
    BY <2>2, StrangerAssumption DEF GovernedBy, safes
  <2> DEFINE s == chain.live
  <2>4. /\ s.roles.TimelockAdmin = {"timelock"} /\ s.roles.PROPOSER = {e.gov}
        /\ s.roles.EXECUTOR = {e.gov} /\ s.roles.CANCELLER = {e.gov} /\ ~ s.upgraded
        /\ \A x \in GovernedRoles : s.roles[x] = roleTables(e)[x]
    BY <2>2 DEF GovernedBy, TimelockGoverned, RolesGoverned
  <2> HIDE DEF s
  <2>5. \A x \in TimelockRoles : s.roles[x] \cap others = {}
    BY <2>3, <2>4 DEF TimelockRoles
  <2>6. \A x \in GovernedRoles : roleTables(e)[x] \cap others = {}
    BY <2>3 DEF roleTables, GovernedRoles
  <2>7. \A x \in Role : s.roles[x] \cap others = {}
    BY <2>4, <2>5, <2>6 DEF Role
  <2>8. s.roles.PAUSER = {e.guardian}
    BY <2>4 DEF roleTables, GovernedRoles
  <2>9. \A x \in {"DarkPoolAdmin", "DarkPoolUpgrader", "RegistryAdmin", "CONFIG",
                  "RegistryUpgrader", "RewardAdmin", "RewardUpgrader", "ComplianceAdmin"} :
            s.roles[x] = {"timelock"}
    BY <2>4 DEF roleTables, GovernedRoles
  <2> QED BY <2>1, <2>3, <2>4, <2>7, <2>8, <2>9 DEF LatestIsGoverned, s
<1> QED BY <1>1, DeployInvariant, PTL

\* Wherever a run dies, the addresses of a set the deployer gave up and the
\* secret of a key a pool is bound to are on disk.
THEOREM DeployDiskKeepsUp == Spec => []DiskKeepsUp
<1>1. DeployInv => DiskKeepsUp
  BY DEF DeployInv
<1> QED BY <1>1, DeployInvariant, PTL

=============================================================================
