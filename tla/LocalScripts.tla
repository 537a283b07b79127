----------------------------- MODULE LocalScripts -----------------------------
(***************************************************************************)
(* The deployment to a local node, deploy/usdx/local: hardhat-deploy runs  *)
(* the scripts a tag selects, in the order of their files, each after the  *)
(* scripts it depends on.  A script is a sequence of steps; one that       *)
(* throws ends the command, and what was done before stays done.  The node *)
(* starts with the tag Local; the developer may give more commands.        *)
(*                                                                         *)
(* Continuous integration starts the node, sleeps, and then runs           *)
(* scripts/ci/event_coverage_usdx.ts, here CoverageCalls, whether or not   *)
(* the deployment has come to its end.                                     *)
(***************************************************************************)
EXTENDS DeployedContracts

CONSTANT MaxCommands    \* bounds the instance

VARIABLES
  commands,       \* the tags deployed so far, and "^C" where one was stopped
  queue,          \* the steps of the running command still to do
  coverage,       \* "none", "running", "passed", "refused" or "late"
  coverageTodo,   \* its calls still to make
  seen,           \* the records when it started
  startedEarly    \* it started during a deployment

localVars == <<commands, queue, coverage, coverageTodo, seen, startedEarly>>

Files == <<"allowlist", "blocklist", "pricer", "usdxManager", "usdx_factory">>

Tags == [allowlist |-> {"Local", "AllowList"}, blocklist |-> {"Local", "Blocklist"},
         pricer |-> {"Local", "pricer-USDX"}, usdxManager |-> {"Local", "USDXManager"},
         usdx_factory |-> {"Local", "USDX"}]

DependsOn_FaultyNone(script) == {}

DependsOn(script) == IF script = "usdxManager" THEN {"USDX"} ELSE {}

\* A script is scheduled once.
With(scripts, script) ==
  IF Contains(scripts, script) THEN scripts ELSE Append(scripts, script)

WithTagged(scripts, tags) ==
  LET upTo[n \in 0..Len(Files)] ==
        IF n = 0 THEN scripts
        ELSE IF Tags[Files[n]] \cap tags = {} THEN upTo[n - 1]
        ELSE With(upTo[n - 1], Files[n])
  IN upTo[Len(Files)]

\* In the order of their files, what a script depends on first, each once.
Scheduled(tag) ==
  LET upTo[n \in 0..Len(Files)] ==
        IF n = 0 THEN <<>>
        ELSE IF tag \notin Tags[Files[n]] THEN upTo[n - 1]
        ELSE With(WithTagged(upTo[n - 1], DependsOn(Files[n])), Files[n])
  IN upTo[Len(Files)]
-----------------------------------------------------------------------------
(* The steps of the scripts.  by, to: an account, or the record of one.    *)

Step(op, on, by, role, to) == [op |-> op, on |-> on, by |-> by, role |-> role, to |-> to]

Finds(name) == Step("find", name, "", "", "")        \* getContract
Deploys(name) == Step("deploy", name, "", "", "")
Saves(name) == Step("save", name, "", "", "")
Sends(by, on, op) == Step(op, on, by, "", "")
Grants(by, on, role, to) == Step("grantRole", on, by, role, to)
Calls(by, on, role) == Step("call", on, by, role, "")

deployAllowList_local ==
  <<Deploys("AllowlistFactory"), Sends("guardian", "AllowlistFactory", "deployAllowlist"),
    Saves("Allowlist")>>

deployBlocklist_local ==
  <<Deploys("Blocklist"), Sends("deployer", "Blocklist", "transferOwnership"),
    Sends("guardian", "Blocklist", "acceptOwnership")>>

deploy_USDXPricer_local ==
  <<Deploys("USDX_Pricer"), Calls("managerAdmin", "USDX_Pricer", "PRICE_UPDATE_ROLE")>>

deployUSDX_local ==
  <<Deploys("USDXFactory"), Finds("Blocklist"), Finds("Allowlist"),
    Sends("guardian", "USDXFactory", "deployUSDX"), Saves("USDX")>>

deploy_USDXManager_local ==
  <<Finds("USDX"), Finds("Blocklist"), Deploys("USDXManager"), Finds("USDX_Pricer"),
    Grants("guardian", "USDX", "MINTER_ROLE", "USDXManager"),
    Grants("managerAdmin", "USDXManager", "PRICE_ID_SETTER_ROLE", "managerAdmin"),
    Grants("managerAdmin", "USDXManager", "TIMESTAMP_SETTER_ROLE", "managerAdmin"),
    Grants("managerAdmin", "USDXManager", "PAUSER_ADMIN", "managerAdmin"),
    Grants("managerAdmin", "USDXManager", "RELAYER_ROLE", "relayer"),
    Sends("managerAdmin", "USDXManager", "setPricer")>>

Steps(script) ==
  CASE script = "allowlist" -> deployAllowList_local
    [] script = "blocklist" -> deployBlocklist_local
    [] script = "pricer" -> deploy_USDXPricer_local
    [] script = "usdxManager" -> deploy_USDXManager_local
    [] script = "usdx_factory" -> deployUSDX_local

StepsOf(tag) ==
  FlattenSeq([i \in DOMAIN Scheduled(tag) |-> Steps(Scheduled(tag)[i])])

\* yarn local-node
InitLocal ==
  /\ commands = <<"Local">> /\ queue = StepsOf("Local")
  /\ coverage = "none" /\ coverageTodo = <<>> /\ seen = record /\ startedEarly = FALSE
-----------------------------------------------------------------------------
(* A step                                                                  *)

AddressOf(records, name) == IF name \in Records THEN records[name] ELSE EOA(name)

Saved(name, address) == record' = [record EXCEPT ![name] = address]

SavedBoth(proxyName, adminName, proxy, admin) ==
  record' = [record EXCEPT ![proxyName] = proxy, ![adminName] = admin]

\* deploy reuses what was deployed before with the same arguments.
Redeploys_FaultyOnce(name) == record[name] = Absent

Redeploys(name) ==
  \/ record[name] = Absent
  \/ name = "USDXManager" /\ rwaOf(record[name]) # record["USDX"]

DeploysAfresh(name) ==
  CASE name \in {"AllowlistFactory", "USDXFactory"} ->
         ConstructFactory(At(name, 1), Guardian) /\ Saved(name, At(name, 1))
    [] name = "Blocklist" -> ConstructBlocklist(Deployer) /\ Saved(name, Blocklist)
    [] name = "USDX_Pricer" ->
         ConstructPricer(Guardian, EOA("managerAdmin")) /\ Saved(name, Pricer)
    [] name = "USDXManager" ->
         /\ ConstructManager(record["USDX"], EOA("managerAdmin"), Pauser)
         /\ Saved(name, At(name, Len(managers) + 1))

\* Whether the step does not throw; what it changes.
Succeeds(step, records) ==
  CASE step.op \in {"find", "deployAllowlist", "deployUSDX", "setPricer"} ->
         records[step.on] # Absent
    [] step.op = "transferOwnership" -> blocklistOwner = EOA(step.by)
    [] step.op = "acceptOwnership" -> blocklistPendingOwner = EOA(step.by)
    [] step.op = "grantRole" ->
         HasRole(members, records[step.on], AdminOf(records[step.on], step.role), EOA(step.by))
    [] step.op = "call" -> HasRole(members, records[step.on], step.role, EOA(step.by))
    [] OTHER -> TRUE

Does(step) ==
  CASE step.op = "deploy" /\ Redeploys(step.on) -> DeploysAfresh(step.on)
    [] step.op = "save" /\ step.on = "Allowlist" ->
         SavedBoth("Allowlist", "ProxyAdminAllowlist", allowlistProxy, allowlistProxyAdmin)
           /\ UNCHANGED chainVars
    [] step.op = "save" /\ step.on = "USDX" ->
         SavedBoth("USDX", "ProxyAdminUSDX", USDXProxy, USDXProxyAdmin)
           /\ UNCHANGED chainVars
    [] step.op = "deployAllowlist" ->
         DeployAllowlist(Guardian, Guardian, Guardian) /\ UNCHANGED record
    [] step.op = "deployUSDX" ->
         DeployUSDX(Guardian, record["Blocklist"], record["Allowlist"]) /\ UNCHANGED record
    [] step.op = "transferOwnership" ->
         TransferOwnership(EOA(step.by), Guardian) /\ UNCHANGED record
    [] step.op = "acceptOwnership" -> AcceptOwnership(EOA(step.by)) /\ UNCHANGED record
    [] step.op = "grantRole" ->
         GrantRole(EOA(step.by), record[step.on], step.role, AddressOf(record, step.to))
           /\ UNCHANGED record
    [] step.op = "setPricer" ->
         SetPricer(EOA(step.by), record["USDXManager"], record["USDX_Pricer"])
           /\ UNCHANGED record
    [] OTHER -> UNCHANGED <<chainVars, record>>

DeployStep ==
  /\ queue # <<>>
  /\ IF Succeeds(Head(queue), record)
       THEN Does(Head(queue)) /\ queue' = Tail(queue)
       ELSE queue' = <<>> /\ UNCHANGED <<chainVars, record>>
  /\ UNCHANGED <<commands, coverage, coverageTodo, seen, startedEarly>>

\* The process is stopped between two steps.
DeployKilled ==
  /\ queue # <<>> /\ Len(commands) < MaxCommands
  /\ queue' = <<>> /\ commands' = Append(commands, "^C")
  /\ UNCHANGED <<chainVars, record, coverage, coverageTodo, seen, startedEarly>>

\* yarn hardhat deploy --tags <tag> --network localhost
Deploy(tag) ==
  /\ queue = <<>> /\ coverage = "none" /\ Len(commands) < MaxCommands
  /\ commands' = Append(commands, tag) /\ queue' = StepsOf(tag)
  /\ UNCHANGED <<chainVars, record, coverage, coverageTodo, seen, startedEarly>>
-----------------------------------------------------------------------------
(* scripts/ci/event_coverage_usdx.ts                                       *)

\* role = "" where anyone may call; the special calls are below.
CoverageCalls ==
  <<Calls("guardian", "Allowlist", "ALLOWLIST_ADMIN"),          \* addTerm
    Calls("guardian", "Allowlist", "ALLOWLIST_ADMIN"),          \* setValidTermIndexes
    Calls("guardian", "Allowlist", "ALLOWLIST_SETTER"),         \* setAccountStatus
    Calls("guardian", "Allowlist", "ALLOWLIST_SETTER"),
    Calls("guardian", "Allowlist", "ALLOWLIST_SETTER"),
    Calls("managerAdmin", "USDXManager", "MANAGER_ADMIN"),        \* overwriteDepositor
    Calls("managerAdmin", "USDXManager", "PRICE_ID_SETTER_ROLE"), \* ...ForDeposits
    Sends("managerAdmin", "USDXManager", "setClaimableTimestamp"),
    Sends("managerAdmin", "USDXManager", "claimMint"),
    Calls("managerAdmin", "USDX_Pricer", "PRICE_UPDATE_ROLE"),    \* addPrice
    Calls("managerAdmin", "USDX_Pricer", "PRICE_UPDATE_ROLE"),    \* updatePrice
    Calls("managerAdmin", "USDXManager", "PRICE_ID_SETTER_ROLE"), \* ...ForRedemptions
    Sends("user", "USDXManager", "claimRedemption"),
    Calls("pauser", "USDXManager", "PAUSER_ADMIN"),             \* three pauses
    Calls("managerAdmin", "USDXManager", "MANAGER_ADMIN")>>     \* unpauses, list setters

CoverageNeeds == {"USDXManager", "USDX_Pricer", "Allowlist", "USDX", "Blocklist"}

StartCoverage ==
  /\ coverage = "none"
  /\ seen' = record /\ startedEarly' = (queue # <<>>)
  /\ IF Absent \in {record[name] : name \in CoverageNeeds}
       THEN coverage' = "refused" /\ UNCHANGED coverageTodo
       ELSE coverage' = "running" /\ coverageTodo' = CoverageCalls
  /\ UNCHANGED <<chainVars, record, commands, queue>>

\* The user is verified on seen.Allowlist and looks at a balance on seen.USDX.
Answered(call) ==
  LET manager == managers[seen["USDXManager"][2]]
      token == tokens[manager.rwa[2]]
  IN CASE call.op = "setClaimableTimestamp" ->
            HasRole(members, seen["USDXManager"], "TIMESTAMP_SETTER_ROLE", EOA(call.by))
       [] call.op = "claimMint" ->
            /\ HasRole(members, manager.rwa, "MINTER_ROLE", seen["USDXManager"])
            /\ manager.pricer = seen["USDX_Pricer"] /\ manager.rwa = seen["USDX"]
            /\ token.allowlist = seen["Allowlist"]
       [] call.op = "claimRedemption" -> manager.pricer = seen["USDX_Pricer"]
       [] OTHER -> Succeeds(call, seen)

CoverageStep ==
  /\ coverage = "running"
  /\ IF Answered(Head(coverageTodo))
       THEN /\ coverageTodo' = Tail(coverageTodo)
            /\ coverage' = IF Tail(coverageTodo) = <<>> THEN "passed" ELSE "running"
       ELSE coverage' = "refused" /\ UNCHANGED coverageTodo
  /\ UNCHANGED <<chainVars, record, commands, queue, seen, startedEarly>>

\* The timestamp is the last block's plus one; the call's block may be later.
CoverageLate ==
  /\ coverage = "running" /\ Head(coverageTodo).op = "setClaimableTimestamp"
  /\ coverage' = "late"
  /\ UNCHANGED <<chainVars, record, commands, queue, coverageTodo, seen, startedEarly>>

LocalNext ==
  \/ DeployStep \/ DeployKilled
  \/ \E tag \in UNION {Tags[script] : script \in DOMAIN Tags} : Deploy(tag)
  \/ StartCoverage \/ CoverageStep \/ CoverageLate
=============================================================================
