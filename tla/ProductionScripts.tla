--------------------------- MODULE ProductionScripts ---------------------------
(***************************************************************************)
(* The deployment to mainnet: deploy/usdx/production, run by an operator   *)
(* who sends transactions of the deployer's account, and the hardhat tasks *)
(* scripts/usdx/1-...5-, which only propose transactions to the guardian's *)
(* Safe or save what the chain answers.  The signers execute proposals     *)
(* when they like.  Those that deploy are executed in any order; the       *)
(* others, grants and setPricer, commute with one another, and so do here  *)
(* without loss in the order they were proposed.                           *)
(*                                                                         *)
(* At most MaxSlips times something goes wrong: a task is interrupted, or  *)
(* the answer to a proposal is lost and the operator takes it for refused, *)
(* a task is run though it is too early or was run already, or the signers *)
(* reject a proposal.                                                      *)
(***************************************************************************)
EXTENDS DeployedContracts

CONSTANTS PROD_GUARDIAN_OMMF,  \* "Prod Constants - To Set Before Deployment"
          MaxSlips             \* bounds the instance

VARIABLES
  task,       \* the task that is running, or "idle"
  todo,       \* the proposals it has still to send
  proxyRead,  \* a save task has read the proxy, not yet its admin
  pending,    \* the proposals the Safe has neither executed nor rejected
  slips

operatorVars == <<task, todo, proxyRead>>
scriptVars == <<task, todo, proxyRead, pending, slips>>

ProposingTasks == {"1-USDX-prod", "3-USDX-prod", "5-USDXManager-prod"}
SavingTasks == {"2-save-USDX-prod", "4-save-USDX-prod"}

\* In the order of their numbers.
Procedure == <<"1-USDX-prod", "2-save-USDX-prod", "3-USDX-prod", "4-save-USDX-prod",
               "5-USDXManager-prod">>

InitProduction ==
  /\ task = "idle" /\ todo = <<>> /\ proxyRead = Absent
  /\ pending = <<>> /\ slips = 0
-----------------------------------------------------------------------------
(* deploy/usdx/production                                                  *)

\* hardhat-deploy reuses a contract deployed before with the same arguments.
Unrecorded(name) == record[name] = Absent

Recorded(names) == Absent \notin {record[name] : name \in names}

Save(name, address) == record' = [record EXCEPT ![name] = address]

deployAllowlist_Factory ==
  /\ Unrecorded("AllowlistFactory")
  /\ ConstructFactory(AllowlistFactory, Guardian)
  /\ Save("AllowlistFactory", AllowlistFactory)

deployBlocklist ==
  /\ Unrecorded("Blocklist")
  /\ ConstructBlocklist(Deployer)
  /\ Save("Blocklist", Blocklist)

deployUSDX_Factory ==
  /\ Unrecorded("USDXFactory")
  /\ ConstructFactory(USDXFactory, PROD_GUARDIAN_OMMF)
  /\ Save("USDXFactory", USDXFactory)

deploy_USDXManager_FaultyOnce ==
  /\ Recorded({"USDXFactory", "AllowlistFactory", "Blocklist"})
  /\ USDXProxy # ZERO_ADDRESS
  /\ Unrecorded("USDXManager")
  /\ ConstructManager(USDXProxy, Guardian, Pauser)
  /\ Save("USDXManager", At("USDXManager", Len(managers) + 1))

\* The token comes from the factory, not from the records.
deploy_USDXManager ==
  /\ Recorded({"USDXFactory", "AllowlistFactory", "Blocklist"})
  /\ USDXProxy # ZERO_ADDRESS
  /\ rwaOf(record["USDXManager"]) # USDXProxy
  /\ ConstructManager(USDXProxy, Guardian, Pauser)
  /\ Save("USDXManager", At("USDXManager", Len(managers) + 1))

deploy_USDXPricer ==
  /\ Unrecorded("USDX_Pricer")
  /\ ConstructPricer(Guardian, Guardian)
  /\ Save("USDX_Pricer", Pricer)

DeployScript ==
  /\ task = "idle"
  /\ \/ deployAllowlist_Factory \/ deployBlocklist \/ deployUSDX_Factory
     \/ deploy_USDXManager \/ deploy_USDXPricer
  /\ UNCHANGED scriptVars
-----------------------------------------------------------------------------
(* The proposals of the tasks                                              *)

Proposal(to, call, role, args) == [to |-> to, call |-> call, role |-> role, args |-> args]

proposeGrantRole(to, role, account) == Proposal(to, "grantRole", role, <<account>>)

proposeFunctionCall(to, call, args) == Proposal(to, call, "", args)

AllowlistProposals ==
  <<proposeFunctionCall(record["AllowlistFactory"], "deployAllowlist", <<Guardian, Guardian>>)>>

\* The lists are those recorded now, whatever is deployed by the execution.
USDXProposals ==
  <<proposeFunctionCall(record["USDXFactory"], "deployUSDX",
                        <<record["Blocklist"], record["Allowlist"]>>)>>

GatewayProposals_FaultyNoTimestamps ==
  LET token == record["USDX"]
      manager == record["USDXManager"]
  IN <<proposeGrantRole(token, "MINTER_ROLE", manager),
       proposeGrantRole(token, "PAUSER_ROLE", Pauser),
       proposeFunctionCall(manager, "setPricer", <<record["USDX_Pricer"]>>),
       proposeGrantRole(manager, "PRICE_ID_SETTER_ROLE", Guardian),
       proposeGrantRole(manager, "PAUSER_ROLE", Pauser),
       proposeGrantRole(manager, "LIST_CONFIGURER_ROLE", Guardian),
       proposeGrantRole(manager, "RELAYER_ROLE", Guardian)>>

\* PROD_MANAGER_ADMIN_USDX is the guardian's address.
GatewayProposals ==
  LET token == record["USDX"]
      manager == record["USDXManager"]
  IN <<proposeGrantRole(token, "MINTER_ROLE", manager),
       proposeGrantRole(token, "PAUSER_ROLE", Pauser),
       proposeFunctionCall(manager, "setPricer", <<record["USDX_Pricer"]>>),
       proposeGrantRole(manager, "PRICE_ID_SETTER_ROLE", Guardian),
       proposeGrantRole(manager, "TIMESTAMP_SETTER_ROLE", Guardian),
       proposeGrantRole(manager, "PAUSER_ROLE", Pauser),
       proposeGrantRole(manager, "LIST_CONFIGURER_ROLE", Guardian),
       proposeGrantRole(manager, "RELAYER_ROLE", Guardian)>>

\* The deployed contracts a task looks up; it throws if one was never saved.
Needs(t) ==
  CASE t \in {"1-USDX-prod", "2-save-USDX-prod"} -> {"AllowlistFactory"}
    [] t = "3-USDX-prod" -> {"USDXFactory", "Blocklist", "Allowlist"}
    [] t = "4-save-USDX-prod" -> {"USDXFactory"}
    [] t = "5-USDXManager-prod" -> {"USDXManager", "USDX_Pricer", "USDX"}

Proposals(t) ==
  CASE t = "1-USDX-prod" -> AllowlistProposals
    [] t = "3-USDX-prod" -> USDXProposals
    [] t = "5-USDXManager-prod" -> GatewayProposals
-----------------------------------------------------------------------------
(* What the operator goes by to choose the next task                       *)

InEffect(p) ==
  CASE p.call = "deployAllowlist" -> allowlists # <<>>
    [] p.call = "deployUSDX" -> tokens # <<>>
    [] p.call = "setPricer" -> managers[p.to[2]].pricer = p.args[1]
    [] p.call = "grantRole" -> HasRole(members, p.to, p.role, p.args[1])

OutOfDate(proxyName, adminName, proxy, admin) ==
  proxy # ZERO_ADDRESS /\ <<record[proxyName], record[adminName]>> # <<proxy, admin>>

Useful(t) ==
  /\ Recorded(Needs(t))
  /\ CASE t = "2-save-USDX-prod" ->
            OutOfDate("Allowlist", "ProxyAdminAllowlist", allowlistProxy, allowlistProxyAdmin)
       [] t = "4-save-USDX-prod" ->
            OutOfDate("USDX", "ProxyAdminUSDX", USDXProxy, USDXProxyAdmin)
       [] OTHER ->
            \E i \in 1..Len(Proposals(t)) :
              ~InEffect(Proposals(t)[i]) /\ ~Contains(pending, Proposals(t)[i])

\* The first task that is useful, by number.
NextTask(t) ==
  \E i \in DOMAIN Procedure :
    /\ t = Procedure[i] /\ Useful(t)
    /\ \A j \in 1..i - 1 : ~Useful(Procedure[j])
-----------------------------------------------------------------------------
(* The tasks                                                               *)

Slip == slips < MaxSlips /\ slips' = slips + 1

StartsWith(t) ==
  /\ task = "idle" /\ Recorded(Needs(t))
  /\ task' = t
  /\ IF t \in ProposingTasks
       THEN todo' = Proposals(t) /\ UNCHANGED proxyRead
       ELSE /\ proxyRead' = IF t = "2-save-USDX-prod" THEN allowlistProxy ELSE USDXProxy
            /\ UNCHANGED todo
  /\ UNCHANGED <<chainVars, record, pending>>

Start(t) == NextTask(t) /\ StartsWith(t) /\ UNCHANGED slips

StartAnyway(t) == ~NextTask(t) /\ StartsWith(t) /\ Slip

createProposal == pending' = Append(pending, Head(todo))

Propose ==
  /\ todo # <<>>
  /\ createProposal
  /\ todo' = Tail(todo)
  /\ task' = IF Tail(todo) = <<>> THEN "idle" ELSE task
  /\ UNCHANGED <<chainVars, record, proxyRead, slips>>

SavesProxy(t, proxyName, adminName, admin) ==
  /\ task = t
  /\ record' = [record EXCEPT ![proxyName] = proxyRead, ![adminName] = admin]
  /\ task' = "idle" /\ proxyRead' = Absent
  /\ UNCHANGED <<chainVars, todo, pending, slips>>

\* What the proxy and the admin getters answered may be of two deployments.
SaveAllowlist ==
  SavesProxy("2-save-USDX-prod", "Allowlist", "ProxyAdminAllowlist", allowlistProxyAdmin)

SaveUSDX == SavesProxy("4-save-USDX-prod", "USDX", "ProxyAdminUSDX", USDXProxyAdmin)

\* The task dies: before its next call, after a call that did arrive, or
\* between the two records it saves.
Interrupted ==
  /\ task # "idle" /\ Slip
  /\ \/ UNCHANGED record
     \/ task = "2-save-USDX-prod" /\ Save("Allowlist", proxyRead)
     \/ task = "4-save-USDX-prod" /\ Save("USDX", proxyRead)
  /\ pending' = pending \/ (todo # <<>> /\ createProposal)
  /\ task' = "idle" /\ todo' = <<>> /\ proxyRead' = Absent
  /\ UNCHANGED chainVars
-----------------------------------------------------------------------------
(* The Safe                                                                *)

Carry(p) ==
  CASE p.call = "deployAllowlist" -> DeployAllowlist(Guardian, p.args[1], p.args[2])
    [] p.call = "deployUSDX" -> DeployUSDX(Guardian, p.args[1], p.args[2])
    [] p.call = "setPricer" -> SetPricer(Guardian, p.to, p.args[1])
    [] p.call = "grantRole" -> GrantRole(Guardian, p.to, p.role, p.args[1])

Proxies(p) == p.call \in {"deployAllowlist", "deployUSDX"}

Settle(i) == pending' = RemoveAt(pending, i)

\* A proposal whose transaction would revert cannot be executed.
SafeExecutes(i) ==
  /\ Proxies(pending[i]) \/ \A j \in 1..i - 1 : Proxies(pending[j])
  /\ Carry(pending[i]) /\ Settle(i)
  /\ UNCHANGED <<operatorVars, record, slips>>

SafeRejects(i) == Settle(i) /\ Slip /\ UNCHANGED <<chainVars, operatorVars, record>>

SafeActs == \E i \in DOMAIN pending : SafeExecutes(i)

OperatorActs ==
  \/ DeployScript
  \/ \E t \in ProposingTasks \cup SavingTasks : Start(t)
  \/ Propose \/ SaveAllowlist \/ SaveUSDX

ProductionNext ==
  \/ OperatorActs \/ SafeActs
  \/ \E t \in ProposingTasks \cup SavingTasks : StartAnyway(t)
  \/ Interrupted \/ \E i \in DOMAIN pending : SafeRejects(i)
=============================================================================
