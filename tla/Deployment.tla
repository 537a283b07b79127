------------------------------ MODULE Deployment ------------------------------
(***************************************************************************)
(* The deployment of the gateway to one network, and what it has to reach. *)
(***************************************************************************)
EXTENDS ProductionScripts, LocalScripts, Verification

CONSTANT Networks       \* a subset of {"mainnet", "localhost"}

VARIABLE network

vars == <<chainVars, record, scriptVars, localVars, network>>

NoLocal ==
  /\ commands = <<>> /\ queue = <<>>
  /\ coverage = "none" /\ coverageTodo = <<>> /\ seen = record /\ startedEarly = FALSE

Init ==
  /\ network \in Networks
  /\ InitContracts /\ InitProduction
  /\ IF network = "localhost" THEN InitLocal ELSE NoLocal

Next ==
  \/ network = "mainnet" /\ ProductionNext /\ UNCHANGED <<localVars, network>>
  \/ network = "localhost" /\ LocalNext /\ UNCHANGED <<scriptVars, network>>

On(net, A, others) == network = net /\ A /\ UNCHANGED <<others, network>>

\* The operator carries on while there is something to do, and the signers
\* execute what can be executed; the local processes are not stopped for ever.
Fairness ==
  /\ WF_vars(On("mainnet", OperatorActs, localVars))
  /\ WF_vars(On("mainnet", SafeActs, localVars))
  /\ WF_vars(On("localhost", DeployStep, scriptVars))
  /\ WF_vars(On("localhost", StartCoverage \/ CoverageStep, scriptVars))

Spec == Init /\ [][Next]_vars /\ Fairness
-----------------------------------------------------------------------------
\* Nothing is left to run, to wait for or to execute.
Complete ==
  /\ network = "mainnet" /\ task = "idle"
  /\ \A name \in {"AllowlistFactory", "Blocklist", "USDXFactory", "USDX_Pricer",
                  "USDXManager", "USDX"} : record[name] # Absent
  /\ rwaOf(record["USDXManager"]) = USDXProxy
  /\ \A t \in ProposingTasks \cup SavingTasks : ~Useful(t)
  /\ \A i \in DOMAIN pending :
       pending[i].call = "deployUSDX" /\ ~ListsGiven(pending[i].args[1], pending[i].args[2])

ProxiedOnce == Len(allowlists) = 1 /\ Len(tokens) = 1
-----------------------------------------------------------------------------
\* Whatever is interrupted, repeated or overtaken: no role on any contract is
\* with the deployer or left with the factory that initialised it, only
\* managers mint, and every ProxyAdmin is the guardian's.
\* (USDXFactory.sol:93-108, AllowlistFactory.sol:60-75)
NoStrayRights ==
  /\ \A k \in DOMAIN members : \A i \in DOMAIN members[k] :
       /\ members[k][i] \notin {Deployer, AllowlistFactory, USDXFactory, ZERO_ADDRESS}
       /\ k[2] = "MINTER_ROLE" => members[k][i][1] = "USDXManager"
  /\ \A i \in DOMAIN allowlists : allowlists[i].proxyAdminOwner = Guardian
  /\ \A i \in DOMAIN tokens : tokens[i].proxyAdminOwner = Guardian

\* The lists a token is created with were deployed, though the proposal takes
\* them from records that may have been saved before the factory's proxy
\* existed.  (2-save-allowlist-prod.ts:9, 3-usdx-prod.ts:39)
TokensConsultRealLists ==
  \A i \in DOMAIN tokens :
    /\ tokens[i].blocklist = Blocklist /\ blocklistOwner # Absent
    /\ tokens[i].allowlist \in {At("Allowlist", n) : n \in 1..Len(allowlists)}

\* A manager is never a minter of a token other than its own.  On mainnet this
\* takes a single token: 4_deploy_usdxManager.ts:27 and 5-usdxManager-prod.ts:43
\* take the token from different places.
MintersServeTheirToken ==
  network = "localhost" \/ Len(tokens) <= 1 =>
    \A k \in DOMAIN members : k[2] = "MINTER_ROLE" =>
      \A i \in DOMAIN members[k] : rwaOf(members[k][i]) = k[1]

\* When the procedure has come to its end with one allowlist and one token,
\* the check-* tasks print nothing but three failures, whatever went wrong and
\* was repeated on the way: config.ts:72 expects a role nothing grants on the
\* token, config.ts:113 a name the blocklist does not have (Blocklist.sol:25),
\* and config.ts:114 an owner it is never handed over to.
CompleteDeploymentIsVerified ==
  Complete /\ ProxiedOnce =>
    FailedAssertions \subseteq {<<"check-USDX", "LIST_CONFIGURER_ROLE">>,
                                <<"check-blocklist", "name">>,
                                <<"check-blocklist", "owner">>}

\* assert_usdx_configuration.ts:19, "Checks if USDX contract has been properly
\* initialized", and likewise the other tasks: a system deployed by the
\* procedure passes them.  It does not.
CompleteDeploymentPassesChecks == Complete /\ ProxiedOnce => FailedAssertions = {}

\* Deposits can be priced, released, and claimed for the token.
Operational ==
  /\ Recorded({"USDXManager", "USDX", "USDX_Pricer"})
  /\ LET manager == record["USDXManager"] IN
       /\ rwaOf(manager) = record["USDX"]
       /\ managers[manager[2]].pricer = record["USDX_Pricer"]
       /\ HasRole(members, record["USDX"], "MINTER_ROLE", manager)
       /\ \A role \in {"PRICE_ID_SETTER_ROLE", "TIMESTAMP_SETTER_ROLE"} :
            Members(members, manager, role) # <<>>

\* If the operator carries on and the signers sign, the gateway on mainnet is
\* complete in the end, and stays so, whatever was interrupted, lost or
\* executed twice.
GatewayOpens == <>[](network = "mainnet" => Operational /\ Complete)

\* A node started for continuous integration ends with the coverage script
\* run to its end, unless it was started too early or its clock was late.
FreshNodeServesCoverage ==
  <>(network = "localhost" =>
       coverage \in {"passed", "late"} \/ startedEarly \/ commands # <<"Local">>)
=============================================================================
