--------------------------- MODULE DeployedContracts ---------------------------
(***************************************************************************)
(* The USDX contracts as their deployment changes them: which instances    *)
(* exist, who holds which role on each, and what they point at.  The two   *)
(* procedures that deploy them, on mainnet and on a local node, are        *)
(* ProductionScripts and LocalScripts.                                     *)
(*                                                                         *)
(* An address is a pair of a kind and an instance number.  A factory may   *)
(* be asked for a new proxy any number of times and remembers the last.    *)
(***************************************************************************)
EXTENDS Naturals, Sequences, SequencesExt

EOA(name) == <<name, 0>>
At(kind, n) == <<kind, n>>

ZERO_ADDRESS == EOA("zero")
Absent == EOA("absent")         \* no such file in deployments/<network>

Deployer == EOA("deployer")
Guardian == EOA("guardian")     \* PROD_GUARDIAN_USDX, the Safe; signers[1] locally
Pauser == EOA("pauser")         \* PROD_PAUSER_USDX; signers[3]
Blocklist == At("Blocklist", 1)
AllowlistFactory == At("AllowlistFactory", 1)
USDXFactory == At("USDXFactory", 1)
Pricer == At("USDX_Pricer", 1)

VARIABLES
  members,          \* role members: <<contract, role>> to their enumeration
  allowlists,       \* the Allowlist proxies: who owns the ProxyAdmin of each
  tokens,           \* the USDX proxies: their lists, who owns the ProxyAdmin
  managers,         \* the USDXManagers: their token and their pricer
  factoryGuardian,  \* the guardian a factory was constructed with
  blocklistOwner, blocklistPendingOwner,
  record            \* deployments/<network>/<name>.json: the address saved

chainVars == <<members, allowlists, tokens, managers, factoryGuardian,
               blocklistOwner, blocklistPendingOwner>>

Records == {"AllowlistFactory", "Blocklist", "USDXFactory", "USDXManager",
            "USDX_Pricer", "Allowlist", "ProxyAdminAllowlist", "USDX",
            "ProxyAdminUSDX"}

InitContracts ==
  /\ members = <<>>
  /\ allowlists = <<>> /\ tokens = <<>> /\ managers = <<>>
  /\ factoryGuardian = [f \in {AllowlistFactory, USDXFactory} |-> Absent]
  /\ blocklistOwner = Absent /\ blocklistPendingOwner = ZERO_ADDRESS
  /\ record = [r \in Records |-> Absent]
-----------------------------------------------------------------------------
(* AccessControlEnumerable                                                 *)

Members(m, c, role) == IF <<c, role>> \in DOMAIN m THEN m[<<c, role>>] ELSE <<>>

HasRole(m, c, role, account) == Contains(Members(m, c, role), account)

Granted(m, c, role, account) ==
  IF HasRole(m, c, role, account) THEN m
  ELSE [k \in DOMAIN m \cup {<<c, role>>} |->
          IF k = <<c, role>> THEN Append(Members(m, c, role), account) ELSE m[k]]

\* The roles of a contract that is new: a record of their enumerations.
WithRoles(m, c, roles) ==
  [k \in DOMAIN m \cup {<<c, role>> : role \in DOMAIN roles} |->
     IF k[1] = c THEN roles[k[2]] ELSE m[k]]

AdminOf(c, role) ==
  IF c[1] = "USDXManager"
     /\ role \in {"PAUSER_ADMIN", "PRICE_ID_SETTER_ROLE", "RELAYER_ROLE"}
    THEN "MANAGER_ADMIN" ELSE "DEFAULT_ADMIN_ROLE"

\* grantRole sent by sender.  A call to the zero address succeeds and does
\* nothing: no code is there to refuse it.
GrantRole(sender, c, role, account) ==
  /\ c = ZERO_ADDRESS \/ HasRole(members, c, AdminOf(c, role), sender)
  /\ members' = IF c = ZERO_ADDRESS THEN members ELSE Granted(members, c, role, account)
  /\ UNCHANGED <<allowlists, tokens, managers, factoryGuardian,
                 blocklistOwner, blocklistPendingOwner>>
-----------------------------------------------------------------------------
(* The factories                                                           *)

\* What a factory's getters answer: the last instance it made.
Latest(kind, instances) ==
  IF instances = <<>> THEN ZERO_ADDRESS ELSE At(kind, Len(instances))

allowlistProxy == Latest("Allowlist", allowlists)
allowlistProxyAdmin == Latest("ProxyAdminAllowlist", allowlists)
USDXProxy == Latest("USDX", tokens)
USDXProxyAdmin == Latest("ProxyAdminUSDX", tokens)

ConstructFactory(factory, guardian) ==
  /\ factoryGuardian' = [factoryGuardian EXCEPT ![factory] = guardian]
  /\ UNCHANGED <<members, allowlists, tokens, managers, blocklistOwner,
                 blocklistPendingOwner>>

DeployAllowlist(sender, admin, setter) ==
  LET proxied == At("Allowlist", Len(allowlists) + 1) IN
  /\ sender = factoryGuardian[AllowlistFactory]
  /\ allowlists' = Append(allowlists, [proxyAdminOwner |-> sender])
  /\ members' = WithRoles(members, proxied,
                  [DEFAULT_ADMIN_ROLE |-> <<admin>>, ALLOWLIST_ADMIN |-> <<admin>>,
                   ALLOWLIST_SETTER |-> <<setter>>])
  /\ UNCHANGED <<tokens, managers, factoryGuardian, blocklistOwner,
                 blocklistPendingOwner>>

\* initialize gives the factory three roles; it passes two on, and lays all
\* three down.
HandOver_FaultyKeepsMinter(guardian) ==
  LET granted == [DEFAULT_ADMIN_ROLE |-> <<USDXFactory, guardian>>,
                  MINTER_ROLE |-> <<USDXFactory>>,
                  PAUSER_ROLE |-> <<USDXFactory, guardian>>]
  IN [role \in DOMAIN granted |->
        IF role = "MINTER_ROLE" THEN granted[role]
        ELSE RemoveFirst(granted[role], USDXFactory)]

HandOver(guardian) ==
  LET granted == [DEFAULT_ADMIN_ROLE |-> <<USDXFactory, guardian>>,
                  MINTER_ROLE |-> <<USDXFactory>>,
                  PAUSER_ROLE |-> <<USDXFactory, guardian>>]
  IN [role \in DOMAIN granted |-> RemoveFirst(granted[role], USDXFactory)]

ListsGiven_FaultyUnchecked(blocklist, allowlist) == TRUE

\* The list clients refuse the zero address.
ListsGiven(blocklist, allowlist) == ZERO_ADDRESS \notin {blocklist, allowlist}

DeployUSDX(sender, blocklist, allowlist) ==
  LET proxied == At("USDX", Len(tokens) + 1)
      guardian == factoryGuardian[USDXFactory]
  IN
  /\ sender = guardian
  /\ ListsGiven(blocklist, allowlist)
  /\ tokens' = Append(tokens, [blocklist |-> blocklist, allowlist |-> allowlist,
                               proxyAdminOwner |-> guardian])
  /\ members' = WithRoles(members, proxied, HandOver(guardian))
  /\ UNCHANGED <<allowlists, managers, factoryGuardian, blocklistOwner,
                 blocklistPendingOwner>>
-----------------------------------------------------------------------------
(* The manager, the pricer and the blocklist                               *)

rwaOf(manager) ==
  IF manager[2] \in DOMAIN managers THEN managers[manager[2]].rwa ELSE ZERO_ADDRESS

ConstructManager(rwa, managerAdmin, pauser) ==
  LET manager == At("USDXManager", Len(managers) + 1) IN
  /\ rwa # ZERO_ADDRESS
  /\ managers' = Append(managers, [rwa |-> rwa, pricer |-> ZERO_ADDRESS])
  /\ members' = WithRoles(members, manager,
                  [DEFAULT_ADMIN_ROLE |-> <<managerAdmin>>,
                   MANAGER_ADMIN |-> <<managerAdmin>>, PAUSER_ADMIN |-> <<pauser>>])
  /\ UNCHANGED <<allowlists, tokens, factoryGuardian, blocklistOwner,
                 blocklistPendingOwner>>

SetPricer(sender, manager, newPricer) ==
  /\ HasRole(members, manager, "MANAGER_ADMIN", sender)
  /\ managers' = [managers EXCEPT ![manager[2]].pricer = newPricer]
  /\ UNCHANGED <<members, allowlists, tokens, factoryGuardian, blocklistOwner,
                 blocklistPendingOwner>>

ConstructPricer(admin, pricer) ==
  /\ members' = WithRoles(members, Pricer,
                  [DEFAULT_ADMIN_ROLE |-> <<admin>>, PRICE_UPDATE_ROLE |-> <<pricer>>])
  /\ UNCHANGED <<allowlists, tokens, managers, factoryGuardian, blocklistOwner,
                 blocklistPendingOwner>>

\* What name() answers.
blocklistName == "X Financial Technologies Blocklist Oracle"

ConstructBlocklist(owner) ==
  /\ blocklistOwner' = owner
  /\ UNCHANGED <<members, allowlists, tokens, managers, factoryGuardian,
                 blocklistPendingOwner>>

\* Ownable2Step: the new owner has to accept.
TransferOwnership(sender, newOwner) ==
  /\ sender = blocklistOwner
  /\ blocklistPendingOwner' = newOwner
  /\ UNCHANGED <<members, allowlists, tokens, managers, factoryGuardian, blocklistOwner>>

AcceptOwnership(sender) ==
  /\ sender = blocklistPendingOwner
  /\ blocklistOwner' = sender /\ blocklistPendingOwner' = ZERO_ADDRESS
  /\ UNCHANGED <<members, allowlists, tokens, managers, factoryGuardian>>
=============================================================================
