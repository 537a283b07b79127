----------------------------- MODULE Verification -----------------------------
(***************************************************************************)
(* scripts/usdx/verification-scripts: the check-* tasks compare the chain  *)
(* with config.ts, whose addresses the operator has filled in from the     *)
(* records.  A task prints the assertions that fail and goes on; here it   *)
(* is the set of them.  Of the constants that they compare too (names,     *)
(* amounts, role hashes, the slots of other kinds of proxies) only the     *)
(* name of the blocklist differs from config.ts, and only it is modelled.  *)
(***************************************************************************)
EXTENDS DeployedContracts

USDX_config == [
  USDX |-> [DEFAULT_ADMIN_ROLE |-> <<Guardian>>,
            BURNER_ROLE |-> <<>>,
            LIST_CONFIGURER_ROLE |-> <<Guardian>>,
            MINTER_ROLE |-> <<record["USDXManager"]>>,
            PAUSER_ROLE |-> <<Guardian, Pauser>>],
  allowlist |-> [DEFAULT_ADMIN_ROLE |-> <<Guardian>>,
                 ALLOWLIST_SETTER |-> <<Guardian>>,
                 ALLOWLIST_ADMIN |-> <<Guardian>>],
  blocklist |-> [name |-> "Ondo Finance Blocklist Oracle", owner |-> Guardian],
  USDXManager |-> [DEFAULT_ADMIN_ROLE |-> <<Guardian>>,
                   MANAGER_ADMIN |-> <<Guardian>>,
                   PAUSER_ADMIN |-> <<Pauser>>,
                   PRICE_ID_SETTER_ROLE |-> <<Guardian>>,
                   RELAYER_ROLE |-> <<Guardian>>,
                   TIMESTAMP_SETTER_ROLE |-> <<Guardian>>],
  USDX_pricer |-> [DEFAULT_ADMIN_ROLE |-> <<Guardian>>,
                   PRICE_UPDATE_ROLE |-> <<Guardian>>]]

\* The roles whose members are not these, in this order.
assertRoleMembers(contract, expected) ==
  {role \in DOMAIN expected : Members(members, contract, role) # expected[role]}

assertAgainstBlockchain(name, actual, expected) ==
  IF actual = expected THEN {} ELSE {name}

\* The proxy's admin slot, and the owner of that ProxyAdmin.
assertProxyAdmin(proxy, instance, adminKind, recordedAdmin) ==
  assertAgainstBlockchain("proxyAdmin", At(adminKind, proxy[2]), recordedAdmin)
    \cup assertAgainstBlockchain("proxyAdminOwner", instance.proxyAdminOwner, Guardian)

checkAllowlist ==
  LET proxy == record["Allowlist"] IN
    assertProxyAdmin(proxy, allowlists[proxy[2]], "ProxyAdminAllowlist",
                     record["ProxyAdminAllowlist"])
      \cup assertRoleMembers(proxy, USDX_config.allowlist)

checkBlocklist ==
  assertAgainstBlockchain("name", blocklistName, USDX_config.blocklist.name)
    \cup assertAgainstBlockchain("owner", blocklistOwner, USDX_config.blocklist.owner)

checkUSDXPricer == assertRoleMembers(record["USDX_Pricer"], USDX_config.USDX_pricer)

checkUSDXManager ==
  LET manager == managers[record["USDXManager"][2]] IN
    assertRoleMembers(record["USDXManager"], USDX_config.USDXManager)
      \cup assertAgainstBlockchain("rwa", manager.rwa, record["USDX"])
      \cup assertAgainstBlockchain("pricer", manager.pricer, record["USDX_Pricer"])

checkUSDX ==
  LET proxy == record["USDX"]
      token == tokens[proxy[2]]
  IN assertProxyAdmin(proxy, token, "ProxyAdminUSDX", record["ProxyAdminUSDX"])
       \cup assertRoleMembers(proxy, USDX_config.USDX)
       \cup assertAgainstBlockchain("allowlist", token.allowlist, record["Allowlist"])
       \cup assertAgainstBlockchain("blocklist", token.blocklist, record["Blocklist"])

\* Everything the five tasks print, by task.
FailedAssertions ==
  ({"check-allowlist"} \X checkAllowlist) \cup ({"check-blocklist"} \X checkBlocklist)
    \cup ({"check-USDX-pricer"} \X checkUSDXPricer)
    \cup ({"check-USDX-manager"} \X checkUSDXManager) \cup ({"check-USDX"} \X checkUSDX)
=============================================================================
