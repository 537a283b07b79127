--------------------------- MODULE Deployment_proofs ---------------------------
(***************************************************************************)
(* Proofs about Deployment for every number of slips and of commands, on   *)
(* both networks, whatever PROD_GUARDIAN_OMMF is set to.                   *)
(*                                                                         *)
(* What a step does was decided before: on mainnet when a proposal was     *)
(* made, locally when a command was given.  The invariant therefore says   *)
(* three things: what the chain and the records look like (ChainSound),    *)
(* that every proposal may be executed in any state to come (TasksSound),  *)
(* and that every step still to do finds what it needs (QueueSound).       *)
(* Contracts are never unmade (Grown), so a proposal that did no harm      *)
(* when it was made does none when it is executed.                         *)
(*                                                                         *)
(* The last part is about the end of the procedure on mainnet.  Each role  *)
(* that the checks compare is, in every state, as the constructor left it  *)
(* or with the one planned grant added (AsPlanned), so whatever was done   *)
(* twice or in another order, its enumeration ends the same.               *)
(***************************************************************************)
EXTENDS Deployment, WellFoundedInduction, TLAPS

Kinds == {"zero", "absent", "deployer", "guardian", "pauser", "managerAdmin", "relayer",
          "Blocklist", "AllowlistFactory", "USDXFactory", "USDX_Pricer", "USDXManager",
          "Allowlist", "ProxyAdminAllowlist", "USDX", "ProxyAdminUSDX"}

Addresses == Kinds \X Nat

\* The accounts and contracts no role may stay with.
Strays == {Deployer, AllowlistFactory, USDXFactory, ZERO_ADDRESS}

\* The definitions below take the state they speak of as parameters: the same
\* fact is needed before and after a step.
IsMade(a, kind, instances) == \E n \in DOMAIN instances : a = At(kind, n)

RwaIn(instances, manager) ==
  IF manager[2] \in DOMAIN instances THEN instances[manager[2]].rwa ELSE ZERO_ADDRESS

AllowlistProxies == [proxyAdminOwner : {Guardian}]
TokenProxies == [blocklist : Addresses, allowlist : Addresses, proxyAdminOwner : {Guardian}]
ManagerContracts == [rwa : Addresses, pricer : Addresses]

\* What the contracts themselves keep true.
InstancesSound ==
  /\ allowlists \in Seq(AllowlistProxies)
  /\ tokens \in Seq(TokenProxies)
  /\ \A i \in DOMAIN tokens :
       /\ tokens[i].blocklist = Blocklist /\ blocklistOwner # Absent
       /\ IsMade(tokens[i].allowlist, "Allowlist", allowlists)
  /\ managers \in Seq(ManagerContracts)
  /\ \A i \in DOMAIN managers : IsMade(managers[i].rwa, "USDX", tokens)
  /\ blocklistPendingOwner \in {ZERO_ADDRESS, Guardian}

\* Roles are held on contracts that exist.
Exists(c, als, toks, mans, pricerRecord) ==
  \/ IsMade(c, "Allowlist", als) \/ IsMade(c, "USDX", toks) \/ IsMade(c, "USDXManager", mans)
  \/ c = Pricer /\ pricerRecord # Absent

RightSound(c, role, holder, toks, mans, net) ==
  /\ holder \notin Strays
  /\ role = "MINTER_ROLE" =>
       /\ IsMade(c, "USDX", toks) /\ IsMade(holder, "USDXManager", mans)
       /\ net = "localhost" => RwaIn(mans, holder) = c

RolesSound ==
  \A k \in DOMAIN members :
    /\ Exists(k[1], allowlists, tokens, managers, record["USDX_Pricer"])
    /\ members[k] \in Seq(Addresses)
    /\ \A i \in DOMAIN members[k] :
         RightSound(k[1], k[2], members[k][i], tokens, managers, network)

\* What no step undoes.
Grown ==
  /\ \A a : /\ IsMade(a, "Allowlist", allowlists) => IsMade(a, "Allowlist", allowlists')
            /\ IsMade(a, "USDX", tokens) => IsMade(a, "USDX", tokens')
            /\ IsMade(a, "USDXManager", managers) =>
                 /\ IsMade(a, "USDXManager", managers')
                 /\ RwaIn(managers', a) = RwaIn(managers, a)
  /\ blocklistOwner # Absent => blocklistOwner' # Absent
  /\ network' = network

\* What deployments/<network> may hold: nothing, the zero address a getter
\* answered too early, or a contract that was made.
RecordFits(name, a, als, toks, mans, owner) ==
  /\ a \in Addresses
  /\ name = "USDXManager" => a = Absent \/ IsMade(a, "USDXManager", mans)
  /\ name = "USDX" => a \in {Absent, ZERO_ADDRESS} \/ IsMade(a, "USDX", toks)
  /\ name = "Allowlist" => a \in {Absent, ZERO_ADDRESS} \/ IsMade(a, "Allowlist", als)
  /\ name = "Blocklist" => a = Absent \/ (a = Blocklist /\ owner # Absent)
  /\ name = "USDX_Pricer" => a \in {Absent, Pricer}

RecordsSound ==
  /\ record \in [Records -> Addresses]
  /\ \A name \in Records :
       RecordFits(name, record[name], allowlists, tokens, managers, blocklistOwner)

ChainSound == InstancesSound /\ RolesSound /\ RecordsSound

RoleNames == {"", "DEFAULT_ADMIN_ROLE", "MINTER_ROLE", "PAUSER_ROLE", "PAUSER_ADMIN",
              "MANAGER_ADMIN", "PRICE_ID_SETTER_ROLE", "TIMESTAMP_SETTER_ROLE",
              "RELAYER_ROLE", "LIST_CONFIGURER_ROLE", "PRICE_UPDATE_ROLE"}

\* What a proposal may ask of the Safe.
Requests == [to : Addresses, call : {"deployAllowlist", "deployUSDX", "setPricer", "grantRole"},
             role : RoleNames, args : Seq(Addresses)]

SoundProposals(als, toks, mans, owner) ==
  {p \in Requests :
     /\ p.call = "deployAllowlist" => p.args = <<Guardian, Guardian>>
     /\ p.call = "deployUSDX" =>
          /\ p.args[1] = Blocklist /\ owner # Absent
          /\ p.args[2] = ZERO_ADDRESS \/ IsMade(p.args[2], "Allowlist", als)
     /\ p.call = "setPricer" => p.args[1] \in Addresses
     /\ p.call = "grantRole" =>
          /\ p.args[1] \in Addresses
          /\ p.to # ZERO_ADDRESS => RightSound(p.to, p.role, p.args[1], toks, mans, "mainnet")}

TasksSound ==
  network = "mainnet" =>
    /\ todo \in Seq(SoundProposals(allowlists, tokens, managers, blocklistOwner))
    /\ pending \in Seq(SoundProposals(allowlists, tokens, managers, blocklistOwner))
    /\ task = "2-save-USDX-prod" =>
         proxyRead = ZERO_ADDRESS \/ IsMade(proxyRead, "Allowlist", allowlists)
    /\ task = "4-save-USDX-prod" =>
         proxyRead = ZERO_ADDRESS \/ IsMade(proxyRead, "USDX", tokens)

\* What a queue of local steps promises: a step finds the records it uses, and
\* the manager it makes a minter is one for the token of that record.
AllSteps == [op : {"find", "deploy", "save", "grantRole", "call", "setPricer",
                  "deployAllowlist", "deployUSDX", "transferOwnership", "acceptOwnership"},
             on : Records, by : Kinds \cup {""}, role : RoleNames, to : Kinds \cup {""}]

FoundBefore(q, i, known, name) ==
  name \in known \/ \E j \in 1 .. i - 1 : q[j].op = "find" /\ q[j].on = name

Calm(q, j, i) == \A l \in j + 1 .. i - 1 : q[l].op \notin {"save", "deploy"}

PairedBefore(q, i, paired) ==
  \/ paired /\ Calm(q, 0, i)
  \/ \E j \in 1 .. i - 1 :
       q[j].op = "deploy" /\ q[j].on = "USDXManager" /\ Calm(q, j, i)

StepReady(q, i, known, paired) ==
  /\ q[i].op = "deploy" =>
       q[i].on \in {"AllowlistFactory", "USDXFactory", "Blocklist", "USDX_Pricer", "USDXManager"}
  /\ q[i].op = "deploy" /\ q[i].on = "USDXManager" => FoundBefore(q, i, known, "USDX")
  /\ q[i].op = "deployUSDX" =>
       FoundBefore(q, i, known, "Blocklist") /\ FoundBefore(q, i, known, "Allowlist")
  /\ q[i].op = "grantRole" =>
       /\ q[i].on \in {"USDX", "USDXManager"}
       /\ IF q[i].role = "MINTER_ROLE"
            THEN q[i].on = "USDX" /\ q[i].to = "USDXManager" /\ PairedBefore(q, i, paired)
            ELSE q[i].to \in {"managerAdmin", "relayer"}

QueueReady(q, known, paired) ==
  q \in Seq(AllSteps) /\ \A i \in DOMAIN q : StepReady(q, i, known, paired)

Sought == {"USDX", "Blocklist", "Allowlist"}

Known(records) == {name \in Sought : records[name] # Absent}

Paired(records, mans) ==
  /\ IsMade(records["USDXManager"], "USDXManager", mans)
  /\ RwaIn(mans, records["USDXManager"]) = records["USDX"]

QueueSound == network = "localhost" => QueueReady(queue, Known(record), Paired(record, managers))

LEMMA HolderExists ==
  ASSUME NEW c, NEW role, NEW account, HasRole(members, c, role, account)
  PROVE  <<c, role>> \in DOMAIN members
BY DEF HasRole, Members, Contains

LEMMA MadeAppended ==
  ASSUME NEW S, NEW s \in Seq(S), NEW e \in S, NEW kind
  PROVE  /\ Append(s, e) \in Seq(S)
         /\ \A i \in DOMAIN s : i \in DOMAIN Append(s, e) /\ Append(s, e)[i] = s[i]
         /\ DOMAIN Append(s, e) = DOMAIN s \cup {Len(s) + 1} /\ Len(s) + 1 \notin DOMAIN s
         /\ Append(s, e)[Len(s) + 1] = e
         /\ \A a : IsMade(a, kind, s) => IsMade(a, kind, Append(s, e))
         /\ IsMade(At(kind, Len(s) + 1), kind, Append(s, e))
<1>1. /\ Append(s, e) \in Seq(S)
      /\ \A i \in DOMAIN s : i \in DOMAIN Append(s, e) /\ Append(s, e)[i] = s[i]
      /\ DOMAIN Append(s, e) = DOMAIN s \cup {Len(s) + 1} /\ Len(s) + 1 \notin DOMAIN s
      /\ Append(s, e)[Len(s) + 1] = e
  OBVIOUS
<1> QED BY <1>1 DEF IsMade

LEMMA LatestMade ==
  ASSUME NEW S, NEW s \in Seq(S), NEW kind
  PROVE  Latest(kind, s) = ZERO_ADDRESS \/ IsMade(Latest(kind, s), kind, s)
<1>1. CASE s = <<>>
  BY <1>1 DEF Latest
<1>2. CASE s # <<>>
  BY <1>2 DEF Latest, IsMade
<1> QED BY <1>1, <1>2

LEMMA MadeIsAddress ==
  ASSUME NEW S, NEW s \in Seq(S), NEW kind \in Kinds, NEW a, IsMade(a, kind, s)
  PROVE  a \in Addresses /\ a[1] = kind /\ a[2] \in DOMAIN s /\ a = At(kind, a[2])
BY DEF IsMade, At, Addresses

\* The names of accounts are addresses, and who may hold a role is no stray.
LEMMA NamedAccounts ==
  /\ \A name \in Kinds : EOA(name) \in Addresses
  /\ Guardian \in Addresses /\ Pauser \in Addresses /\ ZERO_ADDRESS \in Addresses
  /\ Absent \in Addresses /\ Blocklist \in Addresses /\ Pricer \in Addresses
  /\ AllowlistFactory \in Addresses /\ USDXFactory \in Addresses
  /\ Guardian \notin Strays /\ Pauser \notin Strays
  /\ EOA("managerAdmin") \notin Strays /\ EOA("relayer") \notin Strays
  /\ Guardian # Absent /\ ZERO_ADDRESS # Absent /\ Blocklist # Absent /\ Pricer # Absent
  /\ Deployer # Absent /\ Blocklist # ZERO_ADDRESS /\ Guardian # USDXFactory
<1>1. \A name \in Kinds : EOA(name) \in Addresses
  BY DEF EOA, Addresses
<1>2. \A kind \in Kinds : At(kind, 1) \in Addresses
  BY DEF At, Addresses
<1>3. /\ Guardian \in Addresses /\ Pauser \in Addresses /\ ZERO_ADDRESS \in Addresses
      /\ Absent \in Addresses
  <2>1. "guardian" \in Kinds /\ "pauser" \in Kinds /\ "zero" \in Kinds /\ "absent" \in Kinds
    BY DEF Kinds
  <2> QED BY <1>1, <2>1, Zenon DEF Guardian, Pauser, ZERO_ADDRESS, Absent
<1>4. /\ Blocklist \in Addresses /\ Pricer \in Addresses
      /\ AllowlistFactory \in Addresses /\ USDXFactory \in Addresses
  <2>1. /\ "Blocklist" \in Kinds /\ "USDX_Pricer" \in Kinds
        /\ "AllowlistFactory" \in Kinds /\ "USDXFactory" \in Kinds
    BY DEF Kinds
  <2> QED BY <1>2, <2>1, Zenon DEF Blocklist, Pricer, AllowlistFactory, USDXFactory
<1> USE DEF EOA, At, Deployer, Guardian, Pauser, ZERO_ADDRESS, Absent, Blocklist,
            Pricer, AllowlistFactory, USDXFactory
<1>5. /\ Guardian \notin Strays /\ Pauser \notin Strays
      /\ EOA("managerAdmin") \notin Strays /\ EOA("relayer") \notin Strays
  BY DEF Strays
<1>6. /\ Guardian # Absent /\ ZERO_ADDRESS # Absent /\ Blocklist # Absent /\ Pricer # Absent
      /\ Deployer # Absent /\ Blocklist # ZERO_ADDRESS /\ Guardian # USDXFactory
  OBVIOUS
<1> HIDE DEF EOA, At, Deployer, Guardian, Pauser, ZERO_ADDRESS, Absent, Blocklist,
             Pricer, AllowlistFactory, USDXFactory
<1> QED BY <1>1, <1>3, <1>4, <1>5, <1>6

LEMMA MadeIsNoAccount ==
  ASSUME NEW s, NEW kind \in {"Allowlist", "USDX", "USDXManager"}, NEW a, IsMade(a, kind, s)
  PROVE  /\ a \notin Strays \cup {Absent, Pricer}
BY DEF IsMade, At, EOA, Strays, Deployer, ZERO_ADDRESS, Absent, Pricer,
       AllowlistFactory, USDXFactory
-----------------------------------------------------------------------------
\* Rights and existence outlast every step.
LEMMA RightsOutlast ==
  ASSUME Grown, NEW c, NEW role, NEW holder, RightSound(c, role, holder, tokens, managers, network)
  PROVE  RightSound(c, role, holder, tokens', managers', network')
BY DEF Grown, RightSound

LEMMA ExistenceOutlasts ==
  ASSUME Grown, record["USDX_Pricer"] # Absent => record'["USDX_Pricer"] # Absent, NEW c,
         Exists(c, allowlists, tokens, managers, record["USDX_Pricer"])
  PROVE  Exists(c, allowlists', tokens', managers', record'["USDX_Pricer"])
BY DEF Grown, Exists

LEMMA RolesUntouched ==
  ASSUME RolesSound, Grown, members' = members,
         record["USDX_Pricer"] # Absent => record'["USDX_Pricer"] # Absent
  PROVE  RolesSound'
BY RightsOutlast, ExistenceOutlasts DEF RolesSound

\* grantRole, by whoever may: a holder is added, or nothing happens.
LEMMA GrantSound ==
  ASSUME InstancesSound, RolesSound, NEW sender, NEW c \in Addresses, NEW role,
         NEW account \in Addresses, GrantRole(sender, c, role, account),
         c # ZERO_ADDRESS => RightSound(c, role, account, tokens, managers, network),
         record' = record, network' = network
  PROVE  InstancesSound' /\ RolesSound' /\ Grown
<1>1. UNCHANGED <<allowlists, tokens, managers, blocklistOwner, blocklistPendingOwner>>
  BY DEF GrantRole
<1>2. InstancesSound' /\ Grown
  BY <1>1 DEF InstancesSound, Grown
<1>3. CASE members' = members
  BY <1>2, <1>3, RolesUntouched
<1>4. CASE members' # members
  <2> DEFINE k == <<c, role>>
             held == Members(members, c, role)
  <2>1. /\ c # ZERO_ADDRESS /\ HasRole(members, c, AdminOf(c, role), sender)
        /\ members' = [x \in DOMAIN members \cup {k} |->
                         IF x = k THEN Append(held, account) ELSE members[x]]
    BY <1>4 DEF GrantRole, Granted
  <2>2. Exists(c, allowlists, tokens, managers, record["USDX_Pricer"])
    <3>1. <<c, AdminOf(c, role)>> \in DOMAIN members
      BY <2>1, HolderExists
    <3> QED BY <3>1 DEF RolesSound
  <2>3. held \in Seq(Addresses)
    BY DEF RolesSound, Members
  <2>4. \A i \in DOMAIN held : RightSound(c, role, held[i], tokens, managers, network)
    BY DEF RolesSound, Members
  <2> HIDE DEF held
  <2>5. /\ Append(held, account) \in Seq(Addresses)
        /\ \A i \in DOMAIN Append(held, account) :
             RightSound(c, role, Append(held, account)[i], tokens, managers, network)
    BY <2>1, <2>3, <2>4
  <2>6. k[1] = c /\ k[2] = role
    OBVIOUS
  <2> HIDE DEF k
  <2>7. \A x \in DOMAIN members' :
          /\ Exists(x[1], allowlists, tokens, managers, record["USDX_Pricer"])
          /\ members'[x] \in Seq(Addresses)
          /\ \A i \in DOMAIN members'[x] :
               RightSound(x[1], x[2], members'[x][i], tokens, managers, network)
    BY <2>1, <2>2, <2>5, <2>6 DEF RolesSound
  <2> QED BY <1>1, <1>2, <2>7 DEF RolesSound
<1> QED BY <1>3, <1>4

\* A new contract is new: no role is held on it yet.
LEMMA NewContract ==
  ASSUME InstancesSound, RolesSound
  PROVE  /\ \A k \in DOMAIN members : k[1] # At("Allowlist", Len(allowlists) + 1)
         /\ \A k \in DOMAIN members : k[1] # At("USDX", Len(tokens) + 1)
         /\ \A k \in DOMAIN members : k[1] # At("USDXManager", Len(managers) + 1)
         /\ record["USDX_Pricer"] = Absent => \A k \in DOMAIN members : k[1] # Pricer
<1> USE DEF At, Pricer
<1>1. /\ Len(allowlists) + 1 \notin DOMAIN allowlists /\ Len(tokens) + 1 \notin DOMAIN tokens
      /\ Len(managers) + 1 \notin DOMAIN managers
  BY DEF InstancesSound
<1>2. ASSUME NEW k \in DOMAIN members
      PROVE  /\ k[1] # At("Allowlist", Len(allowlists) + 1)
             /\ k[1] # At("USDX", Len(tokens) + 1)
             /\ k[1] # At("USDXManager", Len(managers) + 1)
             /\ record["USDX_Pricer"] = Absent => k[1] # Pricer
  <2>1. Exists(k[1], allowlists, tokens, managers, record["USDX_Pricer"])
    BY DEF RolesSound
  <2> QED BY <1>1, <2>1 DEF Exists, IsMade
<1> QED BY <1>2

\* The roles a constructor, or initialize, gives on a new contract.
LEMMA NewRolesSound ==
  ASSUME RolesSound, Grown, NEW c \in Addresses, NEW roles,
         \A k \in DOMAIN members : k[1] # c,
         \A role \in DOMAIN roles :
           /\ roles[role] \in Seq(Addresses)
           /\ \A i \in DOMAIN roles[role] :
                RightSound(c, role, roles[role][i], tokens', managers', network'),
         Exists(c, allowlists', tokens', managers', record'["USDX_Pricer"]),
         record["USDX_Pricer"] # Absent => record'["USDX_Pricer"] # Absent,
         members' = WithRoles(members, c, roles)
  PROVE  RolesSound'
<1>1. /\ DOMAIN members' = DOMAIN members \cup {<<c, role>> : role \in DOMAIN roles}
      /\ \A k \in DOMAIN members : members'[k] = members[k]
      /\ \A role \in DOMAIN roles : members'[<<c, role>>] = roles[role]
  BY DEF WithRoles
<1>2. ASSUME NEW k \in DOMAIN members
      PROVE  /\ Exists(k[1], allowlists', tokens', managers', record'["USDX_Pricer"])
             /\ members'[k] \in Seq(Addresses)
             /\ \A i \in DOMAIN members'[k] :
                  RightSound(k[1], k[2], members'[k][i], tokens', managers', network')
  BY <1>1, RightsOutlast, ExistenceOutlasts DEF RolesSound
<1>3. ASSUME NEW role \in DOMAIN roles
      PROVE  LET k == <<c, role>> IN
                      /\ Exists(k[1], allowlists', tokens', managers', record'["USDX_Pricer"])
             /\ members'[k] \in Seq(Addresses)
             /\ \A i \in DOMAIN members'[k] :
                  RightSound(k[1], k[2], members'[k][i], tokens', managers', network')
  BY <1>1
<1> QED BY <1>1, <1>2, <1>3 DEF RolesSound
-----------------------------------------------------------------------------
(* The calls on the chain                                                  *)

\* What a step on the chain leaves behind.
Goes == InstancesSound' /\ RolesSound' /\ Grown

PricerRecordKept == record["USDX_Pricer"] # Absent => record'["USDX_Pricer"] # Absent

\* No contract is made and no role given.
LEMMA NothingMade ==
  ASSUME InstancesSound, RolesSound, PricerRecordKept, network' = network,
         UNCHANGED <<members, allowlists, tokens, managers>>,
         blocklistOwner # Absent => blocklistOwner' # Absent,
         blocklistPendingOwner' \in {ZERO_ADDRESS, Guardian}
  PROVE  Goes
<1>1. InstancesSound' /\ Grown
  BY DEF InstancesSound, Grown
<1> QED BY <1>1, RolesUntouched DEF PricerRecordKept, Goes

LEMMA ConstructFactorySound ==
  ASSUME InstancesSound, RolesSound, PricerRecordKept, network' = network,
         NEW factory, NEW guardian, ConstructFactory(factory, guardian)
  PROVE  Goes
BY NothingMade DEF ConstructFactory, InstancesSound

LEMMA ConstructBlocklistSound ==
  ASSUME InstancesSound, RolesSound, PricerRecordKept, network' = network,
         ConstructBlocklist(Deployer)
  PROVE  Goes /\ blocklistOwner' # Absent
BY NothingMade, NamedAccounts DEF ConstructBlocklist, InstancesSound

LEMMA TransferOwnershipSound ==
  ASSUME InstancesSound, RolesSound, PricerRecordKept, network' = network,
         NEW sender, TransferOwnership(sender, Guardian)
  PROVE  Goes
BY NothingMade DEF TransferOwnership

LEMMA AcceptOwnershipSound ==
  ASSUME InstancesSound, RolesSound, PricerRecordKept, network' = network,
         NEW sender, AcceptOwnership(sender)
  PROVE  Goes
BY NothingMade, NamedAccounts DEF AcceptOwnership, InstancesSound

LEMMA SetPricerSound ==
  ASSUME InstancesSound, RolesSound, PricerRecordKept, network' = network,
         NEW sender, NEW manager, NEW newPricer \in Addresses,
         SetPricer(sender, manager, newPricer)
  PROVE  Goes
<1> DEFINE n == manager[2]
<1>1. managers' = [managers EXCEPT ![n].pricer = newPricer]
      /\ UNCHANGED <<members, allowlists, tokens, blocklistOwner, blocklistPendingOwner>>
  BY DEF SetPricer
<1>2. managers \in Seq(ManagerContracts)
  BY DEF InstancesSound
<1> HIDE DEF n
<1>3. /\ DOMAIN managers' = DOMAIN managers
      /\ managers' \in Seq(ManagerContracts)
      /\ \A i \in DOMAIN managers : managers'[i].rwa = managers[i].rwa
  <2>1. CASE n \notin DOMAIN managers
    <3>1. managers' = managers
      BY <1>1, <1>2, <2>1
    <3> QED BY <1>2, <3>1
  <2>2. CASE n \in DOMAIN managers
    <3> DEFINE changed == [managers[n] EXCEPT !.pricer = newPricer]
    <3>1. managers[n] \in ManagerContracts
      BY <1>2, <2>2
    <3>2. changed \in ManagerContracts /\ changed.rwa = managers[n].rwa
      BY <3>1 DEF ManagerContracts
    <3>3. managers' = [managers EXCEPT ![n] = changed]
      BY <1>1
    <3> HIDE DEF changed
    <3> QED BY <1>2, <2>2, <3>2, <3>3
  <2> QED BY <2>1, <2>2
<1>4. InstancesSound'
  BY <1>1, <1>3 DEF InstancesSound
<1>5. Grown
  BY <1>1, <1>3 DEF Grown, IsMade, RwaIn
<1> QED BY <1>1, <1>4, <1>5, RolesUntouched DEF PricerRecordKept, Goes

LEMMA ConstructPricerSound ==
  ASSUME InstancesSound, RolesSound, record["USDX_Pricer"] = Absent,
         record'["USDX_Pricer"] # Absent, network' = network,
         NEW holder \in Addresses, holder \notin Strays, ConstructPricer(Guardian, holder)
  PROVE  Goes
<1>1. InstancesSound' /\ Grown
  BY DEF ConstructPricer, InstancesSound, Grown
<1> DEFINE roles == [DEFAULT_ADMIN_ROLE |-> <<Guardian>>, PRICE_UPDATE_ROLE |-> <<holder>>]
<1>2. members' = WithRoles(members, Pricer, roles)
  BY DEF ConstructPricer
<1>3. /\ DOMAIN roles = {"DEFAULT_ADMIN_ROLE", "PRICE_UPDATE_ROLE"}
      /\ roles["DEFAULT_ADMIN_ROLE"] = <<Guardian>> /\ roles["PRICE_UPDATE_ROLE"] = <<holder>>
  OBVIOUS
<1> HIDE DEF roles
<1>4. \A role \in DOMAIN roles :
        /\ roles[role] \in Seq(Addresses)
        /\ \A i \in DOMAIN roles[role] :
             RightSound(Pricer, role, roles[role][i], tokens', managers', network')
  <2>1. \A role \in DOMAIN roles : \E h \in Addresses \ Strays : roles[role] = <<h>>
    BY <1>3, NamedAccounts
  <2>2. \A role \in DOMAIN roles : role # "MINTER_ROLE"
    BY <1>3
  <2>3. ASSUME NEW role \in DOMAIN roles
        PROVE  /\ roles[role] \in Seq(Addresses)
               /\ \A i \in DOMAIN roles[role] : roles[role][i] \notin Strays
    <3>1. PICK h \in Addresses \ Strays : roles[role] = <<h>>
      BY <2>1
    <3>2. <<h>> \in Seq(Addresses) /\ \A i \in DOMAIN <<h>> : <<h>>[i] = h
      OBVIOUS
    <3> QED BY <3>1, <3>2
  <2> QED BY <2>2, <2>3 DEF RightSound
<1>5. Exists(Pricer, allowlists', tokens', managers', record'["USDX_Pricer"])
  BY DEF Exists
<1>6. \A k \in DOMAIN members : k[1] # Pricer
  BY NewContract
<1>8. RolesSound'
  BY <1>1, <1>2, <1>4, <1>5, <1>6, NamedAccounts, NewRolesSound
<1> QED BY <1>1, <1>8 DEF Goes

\* One account for each of the roles given: every right is sound.
LEMMA SingleHolders ==
  ASSUME NEW c, NEW roles, NEW toks, NEW mans, NEW net,
         \A role \in DOMAIN roles :
           \/ roles[role] = <<>>
           \/ role # "MINTER_ROLE" /\ \E h \in Addresses \ Strays : roles[role] = <<h>>
  PROVE  \A role \in DOMAIN roles :
           /\ roles[role] \in Seq(Addresses)
           /\ \A i \in DOMAIN roles[role] : RightSound(c, role, roles[role][i], toks, mans, net)
<1> SUFFICES ASSUME NEW role \in DOMAIN roles
             PROVE  /\ roles[role] \in Seq(Addresses)
                    /\ \A i \in DOMAIN roles[role] :
                         RightSound(c, role, roles[role][i], toks, mans, net)
  OBVIOUS
<1>1. CASE roles[role] = <<>>
  BY <1>1
<1>2. ASSUME role # "MINTER_ROLE", NEW h \in Addresses \ Strays, roles[role] = <<h>>
      PROVE  /\ roles[role] \in Seq(Addresses)
             /\ \A i \in DOMAIN roles[role] : RightSound(c, role, roles[role][i], toks, mans, net)
  <2>1. <<h>> \in Seq(Addresses) /\ \A i \in DOMAIN <<h>> : <<h>>[i] = h
    OBVIOUS
  <2> QED BY <1>2, <2>1 DEF RightSound
<1> QED BY <1>1, <1>2

LEMMA DeployAllowlistSound ==
  ASSUME InstancesSound, RolesSound, PricerRecordKept, network' = network,
         DeployAllowlist(Guardian, Guardian, Guardian)
  PROVE  Goes
<1> DEFINE proxied == At("Allowlist", Len(allowlists) + 1)
           roles == [DEFAULT_ADMIN_ROLE |-> <<Guardian>>, ALLOWLIST_ADMIN |-> <<Guardian>>,
                     ALLOWLIST_SETTER |-> <<Guardian>>]
           e == [proxyAdminOwner |-> Guardian]
<1>1. /\ allowlists' = Append(allowlists, e) /\ members' = WithRoles(members, proxied, roles)
      /\ UNCHANGED <<tokens, managers, blocklistOwner, blocklistPendingOwner>>
  BY DEF DeployAllowlist
<1>2. e \in AllowlistProxies
  BY DEF AllowlistProxies
<1>3. \A role \in DOMAIN roles :
        role # "MINTER_ROLE" /\ \E h \in Addresses \ Strays : roles[role] = <<h>>
  BY NamedAccounts
<1> HIDE DEF e, roles
<1>4. /\ allowlists' \in Seq(AllowlistProxies)
      /\ \A a : IsMade(a, "Allowlist", allowlists) => IsMade(a, "Allowlist", allowlists')
      /\ IsMade(proxied, "Allowlist", allowlists')
  BY <1>1, <1>2, MadeAppended DEF InstancesSound
<1>5. InstancesSound' /\ Grown
  BY <1>1, <1>4 DEF InstancesSound, Grown
<1>6. proxied \in Addresses
  BY <1>4, MadeIsAddress DEF Kinds
<1>7. Exists(proxied, allowlists', tokens', managers', record'["USDX_Pricer"])
  BY <1>4 DEF Exists
<1>8. \A k \in DOMAIN members : k[1] # proxied
  BY NewContract
<1>9. \A role \in DOMAIN roles :
        /\ roles[role] \in Seq(Addresses)
        /\ \A i \in DOMAIN roles[role] :
             RightSound(proxied, role, roles[role][i], tokens', managers', network')
  BY <1>3, SingleHolders
<1> HIDE DEF proxied
<1>10. RolesSound'
  BY <1>1, <1>5, <1>6, <1>7, <1>8, <1>9, NewRolesSound DEF PricerRecordKept
<1> QED BY <1>5, <1>10 DEF Goes

LEMMA OneElement ==
  ASSUME NEW S, NEW t \in Seq(S), NEW g \in S, Len(t) = 1, t[1] = g
  PROVE  t = <<g>>
OBVIOUS

\* The factory lays down what initialize gave it: RemoveFirst takes it away.
LEMMA FactoryRemoved ==
  /\ RemoveFirst(<<USDXFactory>>, USDXFactory) = <<>>
  /\ RemoveFirst(<<USDXFactory, Guardian>>, USDXFactory) = <<Guardian>>
<1>1. ASSUME NEW s, Len(s) \in Nat, Len(s) >= 1, s[1] = USDXFactory
      PROVE  RemoveFirst(s, USDXFactory) = RemoveAt(s, 1)
  <2> DEFINE I == {i \in 1 .. Len(s) : s[i] = USDXFactory}
  <2>1. 1 \in I /\ \A i \in I : 1 <= i /\ i \in Nat
    BY <1>1
  <2> HIDE DEF I
  <2>2. Min(I) = 1
    BY <2>1 DEF Min
  <2>3. SelectInSeq(s, LAMBDA v : v = USDXFactory) = IF I # {} THEN Min(I) ELSE 0
    BY DEF SelectInSeq, I
  <2>4. \E i \in 1 .. Len(s) : s[i] = USDXFactory
    BY <1>1
  <2> QED BY <2>1, <2>2, <2>3, <2>4 DEF RemoveFirst
<1>2. RemoveAt(<<USDXFactory>>, 1) = <<>>
  BY DEF RemoveAt
<1>3. RemoveAt(<<USDXFactory, Guardian>>, 1) = <<Guardian>>
  <2> DEFINE s == <<USDXFactory, Guardian>>
  <2>1. Len(s) = 2 /\ s \in Seq({USDXFactory, Guardian}) /\ s[2] = Guardian
    OBVIOUS
  <2> HIDE DEF s
  <2>2. SubSeq(s, 1, 0) = <<>>
    BY <2>1
  <2>3. SubSeq(s, 2, 2) = <<Guardian>>
    <3>1. /\ SubSeq(s, 2, 2) \in Seq({USDXFactory, Guardian}) /\ Len(SubSeq(s, 2, 2)) = 1
          /\ SubSeq(s, 2, 2)[1] = Guardian
      BY <2>1
    <3>2. Guardian \in {USDXFactory, Guardian}
      OBVIOUS
    <3> HIDE DEF s
    <3> DEFINE t == SubSeq(s, 2, 2)
    <3>3. t \in Seq({USDXFactory, Guardian}) /\ Len(t) = 1 /\ t[1] = Guardian
      BY <3>1
    <3> HIDE DEF t
    <3>4. t = <<Guardian>>
      BY <3>2, <3>3, OneElement
    <3> QED BY <3>4 DEF t
  <2>4. RemoveAt(s, 1) = SubSeq(s, 1, 0) \o SubSeq(s, 2, 2)
    BY <2>1 DEF RemoveAt
  <2> QED BY <2>2, <2>3, <2>4 DEF s
<1> QED BY <1>1, <1>2, <1>3

LEMMA DeployUSDXSound ==
  ASSUME InstancesSound, RolesSound, PricerRecordKept, network' = network,
         NEW blocklist, NEW allowlist, DeployUSDX(Guardian, blocklist, allowlist),
         blocklist = Blocklist, blocklistOwner # Absent,
         allowlist = ZERO_ADDRESS \/ IsMade(allowlist, "Allowlist", allowlists)
  PROVE  Goes
<1> DEFINE proxied == At("USDX", Len(tokens) + 1)
           e == [blocklist |-> blocklist, allowlist |-> allowlist, proxyAdminOwner |-> Guardian]
           roles == HandOver(Guardian)
<1>1. /\ tokens' = Append(tokens, e) /\ members' = WithRoles(members, proxied, roles)
      /\ UNCHANGED <<allowlists, managers, blocklistOwner, blocklistPendingOwner>>
  BY DEF DeployUSDX
<1>2. IsMade(allowlist, "Allowlist", allowlists)
  BY DEF DeployUSDX, ListsGiven
<1>3. e \in TokenProxies
  <2>1. allowlist \in Addresses
    BY <1>2, MadeIsAddress DEF InstancesSound, Kinds
  <2> QED BY <2>1, NamedAccounts DEF TokenProxies
<1>4. \A role \in DOMAIN roles :
        \/ roles[role] = <<>>
        \/ role # "MINTER_ROLE" /\ \E h \in Addresses \ Strays : roles[role] = <<h>>
  <2>1. roles = [role \in {"DEFAULT_ADMIN_ROLE", "MINTER_ROLE", "PAUSER_ROLE"} |->
                   IF role = "MINTER_ROLE" THEN <<>> ELSE <<Guardian>>]
    BY FactoryRemoved DEF HandOver
  <2> HIDE DEF roles
  <2> QED BY <2>1, NamedAccounts
<1>5. e.blocklist = Blocklist /\ e.allowlist = allowlist
  OBVIOUS
<1> HIDE DEF e, roles
<1>6. /\ tokens' \in Seq(TokenProxies)
      /\ DOMAIN tokens' = DOMAIN tokens \cup {Len(tokens) + 1}
      /\ \A i \in DOMAIN tokens : tokens'[i] = tokens[i]
      /\ tokens'[Len(tokens) + 1] = e
      /\ \A a : IsMade(a, "USDX", tokens) => IsMade(a, "USDX", tokens')
      /\ IsMade(proxied, "USDX", tokens')
  BY <1>1, <1>3, MadeAppended DEF InstancesSound
<1>7. InstancesSound'
  BY <1>1, <1>2, <1>5, <1>6 DEF InstancesSound
<1>8. Grown
  BY <1>1, <1>6 DEF Grown
<1>9. proxied \in Addresses
  BY <1>6, MadeIsAddress DEF Kinds
<1>10. Exists(proxied, allowlists', tokens', managers', record'["USDX_Pricer"])
  BY <1>6 DEF Exists
<1>11. \A k \in DOMAIN members : k[1] # proxied
  BY NewContract
<1>12. \A role \in DOMAIN roles :
        /\ roles[role] \in Seq(Addresses)
        /\ \A i \in DOMAIN roles[role] :
             RightSound(proxied, role, roles[role][i], tokens', managers', network')
  BY <1>4, SingleHolders
<1> HIDE DEF proxied
<1>13. RolesSound'
  BY <1>1, <1>8, <1>9, <1>10, <1>11, <1>12, NewRolesSound DEF PricerRecordKept
<1> QED BY <1>7, <1>8, <1>13 DEF Goes

LEMMA ConstructManagerSound ==
  ASSUME InstancesSound, RolesSound, PricerRecordKept, network' = network,
         NEW rwa, NEW admin \in Addresses, admin \notin Strays,
         ConstructManager(rwa, admin, Pauser), IsMade(rwa, "USDX", tokens)
  PROVE  /\ Goes
         /\ IsMade(At("USDXManager", Len(managers) + 1), "USDXManager", managers')
         /\ RwaIn(managers', At("USDXManager", Len(managers) + 1)) = rwa
         /\ UNCHANGED <<allowlists, tokens, blocklistOwner>>
<1> DEFINE n == Len(managers) + 1
           manager == At("USDXManager", n)
           e == [rwa |-> rwa, pricer |-> ZERO_ADDRESS]
           roles == [DEFAULT_ADMIN_ROLE |-> <<admin>>, MANAGER_ADMIN |-> <<admin>>,
                     PAUSER_ADMIN |-> <<Pauser>>]
<1>1. /\ managers' = Append(managers, e) /\ members' = WithRoles(members, manager, roles)
      /\ UNCHANGED <<allowlists, tokens, blocklistOwner, blocklistPendingOwner>>
  BY DEF ConstructManager
<1>2. e \in ManagerContracts
  <2>1. rwa \in Addresses
    BY MadeIsAddress DEF InstancesSound, Kinds
  <2> QED BY <2>1, NamedAccounts DEF ManagerContracts
<1>3. \A role \in DOMAIN roles :
        role # "MINTER_ROLE" /\ \E h \in Addresses \ Strays : roles[role] = <<h>>
  BY NamedAccounts
<1>4. e.rwa = rwa
  OBVIOUS
<1> HIDE DEF e, roles
<1>5. /\ managers' \in Seq(ManagerContracts)
      /\ DOMAIN managers' = DOMAIN managers \cup {n} /\ n \notin DOMAIN managers
      /\ \A i \in DOMAIN managers : managers'[i] = managers[i]
      /\ managers'[n] = e
      /\ \A a : IsMade(a, "USDXManager", managers) => IsMade(a, "USDXManager", managers')
      /\ IsMade(manager, "USDXManager", managers')
  BY <1>1, <1>2, MadeAppended DEF InstancesSound
<1>6. InstancesSound'
  BY <1>1, <1>4, <1>5 DEF InstancesSound
<1>7. ASSUME NEW a, IsMade(a, "USDXManager", managers)
      PROVE  RwaIn(managers', a) = RwaIn(managers, a)
  <2>1. a[2] \in DOMAIN managers
    BY <1>7 DEF IsMade, At
  <2> QED BY <1>5, <2>1 DEF RwaIn
<1>8. Grown
  BY <1>1, <1>5, <1>7 DEF Grown
<1>9. manager \in Addresses /\ manager[2] = n
  <2>1. manager \in Addresses
    BY <1>5, MadeIsAddress DEF Kinds
  <2> QED BY <2>1 DEF At
<1>10. RwaIn(managers', manager) = rwa
  BY <1>4, <1>5, <1>9 DEF RwaIn
<1>11. Exists(manager, allowlists', tokens', managers', record'["USDX_Pricer"])
  BY <1>5 DEF Exists
<1>12. \A k \in DOMAIN members : k[1] # manager
  BY NewContract
<1>13. \A role \in DOMAIN roles :
        /\ roles[role] \in Seq(Addresses)
        /\ \A i \in DOMAIN roles[role] :
             RightSound(manager, role, roles[role][i], tokens', managers', network')
  BY <1>3, SingleHolders
<1>14. IsMade(At("USDXManager", Len(managers) + 1), "USDXManager", managers')
       /\ RwaIn(managers', At("USDXManager", Len(managers) + 1)) = rwa
  BY <1>5, <1>10
<1> HIDE DEF manager
<1>15. RolesSound'
  BY <1>1, <1>8, <1>9, <1>11, <1>12, <1>13, NewRolesSound DEF PricerRecordKept
<1> QED BY <1>1, <1>6, <1>8, <1>14, <1>15 DEF Goes
-----------------------------------------------------------------------------
(* The records                                                             *)

LEMMA FitOutlasts ==
  ASSUME Grown, NEW name, NEW a,
         RecordFits(name, a, allowlists, tokens, managers, blocklistOwner)
  PROVE  RecordFits(name, a, allowlists', tokens', managers', blocklistOwner')
BY DEF Grown, RecordFits

LEMMA RecordsKept ==
  ASSUME RecordsSound, Grown, record' = record
  PROVE  RecordsSound'
BY FitOutlasts DEF RecordsSound

LEMMA RecordSaved ==
  ASSUME RecordsSound, Grown, NEW name \in Records, NEW a, Save(name, a),
         RecordFits(name, a, allowlists', tokens', managers', blocklistOwner')
  PROVE  RecordsSound'
<1>1. a \in Addresses
  BY DEF RecordFits
<1>2. record' \in [Records -> Addresses] /\ record'[name] = a
      /\ \A other \in Records : other # name => record'[other] = record[other]
  BY <1>1 DEF Save, RecordsSound
<1> QED BY <1>2, FitOutlasts DEF RecordsSound

LEMMA TwoRecordsSaved ==
  ASSUME RecordsSound, Grown, NEW name \in Records, NEW other \in Records, name # other,
         NEW a, NEW b, record' = [record EXCEPT ![name] = a, ![other] = b],
         RecordFits(name, a, allowlists', tokens', managers', blocklistOwner'),
         RecordFits(other, b, allowlists', tokens', managers', blocklistOwner')
  PROVE  RecordsSound'
<1>1. a \in Addresses /\ b \in Addresses
  BY DEF RecordFits
<1>2. /\ record' \in [Records -> Addresses] /\ record'[name] = a /\ record'[other] = b
      /\ \A x \in Records : x \notin {name, other} => record'[x] = record[x]
  BY <1>1 DEF RecordsSound
<1> QED BY <1>2, FitOutlasts DEF RecordsSound

\* What the factories' getters answer fits the records it is saved to.
LEMMA GettersFit ==
  ASSUME InstancesSound, NEW owner
  PROVE  /\ RecordFits("Allowlist", allowlistProxy, allowlists, tokens, managers, owner)
         /\ RecordFits("ProxyAdminAllowlist", allowlistProxyAdmin, allowlists, tokens, managers, owner)
         /\ RecordFits("USDX", USDXProxy, allowlists, tokens, managers, owner)
         /\ RecordFits("ProxyAdminUSDX", USDXProxyAdmin, allowlists, tokens, managers, owner)
<1>1. ASSUME NEW kind \in Kinds, NEW S, NEW s \in Seq(S)
      PROVE  Latest(kind, s) \in Addresses
  BY LatestMade, MadeIsAddress, NamedAccounts
<1>2. /\ allowlists \in Seq(AllowlistProxies) /\ tokens \in Seq(TokenProxies)
      /\ "Allowlist" \in Kinds /\ "ProxyAdminAllowlist" \in Kinds
      /\ "USDX" \in Kinds /\ "ProxyAdminUSDX" \in Kinds
  BY DEF InstancesSound, Kinds
<1>3. /\ allowlistProxy \in Addresses /\ allowlistProxyAdmin \in Addresses
      /\ USDXProxy \in Addresses /\ USDXProxyAdmin \in Addresses
  BY <1>1, <1>2 DEF allowlistProxy, allowlistProxyAdmin, USDXProxy, USDXProxyAdmin
<1>4. allowlistProxy = ZERO_ADDRESS \/ IsMade(allowlistProxy, "Allowlist", allowlists)
  BY <1>2, LatestMade DEF allowlistProxy
<1>5. USDXProxy = ZERO_ADDRESS \/ IsMade(USDXProxy, "USDX", tokens)
  BY <1>2, LatestMade DEF USDXProxy
<1> QED BY <1>3, <1>4, <1>5 DEF RecordFits
-----------------------------------------------------------------------------
(* The production scripts                                                  *)

LEMMA NameKeepsPricer ==
  ASSUME RecordsSound, NEW name \in Records, name # "USDX_Pricer", NEW a, Save(name, a)
  PROVE  PricerRecordKept
BY DEF RecordsSound, Save, PricerRecordKept, Records

LEMMA DeployScriptSound ==
  ASSUME ChainSound, network' = network, DeployScript
  PROVE  ChainSound' /\ Grown
<1> USE DEF ChainSound
<1>1. CASE deployAllowlist_Factory
  <2>1. Save("AllowlistFactory", AllowlistFactory) /\ "AllowlistFactory" \in Records
    BY <1>1 DEF deployAllowlist_Factory, Records
  <2>2. Goes
    BY <1>1, <2>1, NameKeepsPricer, ConstructFactorySound DEF deployAllowlist_Factory
  <2>3. RecordFits("AllowlistFactory", AllowlistFactory, allowlists', tokens', managers', blocklistOwner')
    BY NamedAccounts DEF RecordFits
  <2> QED BY <2>1, <2>2, <2>3, RecordSaved DEF Goes
<1>2. CASE deployUSDX_Factory
  <2>1. Save("USDXFactory", USDXFactory) /\ "USDXFactory" \in Records
    BY <1>2 DEF deployUSDX_Factory, Records
  <2>2. Goes
    BY <1>2, <2>1, NameKeepsPricer, ConstructFactorySound DEF deployUSDX_Factory
  <2>3. RecordFits("USDXFactory", USDXFactory, allowlists', tokens', managers', blocklistOwner')
    BY NamedAccounts DEF RecordFits
  <2> QED BY <2>1, <2>2, <2>3, RecordSaved DEF Goes
<1>3. CASE deployBlocklist
  <2>1. Save("Blocklist", Blocklist) /\ "Blocklist" \in Records
    BY <1>3 DEF deployBlocklist, Records
  <2>2. Goes /\ blocklistOwner' # Absent
    BY <1>3, <2>1, NameKeepsPricer, ConstructBlocklistSound DEF deployBlocklist
  <2>3. RecordFits("Blocklist", Blocklist, allowlists', tokens', managers', blocklistOwner')
    BY <2>2, NamedAccounts DEF RecordFits
  <2> QED BY <2>1, <2>2, <2>3, RecordSaved DEF Goes
<1>4. CASE deploy_USDXPricer
  <2>1. Save("USDX_Pricer", Pricer) /\ "USDX_Pricer" \in Records
    BY <1>4 DEF deploy_USDXPricer, Records
  <2>2. record["USDX_Pricer"] = Absent /\ record'["USDX_Pricer"] # Absent
    BY <1>4, <2>1, NamedAccounts DEF deploy_USDXPricer, Unrecorded, Save, RecordsSound
  <2>3. Goes
    BY <1>4, <2>2, NamedAccounts, ConstructPricerSound DEF deploy_USDXPricer
  <2>4. RecordFits("USDX_Pricer", Pricer, allowlists', tokens', managers', blocklistOwner')
    BY NamedAccounts DEF RecordFits
  <2> QED BY <2>1, <2>3, <2>4, RecordSaved DEF Goes
<1>5. CASE deploy_USDXManager
  <2> DEFINE manager == At("USDXManager", Len(managers) + 1)
  <2>1. Save("USDXManager", manager) /\ "USDXManager" \in Records
    BY <1>5 DEF deploy_USDXManager, Records
  <2>2. IsMade(USDXProxy, "USDX", tokens)
    BY <1>5, GettersFit, NamedAccounts, LatestMade
       DEF deploy_USDXManager, USDXProxy, InstancesSound
  <2>3. Goes /\ IsMade(manager, "USDXManager", managers')
    BY <1>5, <2>1, <2>2, NamedAccounts, NameKeepsPricer, ConstructManagerSound
       DEF deploy_USDXManager
  <2>4. manager \in Addresses
    BY <2>3, MadeIsAddress DEF Goes, InstancesSound, Kinds
  <2> HIDE DEF manager
  <2>5. RecordFits("USDXManager", manager, allowlists', tokens', managers', blocklistOwner')
    BY <2>3, <2>4 DEF RecordFits
  <2> QED BY <2>1, <2>3, <2>5, RecordSaved DEF Goes
<1> QED BY <1>1, <1>2, <1>3, <1>4, <1>5 DEF DeployScript

\* What may be proposed once may be proposed later.
LEMMA ProposalsOutlast ==
  ASSUME Grown
  PROVE  SoundProposals(allowlists, tokens, managers, blocklistOwner)
           \subseteq SoundProposals(allowlists', tokens', managers', blocklistOwner')
<1> SUFFICES ASSUME NEW p \in SoundProposals(allowlists, tokens, managers, blocklistOwner)
             PROVE  p \in SoundProposals(allowlists', tokens', managers', blocklistOwner')
  OBVIOUS
<1>1. RightSound(p.to, p.role, p.args[1], tokens, managers, "mainnet")
        => RightSound(p.to, p.role, p.args[1], tokens', managers', "mainnet")
  BY DEF RightSound, Grown
<1>2. IsMade(p.args[2], "Allowlist", allowlists) => IsMade(p.args[2], "Allowlist", allowlists')
  BY DEF Grown
<1>3. blocklistOwner # Absent => blocklistOwner' # Absent
  BY DEF Grown
<1> QED BY <1>1, <1>2, <1>3 DEF SoundProposals

LEMMA SeqOfMore ==
  ASSUME NEW S, NEW T, S \subseteq T
  PROVE  Seq(S) \subseteq Seq(T)
OBVIOUS

LEMMA TasksOutlast ==
  ASSUME TasksSound, Grown, UNCHANGED <<todo, pending, task, proxyRead>>
  PROVE  TasksSound'
<1>1. Seq(SoundProposals(allowlists, tokens, managers, blocklistOwner))
        \subseteq Seq(SoundProposals(allowlists', tokens', managers', blocklistOwner'))
  BY ProposalsOutlast, SeqOfMore
<1>2. network' = network
  BY DEF Grown
<1> QED BY <1>1, <1>2 DEF TasksSound, Grown

LEMMA RemovedFrom ==
  ASSUME NEW S, NEW s \in Seq(S), NEW i \in DOMAIN s
  PROVE  RemoveAt(s, i) \in Seq(S)
<1>1. SubSeq(s, 1, i - 1) \in Seq(S) /\ SubSeq(s, i + 1, Len(s)) \in Seq(S)
  OBVIOUS
<1> QED BY <1>1 DEF RemoveAt

LEMMA GrantProposalSound ==
  ASSUME NEW to \in Addresses, NEW role \in RoleNames, NEW account \in Addresses,
         NEW als, NEW toks, NEW mans, NEW owner,
         to # ZERO_ADDRESS => RightSound(to, role, account, toks, mans, "mainnet")
  PROVE  proposeGrantRole(to, role, account) \in SoundProposals(als, toks, mans, owner)
<1> DEFINE p == proposeGrantRole(to, role, account)
<1>1. /\ p \in Requests /\ p.to = to /\ p.call = "grantRole" /\ p.role = role
      /\ p.args = <<account>>
  BY DEF proposeGrantRole, Proposal, Requests
<1>2. p.args[1] = account
  BY <1>1
<1> HIDE DEF p
<1>3. p \in SoundProposals(als, toks, mans, owner)
  BY <1>1, <1>2 DEF SoundProposals
<1> QED BY <1>3 DEF p

\* Each task proposes what the Safe may safely do, if the records are sound.
LEMMA TaskProposes ==
  ASSUME ChainSound, NEW t \in ProposingTasks, Recorded(Needs(t))
  PROVE  Proposals(t) \in Seq(SoundProposals(allowlists, tokens, managers, blocklistOwner))
<1> DEFINE P == SoundProposals(allowlists, tokens, managers, blocklistOwner)
<1>1. \A name \in Records : record[name] \in Addresses
  BY DEF ChainSound, RecordsSound
<1>2. CASE t = "1-USDX-prod"
  <2> DEFINE p == proposeFunctionCall(record["AllowlistFactory"], "deployAllowlist",
                                      <<Guardian, Guardian>>)
  <2>1. /\ p \in Requests /\ p.call = "deployAllowlist" /\ p.args = <<Guardian, Guardian>>
    BY <1>1, NamedAccounts DEF proposeFunctionCall, Proposal, Requests, Records, RoleNames
  <2> HIDE DEF p
  <2>2. p \in P
    BY <2>1 DEF SoundProposals
  <2> HIDE DEF P
  <2>3. <<p>> \in Seq(P)
    BY <2>2
  <2> QED BY <1>2, <2>3 DEF Proposals, AllowlistProposals, p, P
<1>3. CASE t = "3-USDX-prod"
  <2> DEFINE lists == <<record["Blocklist"], record["Allowlist"]>>
             p == proposeFunctionCall(record["USDXFactory"], "deployUSDX", lists)
  <2>1. record["Blocklist"] # Absent /\ record["Allowlist"] # Absent
    BY <1>3 DEF Needs, Recorded
  <2>2. /\ record["Blocklist"] = Blocklist /\ blocklistOwner # Absent
        /\ record["Allowlist"] = ZERO_ADDRESS \/ IsMade(record["Allowlist"], "Allowlist", allowlists)
    BY <2>1 DEF ChainSound, RecordsSound, RecordFits, Records
  <2>3. /\ lists \in Seq(Addresses) /\ lists[1] = record["Blocklist"]
        /\ lists[2] = record["Allowlist"]
    BY <1>1 DEF Records
  <2> HIDE DEF lists
  <2>4. p \in Requests /\ p.call = "deployUSDX" /\ p.args = lists
    BY <1>1, <2>3 DEF proposeFunctionCall, Proposal, Requests, Records, RoleNames
  <2> HIDE DEF p
  <2>5. p \in P
    BY <2>2, <2>3, <2>4 DEF SoundProposals
  <2> HIDE DEF P
  <2>6. <<p>> \in Seq(P)
    BY <2>5
  <2> QED BY <1>3, <2>6 DEF Proposals, USDXProposals, p, P, lists
<1>4. CASE t = "5-USDXManager-prod"
  <2> DEFINE token == record["USDX"]
             manager == record["USDXManager"]
             p1 == proposeGrantRole(token, "MINTER_ROLE", manager)
             p2 == proposeGrantRole(token, "PAUSER_ROLE", Pauser)
             p3 == proposeFunctionCall(manager, "setPricer", <<record["USDX_Pricer"]>>)
             p4 == proposeGrantRole(manager, "PRICE_ID_SETTER_ROLE", Guardian)
             p5 == proposeGrantRole(manager, "TIMESTAMP_SETTER_ROLE", Guardian)
             p6 == proposeGrantRole(manager, "PAUSER_ROLE", Pauser)
             p7 == proposeGrantRole(manager, "LIST_CONFIGURER_ROLE", Guardian)
             p8 == proposeGrantRole(manager, "RELAYER_ROLE", Guardian)
  <2>1. token # Absent /\ manager # Absent
    BY <1>4 DEF Needs, Recorded
  <2>2. /\ token \in Addresses /\ manager \in Addresses /\ record["USDX_Pricer"] \in Addresses
        /\ token = ZERO_ADDRESS \/ IsMade(token, "USDX", tokens)
        /\ IsMade(manager, "USDXManager", managers)
    BY <1>1, <2>1 DEF ChainSound, RecordsSound, RecordFits, Records
  <2>3. manager \notin Strays
    BY <2>2, MadeIsNoAccount
  <2>4. p3 \in P
    <3>1. /\ p3 \in Requests /\ p3.call = "setPricer" /\ p3.args = <<record["USDX_Pricer"]>>
      BY <2>2 DEF proposeFunctionCall, Proposal, Requests, RoleNames
    <3>2. p3.args[1] = record["USDX_Pricer"]
      BY <3>1
    <3> HIDE DEF p3
    <3> QED BY <2>2, <3>1, <3>2 DEF SoundProposals
  <2> HIDE DEF token, manager
  <2>5. token # ZERO_ADDRESS => RightSound(token, "MINTER_ROLE", manager, tokens, managers, "mainnet")
    BY <2>2, <2>3 DEF RightSound
  <2>6. \A c, role : role # "MINTER_ROLE" =>
          /\ RightSound(c, role, Guardian, tokens, managers, "mainnet")
          /\ RightSound(c, role, Pauser, tokens, managers, "mainnet")
    BY NamedAccounts DEF RightSound
  <2>7. p1 \in P /\ p2 \in P /\ p4 \in P /\ p5 \in P /\ p6 \in P /\ p7 \in P /\ p8 \in P
    <3>1. p1 \in P
      <4>1. "MINTER_ROLE" \in RoleNames
        BY DEF RoleNames
      <4> QED BY <2>2, <2>5, <4>1, GrantProposalSound
    <3>2. ASSUME NEW c \in {token, manager}, NEW role \in RoleNames \ {"MINTER_ROLE"},
                 NEW account \in {Guardian, Pauser}
          PROVE  proposeGrantRole(c, role, account) \in P
      <4>1. c \in Addresses /\ account \in Addresses
        BY <2>2, NamedAccounts
      <4>2. RightSound(c, role, account, tokens, managers, "mainnet")
        BY <2>6
      <4> QED BY <4>1, <4>2, GrantProposalSound
    <3>3. {"PAUSER_ROLE", "PRICE_ID_SETTER_ROLE", "TIMESTAMP_SETTER_ROLE",
           "LIST_CONFIGURER_ROLE", "RELAYER_ROLE"} \subseteq RoleNames \ {"MINTER_ROLE"}
      BY DEF RoleNames
    <3> QED BY <3>1, <3>2, <3>3
  <2>8. Proposals(t) = <<p1, p2, p3, p4, p5, p6, p7, p8>>
    BY <1>4 DEF Proposals, GatewayProposals, token, manager
  <2> HIDE DEF p1, p2, p3, p4, p5, p6, p7, p8, P
  <2>9. <<p1, p2, p3, p4, p5, p6, p7, p8>> \in Seq(P)
    BY <2>4, <2>7
  <2> QED BY <2>8, <2>9 DEF P
<1> QED BY <1>2, <1>3, <1>4 DEF ProposingTasks

\* Nothing of the contracts and of the records changes.
LEMMA NothingHappens ==
  ASSUME ChainSound, network' = network, UNCHANGED <<chainVars, record>>
  PROVE  ChainSound' /\ Grown
BY DEF ChainSound, InstancesSound, RolesSound, RecordsSound, Grown, chainVars

\* Whatever the Safe executes, in whatever order.
LEMMA CarrySound ==
  ASSUME ChainSound, record' = record, network' = network, network = "mainnet",
         NEW p \in SoundProposals(allowlists, tokens, managers, blocklistOwner), Carry(p)
  PROVE  ChainSound' /\ Grown
<1>1. p \in Requests /\ PricerRecordKept
  BY DEF SoundProposals, PricerRecordKept
<1>2. Goes
  <2>1. CASE p.call = "deployAllowlist"
    <3>1. p.args[1] = Guardian /\ p.args[2] = Guardian
      BY <2>1 DEF SoundProposals
    <3> QED BY <1>1, <2>1, <3>1, DeployAllowlistSound DEF Carry, ChainSound
  <2>2. CASE p.call = "deployUSDX"
    BY <1>1, <2>2, DeployUSDXSound DEF Carry, ChainSound, SoundProposals
  <2>3. CASE p.call = "setPricer"
    BY <1>1, <2>3, SetPricerSound DEF Carry, ChainSound, SoundProposals
  <2>4. CASE p.call = "grantRole"
    <3>1. p.to \in Addresses /\ p.args[1] \in Addresses
      BY <1>1, <2>4 DEF SoundProposals, Requests
    <3>2. p.to # ZERO_ADDRESS =>
            RightSound(p.to, p.role, p.args[1], tokens, managers, network)
      BY <2>4 DEF SoundProposals
    <3>3. GrantRole(Guardian, p.to, p.role, p.args[1])
      BY <2>4 DEF Carry
    <3> QED BY <3>1, <3>2, <3>3, GrantSound DEF ChainSound, Goes
  <2> QED BY <1>1, <2>1, <2>2, <2>3, <2>4 DEF Requests
<1>3. RecordsSound'
  BY <1>2, RecordsKept DEF Goes, ChainSound
<1> QED BY <1>2, <1>3 DEF Goes, ChainSound

LEMMA StartsSound ==
  ASSUME ChainSound, TasksSound, network = "mainnet", network' = network,
         NEW t \in ProposingTasks \cup SavingTasks, StartsWith(t)
  PROVE  ChainSound' /\ TasksSound'
<1> DEFINE P == SoundProposals(allowlists, tokens, managers, blocklistOwner)
<1>1. ChainSound' /\ Grown
  BY NothingHappens DEF StartsWith
<1>2. P' = P
  BY DEF StartsWith, chainVars, SoundProposals
<1>3. CASE t \in ProposingTasks
  <2>1. todo' \in Seq(P) /\ pending' = pending /\ task' = t
    BY <1>3, TaskProposes DEF StartsWith
  <2>2. t \notin SavingTasks
    BY <1>3 DEF ProposingTasks, SavingTasks
  <2> QED BY <1>1, <1>2, <2>1, <2>2 DEF TasksSound, SavingTasks
<1>4. CASE t \in SavingTasks
  <2>1. /\ todo' = todo /\ pending' = pending /\ task' = t
        /\ proxyRead' = IF t = "2-save-USDX-prod" THEN allowlistProxy ELSE USDXProxy
    BY <1>4 DEF StartsWith, ProposingTasks, SavingTasks
  <2>2. /\ allowlistProxy = ZERO_ADDRESS \/ IsMade(allowlistProxy, "Allowlist", allowlists)
        /\ USDXProxy = ZERO_ADDRESS \/ IsMade(USDXProxy, "USDX", tokens)
    BY LatestMade DEF ChainSound, InstancesSound, allowlistProxy, USDXProxy
  <2>3. allowlists' = allowlists /\ tokens' = tokens
    BY DEF StartsWith, chainVars
  <2> QED BY <1>1, <1>2, <1>4, <2>1, <2>2, <2>3 DEF TasksSound
<1> QED BY <1>3, <1>4

LEMMA SavesSound ==
  ASSUME ChainSound, TasksSound, network = "mainnet", network' = network,
         SaveAllowlist \/ SaveUSDX
  PROVE  ChainSound' /\ TasksSound'
<1>1. UNCHANGED chainVars /\ task' = "idle" /\ UNCHANGED <<todo, pending>>
  BY DEF SaveAllowlist, SaveUSDX, SavesProxy
<1>2. Grown
  BY <1>1 DEF Grown, chainVars
<1>3. TasksSound'
  <2>1. Seq(SoundProposals(allowlists, tokens, managers, blocklistOwner))
          \subseteq Seq(SoundProposals(allowlists', tokens', managers', blocklistOwner'))
    BY <1>2, ProposalsOutlast, SeqOfMore
  <2> QED BY <1>1, <2>1 DEF TasksSound
<1>4. RecordsSound'
  <2>1. CASE SaveAllowlist
    <3>1. record' = [record EXCEPT !["Allowlist"] = proxyRead,
                                   !["ProxyAdminAllowlist"] = allowlistProxyAdmin]
          /\ task = "2-save-USDX-prod"
      BY <2>1 DEF SaveAllowlist, SavesProxy
    <3>2. proxyRead = ZERO_ADDRESS \/ IsMade(proxyRead, "Allowlist", allowlists)
      BY <3>1 DEF TasksSound
    <3>3. proxyRead \in Addresses
      BY <3>2, NamedAccounts, MadeIsAddress DEF ChainSound, InstancesSound, Kinds
    <3>4. RecordFits("Allowlist", proxyRead, allowlists', tokens', managers', blocklistOwner')
      BY <1>1, <3>2, <3>3 DEF RecordFits, chainVars
    <3>5. RecordFits("ProxyAdminAllowlist", allowlistProxyAdmin, allowlists', tokens', managers', blocklistOwner')
      BY <1>1, GettersFit DEF ChainSound, chainVars
    <3> QED BY <1>2, <3>1, <3>4, <3>5, TwoRecordsSaved DEF ChainSound, Records
  <2>2. CASE SaveUSDX
    <3>1. record' = [record EXCEPT !["USDX"] = proxyRead, !["ProxyAdminUSDX"] = USDXProxyAdmin]
          /\ task = "4-save-USDX-prod"
      BY <2>2 DEF SaveUSDX, SavesProxy
    <3>2. proxyRead = ZERO_ADDRESS \/ IsMade(proxyRead, "USDX", tokens)
      BY <3>1 DEF TasksSound
    <3>3. proxyRead \in Addresses
      BY <3>2, NamedAccounts, MadeIsAddress DEF ChainSound, InstancesSound, Kinds
    <3>4. RecordFits("USDX", proxyRead, allowlists', tokens', managers', blocklistOwner')
      BY <1>1, <3>2, <3>3 DEF RecordFits, chainVars
    <3>5. RecordFits("ProxyAdminUSDX", USDXProxyAdmin, allowlists', tokens', managers', blocklistOwner')
      BY <1>1, GettersFit DEF ChainSound, chainVars
    <3> QED BY <1>2, <3>1, <3>4, <3>5, TwoRecordsSaved DEF ChainSound, Records
  <2> QED BY <2>1, <2>2
<1>5. record'["USDX_Pricer"] = record["USDX_Pricer"]
  BY DEF SaveAllowlist, SaveUSDX, SavesProxy, ChainSound, RecordsSound, Records
<1>6. InstancesSound' /\ RolesSound'
  BY <1>1, <1>5 DEF ChainSound, InstancesSound, RolesSound, chainVars
<1> QED BY <1>3, <1>4, <1>6 DEF ChainSound

SavesOnlyProxy ==
  \/ task = "2-save-USDX-prod" /\ Save("Allowlist", proxyRead)
  \/ task = "4-save-USDX-prod" /\ Save("USDX", proxyRead)

\* A save task that dies between its two records.
LEMMA OneOfTwoSaved ==
  ASSUME ChainSound, TasksSound, network = "mainnet", network' = network,
         UNCHANGED chainVars, SavesOnlyProxy
  PROVE  ChainSound' /\ \A name \in {"USDX_Pricer", "USDXManager"} : record'[name] = record[name]
<1>1. Grown
  BY DEF Grown, chainVars
<1>2. PICK name \in {"Allowlist", "USDX"} :
        /\ Save(name, proxyRead)
        /\ RecordFits(name, proxyRead, allowlists', tokens', managers', blocklistOwner')
  <2>1. CASE task = "2-save-USDX-prod" /\ Save("Allowlist", proxyRead)
    <3>1. proxyRead = ZERO_ADDRESS \/ IsMade(proxyRead, "Allowlist", allowlists)
      BY <2>1 DEF TasksSound
    <3>2. proxyRead \in Addresses
      BY <3>1, NamedAccounts, MadeIsAddress DEF ChainSound, InstancesSound, Kinds
    <3>3. RecordFits("Allowlist", proxyRead, allowlists', tokens', managers', blocklistOwner')
      BY <3>1, <3>2 DEF RecordFits, chainVars
    <3> QED BY <2>1, <3>3
  <2>2. CASE task = "4-save-USDX-prod" /\ Save("USDX", proxyRead)
    <3>1. proxyRead = ZERO_ADDRESS \/ IsMade(proxyRead, "USDX", tokens)
      BY <2>2 DEF TasksSound
    <3>2. proxyRead \in Addresses
      BY <3>1, NamedAccounts, MadeIsAddress DEF ChainSound, InstancesSound, Kinds
    <3>3. RecordFits("USDX", proxyRead, allowlists', tokens', managers', blocklistOwner')
      BY <3>1, <3>2 DEF RecordFits, chainVars
    <3> QED BY <2>2, <3>3
  <2> QED BY <2>1, <2>2 DEF SavesOnlyProxy
<1>3. name \in Records /\ RecordsSound
  BY DEF Records, ChainSound
<1>4. RecordsSound'
  BY <1>1, <1>2, <1>3, RecordSaved
<1>5. \A other \in {"USDX_Pricer", "USDXManager"} : record'[other] = record[other]
  BY <1>2, <1>3 DEF Save, RecordsSound, Records
<1>6. InstancesSound' /\ RolesSound'
  BY <1>5 DEF ChainSound, InstancesSound, RolesSound, chainVars
<1> QED BY <1>4, <1>5, <1>6 DEF ChainSound

LEMMA PendingSound ==
  ASSUME ChainSound, TasksSound, network = "mainnet", network' = network,
         Propose \/ Interrupted
  PROVE  ChainSound' /\ TasksSound'
<1> DEFINE P == SoundProposals(allowlists, tokens, managers, blocklistOwner)
<1>1. ChainSound' /\ UNCHANGED chainVars
  <2>1. CASE UNCHANGED record
    BY <2>1, NothingHappens DEF Propose, Interrupted
  <2>2. CASE ~UNCHANGED record
    <3>1. SavesOnlyProxy /\ UNCHANGED chainVars
      BY <2>2 DEF Propose, Interrupted, SavesOnlyProxy
    <3> QED BY <3>1, OneOfTwoSaved
  <2> QED BY <2>1, <2>2
<1>2. P' = P
  BY <1>1 DEF chainVars, SoundProposals
<1>3. todo \in Seq(P) /\ pending \in Seq(P)
  BY DEF TasksSound
<1> HIDE DEF P
<1>4. todo # <<>> => /\ Tail(todo) \in Seq(P) /\ Append(pending, Head(todo)) \in Seq(P)
  BY <1>3
<1>5. todo' \in Seq(P) /\ pending' \in Seq(P)
  <2>1. CASE Propose
    BY <1>4, <2>1 DEF Propose, createProposal
  <2>2. CASE Interrupted
    <3>1. todo' = <<>> /\ (pending' = pending \/ (todo # <<>> /\ createProposal))
      BY <2>2 DEF Interrupted
    <3>2. pending' \in Seq(P)
      BY <1>3, <1>4, <3>1 DEF createProposal
    <3> QED BY <3>1, <3>2
  <2> QED BY <2>1, <2>2
<1>6. task' = "idle" \/ (task' = task /\ proxyRead' = proxyRead)
  BY DEF Propose, Interrupted
<1>7. TasksSound'
  BY <1>1, <1>2, <1>5, <1>6 DEF TasksSound, P, chainVars
<1> QED BY <1>1, <1>7

LEMMA SafeSound ==
  ASSUME ChainSound, TasksSound, network = "mainnet", network' = network,
         NEW i \in DOMAIN pending, SafeExecutes(i) \/ SafeRejects(i)
  PROVE  ChainSound' /\ TasksSound'
<1> DEFINE P == SoundProposals(allowlists, tokens, managers, blocklistOwner)
<1>1. todo \in Seq(P) /\ pending \in Seq(P) /\ pending[i] \in P
  BY DEF TasksSound
<1>2. ChainSound' /\ Grown
  <2>1. CASE SafeExecutes(i)
    BY <1>1, <2>1, CarrySound DEF SafeExecutes
  <2>2. CASE SafeRejects(i)
    BY <2>2, NothingHappens DEF SafeRejects
  <2> QED BY <2>1, <2>2
<1>3. pending' = RemoveAt(pending, i) /\ UNCHANGED operatorVars
  BY DEF SafeExecutes, SafeRejects, Settle
<1>4. pending' \in Seq(P)
  BY <1>1, <1>3, RemovedFrom
<1>5. Seq(P) \subseteq Seq(SoundProposals(allowlists', tokens', managers', blocklistOwner'))
  BY <1>2, ProposalsOutlast, SeqOfMore
<1>6. TasksSound'
  BY <1>1, <1>2, <1>3, <1>4, <1>5 DEF TasksSound, Grown, operatorVars
<1> QED BY <1>2, <1>6

LEMMA ProductionSound ==
  ASSUME ChainSound, TasksSound, network = "mainnet", network' = network, ProductionNext
  PROVE  ChainSound' /\ TasksSound'
<1>1. CASE DeployScript
  <2>1. ChainSound' /\ Grown
    BY <1>1, DeployScriptSound
  <2> QED BY <1>1, <2>1, TasksOutlast DEF DeployScript, scriptVars
<1>2. ASSUME NEW t \in ProposingTasks \cup SavingTasks, Start(t) \/ StartAnyway(t)
      PROVE  ChainSound' /\ TasksSound'
  BY <1>2, StartsSound DEF Start, StartAnyway
<1>3. CASE Propose \/ Interrupted
  BY <1>3, PendingSound
<1>4. CASE SaveAllowlist \/ SaveUSDX
  BY <1>4, SavesSound
<1>5. ASSUME NEW i \in DOMAIN pending, SafeExecutes(i) \/ SafeRejects(i)
      PROVE  ChainSound' /\ TasksSound'
  BY <1>5, SafeSound
<1> QED BY <1>1, <1>2, <1>3, <1>4, <1>5 DEF ProductionNext, OperatorActs, SafeActs
-----------------------------------------------------------------------------
(* The local queue                                                         *)

\* What the first step did is there for the steps behind it.
LEMMA QueueMoves ==
  ASSUME NEW q, NEW known, NEW paired, QueueReady(q, known, paired), q # <<>>,
         NEW later, NEW stillPaired, known \subseteq later,
         Head(q).op = "find" /\ Head(q).on \in Sought => Head(q).on \in later,
         Head(q).op = "deploy" /\ Head(q).on = "USDXManager" => stillPaired,
         Head(q).op \notin {"save", "deploy"} /\ paired => stillPaired
  PROVE  QueueReady(Tail(q), later, stillPaired)
<1> DEFINE t == Tail(q)
<1>1. /\ q \in Seq(AllSteps) /\ t \in Seq(AllSteps) /\ q[1] = Head(q) /\ Len(q) = Len(t) + 1
      /\ Len(t) \in Nat /\ \A i \in 1 .. Len(t) : t[i] = q[i + 1]
  BY DEF QueueReady
<1> HIDE DEF t
<1> SUFFICES ASSUME NEW i \in 1 .. Len(t) PROVE StepReady(t, i, later, stillPaired)
  BY <1>1 DEF QueueReady, t
<1>2. StepReady(q, i + 1, known, paired) /\ t[i] = q[i + 1]
  BY <1>1 DEF QueueReady
<1>3. ASSUME NEW name \in Sought, FoundBefore(q, i + 1, known, name)
      PROVE  FoundBefore(t, i, later, name)
  <2>1. CASE name \in known
    BY <2>1 DEF FoundBefore
  <2>2. ASSUME NEW j \in 1 .. i, q[j].op = "find", q[j].on = name
        PROVE  FoundBefore(t, i, later, name)
    <3>1. CASE j = 1
      BY <1>1, <2>2, <3>1 DEF FoundBefore
    <3>2. CASE j # 1
      <4>1. j - 1 \in 1 .. i - 1 /\ t[j - 1] = q[j]
        BY <1>1, <3>2
      <4> QED BY <2>2, <4>1 DEF FoundBefore
    <3> QED BY <3>1, <3>2
  <2>3. (i + 1) - 1 = i
    OBVIOUS
  <2> QED BY <1>3, <2>1, <2>2, <2>3 DEF FoundBefore
<1>4. ASSUME NEW j \in 1 .. i, Calm(q, j, i + 1)
      PROVE  Calm(t, j - 1, i)
  <2> SUFFICES ASSUME NEW l \in (j - 1) + 1 .. i - 1 PROVE t[l].op \notin {"save", "deploy"}
    BY DEF Calm
  <2>1. l + 1 \in j + 1 .. (i + 1) - 1 /\ t[l] = q[l + 1]
    BY <1>1
  <2> QED BY <1>4, <2>1 DEF Calm
<1>5. ASSUME PairedBefore(q, i + 1, paired) PROVE PairedBefore(t, i, stillPaired)
  <2>1. CASE paired /\ Calm(q, 0, i + 1)
    <3>1. q[1].op \notin {"save", "deploy"}
      BY <2>1 DEF Calm
    <3>2. Calm(q, 1, i + 1)
      BY <2>1 DEF Calm
    <3>3. Calm(t, 0, i)
      BY <1>4, <3>2
    <3> QED BY <1>1, <2>1, <3>1, <3>3 DEF PairedBefore
  <2>2. ASSUME NEW j \in 1 .. i, q[j].op = "deploy", q[j].on = "USDXManager", Calm(q, j, i + 1)
        PROVE  PairedBefore(t, i, stillPaired)
    <3>1. Calm(t, j - 1, i)
      BY <1>4, <2>2
    <3>2. CASE j = 1
      BY <1>1, <2>2, <3>1, <3>2 DEF PairedBefore
    <3>3. CASE j # 1
      <4>1. j - 1 \in 1 .. i - 1 /\ t[j - 1] = q[j]
        BY <1>1, <3>3
      <4> QED BY <2>2, <3>1, <4>1 DEF PairedBefore
    <3> QED BY <3>2, <3>3
  <2>3. (i + 1) - 1 = i
    OBVIOUS
  <2> QED BY <1>5, <2>1, <2>2, <2>3 DEF PairedBefore
<1> QED BY <1>2, <1>3, <1>5 DEF StepReady, Sought

\* The first step has what it needs.
LEMMA FirstReady ==
  ASSUME NEW q, NEW known, NEW paired, QueueReady(q, known, paired), q # <<>>
  PROVE  /\ Head(q) \in AllSteps
         /\ Head(q).op = "deploy" =>
              Head(q).on \in {"AllowlistFactory", "USDXFactory", "Blocklist", "USDX_Pricer", "USDXManager"}
         /\ Head(q).op = "deploy" /\ Head(q).on = "USDXManager" => "USDX" \in known
         /\ Head(q).op = "deployUSDX" => "Blocklist" \in known /\ "Allowlist" \in known
         /\ Head(q).op = "grantRole" =>
              /\ Head(q).on \in {"USDX", "USDXManager"}
              /\ IF Head(q).role = "MINTER_ROLE"
                   THEN Head(q).on = "USDX" /\ Head(q).to = "USDXManager" /\ paired
                   ELSE Head(q).to \in {"managerAdmin", "relayer"}
<1>1. q \in Seq(AllSteps) /\ 1 \in DOMAIN q /\ Head(q) = q[1]
  BY DEF QueueReady
<1>2. StepReady(q, 1, known, paired) /\ q[1] \in AllSteps
  BY <1>1 DEF QueueReady
<1>3. \A name : FoundBefore(q, 1, known, name) => name \in known
  BY DEF FoundBefore
<1>4. PairedBefore(q, 1, paired) => paired
  BY DEF PairedBefore
<1> HIDE DEF FoundBefore, PairedBefore
<1> QED BY <1>1, <1>2, <1>3, <1>4 DEF StepReady

\* A command's step that deploys, where what is recorded does not serve.
LEMMA DeploysAfreshSound ==
  ASSUME ChainSound, network' = network, NEW name, Redeploys(name), DeploysAfresh(name),
         name \in {"AllowlistFactory", "USDXFactory", "Blocklist", "USDX_Pricer", "USDXManager"},
         name = "USDXManager" => record["USDX"] # Absent
  PROVE  /\ ChainSound' /\ Grown
         /\ \A other \in Sought : record[other] # Absent => record'[other] # Absent
         /\ name = "USDXManager" => Paired(record', managers')
<1> USE DEF ChainSound
<1>1. ASSUME NEW a, Saved(name, a), a # Absent
      PROVE  /\ Save(name, a) /\ record'[name] = a
             /\ \A other \in Records : other # name => record'[other] = record[other]
             /\ \A other \in Records : record[other] # Absent => record'[other] # Absent
  <2>1. record' = [record EXCEPT ![name] = a] /\ record \in [Records -> Addresses]
        /\ name \in Records
    BY <1>1 DEF Saved, RecordsSound, Records
  <2> QED BY <1>1, <2>1 DEF Save
<1>2. Sought \subseteq Records /\ "USDX_Pricer" \in Records /\ name \in Records
  BY DEF Sought, Records
<1>3. CASE name \in {"AllowlistFactory", "USDXFactory"}
  <2> DEFINE a == At(name, 1)
  <2>1. ConstructFactory(a, Guardian) /\ Saved(name, a)
    BY <1>3 DEF DeploysAfresh
  <2>2. a \in Addresses /\ a # Absent
    BY <1>3, NamedAccounts DEF AllowlistFactory, USDXFactory, At, Absent, EOA
  <2> HIDE DEF a
  <2>3. PricerRecordKept /\ Save(name, a)
    BY <1>1, <1>2, <2>1, <2>2 DEF PricerRecordKept
  <2>4. Goes
    BY <2>1, <2>3, ConstructFactorySound
  <2>5. RecordFits(name, a, allowlists', tokens', managers', blocklistOwner')
    BY <1>3, <2>2 DEF RecordFits
  <2>6. RecordsSound'
    BY <1>2, <2>3, <2>4, <2>5, RecordSaved DEF Goes
  <2> QED BY <1>1, <1>2, <1>3, <2>1, <2>2, <2>4, <2>6 DEF Goes
<1>4. CASE name = "Blocklist"
  <2>1. ConstructBlocklist(Deployer) /\ Saved(name, Blocklist)
    BY <1>4 DEF DeploysAfresh
  <2>2. PricerRecordKept /\ Save(name, Blocklist)
    BY <1>1, <1>2, <2>1, NamedAccounts DEF PricerRecordKept
  <2>3. Goes /\ blocklistOwner' # Absent
    BY <2>1, <2>2, ConstructBlocklistSound
  <2>4. RecordFits(name, Blocklist, allowlists', tokens', managers', blocklistOwner')
    BY <1>4, <2>3, NamedAccounts DEF RecordFits
  <2>5. RecordsSound'
    BY <1>2, <2>2, <2>3, <2>4, RecordSaved DEF Goes
  <2> QED BY <1>1, <1>2, <1>4, <2>1, <2>3, <2>5, NamedAccounts DEF Goes
<1>5. CASE name = "USDX_Pricer"
  <2>1. ConstructPricer(Guardian, EOA("managerAdmin")) /\ Saved(name, Pricer)
    BY <1>5 DEF DeploysAfresh
  <2>2. /\ record["USDX_Pricer"] = Absent /\ record'["USDX_Pricer"] # Absent
        /\ Save(name, Pricer)
    BY <1>1, <1>5, <2>1, NamedAccounts DEF Redeploys
  <2>3. EOA("managerAdmin") \in Addresses /\ EOA("managerAdmin") \notin Strays
    BY NamedAccounts DEF Kinds
  <2>4. Goes
    BY <2>1, <2>2, <2>3, ConstructPricerSound
  <2>5. RecordFits(name, Pricer, allowlists', tokens', managers', blocklistOwner')
    BY <1>5, NamedAccounts DEF RecordFits
  <2>6. RecordsSound'
    BY <1>2, <2>2, <2>4, <2>5, RecordSaved DEF Goes
  <2> QED BY <1>1, <1>2, <1>5, <2>1, <2>4, <2>6, NamedAccounts DEF Goes
<1>6. CASE name = "USDXManager"
  <2> DEFINE manager == At("USDXManager", Len(managers) + 1)
  <2>1. ConstructManager(record["USDX"], EOA("managerAdmin"), Pauser) /\ Saved(name, manager)
    BY <1>6 DEF DeploysAfresh
  <2>2. IsMade(record["USDX"], "USDX", tokens)
    <3>1. record["USDX"] \notin {Absent, ZERO_ADDRESS}
      BY <1>6, <2>1 DEF ConstructManager
    <3> QED BY <3>1 DEF RecordsSound, RecordFits, Records
  <2>3. EOA("managerAdmin") \in Addresses /\ EOA("managerAdmin") \notin Strays
    BY NamedAccounts DEF Kinds
  <2>4. manager # Absent
    BY DEF At, Absent, EOA
  <2>5. PricerRecordKept /\ Save(name, manager)
    BY <1>1, <1>2, <2>1, <2>4 DEF PricerRecordKept
  <2>6. /\ Goes /\ IsMade(manager, "USDXManager", managers')
        /\ RwaIn(managers', manager) = record["USDX"]
    BY <2>1, <2>2, <2>3, <2>5, ConstructManagerSound
  <2>7. manager \in Addresses
    BY <2>6, MadeIsAddress DEF Goes, InstancesSound, Kinds
  <2> HIDE DEF manager
  <2>8. RecordFits(name, manager, allowlists', tokens', managers', blocklistOwner')
    BY <1>6, <2>6, <2>7 DEF RecordFits
  <2>9. RecordsSound'
    BY <1>2, <2>5, <2>6, <2>8, RecordSaved DEF Goes
  <2>10. record'["USDXManager"] = manager /\ record'["USDX"] = record["USDX"]
    BY <1>1, <1>2, <1>6, <2>1, <2>4 DEF Sought
  <2>11. Paired(record', managers')
    BY <2>6, <2>10 DEF Paired
  <2> QED BY <1>1, <1>2, <1>6, <2>1, <2>4, <2>6, <2>9, <2>11 DEF Goes
<1> QED BY <1>3, <1>4, <1>5, <1>6

\* A step that saves what a factory answers.
LEMMA LocalSaveSound ==
  ASSUME ChainSound, network' = network, UNCHANGED chainVars,
         \/ SavedBoth("Allowlist", "ProxyAdminAllowlist", allowlistProxy, allowlistProxyAdmin)
         \/ SavedBoth("USDX", "ProxyAdminUSDX", USDXProxy, USDXProxyAdmin)
  PROVE  /\ ChainSound' /\ Grown
         /\ \A other \in Sought : record[other] # Absent => record'[other] # Absent
<1>1. Grown
  BY DEF Grown, chainVars
<1>2. allowlistProxy # Absent /\ USDXProxy # Absent
  BY NamedAccounts, LatestMade, MadeIsNoAccount
     DEF ChainSound, InstancesSound, allowlistProxy, USDXProxy
<1>3. record \in [Records -> Addresses]
  BY DEF ChainSound, RecordsSound
<1>4. /\ RecordFits("Allowlist", allowlistProxy, allowlists', tokens', managers', blocklistOwner')
      /\ RecordFits("ProxyAdminAllowlist", allowlistProxyAdmin, allowlists', tokens', managers', blocklistOwner')
      /\ RecordFits("USDX", USDXProxy, allowlists', tokens', managers', blocklistOwner')
      /\ RecordFits("ProxyAdminUSDX", USDXProxyAdmin, allowlists', tokens', managers', blocklistOwner')
  BY GettersFit DEF ChainSound, chainVars
<1>5. RecordsSound'
  BY <1>1, <1>4, TwoRecordsSaved DEF ChainSound, SavedBoth, Records
<1>6. record'["USDX_Pricer"] = record["USDX_Pricer"]
  BY <1>3 DEF SavedBoth, Records
<1>7. InstancesSound' /\ RolesSound'
  BY <1>6 DEF ChainSound, InstancesSound, RolesSound, chainVars
<1>8. \A other \in Sought : record[other] # Absent => record'[other] # Absent
  BY <1>2, <1>3 DEF SavedBoth, Records, Sought
<1> QED BY <1>1, <1>5, <1>7, <1>8 DEF ChainSound

\* The other calls leave the records alone.
LEMMA CallSound ==
  ASSUME ChainSound, network' = network, record' = record, Goes
  PROVE  /\ ChainSound' /\ Grown
         /\ Paired(record, managers) => Paired(record', managers')
<1>1. RecordsSound'
  BY RecordsKept DEF Goes, ChainSound
<1> QED BY <1>1 DEF Goes, ChainSound, Paired, Grown

\* A step that has what it needs leaves a sound deployment, and what the steps
\* behind it count on.
LEMMA StepSound ==
  ASSUME ChainSound, network = "localhost", network' = network, NEW step \in AllSteps,
         Succeeds(step, record), Does(step),
         step.op = "deploy" =>
           step.on \in {"AllowlistFactory", "USDXFactory", "Blocklist", "USDX_Pricer", "USDXManager"},
         step.op = "deploy" /\ step.on = "USDXManager" => "USDX" \in Known(record),
         step.op = "deployUSDX" => "Blocklist" \in Known(record) /\ "Allowlist" \in Known(record),
         step.op = "grantRole" =>
           /\ step.on \in {"USDX", "USDXManager"}
           /\ IF step.role = "MINTER_ROLE"
                THEN step.on = "USDX" /\ step.to = "USDXManager" /\ Paired(record, managers)
                ELSE step.to \in {"managerAdmin", "relayer"}
  PROVE  /\ ChainSound' /\ Known(record) \subseteq Known(record')
         /\ step.op = "find" /\ step.on \in Sought => step.on \in Known(record')
         /\ step.op = "deploy" /\ step.on = "USDXManager" => Paired(record', managers')
         /\ step.op \notin {"save", "deploy"} /\ Paired(record, managers) =>
              Paired(record', managers')
<1>1. ASSUME record' = record PROVE PricerRecordKept /\ Known(record') = Known(record)
  BY <1>1 DEF PricerRecordKept
<1>2. \A name \in Records : record[name] \in Addresses
  BY DEF ChainSound, RecordsSound
<1>3. CASE UNCHANGED <<chainVars, record>> /\ (step.op = "deploy" => ~Redeploys(step.on))
  <2>1. ChainSound' /\ Paired(record, managers) = Paired(record, managers)'
    BY <1>3, NothingHappens DEF chainVars
  <2>2. step.op = "find" /\ step.on \in Sought => step.on \in Known(record')
    BY <1>3 DEF Succeeds, Known
  <2>3. step.op = "deploy" /\ step.on = "USDXManager" => Paired(record, managers)
    <3> SUFFICES ASSUME step.op = "deploy", step.on = "USDXManager" PROVE Paired(record, managers)
      OBVIOUS
    <3>1. record["USDXManager"] # Absent /\ rwaOf(record["USDXManager"]) = record["USDX"]
      BY <1>3 DEF Redeploys
    <3>2. IsMade(record["USDXManager"], "USDXManager", managers)
      BY <3>1 DEF ChainSound, RecordsSound, RecordFits, Records
    <3> QED BY <3>1, <3>2 DEF Paired, rwaOf, RwaIn
  <2>4. record' = record /\ managers' = managers
    BY <1>3 DEF chainVars
  <2> QED BY <2>1, <2>2, <2>3, <2>4
<1>4. CASE step.op = "deploy" /\ Redeploys(step.on)
  <2>1. DeploysAfresh(step.on)
    BY <1>4 DEF Does
  <2>2. step.on = "USDXManager" => record["USDX"] # Absent
    BY <1>4 DEF Known
  <2> QED BY <1>4, <2>1, <2>2, DeploysAfreshSound DEF Known
<1>5. CASE step.op = "save" /\ step.on \in {"Allowlist", "USDX"}
  <2>1. /\ UNCHANGED chainVars
        /\ \/ SavedBoth("Allowlist", "ProxyAdminAllowlist", allowlistProxy, allowlistProxyAdmin)
           \/ SavedBoth("USDX", "ProxyAdminUSDX", USDXProxy, USDXProxyAdmin)
    BY <1>5 DEF Does
  <2> QED BY <1>5, <2>1, LocalSaveSound DEF Known
<1>6. CASE step.op = "deployAllowlist"
  <2>1. DeployAllowlist(Guardian, Guardian, Guardian) /\ record' = record
    BY <1>6 DEF Does
  <2>2. Goes
    BY <1>1, <2>1, DeployAllowlistSound DEF ChainSound
  <2> QED BY <1>1, <1>6, <2>1, <2>2, CallSound
<1>7. CASE step.op = "deployUSDX"
  <2>1. DeployUSDX(Guardian, record["Blocklist"], record["Allowlist"]) /\ record' = record
    BY <1>7 DEF Does
  <2>2. record["Blocklist"] # Absent /\ record["Allowlist"] # Absent
    BY <1>7 DEF Known
  <2>3. /\ record["Blocklist"] = Blocklist /\ blocklistOwner # Absent
        /\ record["Allowlist"] = ZERO_ADDRESS \/ IsMade(record["Allowlist"], "Allowlist", allowlists)
    BY <2>2 DEF ChainSound, RecordsSound, RecordFits, Records
  <2>4. Goes
    BY <1>1, <2>1, <2>3, DeployUSDXSound DEF ChainSound
  <2> QED BY <1>1, <1>7, <2>1, <2>4, CallSound
<1>8. CASE step.op = "transferOwnership"
  <2>1. TransferOwnership(EOA(step.by), Guardian) /\ record' = record
    BY <1>8 DEF Does
  <2>2. Goes
    BY <1>1, <2>1, TransferOwnershipSound DEF ChainSound
  <2> QED BY <1>1, <1>8, <2>1, <2>2, CallSound
<1>9. CASE step.op = "acceptOwnership"
  <2>1. AcceptOwnership(EOA(step.by)) /\ record' = record
    BY <1>9 DEF Does
  <2>2. Goes
    BY <1>1, <2>1, AcceptOwnershipSound DEF ChainSound
  <2> QED BY <1>1, <1>9, <2>1, <2>2, CallSound
<1>10. CASE step.op = "setPricer"
  <2>1. SetPricer(EOA(step.by), record["USDXManager"], record["USDX_Pricer"]) /\ record' = record
    BY <1>10 DEF Does
  <2>2. record["USDX_Pricer"] \in Addresses
    BY <1>2 DEF Records
  <2>3. Goes
    BY <1>1, <2>1, <2>2, SetPricerSound DEF ChainSound
  <2> QED BY <1>1, <1>10, <2>1, <2>3, CallSound
<1>11. CASE step.op = "grantRole"
  <2> DEFINE c == record[step.on]
             account == AddressOf(record, step.to)
  <2>1. GrantRole(EOA(step.by), c, step.role, account) /\ record' = record
    BY <1>11 DEF Does
  <2>2. c \in Addresses
    BY <1>2, <1>11 DEF Records
  <2>3. /\ account \in Addresses
        /\ c # ZERO_ADDRESS => RightSound(c, step.role, account, tokens, managers, network)
    <3>1. CASE step.role = "MINTER_ROLE"
      <4>1. c = record["USDX"] /\ account = record["USDXManager"] /\ Paired(record, managers)
        BY <1>11, <3>1 DEF AddressOf, Records
      <4>2. IsMade(account, "USDXManager", managers) /\ RwaIn(managers, account) = c
        BY <4>1 DEF Paired
      <4>3. c # ZERO_ADDRESS => IsMade(c, "USDX", tokens)
        <5>1. account[2] \in DOMAIN managers
          BY <4>2 DEF IsMade, At
        <5>2. c = managers[account[2]].rwa
          BY <4>2, <5>1 DEF RwaIn
        <5> QED BY <5>1, <5>2 DEF ChainSound, InstancesSound
      <4>4. account \in Addresses
        BY <1>2, <4>1 DEF Records
      <4> QED BY <4>2, <4>3, <4>4, MadeIsNoAccount DEF RightSound
    <3>2. CASE step.role # "MINTER_ROLE"
      <4>1. account \in {EOA("managerAdmin"), EOA("relayer")}
        BY <1>11, <3>2 DEF AddressOf, Records
      <4> QED BY <3>2, <4>1, NamedAccounts DEF RightSound, Kinds
    <3> QED BY <3>1, <3>2
  <2> HIDE DEF c, account
  <2>4. Goes
    BY <2>1, <2>2, <2>3, GrantSound DEF ChainSound, Goes
  <2> QED BY <1>1, <1>11, <2>1, <2>4, CallSound
<1>12. CASE \/ step.op \in {"find", "call"}
            \/ step.op = "save" /\ step.on \notin {"Allowlist", "USDX"}
            \/ step.op = "deploy" /\ ~Redeploys(step.on)
  BY <1>3, <1>12 DEF Does
<1> QED BY <1>4, <1>5, <1>6, <1>7, <1>8, <1>9, <1>10, <1>11, <1>12 DEF AllSteps

LEMMA DeployStepSound ==
  ASSUME ChainSound, QueueSound, network = "localhost", network' = network, DeployStep
  PROVE  ChainSound' /\ QueueSound'
<1>1. QueueReady(queue, Known(record), Paired(record, managers)) /\ queue # <<>>
  BY DEF QueueSound, DeployStep
<1>2. CASE ~Succeeds(Head(queue), record)
  <2>1. queue' = <<>> /\ UNCHANGED <<chainVars, record>>
    BY <1>2 DEF DeployStep
  <2>2. QueueReady(<<>>, Known(record'), Paired(record', managers'))
    BY DEF QueueReady
  <2> QED BY <2>1, <2>2, NothingHappens DEF QueueSound
<1>3. CASE Succeeds(Head(queue), record)
  <2> DEFINE step == Head(queue)
  <2>1. Does(step) /\ queue' = Tail(queue)
    BY <1>3 DEF DeployStep
  <2>2. /\ step \in AllSteps
        /\ step.op = "deploy" =>
             step.on \in {"AllowlistFactory", "USDXFactory", "Blocklist", "USDX_Pricer", "USDXManager"}
        /\ step.op = "deploy" /\ step.on = "USDXManager" => "USDX" \in Known(record)
        /\ step.op = "deployUSDX" => "Blocklist" \in Known(record) /\ "Allowlist" \in Known(record)
        /\ step.op = "grantRole" =>
             /\ step.on \in {"USDX", "USDXManager"}
             /\ IF step.role = "MINTER_ROLE"
                  THEN step.on = "USDX" /\ step.to = "USDXManager" /\ Paired(record, managers)
                  ELSE step.to \in {"managerAdmin", "relayer"}
    BY <1>1, FirstReady
  <2>3. /\ ChainSound' /\ Known(record) \subseteq Known(record')
        /\ step.op = "find" /\ step.on \in Sought => step.on \in Known(record')
        /\ step.op = "deploy" /\ step.on = "USDXManager" => Paired(record', managers')
        /\ step.op \notin {"save", "deploy"} /\ Paired(record, managers) =>
             Paired(record', managers')
    BY <1>3, <2>1, <2>2, StepSound
  <2>4. QueueReady(Tail(queue), Known(record'), Paired(record', managers'))
    BY <1>1, <2>3, QueueMoves
  <2> QED BY <2>1, <2>3, <2>4 DEF QueueSound
<1> QED BY <1>2, <1>3
-----------------------------------------------------------------------------
(* The steps of a command                                                  *)

LEMMA SmallestOf ==
  ASSUME NEW T \in SUBSET Nat, T # {}
  PROVE  \E n \in T : \A m \in T : n <= m
<1>1. PICK n \in T : \A m \in T : <<m, n>> \notin OpToRel(<, Nat)
  BY WFMin, NatLessThanWellFounded, Zenon
<1>2. \A m \in T : ~(m < n)
  BY <1>1, Zenon DEF OpToRel
<1> QED BY <1>2

\* What a recursion starts with and keeps, all its values have.
LEMMA Reached ==
  ASSUME NEW N \in Nat, NEW S, NEW f, f[0] \in S,
         \A n \in 1 .. N : f[n - 1] \in S => f[n] \in S
  PROVE  \A n \in 0 .. N : f[n] \in S
<1> DEFINE T == {n \in 0 .. N : f[n] \notin S}
<1>1. SUFFICES ASSUME T # {} PROVE FALSE
  OBVIOUS
<1>2. PICK n \in T : \A m \in T : n <= m
  <2>1. T \in SUBSET Nat
    OBVIOUS
  <2> HIDE DEF T
  <2> QED BY <1>1, <2>1, SmallestOf
<1>3. n \in 1 .. N /\ n - 1 \in 0 .. N
  BY <1>2
<1>4. n - 1 \notin T
  BY <1>2, <1>3
<1> QED BY <1>2, <1>3, <1>4

\* The function a recursion defines exists: g[n] takes a value to the next.
Keeps(g, N, S) == \A n \in 1 .. N : \A v \in S : g[n][v] \in S

IsRecursive(f, N, S, base, g) ==
  f \in [0 .. N -> S] /\ f[0] = base /\ \A n \in 1 .. N : f[n] = g[n][f[n - 1]]

LEMMA RecursionExists ==
  ASSUME NEW N \in Nat, NEW S, NEW base \in S, NEW g, Keeps(g, N, S)
  PROVE  \E f : IsRecursive(f, N, S, base, g)
<1> USE DEF Keeps, IsRecursive
<1> DEFINE Upto(n, f) == f[0] = base /\ \A i \in 1 .. n : f[i] = g[i][f[i - 1]]
           T == {n \in 0 .. N : ~ \E f \in [0 .. n -> S] : Upto(n, f)}
<1>1. SUFFICES ASSUME T # {} PROVE FALSE
  OBVIOUS
<1>2. PICK n \in T : \A m \in T : n <= m
  <2>1. T \in SUBSET Nat
    OBVIOUS
  <2> HIDE DEF T
  <2> QED BY <1>1, <2>1, SmallestOf
<1>3. n # 0
  <2>1. [i \in 0 .. 0 |-> base] \in [0 .. 0 -> S] /\ Upto(0, [i \in 0 .. 0 |-> base])
    OBVIOUS
  <2>2. \E f \in [0 .. 0 -> S] : Upto(0, f)
    BY <2>1
  <2>3. ~ \E f \in [0 .. n -> S] : Upto(n, f)
    BY <1>2
  <2> HIDE DEF Upto
  <2> QED BY <2>2, <2>3
<1>4. n \in 1 .. N /\ n - 1 \in 0 .. N /\ n - 1 \notin T
  BY <1>2, <1>3
<1>5. PICK f \in [0 .. n - 1 -> S] : Upto(n - 1, f)
  BY <1>4
<1> DEFINE h == [i \in 0 .. n |-> IF i = n THEN g[n][f[n - 1]] ELSE f[i]]
<1>6. h \in [0 .. n -> S]
  <2>1. g[n][f[n - 1]] \in S
    BY <1>4, <1>5
  <2> HIDE DEF Upto
  <2> QED BY <1>4, <2>1
<1>7. \A i \in 1 .. n : h[i] = g[i][h[i - 1]]
  <2> SUFFICES ASSUME NEW i \in 1 .. n PROVE h[i] = g[i][h[i - 1]]
    OBVIOUS
  <2>1. i - 1 \in 0 .. n /\ i - 1 # n
    BY <1>4
  <2>2. h[i - 1] = f[i - 1]
    BY <2>1
  <2>3. CASE i = n
    BY <1>4, <2>2, <2>3
  <2>4. CASE i # n
    <3>1. i \in 1 .. n - 1 /\ h[i] = f[i]
      BY <1>4, <2>4
    <3> QED BY <1>5, <2>2, <3>1
  <2> QED BY <2>3, <2>4
<1>8. h[0] = base
  BY <1>4, <1>5
<1> QED BY <1>2, <1>6, <1>7, <1>8

ScriptNames == {"allowlist", "blocklist", "pricer", "usdxManager", "usdx_factory"}

LEMMA FilesAreScripts ==
  Len(Files) = 5 /\ \A n \in 1 .. Len(Files) : Files[n] \in ScriptNames
BY DEF Files, ScriptNames

LEMMA WithScript ==
  ASSUME NEW scripts \in Seq(ScriptNames), NEW script \in ScriptNames
  PROVE  With(scripts, script) \in Seq(ScriptNames)
BY DEF With

LEMMA TaggedScripts ==
  ASSUME NEW scripts \in Seq(ScriptNames), NEW tags
  PROVE  WithTagged(scripts, tags) \in Seq(ScriptNames)
<1> DEFINE N == Len(Files)
           S == Seq(ScriptNames)
           Next1(n, v) == IF Tags[Files[n]] \cap tags = {} THEN v ELSE With(v, Files[n])
           IsUpTo(f) == f = [n \in 0 .. N |-> IF n = 0 THEN scripts
                                              ELSE IF Tags[Files[n]] \cap tags = {} THEN f[n - 1]
                                              ELSE With(f[n - 1], Files[n])]
           upTo == CHOOSE f : IsUpTo(f)
           g == [n \in 1 .. N |-> [v \in S |-> Next1(n, v)]]
<1>1. WithTagged(scripts, tags) = upTo[N]
  BY Zenon DEF WithTagged
<1>2. N \in Nat /\ \A n \in 1 .. N : \A v \in S : Next1(n, v) \in S /\ g[n][v] = Next1(n, v)
  <2>1. N \in Nat
    BY FilesAreScripts
  <2>2. ASSUME NEW n \in 1 .. N, NEW v \in S PROVE Next1(n, v) \in S
    BY <2>2, FilesAreScripts, WithScript
  <2> HIDE DEF Next1, N, S
  <2> QED BY <2>1, <2>2
<1>3. \E f : IsUpTo(f)
  <2> HIDE DEF g, Next1, N, S
  <2>1. PICK f : IsRecursive(f, N, S, scripts, g)
    <3>1. scripts \in S
      BY DEF S
    <3>2. Keeps(g, N, S)
      BY <1>2 DEF Keeps
    <3> QED BY <1>2, <3>1, <3>2, RecursionExists
  <2>2. ASSUME NEW n \in 1 .. N PROVE f[n] = Next1(n, f[n - 1])
    <3>1. n - 1 \in 0 .. N
      BY <1>2
    <3>2. f[n - 1] \in S
      BY <2>1, <3>1 DEF IsRecursive
    <3> QED BY <1>2, <2>1, <3>2 DEF IsRecursive
  <2>3. IsUpTo(f)
    BY <2>1, <2>2 DEF Next1, IsRecursive
  <2> QED BY <2>3
<1>4. IsUpTo(upTo)
  BY <1>3
<1> HIDE DEF upTo, N
<1>5. upTo[0] \in S
  BY <1>2, <1>4
<1>6. ASSUME NEW n \in 1 .. N PROVE upTo[n] = Next1(n, upTo[n - 1])
  <2>1. n \in 0 .. N /\ n # 0
    BY <1>2
  <2> QED BY <1>4, <2>1
<1> HIDE DEF Next1, S
<1>7. \A n \in 0 .. N : upTo[n] \in S
  BY <1>2, <1>5, <1>6, Reached
<1> QED BY <1>1, <1>2, <1>7 DEF S

LEMMA ScheduledScripts ==
  ASSUME NEW tag
  PROVE  Scheduled(tag) \in Seq(ScriptNames)
<1> DEFINE N == Len(Files)
           S == Seq(ScriptNames)
           Next1(n, v) == IF tag \notin Tags[Files[n]] THEN v
                          ELSE With(WithTagged(v, DependsOn(Files[n])), Files[n])
           IsUpTo(f) == f = [n \in 0 .. N |->
                               IF n = 0 THEN <<>>
                               ELSE IF tag \notin Tags[Files[n]] THEN f[n - 1]
                               ELSE With(WithTagged(f[n - 1], DependsOn(Files[n])), Files[n])]
           upTo == CHOOSE f : IsUpTo(f)
           g == [n \in 1 .. N |-> [v \in S |-> Next1(n, v)]]
<1>1. Scheduled(tag) = upTo[N]
  BY Zenon DEF Scheduled
<1>2. N \in Nat /\ \A n \in 1 .. N : \A v \in S : Next1(n, v) \in S /\ g[n][v] = Next1(n, v)
  <2>1. N \in Nat
    BY FilesAreScripts
  <2>2. ASSUME NEW n \in 1 .. N, NEW v \in S PROVE Next1(n, v) \in S
    BY <2>2, FilesAreScripts, WithScript, TaggedScripts
  <2> HIDE DEF Next1, N, S
  <2> QED BY <2>1, <2>2
<1>3. \E f : IsUpTo(f)
  <2> HIDE DEF g, Next1, N, S
  <2>1. PICK f : IsRecursive(f, N, S, <<>>, g)
    <3>1. <<>> \in S
      BY DEF S
    <3>2. Keeps(g, N, S)
      BY <1>2 DEF Keeps
    <3> QED BY <1>2, <3>1, <3>2, RecursionExists
  <2>2. ASSUME NEW n \in 1 .. N PROVE f[n] = Next1(n, f[n - 1])
    <3>1. n - 1 \in 0 .. N
      BY <1>2
    <3>2. f[n - 1] \in S
      BY <2>1, <3>1 DEF IsRecursive
    <3> QED BY <1>2, <2>1, <3>2 DEF IsRecursive
  <2>3. IsUpTo(f)
    BY <2>1, <2>2 DEF Next1, IsRecursive
  <2> QED BY <2>3
<1>4. IsUpTo(upTo)
  BY <1>3
<1> HIDE DEF upTo, N
<1>5. upTo[0] \in S
  BY <1>2, <1>4
<1>6. ASSUME NEW n \in 1 .. N PROVE upTo[n] = Next1(n, upTo[n - 1])
  <2>1. n \in 0 .. N /\ n # 0
    BY <1>2
  <2> QED BY <1>4, <2>1
<1> HIDE DEF Next1, S
<1>7. \A n \in 0 .. N : upTo[n] \in S
  BY <1>2, <1>5, <1>6, Reached
<1> QED BY <1>1, <1>2, <1>7 DEF S

\* A property of sequences that concatenation keeps, a flattened sequence has.
LEMMA FlattenedIn ==
  ASSUME NEW A, NEW G \in SUBSET Seq(A), <<>> \in G, \A a, b \in G : a \o b \in G,
         NEW seqs \in Seq(G)
  PROVE  FlattenSeq(seqs) \in G
<1> DEFINE N == Len(seqs)
           IsFlat(f) == f = [i \in 1 .. N |-> IF i = 1 THEN seqs[i] ELSE f[i - 1] \o seqs[i]]
           flat == CHOOSE f : IsFlat(f)
           g == [n \in 1 .. N |-> [v \in G |-> v \o seqs[n]]]
<1>1. FlattenSeq(seqs) = IF N = 0 THEN seqs ELSE flat[N]
  BY Zenon DEF FlattenSeq
<1>2. N \in Nat /\ \A n \in 1 .. N : seqs[n] \in G
  OBVIOUS
<1>3. \A n \in 1 .. N : \A v \in G : g[n][v] = v \o seqs[n] /\ v \o seqs[n] \in G
  BY <1>2
<1>4. \E f : IsFlat(f)
  <2> HIDE DEF g, N
  <2>1. PICK f : IsRecursive(f, N, G, <<>>, g)
    <3>1. Keeps(g, N, G)
      BY <1>3 DEF Keeps
    <3> QED BY <1>2, <3>1, RecursionExists
  <2>2. ASSUME NEW n \in 1 .. N PROVE f[n] = f[n - 1] \o seqs[n]
    <3>1. n - 1 \in 0 .. N
      BY <1>2
    <3>2. f[n - 1] \in G
      BY <2>1, <3>1 DEF IsRecursive
    <3> QED BY <1>3, <2>1, <3>2 DEF IsRecursive
  <2>3. 1 <= N => f[1] = seqs[1]
    <3> SUFFICES ASSUME 1 <= N PROVE f[1] = seqs[1]
      OBVIOUS
    <3>1. 1 \in 1 .. N /\ 1 - 1 = 0
      BY <1>2
    <3>2. f[1] = f[0] \o seqs[1] /\ seqs[1] \in G
      BY <1>2, <2>2, <3>1
    <3>3. seqs[1] \in Seq(A)
      BY <3>2
    <3> QED BY <2>1, <3>2, <3>3 DEF IsRecursive
  <2>4. IsFlat([i \in 1 .. N |-> f[i]])
    <3> DEFINE h == [i \in 1 .. N |-> f[i]]
    <3>1. ASSUME NEW i \in 1 .. N
          PROVE  f[i] = IF i = 1 THEN seqs[i] ELSE h[i - 1] \o seqs[i]
      <4>1. CASE i = 1
        BY <1>2, <2>3, <4>1
      <4>2. CASE i # 1
        <5>1. i - 1 \in 1 .. N
          BY <1>2, <4>2
        <5> QED BY <2>2, <4>2, <5>1
      <4> QED BY <4>1, <4>2
    <3> QED BY <3>1
  <2> QED BY <2>4
<1>5. IsFlat(flat)
  BY <1>4
<1> HIDE DEF flat, N
<1> DEFINE h == [n \in 0 .. N |-> IF n = 0 THEN <<>> ELSE flat[n]]
<1>6. h[0] \in G /\ \A n \in 1 .. N : h[n - 1] \in G => h[n] \in G
  <2>1. ASSUME NEW n \in 1 .. N, h[n - 1] \in G PROVE h[n] \in G
    <3>1. CASE n = 1
      <4>1. h[n] = seqs[n]
        BY <1>2, <1>5, <3>1
      <4> QED BY <1>2, <4>1
    <3>2. CASE n # 1
      <4>1. n - 1 \in 1 .. N /\ h[n - 1] = flat[n - 1] /\ h[n] = flat[n]
        BY <1>2, <3>2
      <4>2. h[n] = h[n - 1] \o seqs[n]
        BY <1>5, <3>2, <4>1
      <4> QED BY <1>2, <2>1, <4>2
    <3> QED BY <3>1, <3>2
  <2>2. h[0] = <<>>
    BY <1>2
  <2> QED BY <2>1, <2>2
<1> HIDE DEF h
<1>7. \A n \in 0 .. N : h[n] \in G
  BY <1>2, <1>6, Reached
<1>8. CASE N = 0
  <2>1. seqs = <<>>
    BY <1>8 DEF N
  <2> QED BY <1>1, <1>8, <2>1
<1>9. CASE N # 0
  <2>1. N \in 0 .. N /\ h[N] = flat[N]
    BY <1>2, <1>9 DEF h
  <2> QED BY <1>1, <1>7, <1>9, <2>1
<1> QED BY <1>8, <1>9
-----------------------------------------------------------------------------
(* The queues of the scripts                                               *)

\* Steps that find for themselves what they use do so wherever they are put.
ReadyQueues == {q \in Seq(AllSteps) : QueueReady(q, {}, FALSE)}

LEMMA ReadyAnywhere ==
  ASSUME NEW q \in ReadyQueues, NEW known, NEW paired
  PROVE  QueueReady(q, known, paired)
<1>1. ASSUME NEW i, NEW name, FoundBefore(q, i, {}, name) PROVE FoundBefore(q, i, known, name)
  BY <1>1 DEF FoundBefore
<1>2. ASSUME NEW i, PairedBefore(q, i, FALSE) PROVE PairedBefore(q, i, paired)
  BY <1>2 DEF PairedBefore
<1> QED BY <1>1, <1>2 DEF ReadyQueues, QueueReady, StepReady

LEMMA ReadyJoined ==
  ASSUME NEW a \in ReadyQueues, NEW b \in ReadyQueues
  PROVE  a \o b \in ReadyQueues
<1> DEFINE q == a \o b
           n == Len(a)
<1>1. /\ a \in Seq(AllSteps) /\ b \in Seq(AllSteps) /\ q \in Seq(AllSteps) /\ n \in Nat
      /\ DOMAIN q = 1 .. n + Len(b) /\ Len(b) \in Nat
      /\ \A i \in 1 .. n : q[i] = a[i]
      /\ \A i \in 1 .. Len(b) : q[n + i] = b[i]
  BY DEF ReadyQueues
<1> HIDE DEF q
<1> SUFFICES ASSUME NEW i \in DOMAIN q PROVE StepReady(q, i, {}, FALSE)
  BY <1>1 DEF ReadyQueues, QueueReady, q
<1>2. CASE i \in 1 .. n
  <2>1. StepReady(a, i, {}, FALSE) /\ q[i] = a[i] /\ \A j \in 1 .. i - 1 : q[j] = a[j]
    <3>1. i \in DOMAIN a /\ q[i] = a[i] /\ \A j \in 1 .. i - 1 : q[j] = a[j]
      BY <1>1, <1>2
    <3>2. QueueReady(a, {}, FALSE)
      BY DEF ReadyQueues
    <3> QED BY <3>1, <3>2 DEF QueueReady
  <2>2. ASSUME NEW name, FoundBefore(a, i, {}, name) PROVE FoundBefore(q, i, {}, name)
    BY <2>1, <2>2 DEF FoundBefore
  <2>3. ASSUME NEW j \in 1 .. i - 1, Calm(a, j, i) PROVE Calm(q, j, i)
    <3> SUFFICES ASSUME NEW l \in j + 1 .. i - 1 PROVE q[l].op \notin {"save", "deploy"}
      BY DEF Calm
    <3>1. l \in 1 .. i - 1
      BY <1>2
    <3> QED BY <2>1, <2>3, <3>1 DEF Calm
  <2>4. ASSUME PairedBefore(a, i, FALSE) PROVE PairedBefore(q, i, FALSE)
    BY <2>1, <2>3, <2>4 DEF PairedBefore
  <2> QED BY <2>1, <2>2, <2>4 DEF StepReady
<1>3. CASE i \notin 1 .. n
  <2> DEFINE k == i - n
  <2>1. k \in 1 .. Len(b) /\ i = n + k
    BY <1>1, <1>3
  <2> HIDE DEF k
  <2>2. StepReady(b, k, {}, FALSE) /\ q[i] = b[k]
    <3>1. k \in DOMAIN b /\ q[i] = b[k]
      BY <1>1, <2>1
    <3>2. QueueReady(b, {}, FALSE)
      BY DEF ReadyQueues
    <3> QED BY <3>1, <3>2 DEF QueueReady
  <2>3. ASSUME NEW j \in 1 .. k - 1
        PROVE  n + j \in 1 .. i - 1 /\ q[n + j] = b[j]
    BY <1>1, <2>1
  <2>4. ASSUME NEW name, FoundBefore(b, k, {}, name) PROVE FoundBefore(q, i, {}, name)
    BY <2>3, <2>4 DEF FoundBefore
  <2>5. ASSUME NEW j \in 1 .. k - 1, Calm(b, j, k) PROVE Calm(q, n + j, i)
    <3> SUFFICES ASSUME NEW l \in (n + j) + 1 .. i - 1 PROVE q[l].op \notin {"save", "deploy"}
      BY DEF Calm
    <3>1. l - n \in j + 1 .. k - 1 /\ l - n \in 1 .. Len(b) /\ l = n + (l - n)
      BY <1>1, <2>1
    <3>2. q[l] = b[l - n]
      BY <1>1, <3>1
    <3> QED BY <2>5, <3>1, <3>2 DEF Calm
  <2>6. ASSUME PairedBefore(b, k, FALSE) PROVE PairedBefore(q, i, FALSE)
    <3>1. PICK j \in 1 .. k - 1 :
            b[j].op = "deploy" /\ b[j].on = "USDXManager" /\ Calm(b, j, k)
      BY <2>6 DEF PairedBefore
    <3> QED BY <2>3, <2>5, <3>1 DEF PairedBefore
  <2> QED BY <2>2, <2>4, <2>6 DEF StepReady
<1> QED BY <1>2, <1>3

\* A script whose steps need nothing is ready.
LEMMA PlainReady ==
  ASSUME NEW q \in Seq(AllSteps),
         \A i \in DOMAIN q :
           /\ q[i].op \notin {"deployUSDX", "grantRole"}
           /\ q[i].op = "deploy" =>
                q[i].on \in {"AllowlistFactory", "USDXFactory", "Blocklist", "USDX_Pricer"}
  PROVE  q \in ReadyQueues
BY DEF ReadyQueues, QueueReady, StepReady

LEMMA StepFields ==
  ASSUME NEW op, NEW on, NEW by, NEW role, NEW to
  PROVE  /\ Step(op, on, by, role, to).op = op /\ Step(op, on, by, role, to).on = on
         /\ Step(op, on, by, role, to).role = role /\ Step(op, on, by, role, to).to = to
BY DEF Step

\* What a step of each kind does, and on what.
LEMMA WhatStepsDo ==
  /\ \A name : Finds(name).op = "find" /\ Finds(name).on = name
  /\ \A name : Deploys(name).op = "deploy" /\ Deploys(name).on = name
  /\ \A name : Saves(name).op = "save" /\ Saves(name).on = name
  /\ \A by, on, op : Sends(by, on, op).op = op /\ Sends(by, on, op).on = on
  /\ \A by, on, role : Calls(by, on, role).op = "call" /\ Calls(by, on, role).on = on
<1>1. \A name : Finds(name).op = "find" /\ Finds(name).on = name
  BY DEF Finds, Step
<1>2. \A name : Deploys(name).op = "deploy" /\ Deploys(name).on = name
  BY DEF Deploys, Step
<1>3. \A name : Saves(name).op = "save" /\ Saves(name).on = name
  BY DEF Saves, Step
<1>4. \A by, on, op : Sends(by, on, op).op = op /\ Sends(by, on, op).on = on
  BY DEF Sends, Step
<1>5. \A by, on, role : Calls(by, on, role).op = "call" /\ Calls(by, on, role).on = on
  BY DEF Calls, Step
<1> QED BY <1>1, <1>2, <1>3, <1>4, <1>5

LEMMA AllowlistScriptReady == deployAllowList_local \in ReadyQueues
<1> DEFINE q == deployAllowList_local
<1>1. /\ Deploys("AllowlistFactory") \in AllSteps /\ Saves("Allowlist") \in AllSteps
      /\ Sends("guardian", "AllowlistFactory", "deployAllowlist") \in AllSteps
  BY DEF Deploys, Saves, Sends, Step, AllSteps, Records, Kinds, RoleNames
<1>2. /\ q \in Seq(AllSteps) /\ DOMAIN q = 1 .. 3
      /\ q[1] = Deploys("AllowlistFactory") /\ q[3] = Saves("Allowlist")
      /\ q[2] = Sends("guardian", "AllowlistFactory", "deployAllowlist")
  BY <1>1 DEF deployAllowList_local
<1> HIDE DEF q
<1>3. \A i \in DOMAIN q :
        /\ q[i].op \notin {"deployUSDX", "grantRole"}
        /\ q[i].op = "deploy" =>
             q[i].on \in {"AllowlistFactory", "USDXFactory", "Blocklist", "USDX_Pricer"}
  BY <1>2, WhatStepsDo
<1> QED BY <1>2, <1>3, PlainReady DEF q

LEMMA BlocklistScriptReady == deployBlocklist_local \in ReadyQueues
<1> DEFINE q == deployBlocklist_local
<1>1. /\ Deploys("Blocklist") \in AllSteps
      /\ Sends("deployer", "Blocklist", "transferOwnership") \in AllSteps
      /\ Sends("guardian", "Blocklist", "acceptOwnership") \in AllSteps
  BY DEF Deploys, Sends, Step, AllSteps, Records, Kinds, RoleNames
<1>2. /\ q \in Seq(AllSteps) /\ DOMAIN q = 1 .. 3
      /\ q[1] = Deploys("Blocklist")
      /\ q[2] = Sends("deployer", "Blocklist", "transferOwnership")
      /\ q[3] = Sends("guardian", "Blocklist", "acceptOwnership")
  BY <1>1 DEF deployBlocklist_local
<1> HIDE DEF q
<1>3. \A i \in DOMAIN q :
        /\ q[i].op \notin {"deployUSDX", "grantRole"}
        /\ q[i].op = "deploy" =>
             q[i].on \in {"AllowlistFactory", "USDXFactory", "Blocklist", "USDX_Pricer"}
  BY <1>2, WhatStepsDo
<1> QED BY <1>2, <1>3, PlainReady DEF q

LEMMA PricerScriptReady == deploy_USDXPricer_local \in ReadyQueues
<1> DEFINE q == deploy_USDXPricer_local
<1>1. /\ Deploys("USDX_Pricer") \in AllSteps
      /\ Calls("managerAdmin", "USDX_Pricer", "PRICE_UPDATE_ROLE") \in AllSteps
  BY DEF Deploys, Calls, Step, AllSteps, Records, Kinds, RoleNames
<1>2. /\ q \in Seq(AllSteps) /\ DOMAIN q = 1 .. 2
      /\ q[1] = Deploys("USDX_Pricer")
      /\ q[2] = Calls("managerAdmin", "USDX_Pricer", "PRICE_UPDATE_ROLE")
  BY <1>1 DEF deploy_USDXPricer_local
<1> HIDE DEF q
<1>3. \A i \in DOMAIN q :
        /\ q[i].op \notin {"deployUSDX", "grantRole"}
        /\ q[i].op = "deploy" =>
             q[i].on \in {"AllowlistFactory", "USDXFactory", "Blocklist", "USDX_Pricer"}
  BY <1>2, WhatStepsDo
<1> QED BY <1>2, <1>3, PlainReady DEF q

\* The token is deployed with the lists the script has found.
LEMMA TokenStepsReady ==
  ASSUME NEW q \in Seq(AllSteps), DOMAIN q = 1 .. 5,
         q[1].op = "deploy" /\ q[1].on = "USDXFactory",
         q[2].op = "find" /\ q[2].on = "Blocklist",
         q[3].op = "find" /\ q[3].on = "Allowlist",
         q[4].op = "deployUSDX", q[5].op = "save"
  PROVE  q \in ReadyQueues
<1>1. FoundBefore(q, 4, {}, "Blocklist") /\ FoundBefore(q, 4, {}, "Allowlist")
  BY DEF FoundBefore
<1>2. StepReady(q, 1, {}, FALSE) /\ StepReady(q, 2, {}, FALSE) /\ StepReady(q, 3, {}, FALSE)
  BY DEF StepReady
<1>3. StepReady(q, 4, {}, FALSE) /\ StepReady(q, 5, {}, FALSE)
  BY <1>1 DEF StepReady
<1>4. \A i \in DOMAIN q : StepReady(q, i, {}, FALSE)
  <2> SUFFICES ASSUME NEW i \in DOMAIN q PROVE StepReady(q, i, {}, FALSE)
    OBVIOUS
  <2>1. i = 1 \/ i = 2 \/ i = 3 \/ i = 4 \/ i = 5
    OBVIOUS
  <2> QED BY <1>2, <1>3, <2>1
<1> QED BY <1>4 DEF ReadyQueues, QueueReady

LEMMA TokenScriptReady == deployUSDX_local \in ReadyQueues
<1> DEFINE q == deployUSDX_local
<1>1. /\ Deploys("USDXFactory") \in AllSteps /\ Finds("Blocklist") \in AllSteps
      /\ Finds("Allowlist") \in AllSteps /\ Saves("USDX") \in AllSteps
      /\ Sends("guardian", "USDXFactory", "deployUSDX") \in AllSteps
  BY DEF Deploys, Finds, Saves, Sends, Step, AllSteps, Records, Kinds, RoleNames
<1>2. /\ q \in Seq(AllSteps) /\ DOMAIN q = 1 .. 5
      /\ q[1] = Deploys("USDXFactory") /\ q[2] = Finds("Blocklist")
      /\ q[3] = Finds("Allowlist") /\ q[5] = Saves("USDX")
      /\ q[4] = Sends("guardian", "USDXFactory", "deployUSDX")
  BY <1>1 DEF deployUSDX_local
<1> HIDE DEF q
<1>3. /\ q[1].op = "deploy" /\ q[1].on = "USDXFactory"
      /\ q[2].op = "find" /\ q[2].on = "Blocklist"
      /\ q[3].op = "find" /\ q[3].on = "Allowlist"
      /\ q[4].op = "deployUSDX" /\ q[5].op = "save"
  BY <1>2, WhatStepsDo
<1>4. q \in ReadyQueues
  BY <1>2, <1>3, TokenStepsReady
<1> QED BY <1>4 DEF q

\* The manager is deployed for the token the script has found, and made its
\* minter before anything else is deployed or saved.
LEMMA ManagerStepsReady ==
  ASSUME NEW q \in Seq(AllSteps), DOMAIN q = 1 .. 10,
         q[1].op = "find" /\ q[1].on = "USDX", q[2].op = "find",
         q[3].op = "deploy" /\ q[3].on = "USDXManager", q[4].op = "find",
         q[5].op = "grantRole" /\ q[5].on = "USDX" /\ q[5].to = "USDXManager",
         \A i \in 6 .. 10 :
           \/ q[i].op = "setPricer"
           \/ /\ q[i].op = "grantRole" /\ q[i].on = "USDXManager"
              /\ q[i].role # "MINTER_ROLE" /\ q[i].to \in {"managerAdmin", "relayer"},
         q[5].role = "MINTER_ROLE"
  PROVE  q \in ReadyQueues
<1>1. FoundBefore(q, 3, {}, "USDX")
  BY DEF FoundBefore
<1>2. PairedBefore(q, 5, FALSE)
  <2>1. Calm(q, 3, 5)
    BY DEF Calm
  <2> QED BY <2>1 DEF PairedBefore
<1>3. StepReady(q, 1, {}, FALSE) /\ StepReady(q, 2, {}, FALSE) /\ StepReady(q, 4, {}, FALSE)
  BY DEF StepReady
<1>4. StepReady(q, 3, {}, FALSE)
  BY <1>1 DEF StepReady
<1>5. StepReady(q, 5, {}, FALSE)
  BY <1>2 DEF StepReady
<1>6. ASSUME NEW i \in 6 .. 10 PROVE StepReady(q, i, {}, FALSE)
  <2>1. CASE q[i].op = "setPricer"
    BY <2>1 DEF StepReady
  <2>2. CASE /\ q[i].op = "grantRole" /\ q[i].on = "USDXManager"
             /\ q[i].role # "MINTER_ROLE" /\ q[i].to \in {"managerAdmin", "relayer"}
    BY <2>2 DEF StepReady
  <2> QED BY <2>1, <2>2
<1>7. \A i \in DOMAIN q : StepReady(q, i, {}, FALSE)
  <2> SUFFICES ASSUME NEW i \in DOMAIN q PROVE StepReady(q, i, {}, FALSE)
    OBVIOUS
  <2>1. i = 1 \/ i = 2 \/ i = 3 \/ i = 4 \/ i = 5 \/ i \in 6 .. 10
    OBVIOUS
  <2> QED BY <1>3, <1>4, <1>5, <1>6, <2>1
<1> QED BY <1>7 DEF ReadyQueues, QueueReady

LEMMA TenSteps ==
  ASSUME NEW S, NEW a \in S, NEW b \in S, NEW c \in S, NEW d \in S, NEW e \in S,
         NEW f \in S, NEW g \in S, NEW h \in S, NEW k \in S, NEW l \in S,
         NEW q, q = <<a, b, c, d, e, f, g, h, k, l>>
  PROVE  /\ q \in Seq(S) /\ DOMAIN q = 1 .. 10
         /\ q[1] = a /\ q[2] = b /\ q[3] = c /\ q[4] = d /\ q[5] = e
         /\ q[6] = f /\ q[7] = g /\ q[8] = h /\ q[9] = k /\ q[10] = l
OBVIOUS

LEMMA ManagerGrants ==
  ASSUME NEW role \in RoleNames, NEW to \in Kinds, NEW on \in Records, NEW by \in Kinds
  PROVE  /\ Grants(by, on, role, to) \in AllSteps
         /\ Grants(by, on, role, to).op = "grantRole" /\ Grants(by, on, role, to).on = on
         /\ Grants(by, on, role, to).role = role /\ Grants(by, on, role, to).to = to
BY DEF Grants, Step, AllSteps

LEMMA ManagerScriptReady == deploy_USDXManager_local \in ReadyQueues
<1>1. /\ Finds("USDX") \in AllSteps /\ Finds("USDX").op = "find" /\ Finds("USDX").on = "USDX"
      /\ Finds("Blocklist") \in AllSteps /\ Finds("Blocklist").op = "find"
      /\ Finds("USDX_Pricer") \in AllSteps /\ Finds("USDX_Pricer").op = "find"
      /\ Deploys("USDXManager") \in AllSteps /\ Deploys("USDXManager").op = "deploy"
      /\ Deploys("USDXManager").on = "USDXManager"
      /\ Sends("managerAdmin", "USDXManager", "setPricer") \in AllSteps
      /\ Sends("managerAdmin", "USDXManager", "setPricer").op = "setPricer"
  BY DEF Deploys, Finds, Sends, Step, AllSteps, Records, Kinds, RoleNames
<1>2. /\ {"USDX", "USDXManager"} \subseteq Records
      /\ {"guardian", "managerAdmin", "relayer", "USDXManager"} \subseteq Kinds
      /\ {"MINTER_ROLE", "PRICE_ID_SETTER_ROLE", "TIMESTAMP_SETTER_ROLE", "PAUSER_ADMIN",
          "RELAYER_ROLE"} \subseteq RoleNames
  BY DEF Records, Kinds, RoleNames
<1>3. PICK minter, setter, stamper, pauser, relayer :
        /\ minter = Grants("guardian", "USDX", "MINTER_ROLE", "USDXManager")
        /\ setter = Grants("managerAdmin", "USDXManager", "PRICE_ID_SETTER_ROLE", "managerAdmin")
        /\ stamper = Grants("managerAdmin", "USDXManager", "TIMESTAMP_SETTER_ROLE", "managerAdmin")
        /\ pauser = Grants("managerAdmin", "USDXManager", "PAUSER_ADMIN", "managerAdmin")
        /\ relayer = Grants("managerAdmin", "USDXManager", "RELAYER_ROLE", "relayer")
  OBVIOUS
<1>4. /\ minter \in AllSteps /\ minter.op = "grantRole" /\ minter.on = "USDX"
      /\ minter.role = "MINTER_ROLE" /\ minter.to = "USDXManager"
  BY <1>2, <1>3, ManagerGrants
<1>5. ASSUME NEW step, step \in {setter, stamper, pauser, relayer}
      PROVE  /\ step \in AllSteps /\ step.op = "grantRole" /\ step.on = "USDXManager"
             /\ step.role # "MINTER_ROLE" /\ step.to \in {"managerAdmin", "relayer"}
  <2>1. PICK role \in RoleNames \ {"MINTER_ROLE"}, to \in {"managerAdmin", "relayer"} :
          step = Grants("managerAdmin", "USDXManager", role, to)
    BY <1>2, <1>3, <1>5
  <2> QED BY <1>2, <2>1, ManagerGrants
<1>6. PICK find1, find2, find4, deploy, wired :
        /\ find1 = Finds("USDX") /\ find2 = Finds("Blocklist") /\ find4 = Finds("USDX_Pricer")
        /\ deploy = Deploys("USDXManager")
        /\ wired = Sends("managerAdmin", "USDXManager", "setPricer")
  OBVIOUS
<1>7. PICK q : q = deploy_USDXManager_local
  OBVIOUS
<1>8. q = <<find1, find2, deploy, find4, minter, setter, stamper, pauser, relayer, wired>>
  BY <1>3, <1>6, <1>7, Zenon DEF deploy_USDXManager_local
<1>9. /\ q \in Seq(AllSteps) /\ DOMAIN q = 1 .. 10
      /\ q[1] = find1 /\ q[2] = find2 /\ q[3] = deploy /\ q[4] = find4 /\ q[5] = minter
      /\ q[6] = setter /\ q[7] = stamper /\ q[8] = pauser /\ q[9] = relayer /\ q[10] = wired
  <2>1. /\ find1 \in AllSteps /\ find2 \in AllSteps /\ deploy \in AllSteps /\ find4 \in AllSteps
        /\ wired \in AllSteps
    BY <1>1, <1>6
  <2>2. /\ minter \in AllSteps /\ setter \in AllSteps /\ stamper \in AllSteps
        /\ pauser \in AllSteps /\ relayer \in AllSteps
    BY <1>4, <1>5
  <2> QED BY <1>8, <2>1, <2>2, TenSteps
<1>10. \A i \in 6 .. 10 :
           \/ q[i].op = "setPricer"
           \/ /\ q[i].op = "grantRole" /\ q[i].on = "USDXManager"
              /\ q[i].role # "MINTER_ROLE" /\ q[i].to \in {"managerAdmin", "relayer"}
  <2> SUFFICES ASSUME NEW i \in 6 .. 10
               PROVE  q[i] = wired \/ q[i] \in {setter, stamper, pauser, relayer}
    BY <1>1, <1>5, <1>6
  <2> QED BY <1>9
<1>11. /\ q[1].op = "find" /\ q[1].on = "USDX" /\ q[2].op = "find"
       /\ q[3].op = "deploy" /\ q[3].on = "USDXManager" /\ q[4].op = "find"
  BY <1>1, <1>6, <1>9
<1>12. /\ q[5].op = "grantRole" /\ q[5].on = "USDX" /\ q[5].role = "MINTER_ROLE"
       /\ q[5].to = "USDXManager"
  BY <1>4, <1>9
<1>13. q \in Seq(AllSteps) /\ DOMAIN q = 1 .. 10
  BY <1>9
<1>14. q \in ReadyQueues
  BY <1>10, <1>11, <1>12, <1>13, ManagerStepsReady
<1> QED BY <1>7, <1>14

\* Whatever a tag selects, in whatever order, is ready to run.
LEMMA CommandReady ==
  ASSUME NEW tag
  PROVE  StepsOf(tag) \in ReadyQueues
<1> DEFINE seqs == [i \in DOMAIN Scheduled(tag) |-> Steps(Scheduled(tag)[i])]
<1>1. \A script \in ScriptNames : Steps(script) \in ReadyQueues
  BY AllowlistScriptReady, BlocklistScriptReady, PricerScriptReady, TokenScriptReady,
     ManagerScriptReady DEF Steps, ScriptNames
<1>2. seqs \in Seq(ReadyQueues)
  <2> DEFINE scripts == Scheduled(tag)
  <2>1. scripts \in Seq(ScriptNames)
    BY ScheduledScripts
  <2>2. DOMAIN scripts = 1 .. Len(scripts) /\ Len(scripts) \in Nat
        /\ \A i \in DOMAIN scripts : scripts[i] \in ScriptNames
    BY <2>1
  <2> HIDE DEF scripts
  <2>3. [i \in DOMAIN scripts |-> Steps(scripts[i])] \in Seq(ReadyQueues)
    BY <1>1, <2>2
  <2> QED BY <2>3 DEF scripts
<1>3. ReadyQueues \in SUBSET Seq(AllSteps)
  BY DEF ReadyQueues
<1>4. <<>> \in ReadyQueues
  <2>1. <<>> \in Seq(AllSteps) /\ DOMAIN <<>> = {}
    OBVIOUS
  <2> QED BY <2>1 DEF ReadyQueues, QueueReady
<1>5. StepsOf(tag) = FlattenSeq(seqs)
  BY DEF StepsOf
<1> HIDE DEF seqs
<1> QED BY <1>2, <1>3, <1>4, <1>5, ReadyJoined, FlattenedIn
-----------------------------------------------------------------------------
(* Every state of the deployment                                           *)

LEMMA CommandSound ==
  ASSUME ChainSound, network' = network, UNCHANGED <<chainVars, record>>,
         NEW tag, queue' = StepsOf(tag)
  PROVE  ChainSound' /\ QueueSound'
<1>1. QueueReady(StepsOf(tag), Known(record'), Paired(record', managers'))
  BY CommandReady, ReadyAnywhere
<1> QED BY <1>1, NothingHappens DEF QueueSound

LEMMA QueueKept ==
  ASSUME ChainSound, QueueSound, network' = network,
         UNCHANGED <<chainVars, record, queue>>
  PROVE  ChainSound' /\ QueueSound'
<1>1. record' = record /\ managers' = managers /\ queue' = queue
  BY DEF chainVars
<1>2. QueueSound'
  BY <1>1 DEF QueueSound
<1> QED BY <1>2, NothingHappens

LEMMA NoQueue ==
  ASSUME ChainSound, network' = network, UNCHANGED <<chainVars, record>>, queue' = <<>>
  PROVE  ChainSound' /\ QueueSound'
<1>1. <<>> \in Seq(AllSteps) /\ DOMAIN <<>> = {}
  OBVIOUS
<1>2. QueueReady(<<>>, Known(record'), Paired(record', managers'))
  BY <1>1 DEF QueueReady
<1> QED BY <1>2, NothingHappens DEF QueueSound

LEMMA LocalSound ==
  ASSUME ChainSound, QueueSound, network = "localhost", network' = network, LocalNext
  PROVE  ChainSound' /\ QueueSound'
<1>1. CASE DeployStep
  BY <1>1, DeployStepSound
<1>2. CASE DeployKilled
  <2>1. UNCHANGED <<chainVars, record>> /\ queue' = <<>>
    BY <1>2 DEF DeployKilled
  <2> QED BY <2>1, NoQueue
<1>3. ASSUME NEW tag, Deploy(tag) PROVE ChainSound' /\ QueueSound'
  <2>1. UNCHANGED <<chainVars, record>> /\ queue' = StepsOf(tag)
    BY <1>3 DEF Deploy
  <2> QED BY <2>1, CommandSound
<1>4. CASE StartCoverage \/ CoverageStep \/ CoverageLate
  <2>1. UNCHANGED <<chainVars, record, queue>>
    BY <1>4 DEF StartCoverage, CoverageStep, CoverageLate
  <2> QED BY <2>1, QueueKept
<1> QED BY <1>1, <1>2, <1>3, <1>4 DEF LocalNext

Sound == ChainSound /\ TasksSound /\ QueueSound

LEMMA InitSound ==
  ASSUME Init
  PROVE  Sound
<1>1. /\ members = <<>> /\ allowlists = <<>> /\ tokens = <<>> /\ managers = <<>>
      /\ blocklistPendingOwner = ZERO_ADDRESS /\ record = [r \in Records |-> Absent]
  BY DEF Init, InitContracts
<1>2. DOMAIN <<>> = {} /\ \A S : <<>> \in Seq(S)
  OBVIOUS
<1>3. InstancesSound
  BY <1>1, <1>2 DEF InstancesSound
<1>4. RolesSound
  BY <1>1, <1>2 DEF RolesSound
<1>5. RecordsSound
  <2>1. /\ record \in [Records -> Addresses]
        /\ \A name \in Records : record[name] = Absent /\ Absent \in Addresses
    BY <1>1, NamedAccounts
  <2> QED BY <2>1 DEF RecordsSound, RecordFits
<1>6. TasksSound
  BY <1>2 DEF TasksSound, Init, InitProduction
<1>7. QueueSound
  <2> SUFFICES ASSUME network = "localhost" PROVE QueueSound
    BY DEF QueueSound
  <2>1. queue = StepsOf("Local")
    BY DEF Init, InitLocal
  <2> QED BY <2>1, CommandReady, ReadyAnywhere DEF QueueSound
<1> QED BY <1>3, <1>4, <1>5, <1>6, <1>7 DEF Sound, ChainSound

LEMMA NextSound ==
  ASSUME Sound, [Next]_vars
  PROVE  Sound'
<1> USE DEF Sound
<1>1. CASE network = "mainnet" /\ ProductionNext /\ UNCHANGED <<localVars, network>>
  <2>1. network' = network
    BY <1>1
  <2>2. ChainSound' /\ TasksSound'
    BY <1>1, <2>1, ProductionSound
  <2> QED BY <1>1, <2>1, <2>2 DEF QueueSound
<1>2. CASE network = "localhost" /\ LocalNext /\ UNCHANGED <<scriptVars, network>>
  <2>1. network' = network
    BY <1>2
  <2>2. ChainSound' /\ QueueSound'
    BY <1>2, <2>1, LocalSound
  <2> QED BY <1>2, <2>1, <2>2 DEF TasksSound
<1>3. CASE UNCHANGED vars
  <2>1. UNCHANGED <<chainVars, record, queue, todo, pending, task, proxyRead, network>>
    BY <1>3 DEF vars, scriptVars, localVars
  <2>2. ChainSound' /\ QueueSound'
    BY <2>1, QueueKept
  <2>3. Grown
    BY <2>1, NothingHappens
  <2>4. TasksSound'
    BY <2>1, <2>3, TasksOutlast
  <2> QED BY <2>2, <2>4
<1> QED BY <1>1, <1>2, <1>3 DEF Next

LEMMA AlwaysSound == Spec => []Sound
<1>1. Init => Sound
  BY InitSound
<1>2. Sound /\ [Next]_vars => Sound'
  BY NextSound
<1> QED BY <1>1, <1>2, PTL DEF Spec
-----------------------------------------------------------------------------
(* The theorems                                                            *)

LEMMA SoundRights ==
  ASSUME Sound
  PROVE  NoStrayRights
<1> USE DEF Sound, ChainSound
<1>1. ASSUME NEW k \in DOMAIN members, NEW i \in DOMAIN members[k]
      PROVE  /\ members[k][i] \notin {Deployer, AllowlistFactory, USDXFactory, ZERO_ADDRESS}
             /\ k[2] = "MINTER_ROLE" => members[k][i][1] = "USDXManager"
  <2>1. RightSound(k[1], k[2], members[k][i], tokens, managers, network)
    BY DEF RolesSound
  <2> QED BY <2>1 DEF RightSound, Strays, IsMade, At
<1>2. \A i \in DOMAIN allowlists : allowlists[i].proxyAdminOwner = Guardian
  <2>1. \A p \in AllowlistProxies : p.proxyAdminOwner = Guardian
    BY DEF AllowlistProxies
  <2>2. \A i \in DOMAIN allowlists : allowlists[i] \in AllowlistProxies
    BY DEF InstancesSound
  <2> QED BY <2>1, <2>2
<1>3. \A i \in DOMAIN tokens : tokens[i].proxyAdminOwner = Guardian
  <2>1. \A p \in TokenProxies : p.proxyAdminOwner = Guardian
    BY DEF TokenProxies
  <2>2. \A i \in DOMAIN tokens : tokens[i] \in TokenProxies
    BY DEF InstancesSound
  <2> QED BY <2>1, <2>2
<1> QED BY <1>1, <1>2, <1>3 DEF NoStrayRights

\* However the scripts of either network are interrupted, repeated and
\* overtaken, no role stays with the deployer or with the factory that
\* initialised the contract, only managers mint, and every ProxyAdmin is the
\* guardian's.  (USDXFactory.sol:93-108, AllowlistFactory.sol:60-75)
THEOREM NothingLeftBehind == Spec => []NoStrayRights
<1>1. Sound => NoStrayRights
  BY SoundRights
<1> QED BY <1>1, AlwaysSound, PTL

\* Every token was created with lists that exist, though its proposal takes
\* them from records that may have been saved before the factory's proxy was
\* made.  (2-save-allowlist-prod.ts:9, 3-usdx-prod.ts:39)
THEOREM ListsAreReal == Spec => []TokensConsultRealLists
<1>1. Sound => TokensConsultRealLists
  <2> SUFFICES ASSUME Sound, NEW i \in DOMAIN tokens
               PROVE  /\ tokens[i].blocklist = Blocklist /\ blocklistOwner # Absent
                      /\ tokens[i].allowlist \in {At("Allowlist", n) : n \in 1..Len(allowlists)}
    BY DEF TokensConsultRealLists
  <2>1. /\ tokens[i].blocklist = Blocklist /\ blocklistOwner # Absent
        /\ IsMade(tokens[i].allowlist, "Allowlist", allowlists)
        /\ allowlists \in Seq(AllowlistProxies)
    BY DEF Sound, ChainSound, InstancesSound
  <2>2. DOMAIN allowlists = 1..Len(allowlists)
    BY <2>1
  <2> QED BY <2>1, <2>2 DEF IsMade
<1> QED BY <1>1, AlwaysSound, PTL

\* A manager is never made the minter of a token other than its own: on a
\* local node whatever commands are given and stopped, on mainnet as long as
\* there is one token.  (4_deploy_usdxManager.ts:27, 5-usdxManager-prod.ts:43)
THEOREM ManagersMintTheirToken == Spec => []MintersServeTheirToken
<1>1. Sound => MintersServeTheirToken
  <2> SUFFICES ASSUME Sound, network = "localhost" \/ Len(tokens) <= 1,
                      NEW k \in DOMAIN members, k[2] = "MINTER_ROLE",
                      NEW i \in DOMAIN members[k]
               PROVE  rwaOf(members[k][i]) = k[1]
    BY DEF MintersServeTheirToken
  <2> DEFINE holder == members[k][i]
  <2>1. /\ IsMade(k[1], "USDX", tokens) /\ IsMade(holder, "USDXManager", managers)
        /\ network = "localhost" => RwaIn(managers, holder) = k[1]
    BY DEF Sound, ChainSound, RolesSound, RightSound
  <2>2. /\ managers \in Seq(ManagerContracts) /\ tokens \in Seq(TokenProxies)
        /\ \A n \in DOMAIN managers : IsMade(managers[n].rwa, "USDX", tokens)
    BY DEF Sound, ChainSound, InstancesSound
  <2> HIDE DEF holder
  <2>3. PICK n \in DOMAIN managers : holder = At("USDXManager", n)
    BY <2>1 DEF IsMade
  <2>4. rwaOf(holder) = managers[n].rwa /\ RwaIn(managers, holder) = managers[n].rwa
    BY <2>3 DEF rwaOf, RwaIn, At
  <2>5. CASE network = "localhost"
    BY <2>1, <2>4, <2>5 DEF holder
  <2>6. CASE Len(tokens) <= 1
    <3>1. \A a, b : IsMade(a, "USDX", tokens) /\ IsMade(b, "USDX", tokens) => a = b
      <4>1. \A m, l \in DOMAIN tokens : m = l
        BY <2>2, <2>6
      <4> QED BY <4>1 DEF IsMade
    <3> QED BY <2>1, <2>2, <2>4, <3>1 DEF holder
  <2> QED BY <2>5, <2>6
<1> QED BY <1>1, AlwaysSound, PTL
-----------------------------------------------------------------------------
(* The end of the procedure                                                *)

\* Who holds the roles that the checks compare, on a contract of each kind.
AllowlistHolders(m, c) ==
  \A role \in {"DEFAULT_ADMIN_ROLE", "ALLOWLIST_ADMIN", "ALLOWLIST_SETTER"} :
    Members(m, c, role) = <<Guardian>>

TokenHolders(m, c) ==
  /\ Members(m, c, "DEFAULT_ADMIN_ROLE") = <<Guardian>>
  /\ Members(m, c, "BURNER_ROLE") = <<>>
  /\ Members(m, c, "PAUSER_ROLE") \in {<<Guardian>>, <<Guardian, Pauser>>}

ManagerHolders(m, c) ==
  /\ Members(m, c, "DEFAULT_ADMIN_ROLE") = <<Guardian>>
  /\ Members(m, c, "MANAGER_ADMIN") = <<Guardian>>
  /\ Members(m, c, "PAUSER_ADMIN") = <<Pauser>>
  /\ \A role \in {"PRICE_ID_SETTER_ROLE", "TIMESTAMP_SETTER_ROLE", "RELAYER_ROLE"} :
       Members(m, c, role) \in {<<>>, <<Guardian>>}

PricerHolders(m) ==
  \A role \in {"DEFAULT_ADMIN_ROLE", "PRICE_UPDATE_ROLE"} : Members(m, Pricer, role) = <<Guardian>>

HoldersOn(m, als, toks, mans, pricerRecord) ==
  /\ \A i \in DOMAIN als : AllowlistHolders(m, At("Allowlist", i))
  /\ \A i \in DOMAIN toks : TokenHolders(m, At("USDX", i))
  /\ \A i \in DOMAIN mans : ManagerHolders(m, At("USDXManager", i))
  /\ pricerRecord # Absent => PricerHolders(m)

\* A single token gets a single manager, the recorded one.
OneManager(m, toks, mans, recorded) ==
  Len(toks) <= 1 =>
    /\ Len(mans) <= 1
    /\ mans # <<>> => toks # <<>> /\ recorded = At("USDXManager", 1)
    /\ \A i \in DOMAIN toks :
         Members(m, At("USDX", i), "MINTER_ROLE") \in {<<>>, <<At("USDXManager", 1)>>}

HoldersAsPlanned == HoldersOn(members, allowlists, tokens, managers, record["USDX_Pricer"])

SingleManager == OneManager(members, tokens, managers, record["USDXManager"])

\* The grants the tasks propose.
Planned ==
  {p \in Requests : p.call = "grantRole" =>
     \/ p.to = ZERO_ADDRESS
     \/ p.to[1] = "USDX" /\ (p.role = "MINTER_ROLE" \/ (p.role = "PAUSER_ROLE" /\ p.args[1] = Pauser))
     \/ /\ p.to[1] = "USDXManager"
        /\ \/ p.role = "PAUSER_ROLE"
           \/ /\ p.role \in {"PRICE_ID_SETTER_ROLE", "TIMESTAMP_SETTER_ROLE", "RELAYER_ROLE",
                             "LIST_CONFIGURER_ROLE"}
              /\ p.args[1] = Guardian}

AsPlanned ==
  network = "mainnet" =>
    /\ todo \in Seq(Planned) /\ pending \in Seq(Planned)
    /\ HoldersAsPlanned /\ SingleManager

\* What the changes of roles do to the enumerations.
LEMMA OtherContracts ==
  ASSUME NEW m, NEW c, NEW roles, NEW d, d # c, NEW role
  PROVE  Members(WithRoles(m, c, roles), d, role) = Members(m, d, role)
<1>1. <<d, role>>[1] = d
  OBVIOUS
<1>2. <<d, role>> \in DOMAIN WithRoles(m, c, roles) <=> <<d, role>> \in DOMAIN m
  BY DEF WithRoles
<1>3. <<d, role>> \in DOMAIN m => WithRoles(m, c, roles)[<<d, role>>] = m[<<d, role>>]
  BY <1>1 DEF WithRoles
<1> QED BY <1>2, <1>3 DEF Members

LEMMA NewRoles ==
  ASSUME NEW m, NEW c, NEW roles, \A k \in DOMAIN m : k[1] # c, NEW role
  PROVE  Members(WithRoles(m, c, roles), c, role)
           = IF role \in DOMAIN roles THEN roles[role] ELSE <<>>
<1>1. <<c, role>>[1] = c /\ <<c, role>>[2] = role
  OBVIOUS
<1>2. <<c, role>> \in DOMAIN WithRoles(m, c, roles) <=> role \in DOMAIN roles
  BY <1>1 DEF WithRoles
<1>3. role \in DOMAIN roles => WithRoles(m, c, roles)[<<c, role>>] = roles[role]
  BY <1>1 DEF WithRoles
<1> QED BY <1>2, <1>3 DEF Members

LEMMA GrantedRole ==
  ASSUME NEW m, NEW c, NEW role, NEW account
  PROVE  /\ \A d, r : d # c \/ r # role =>
              Members(Granted(m, c, role, account), d, r) = Members(m, d, r)
         /\ Members(Granted(m, c, role, account), c, role)
              = IF HasRole(m, c, role, account) THEN Members(m, c, role)
                ELSE Append(Members(m, c, role), account)
<1>1. CASE HasRole(m, c, role, account)
  BY <1>1 DEF Granted
<1>2. CASE ~HasRole(m, c, role, account)
  <2> DEFINE n == Granted(m, c, role, account)
  <2>1. n = [k \in DOMAIN m \cup {<<c, role>>} |->
               IF k = <<c, role>> THEN Append(Members(m, c, role), account) ELSE m[k]]
    BY <1>2 DEF Granted
  <2> HIDE DEF n
  <2>2. ASSUME NEW d, NEW r, d # c \/ r # role PROVE Members(n, d, r) = Members(m, d, r)
    <3>1. <<d, r>> # <<c, role>>
      BY <2>2
    <3> QED BY <2>1, <3>1 DEF Members
  <2>3. Members(n, c, role) = Append(Members(m, c, role), account)
    BY <2>1 DEF Members
  <2> QED BY <1>2, <2>2, <2>3 DEF n
<1> QED BY <1>1, <1>2

\* Holders depend on nothing but the enumerations of the contract.
LEMMA SameHolders ==
  ASSUME NEW m, NEW n, NEW c, \A role : Members(n, c, role) = Members(m, c, role)
  PROVE  /\ AllowlistHolders(m, c) => AllowlistHolders(n, c)
         /\ TokenHolders(m, c) => TokenHolders(n, c)
         /\ ManagerHolders(m, c) => ManagerHolders(n, c)
         /\ c = Pricer /\ PricerHolders(m) => PricerHolders(n)
BY DEF AllowlistHolders, TokenHolders, ManagerHolders, PricerHolders

LEMMA KindsDiffer ==
  /\ \A i, j : At("Allowlist", i) # At("USDX", j) /\ At("Allowlist", i) # At("USDXManager", j)
  /\ \A i, j : At("USDX", i) # At("USDXManager", j)
  /\ \A i : At("Allowlist", i) # Pricer /\ At("USDX", i) # Pricer /\ At("USDXManager", i) # Pricer
  /\ \A kind, i, j : i # j => At(kind, i) # At(kind, j)
  /\ \A kind, i : At(kind, i)[1] = kind /\ At(kind, i)[2] = i
BY DEF At, Pricer

\* Contracts that exist keep their holders as long as nothing is said of them.
LEMMA HoldersOutlast ==
  ASSUME NEW m, NEW n, NEW als, NEW toks, NEW mans, NEW pr, HoldersOn(m, als, toks, mans, pr),
         \A c : Exists(c, als, toks, mans, pr) =>
           \A role : Members(n, c, role) = Members(m, c, role)
  PROVE  HoldersOn(n, als, toks, mans, pr)
<1>1. /\ \A i \in DOMAIN als : Exists(At("Allowlist", i), als, toks, mans, pr)
      /\ \A i \in DOMAIN toks : Exists(At("USDX", i), als, toks, mans, pr)
      /\ \A i \in DOMAIN mans : Exists(At("USDXManager", i), als, toks, mans, pr)
      /\ pr # Absent => Exists(Pricer, als, toks, mans, pr)
  BY DEF Exists, IsMade
<1>2. \A i \in DOMAIN als : AllowlistHolders(n, At("Allowlist", i))
  BY <1>1, SameHolders DEF HoldersOn
<1>3. \A i \in DOMAIN toks : TokenHolders(n, At("USDX", i))
  BY <1>1, SameHolders DEF HoldersOn
<1>4. \A i \in DOMAIN mans : ManagerHolders(n, At("USDXManager", i))
  BY <1>1, SameHolders DEF HoldersOn
<1>5. pr # Absent => PricerHolders(n)
  BY <1>1, SameHolders DEF HoldersOn
<1> QED BY <1>2, <1>3, <1>4, <1>5 DEF HoldersOn

\* What is made next does not exist yet.
LEMMA NextIsNew ==
  ASSUME InstancesSound
  PROVE  LET there(c) == Exists(c, allowlists, tokens, managers, record["USDX_Pricer"]) IN
           /\ ~there(At("Allowlist", Len(allowlists) + 1))
           /\ ~there(At("USDX", Len(tokens) + 1))
           /\ ~there(At("USDXManager", Len(managers) + 1))
           /\ record["USDX_Pricer"] = Absent => ~there(Pricer)
<1>1. /\ Len(allowlists) + 1 \notin DOMAIN allowlists /\ Len(tokens) + 1 \notin DOMAIN tokens
      /\ Len(managers) + 1 \notin DOMAIN managers
  BY DEF InstancesSound
<1> QED BY <1>1 DEF Exists, IsMade, At, Pricer

\* A new contract leaves the holders of the others alone.
LEMMA NewRolesApart ==
  ASSUME InstancesSound, HoldersAsPlanned, NEW c, NEW roles,
         ~Exists(c, allowlists, tokens, managers, record["USDX_Pricer"]),
         members' = WithRoles(members, c, roles)
  PROVE  HoldersOn(members', allowlists, tokens, managers, record["USDX_Pricer"])
<1>1. \A d : Exists(d, allowlists, tokens, managers, record["USDX_Pricer"]) =>
        \A role : Members(WithRoles(members, c, roles), d, role) = Members(members, d, role)
  BY OtherContracts
<1> QED BY <1>1, HoldersOutlast DEF HoldersAsPlanned

LEMMA AllowlistAsPlanned ==
  ASSUME InstancesSound, RolesSound, HoldersAsPlanned, SingleManager, record' = record,
         DeployAllowlist(Guardian, Guardian, Guardian)
  PROVE  HoldersAsPlanned' /\ SingleManager'
<1> DEFINE c == At("Allowlist", Len(allowlists) + 1)
           roles == [DEFAULT_ADMIN_ROLE |-> <<Guardian>>, ALLOWLIST_ADMIN |-> <<Guardian>>,
                     ALLOWLIST_SETTER |-> <<Guardian>>]
           e == [proxyAdminOwner |-> Guardian]
<1>1. /\ allowlists' = Append(allowlists, e) /\ members' = WithRoles(members, c, roles)
      /\ UNCHANGED <<tokens, managers>>
  BY DEF DeployAllowlist
<1>2. e \in AllowlistProxies
  BY DEF AllowlistProxies
<1>3. DOMAIN roles = {"DEFAULT_ADMIN_ROLE", "ALLOWLIST_ADMIN", "ALLOWLIST_SETTER"}
      /\ \A role \in DOMAIN roles : roles[role] = <<Guardian>>
  OBVIOUS
<1> HIDE DEF e, roles
<1>4. DOMAIN allowlists' = DOMAIN allowlists \cup {Len(allowlists) + 1}
  BY <1>1, <1>2, MadeAppended DEF InstancesSound
<1>5. AllowlistHolders(members', c)
  <2>1. \A role : Members(WithRoles(members, c, roles), c, role)
                    = IF role \in DOMAIN roles THEN roles[role] ELSE <<>>
    BY NewContract, NewRoles
  <2> QED BY <1>1, <1>3, <2>1 DEF AllowlistHolders
<1>6. HoldersOn(members', allowlists, tokens, managers, record["USDX_Pricer"])
  BY <1>1, NextIsNew, NewRolesApart
<1>7. HoldersAsPlanned'
  BY <1>1, <1>4, <1>5, <1>6 DEF HoldersAsPlanned, HoldersOn
<1>8. SingleManager'
  <2>1. \A i, role : Members(WithRoles(members, c, roles), At("USDX", i), role)
                       = Members(members, At("USDX", i), role)
    BY KindsDiffer, OtherContracts
  <2> QED BY <1>1, <2>1 DEF SingleManager, OneManager
<1> QED BY <1>7, <1>8

\* A new token has no minter, and no manager came before the first.
LEMMA TokenAsPlanned ==
  ASSUME InstancesSound, RolesSound, HoldersAsPlanned, SingleManager, record' = record,
         NEW blocklist, NEW allowlist, DeployUSDX(Guardian, blocklist, allowlist),
         blocklist = Blocklist, IsMade(allowlist, "Allowlist", allowlists)
  PROVE  HoldersAsPlanned' /\ SingleManager'
<1> DEFINE c == At("USDX", Len(tokens) + 1)
           e == [blocklist |-> blocklist, allowlist |-> allowlist, proxyAdminOwner |-> Guardian]
           roles == HandOver(Guardian)
<1>1. /\ tokens' = Append(tokens, e) /\ members' = WithRoles(members, c, roles)
      /\ UNCHANGED <<allowlists, managers>>
  BY DEF DeployUSDX
<1>2. e \in TokenProxies
  <2>1. allowlist \in Addresses
    BY MadeIsAddress DEF InstancesSound, Kinds
  <2> QED BY <2>1, NamedAccounts DEF TokenProxies
<1>3. roles = [role \in {"DEFAULT_ADMIN_ROLE", "MINTER_ROLE", "PAUSER_ROLE"} |->
                 IF role = "MINTER_ROLE" THEN <<>> ELSE <<Guardian>>]
  BY FactoryRemoved DEF HandOver
<1> HIDE DEF e, roles
<1>4. /\ DOMAIN tokens' = DOMAIN tokens \cup {Len(tokens) + 1}
      /\ Len(tokens') = Len(tokens) + 1 /\ Len(tokens) \in Nat
      /\ DOMAIN tokens = 1..Len(tokens)
  BY <1>1, <1>2, MadeAppended DEF InstancesSound
<1>5. \A role : Members(members', c, role) = IF role \in DOMAIN roles THEN roles[role] ELSE <<>>
  BY <1>1, NewContract, NewRoles
<1>6. TokenHolders(members', c)
  <2>1. /\ Members(members', c, "DEFAULT_ADMIN_ROLE") = <<Guardian>>
        /\ Members(members', c, "PAUSER_ROLE") = <<Guardian>>
        /\ Members(members', c, "BURNER_ROLE") = <<>>
    BY <1>3, <1>5
  <2> QED BY <2>1 DEF TokenHolders
<1>7. HoldersOn(members', allowlists, tokens, managers, record["USDX_Pricer"])
  BY <1>1, NextIsNew, NewRolesApart
<1>8. HoldersAsPlanned'
  BY <1>1, <1>4, <1>6, <1>7 DEF HoldersAsPlanned, HoldersOn
<1>9. SingleManager'
  <2>1. SUFFICES ASSUME Len(tokens) + 1 <= 1
                 PROVE  /\ Len(managers) <= 1 /\ managers = <<>>
                        /\ \A i \in DOMAIN tokens' : Members(members', At("USDX", i), "MINTER_ROLE") = <<>>
    BY <1>1, <1>4 DEF SingleManager, OneManager
  <2>2. Len(tokens) = 0 /\ tokens = <<>>
    BY <1>4, <2>1 DEF InstancesSound
  <2>3. managers = <<>> /\ Len(managers) <= 1
    BY <2>2 DEF SingleManager, OneManager
  <2>4. Members(members', c, "MINTER_ROLE") = <<>>
    BY <1>3, <1>5
  <2>5. \A i \in DOMAIN tokens' : At("USDX", i) = c
    BY <1>4, <2>2
  <2> QED BY <2>3, <2>4, <2>5
<1> QED BY <1>8, <1>9

\* With one token a manager is deployed once: the recorded one is for it.
LEMMA ManagerAsPlanned ==
  ASSUME InstancesSound, RolesSound, RecordsSound, HoldersAsPlanned, SingleManager,
         deploy_USDXManager
  PROVE  HoldersAsPlanned' /\ SingleManager'
<1> DEFINE n == Len(managers) + 1
           c == At("USDXManager", n)
           roles == [DEFAULT_ADMIN_ROLE |-> <<Guardian>>, MANAGER_ADMIN |-> <<Guardian>>,
                     PAUSER_ADMIN |-> <<Pauser>>]
           e == [rwa |-> USDXProxy, pricer |-> ZERO_ADDRESS]
<1>1. /\ managers' = Append(managers, e) /\ members' = WithRoles(members, c, roles)
      /\ UNCHANGED <<tokens, allowlists>>
      /\ record' = [record EXCEPT !["USDXManager"] = c]
      /\ USDXProxy # ZERO_ADDRESS /\ rwaOf(record["USDXManager"]) # USDXProxy
  BY DEF deploy_USDXManager, ConstructManager, Save
<1>2. IsMade(USDXProxy, "USDX", tokens)
  BY <1>1, LatestMade DEF USDXProxy, InstancesSound
<1>3. e \in ManagerContracts
  <2>1. USDXProxy \in Addresses
    BY <1>2, MadeIsAddress DEF InstancesSound, Kinds
  <2> QED BY <2>1, NamedAccounts DEF ManagerContracts
<1>4. /\ DOMAIN roles = {"DEFAULT_ADMIN_ROLE", "MANAGER_ADMIN", "PAUSER_ADMIN"}
      /\ roles["DEFAULT_ADMIN_ROLE"] = <<Guardian>> /\ roles["MANAGER_ADMIN"] = <<Guardian>>
      /\ roles["PAUSER_ADMIN"] = <<Pauser>>
  OBVIOUS
<1> HIDE DEF e, roles
<1>5. /\ DOMAIN managers' = DOMAIN managers \cup {n}
      /\ Len(managers') = Len(managers) + 1 /\ Len(managers) \in Nat
  BY <1>1, <1>3, MadeAppended DEF InstancesSound
<1>6. record'["USDX_Pricer"] = record["USDX_Pricer"] /\ record'["USDXManager"] = c
  BY <1>1 DEF RecordsSound, Records
<1>7. ManagerHolders(members', c)
  <2>1. \A role : Members(members', c, role) = IF role \in DOMAIN roles THEN roles[role] ELSE <<>>
    BY <1>1, NewContract, NewRoles
  <2> QED BY <1>4, <2>1 DEF ManagerHolders
<1>8. HoldersOn(members', allowlists, tokens, managers, record["USDX_Pricer"])
  BY <1>1, NextIsNew, NewRolesApart
<1> HIDE DEF c
<1>9. HoldersAsPlanned'
  BY <1>1, <1>5, <1>6, <1>7, <1>8 DEF HoldersAsPlanned, HoldersOn, c
<1>10. SingleManager'
  <2>1. SUFFICES ASSUME Len(tokens) <= 1
                 PROVE  /\ Len(managers) + 1 <= 1
                        /\ tokens # <<>> /\ c = At("USDXManager", 1)
                        /\ \A i \in DOMAIN tokens :
                             Members(members', At("USDX", i), "MINTER_ROLE")
                               \in {<<>>, <<At("USDXManager", 1)>>}
    BY <1>1, <1>5, <1>6 DEF SingleManager, OneManager
  <2>2. tokens # <<>>
    BY <1>1 DEF USDXProxy, Latest
  <2>3. managers = <<>>
    <3>1. SUFFICES ASSUME managers # <<>> PROVE FALSE
      OBVIOUS
    <3>2. record["USDXManager"] = At("USDXManager", 1) /\ 1 \in DOMAIN managers
      BY <2>1, <3>1 DEF SingleManager, OneManager, InstancesSound
    <3>3. IsMade(managers[1].rwa, "USDX", tokens) /\ rwaOf(record["USDXManager"]) = managers[1].rwa
      BY <3>2 DEF InstancesSound, rwaOf, At
    <3>4. \A i, j \in DOMAIN tokens : i = j
      BY <2>1 DEF InstancesSound
    <3> QED BY <1>1, <1>2, <3>3, <3>4 DEF IsMade
  <2>4. Len(managers) = 0 /\ c = At("USDXManager", 1)
    BY <2>3 DEF c
  <2>5. \A i : Members(members', At("USDX", i), "MINTER_ROLE")
                 = Members(members, At("USDX", i), "MINTER_ROLE")
    BY <1>1, KindsDiffer, OtherContracts DEF c
  <2> QED BY <2>1, <2>2, <2>4, <2>5 DEF SingleManager, OneManager
<1> QED BY <1>9, <1>10

LEMMA PricerAsPlanned ==
  ASSUME InstancesSound, RolesSound, RecordsSound, HoldersAsPlanned, SingleManager,
         deploy_USDXPricer
  PROVE  HoldersAsPlanned' /\ SingleManager'
<1> DEFINE roles == [DEFAULT_ADMIN_ROLE |-> <<Guardian>>, PRICE_UPDATE_ROLE |-> <<Guardian>>]
<1>1. /\ members' = WithRoles(members, Pricer, roles)
      /\ UNCHANGED <<tokens, allowlists, managers>>
      /\ record' = [record EXCEPT !["USDX_Pricer"] = Pricer] /\ record["USDX_Pricer"] = Absent
  BY DEF deploy_USDXPricer, ConstructPricer, Save, Unrecorded
<1>2. /\ DOMAIN roles = {"DEFAULT_ADMIN_ROLE", "PRICE_UPDATE_ROLE"}
      /\ \A role \in DOMAIN roles : roles[role] = <<Guardian>>
  OBVIOUS
<1> HIDE DEF roles
<1>3. record'["USDXManager"] = record["USDXManager"]
  BY <1>1 DEF RecordsSound, Records
<1>4. PricerHolders(members')
  <2>1. \A role : Members(members', Pricer, role) = IF role \in DOMAIN roles THEN roles[role] ELSE <<>>
    BY <1>1, NewContract, NewRoles
  <2> QED BY <1>2, <2>1 DEF PricerHolders
<1>5. HoldersOn(members', allowlists, tokens, managers, record["USDX_Pricer"])
  BY <1>1, NextIsNew, NewRolesApart
<1>6. HoldersAsPlanned'
  BY <1>1, <1>4, <1>5 DEF HoldersAsPlanned, HoldersOn
<1>7. SingleManager'
  <2>1. \A i : Members(members', At("USDX", i), "MINTER_ROLE")
                 = Members(members, At("USDX", i), "MINTER_ROLE")
    BY <1>1, KindsDiffer, OtherContracts
  <2> QED BY <1>1, <1>3, <2>1 DEF SingleManager, OneManager
<1> QED BY <1>6, <1>7

LEMMA PricerSetAsPlanned ==
  ASSUME InstancesSound, RolesSound, HoldersAsPlanned, SingleManager, record' = record,
         network' = network, NEW manager, NEW newPricer \in Addresses,
         SetPricer(Guardian, manager, newPricer)
  PROVE  HoldersAsPlanned' /\ SingleManager'
<1>1. /\ managers' = [managers EXCEPT ![manager[2]].pricer = newPricer]
      /\ UNCHANGED <<members, allowlists, tokens>>
  BY DEF SetPricer
<1>2. managers \in Seq(ManagerContracts) /\ managers' \in Seq(ManagerContracts)
  BY SetPricerSound DEF Goes, InstancesSound, PricerRecordKept
<1>3. DOMAIN managers' = DOMAIN managers
  BY <1>1
<1>4. Len(managers') = Len(managers) /\ (managers' = <<>> <=> managers = <<>>)
  BY <1>2, <1>3
<1> QED BY <1>1, <1>3, <1>4 DEF HoldersAsPlanned, HoldersOn, SingleManager, OneManager

LEMMA Joins ==
  ASSUME NEW a, NEW b
  PROVE  /\ Contains(<<a>>, a) /\ Contains(<<a, b>>, b)
         /\ Append(<<>>, a) = <<a>> /\ Append(<<a>>, b) = <<a, b>>
<1>1. Contains(<<a>>, a)
  <2>1. 1 \in 1..Len(<<a>>) /\ <<a>>[1] = a
    OBVIOUS
  <2> QED BY <2>1 DEF Contains
<1>2. Contains(<<a, b>>, b)
  <2>1. 2 \in 1..Len(<<a, b>>) /\ <<a, b>>[2] = b
    OBVIOUS
  <2> QED BY <2>1 DEF Contains
<1>3. Append(<<>>, a) = <<a>>
  OBVIOUS
<1>4. Append(<<a>>, b) = <<a, b>>
  <2> DEFINE S == {a, b}
             s == <<a>>
             t == Append(s, b)
  <2>1. b \in S /\ s \in Seq(S) /\ Len(s) = 1 /\ DOMAIN s = {1} /\ s[1] = a
    OBVIOUS
  <2> HIDE DEF S, s
  <2>2. t \in Seq(S) /\ t[1] = a /\ t[2] = b /\ DOMAIN t = {1, 2}
    BY <2>1, MadeAppended
  <2> HIDE DEF t
  <2>3. Len(t) = 2
    BY <2>2
  <2>4. t = <<a, b>>
    BY <2>2, <2>3
  <2> QED BY <2>4 DEF s, t
<1> QED BY <1>1, <1>2, <1>3, <1>4

\* A planned grant adds the one holder the role was for.
LEMMA GrantAsPlanned ==
  ASSUME InstancesSound, HoldersAsPlanned, SingleManager, record' = record,
         NEW p \in Planned, p.call = "grantRole",
         p.to # ZERO_ADDRESS => RightSound(p.to, p.role, p.args[1], tokens, managers, network),
         GrantRole(Guardian, p.to, p.role, p.args[1])
  PROVE  HoldersAsPlanned' /\ SingleManager'
<1> DEFINE c == p.to
           role == p.role
           account == p.args[1]
           held == Members(members, c, role)
<1>1. UNCHANGED <<allowlists, tokens, managers>>
  BY DEF GrantRole
<1>2. CASE members' = members
  BY <1>1, <1>2 DEF HoldersAsPlanned, HoldersOn, SingleManager, OneManager
<1>3. CASE members' # members
  <2>1. /\ c # ZERO_ADDRESS /\ ~HasRole(members, c, role, account)
        /\ members' = Granted(members, c, role, account)
    BY <1>3 DEF GrantRole, Granted
  <2>2. /\ \A d, r : d # c \/ r # role => Members(members', d, r) = Members(members, d, r)
        /\ Members(members', c, role) = Append(held, account)
    BY <2>1, GrantedRole
  <2>3. ~Contains(held, account)
    BY <2>1 DEF HasRole
  <2>4. \/ c[1] = "USDX" /\ (role = "MINTER_ROLE" \/ (role = "PAUSER_ROLE" /\ account = Pauser))
        \/ /\ c[1] = "USDXManager"
           /\ \/ role = "PAUSER_ROLE"
              \/ /\ role \in {"PRICE_ID_SETTER_ROLE", "TIMESTAMP_SETTER_ROLE", "RELAYER_ROLE",
                              "LIST_CONFIGURER_ROLE"}
                 /\ account = Guardian
    BY <2>1 DEF Planned
  <2>5. role = "MINTER_ROLE" => IsMade(account, "USDXManager", managers)
    BY <2>1 DEF RightSound
  <2> HIDE DEF c, role, account, held
  <2>6. ASSUME NEW i \in DOMAIN allowlists PROVE AllowlistHolders(members', At("Allowlist", i))
    <3>1. c # At("Allowlist", i)
      BY <2>4, KindsDiffer
    <3>2. AllowlistHolders(members, At("Allowlist", i))
      BY DEF HoldersAsPlanned, HoldersOn
    <3> QED BY <2>2, <3>1, <3>2 DEF AllowlistHolders
  <2>7. ASSUME NEW i \in DOMAIN tokens PROVE TokenHolders(members', At("USDX", i))
    <3>1. TokenHolders(members, At("USDX", i))
      BY DEF HoldersAsPlanned, HoldersOn
    <3>2. CASE c # At("USDX", i) \/ role = "MINTER_ROLE"
      BY <2>2, <3>1, <3>2 DEF TokenHolders
    <3>3. CASE c = At("USDX", i) /\ role # "MINTER_ROLE"
      <4>1. role = "PAUSER_ROLE" /\ account = Pauser
        BY <2>4, <3>3, KindsDiffer
      <4>2. held = <<Guardian>>
        BY <2>3, <3>1, <3>3, <4>1, Joins DEF TokenHolders, held
      <4>3. Members(members', c, "PAUSER_ROLE") = <<Guardian, Pauser>>
        BY <2>2, <4>1, <4>2, Joins
      <4> QED BY <2>2, <3>1, <3>3, <4>1, <4>3 DEF TokenHolders
    <3> QED BY <3>2, <3>3
  <2>8. ASSUME NEW i \in DOMAIN managers PROVE ManagerHolders(members', At("USDXManager", i))
    <3>1. ManagerHolders(members, At("USDXManager", i))
      BY DEF HoldersAsPlanned, HoldersOn
    <3>2. CASE c # At("USDXManager", i) \/ role \in {"PAUSER_ROLE", "LIST_CONFIGURER_ROLE"}
      BY <2>2, <3>1, <3>2 DEF ManagerHolders
    <3>3. CASE c = At("USDXManager", i) /\ role \notin {"PAUSER_ROLE", "LIST_CONFIGURER_ROLE"}
      <4>1. /\ role \in {"PRICE_ID_SETTER_ROLE", "TIMESTAMP_SETTER_ROLE", "RELAYER_ROLE"}
            /\ account = Guardian
        BY <2>4, <3>3, KindsDiffer
      <4>2. held = <<>>
        BY <2>3, <3>1, <3>3, <4>1, Joins DEF ManagerHolders, held
      <4>3. Members(members', c, role) = <<Guardian>>
        BY <2>2, <4>1, <4>2, Joins
      <4> QED BY <2>2, <3>1, <3>3, <4>1, <4>3 DEF ManagerHolders
    <3> QED BY <3>2, <3>3
  <2>9. record["USDX_Pricer"] # Absent => PricerHolders(members')
    <3>1. c # Pricer
      BY <2>4 DEF Pricer, At
    <3> QED BY <2>2, <3>1 DEF PricerHolders, HoldersAsPlanned, HoldersOn
  <2>10. HoldersAsPlanned'
    BY <1>1, <2>6, <2>7, <2>8, <2>9 DEF HoldersAsPlanned, HoldersOn
  <2>11. SingleManager'
    <3>1. SUFFICES ASSUME Len(tokens) <= 1, NEW i \in DOMAIN tokens
                   PROVE  Members(members', At("USDX", i), "MINTER_ROLE")
                            \in {<<>>, <<At("USDXManager", 1)>>}
      BY <1>1 DEF SingleManager, OneManager
    <3>2. Members(members, At("USDX", i), "MINTER_ROLE") \in {<<>>, <<At("USDXManager", 1)>>}
      BY <3>1 DEF SingleManager, OneManager
    <3>3. CASE c # At("USDX", i) \/ role # "MINTER_ROLE"
      BY <2>2, <3>2, <3>3
    <3>4. CASE c = At("USDX", i) /\ role = "MINTER_ROLE"
      <4>1. \A n \in DOMAIN managers : n = 1
        BY <3>1 DEF SingleManager, OneManager, InstancesSound
      <4>2. account = At("USDXManager", 1)
        BY <2>5, <3>4, <4>1 DEF IsMade
      <4>3. held = <<>>
        BY <2>3, <3>2, <3>4, <4>2, Joins DEF held
      <4> QED BY <2>2, <3>4, <4>2, <4>3, Joins
    <3> QED BY <3>3, <3>4
  <2> QED BY <2>10, <2>11
<1> QED BY <1>2, <1>3

\* The proposals of the tasks are the planned ones.
LEMMA GrantPlanned ==
  ASSUME NEW to \in Addresses, NEW role \in RoleNames, NEW account \in Addresses,
         \/ to = ZERO_ADDRESS
         \/ to[1] = "USDX" /\ (role = "MINTER_ROLE" \/ (role = "PAUSER_ROLE" /\ account = Pauser))
         \/ /\ to[1] = "USDXManager"
            /\ \/ role = "PAUSER_ROLE"
               \/ /\ role \in {"PRICE_ID_SETTER_ROLE", "TIMESTAMP_SETTER_ROLE", "RELAYER_ROLE",
                               "LIST_CONFIGURER_ROLE"}
                  /\ account = Guardian
  PROVE  proposeGrantRole(to, role, account) \in Planned
<1> DEFINE p == proposeGrantRole(to, role, account)
<1>1. /\ p \in Requests /\ p.to = to /\ p.call = "grantRole" /\ p.role = role
      /\ p.args = <<account>>
  BY DEF proposeGrantRole, Proposal, Requests
<1>2. p.args[1] = account
  BY <1>1
<1> HIDE DEF p
<1>3. p \in Planned
  BY <1>1, <1>2 DEF Planned
<1> QED BY <1>3 DEF p

LEMMA OthersPlanned ==
  ASSUME NEW to \in Addresses, NEW call \in {"deployAllowlist", "deployUSDX", "setPricer"},
         NEW args \in Seq(Addresses)
  PROVE  proposeFunctionCall(to, call, args) \in Planned
<1> DEFINE p == proposeFunctionCall(to, call, args)
<1>1. p \in Requests /\ p.call = call
  BY DEF proposeFunctionCall, Proposal, Requests, RoleNames
<1> HIDE DEF p
<1>2. p \in Planned
  BY <1>1 DEF Planned
<1> QED BY <1>2 DEF p

LEMMA TaskProposesPlanned ==
  ASSUME ChainSound, NEW t \in ProposingTasks, Recorded(Needs(t))
  PROVE  Proposals(t) \in Seq(Planned)
<1>1. \A name \in Records : record[name] \in Addresses
  BY DEF ChainSound, RecordsSound
<1>2. CASE t = "1-USDX-prod"
  <2> DEFINE p == proposeFunctionCall(record["AllowlistFactory"], "deployAllowlist",
                                      <<Guardian, Guardian>>)
  <2>1. p \in Planned
    <3>1. record["AllowlistFactory"] \in Addresses /\ <<Guardian, Guardian>> \in Seq(Addresses)
      BY <1>1, NamedAccounts DEF Records
    <3> QED BY <3>1, OthersPlanned
  <2> HIDE DEF p
  <2>2. <<p>> \in Seq(Planned)
    BY <2>1
  <2> QED BY <1>2, <2>2 DEF Proposals, AllowlistProposals, p
<1>3. CASE t = "3-USDX-prod"
  <2> DEFINE p == proposeFunctionCall(record["USDXFactory"], "deployUSDX",
                                      <<record["Blocklist"], record["Allowlist"]>>)
  <2>1. p \in Planned
    <3>1. /\ record["USDXFactory"] \in Addresses
          /\ <<record["Blocklist"], record["Allowlist"]>> \in Seq(Addresses)
      BY <1>1 DEF Records
    <3> QED BY <3>1, OthersPlanned
  <2> HIDE DEF p
  <2>2. <<p>> \in Seq(Planned)
    BY <2>1
  <2> QED BY <1>3, <2>2 DEF Proposals, USDXProposals, p
<1>4. CASE t = "5-USDXManager-prod"
  <2> DEFINE token == record["USDX"]
             manager == record["USDXManager"]
             p1 == proposeGrantRole(token, "MINTER_ROLE", manager)
             p2 == proposeGrantRole(token, "PAUSER_ROLE", Pauser)
             p3 == proposeFunctionCall(manager, "setPricer", <<record["USDX_Pricer"]>>)
             p4 == proposeGrantRole(manager, "PRICE_ID_SETTER_ROLE", Guardian)
             p5 == proposeGrantRole(manager, "TIMESTAMP_SETTER_ROLE", Guardian)
             p6 == proposeGrantRole(manager, "PAUSER_ROLE", Pauser)
             p7 == proposeGrantRole(manager, "LIST_CONFIGURER_ROLE", Guardian)
             p8 == proposeGrantRole(manager, "RELAYER_ROLE", Guardian)
  <2>1. token # Absent /\ manager # Absent
    BY <1>4 DEF Needs, Recorded
  <2>2. /\ token \in Addresses /\ manager \in Addresses /\ record["USDX_Pricer"] \in Addresses
        /\ token = ZERO_ADDRESS \/ IsMade(token, "USDX", tokens)
        /\ IsMade(manager, "USDXManager", managers)
    BY <1>1, <2>1 DEF ChainSound, RecordsSound, RecordFits, Records
  <2>3. token = ZERO_ADDRESS \/ token[1] = "USDX"
    BY <2>2 DEF IsMade, At
  <2>4. manager[1] = "USDXManager"
    BY <2>2 DEF IsMade, At
  <2>5. <<record["USDX_Pricer"]>> \in Seq(Addresses)
    BY <2>2
  <2>6. {"MINTER_ROLE", "PAUSER_ROLE", "PRICE_ID_SETTER_ROLE", "TIMESTAMP_SETTER_ROLE",
         "LIST_CONFIGURER_ROLE", "RELAYER_ROLE"} \subseteq RoleNames
    BY DEF RoleNames
  <2> HIDE DEF token, manager
  <2>7. p1 \in Planned /\ p2 \in Planned /\ p3 \in Planned /\ p4 \in Planned
    BY <2>2, <2>3, <2>4, <2>5, <2>6, NamedAccounts, GrantPlanned, OthersPlanned
  <2>8. p5 \in Planned /\ p6 \in Planned /\ p7 \in Planned /\ p8 \in Planned
    BY <2>2, <2>4, <2>6, NamedAccounts, GrantPlanned
  <2>9. Proposals(t) = <<p1, p2, p3, p4, p5, p6, p7, p8>>
    BY <1>4 DEF Proposals, GatewayProposals, token, manager
  <2> HIDE DEF p1, p2, p3, p4, p5, p6, p7, p8
  <2>10. <<p1, p2, p3, p4, p5, p6, p7, p8>> \in Seq(Planned)
    BY <2>7, <2>8
  <2> QED BY <2>9, <2>10
<1> QED BY <1>2, <1>3, <1>4 DEF ProposingTasks

LEMMA NothingGiven ==
  ASSUME HoldersAsPlanned, SingleManager, UNCHANGED <<members, allowlists, tokens, managers>>,
         record'["USDX_Pricer"] = record["USDX_Pricer"],
         record'["USDXManager"] = record["USDXManager"]
  PROVE  HoldersAsPlanned' /\ SingleManager'
BY DEF HoldersAsPlanned, HoldersOn, SingleManager, OneManager

LEMMA DeployScriptAsPlanned ==
  ASSUME ChainSound, HoldersAsPlanned, SingleManager, DeployScript
  PROVE  HoldersAsPlanned' /\ SingleManager'
<1>1. record \in [Records -> Addresses]
  BY DEF ChainSound, RecordsSound
<1>2. CASE deployAllowlist_Factory \/ deployBlocklist \/ deployUSDX_Factory
  <2>1. /\ UNCHANGED <<members, allowlists, tokens, managers>>
        /\ \E a : \E name \in {"AllowlistFactory", "Blocklist", "USDXFactory"} :
             record' = [record EXCEPT ![name] = a]
    BY <1>2 DEF deployAllowlist_Factory, deployBlocklist, deployUSDX_Factory,
                ConstructFactory, ConstructBlocklist, Save
  <2>2. /\ record'["USDX_Pricer"] = record["USDX_Pricer"]
        /\ record'["USDXManager"] = record["USDXManager"]
    BY <1>1, <2>1 DEF Records
  <2> QED BY <2>1, <2>2, NothingGiven
<1>3. CASE deploy_USDXManager
  BY <1>3, ManagerAsPlanned DEF ChainSound
<1>4. CASE deploy_USDXPricer
  BY <1>4, PricerAsPlanned DEF ChainSound
<1> QED BY <1>2, <1>3, <1>4 DEF DeployScript

LEMMA CarryAsPlanned ==
  ASSUME ChainSound, HoldersAsPlanned, SingleManager, network = "mainnet",
         record' = record, network' = network,
         NEW p \in SoundProposals(allowlists, tokens, managers, blocklistOwner), p \in Planned,
         Carry(p)
  PROVE  HoldersAsPlanned' /\ SingleManager'
<1>1. p \in Requests
  BY DEF SoundProposals
<1>2. CASE p.call = "deployAllowlist"
  <2>1. p.args[1] = Guardian /\ p.args[2] = Guardian
    BY <1>2 DEF SoundProposals
  <2> QED BY <1>2, <2>1, AllowlistAsPlanned DEF Carry, ChainSound
<1>3. CASE p.call = "deployUSDX"
  <2>1. /\ DeployUSDX(Guardian, p.args[1], p.args[2]) /\ p.args[1] = Blocklist
        /\ p.args[2] = ZERO_ADDRESS \/ IsMade(p.args[2], "Allowlist", allowlists)
    BY <1>3 DEF Carry, SoundProposals
  <2>2. p.args[2] # ZERO_ADDRESS
    BY <2>1 DEF DeployUSDX, ListsGiven
  <2> QED BY <2>1, <2>2, TokenAsPlanned DEF ChainSound
<1>4. CASE p.call = "setPricer"
  BY <1>4, PricerSetAsPlanned DEF Carry, ChainSound, SoundProposals
<1>5. CASE p.call = "grantRole"
  <2>1. p.to # ZERO_ADDRESS => RightSound(p.to, p.role, p.args[1], tokens, managers, network)
    BY <1>5 DEF SoundProposals
  <2>2. GrantRole(Guardian, p.to, p.role, p.args[1])
    BY <1>5 DEF Carry
  <2> QED BY <1>5, <2>1, <2>2, GrantAsPlanned DEF ChainSound
<1> QED BY <1>1, <1>2, <1>3, <1>4, <1>5 DEF Requests

LEMMA ProductionAsPlanned ==
  ASSUME Sound, AsPlanned, network = "mainnet", network' = network, ProductionNext
  PROVE  AsPlanned'
<1> USE DEF Sound
<1>1. todo \in Seq(Planned) /\ pending \in Seq(Planned) /\ HoldersAsPlanned /\ SingleManager
  BY DEF AsPlanned
<1>2. SUFFICES /\ todo' \in Seq(Planned) /\ pending' \in Seq(Planned)
               /\ HoldersAsPlanned' /\ SingleManager'
  BY DEF AsPlanned
<1>3. CASE DeployScript
  BY <1>1, <1>3, DeployScriptAsPlanned DEF DeployScript, scriptVars
<1>4. ASSUME NEW t \in ProposingTasks \cup SavingTasks, StartsWith(t)
      PROVE  /\ todo' \in Seq(Planned) /\ pending' \in Seq(Planned)
             /\ HoldersAsPlanned' /\ SingleManager'
  <2>1. UNCHANGED <<chainVars, record, pending>>
    BY <1>4 DEF StartsWith
  <2>2. todo' \in Seq(Planned)
    <3>1. CASE t \in ProposingTasks
      BY <1>4, <3>1, TaskProposesPlanned DEF StartsWith
    <3>2. CASE t \notin ProposingTasks
      BY <1>1, <1>4, <3>2 DEF StartsWith
    <3> QED BY <3>1, <3>2
  <2> QED BY <1>1, <2>1, <2>2, NothingGiven DEF chainVars
<1>5. CASE Propose \/ Interrupted
  <2>1. /\ UNCHANGED chainVars
        /\ record'["USDX_Pricer"] = record["USDX_Pricer"]
        /\ record'["USDXManager"] = record["USDXManager"]
    <3>1. UNCHANGED chainVars /\ (UNCHANGED record \/ SavesOnlyProxy)
      BY <1>5 DEF Propose, Interrupted, SavesOnlyProxy
    <3> QED BY <3>1, OneOfTwoSaved
  <2>2. todo # <<>> => Tail(todo) \in Seq(Planned) /\ Append(pending, Head(todo)) \in Seq(Planned)
    BY <1>1
  <2>3. todo' \in Seq(Planned)
    <3>1. <<>> \in Seq(Planned)
      OBVIOUS
    <3>2. todo' = <<>> \/ (todo # <<>> /\ todo' = Tail(todo))
      BY <1>5 DEF Propose, Interrupted
    <3> QED BY <2>2, <3>1, <3>2
  <2>4. pending' \in Seq(Planned)
    BY <1>1, <1>5, <2>2 DEF Propose, Interrupted, createProposal
  <2> QED BY <1>1, <2>1, <2>3, <2>4, NothingGiven DEF chainVars
<1>6. CASE SaveAllowlist \/ SaveUSDX
  <2>1. UNCHANGED <<chainVars, todo, pending>>
    BY <1>6 DEF SaveAllowlist, SaveUSDX, SavesProxy
  <2>2. /\ record'["USDX_Pricer"] = record["USDX_Pricer"]
        /\ record'["USDXManager"] = record["USDXManager"]
    BY <1>6 DEF SaveAllowlist, SaveUSDX, SavesProxy, ChainSound, RecordsSound, Records
  <2> QED BY <1>1, <2>1, <2>2, NothingGiven DEF chainVars
<1>7. ASSUME NEW i \in DOMAIN pending, SafeExecutes(i) \/ SafeRejects(i)
      PROVE  /\ todo' \in Seq(Planned) /\ pending' \in Seq(Planned)
             /\ HoldersAsPlanned' /\ SingleManager'
  <2>1. pending' = RemoveAt(pending, i) /\ UNCHANGED <<todo, record>>
    BY <1>7 DEF SafeExecutes, SafeRejects, Settle, operatorVars
  <2>2. pending' \in Seq(Planned)
    BY <1>1, <2>1, RemovedFrom
  <2>3. CASE SafeExecutes(i)
    <3>1. /\ pending[i] \in Planned
          /\ pending[i] \in SoundProposals(allowlists, tokens, managers, blocklistOwner)
      BY <1>1 DEF TasksSound
    <3>2. HoldersAsPlanned' /\ SingleManager'
      BY <1>1, <2>1, <2>3, <3>1, CarryAsPlanned DEF SafeExecutes
    <3> QED BY <1>1, <2>1, <2>2, <3>2
  <2>4. CASE SafeRejects(i)
    <3>1. UNCHANGED chainVars
      BY <2>4 DEF SafeRejects
    <3> QED BY <1>1, <2>1, <2>2, <3>1, NothingGiven DEF chainVars
  <2> QED BY <1>7, <2>3, <2>4
<1> QED BY <1>3, <1>4, <1>5, <1>6, <1>7
        DEF ProductionNext, OperatorActs, SafeActs, Start, StartAnyway

LEMMA AlwaysAsPlanned == Spec => []AsPlanned
<1>1. Init => AsPlanned
  <2> SUFFICES ASSUME Init PROVE AsPlanned
    OBVIOUS
  <2>1. /\ members = <<>> /\ allowlists = <<>> /\ tokens = <<>> /\ managers = <<>>
        /\ record = [r \in Records |-> Absent] /\ todo = <<>> /\ pending = <<>>
    BY DEF Init, InitContracts, InitProduction
  <2>2. DOMAIN <<>> = {} /\ Len(<<>>) = 0 /\ \A S : <<>> \in Seq(S)
    OBVIOUS
  <2>3. HoldersAsPlanned
    BY <2>1, <2>2 DEF HoldersAsPlanned, HoldersOn, Records
  <2>4. SingleManager
    BY <2>1, <2>2 DEF SingleManager, OneManager
  <2> QED BY <2>1, <2>2, <2>3, <2>4 DEF AsPlanned
<1>2. Sound /\ AsPlanned /\ [Next]_vars => AsPlanned'
  <2> SUFFICES ASSUME Sound, AsPlanned, [Next]_vars PROVE AsPlanned'
    OBVIOUS
  <2>1. CASE network = "mainnet" /\ ProductionNext /\ UNCHANGED <<localVars, network>>
    BY <2>1, ProductionAsPlanned
  <2>2. CASE network = "localhost" /\ LocalNext /\ UNCHANGED <<scriptVars, network>>
    BY <2>2 DEF AsPlanned
  <2>3. CASE UNCHANGED vars
    <3>1. UNCHANGED <<chainVars, record, todo, pending, network>>
      BY <2>3 DEF vars, scriptVars
    <3>2. CASE network = "mainnet"
      <4>1. HoldersAsPlanned' /\ SingleManager'
        BY <3>1, <3>2, NothingGiven DEF AsPlanned, chainVars
      <4> QED BY <3>1, <3>2, <4>1 DEF AsPlanned
    <3>3. CASE network # "mainnet"
      BY <3>1, <3>3 DEF AsPlanned
    <3> QED BY <3>2, <3>3
  <2> QED BY <2>1, <2>2, <2>3 DEF Next
<1> QED BY <1>1, <1>2, AlwaysSound, PTL DEF Spec

LEMMA GrantInEffect ==
  ASSUME NEW to, NEW role, NEW account, InEffect(proposeGrantRole(to, role, account))
  PROVE  HasRole(members, to, role, account)
<1> DEFINE p == proposeGrantRole(to, role, account)
<1>1. p.call = "grantRole" /\ p.to = to /\ p.role = role /\ p.args[1] = account
  BY DEF proposeGrantRole, Proposal
<1> HIDE DEF p
<1>2. InEffect(p) => HasRole(members, p.to, p.role, p.args[1])
  BY <1>1 DEF InEffect
<1> QED BY <1>1, <1>2 DEF p

\* When the gateway's task has nothing to propose, all it proposes is done.
LEMMA GatewayInEffect ==
  ASSUME Sound, Complete
  PROVE  LET token == record["USDX"]
             manager == record["USDXManager"]
         IN /\ HasRole(members, token, "MINTER_ROLE", manager)
            /\ HasRole(members, token, "PAUSER_ROLE", Pauser)
            /\ managers[manager[2]].pricer = record["USDX_Pricer"]
            /\ HasRole(members, manager, "PRICE_ID_SETTER_ROLE", Guardian)
            /\ HasRole(members, manager, "TIMESTAMP_SETTER_ROLE", Guardian)
            /\ HasRole(members, manager, "RELAYER_ROLE", Guardian)
<1> DEFINE t == "5-USDXManager-prod"
           token == record["USDX"]
           manager == record["USDXManager"]
           p1 == proposeGrantRole(token, "MINTER_ROLE", manager)
           p2 == proposeGrantRole(token, "PAUSER_ROLE", Pauser)
           p3 == proposeFunctionCall(manager, "setPricer", <<record["USDX_Pricer"]>>)
           p4 == proposeGrantRole(manager, "PRICE_ID_SETTER_ROLE", Guardian)
           p5 == proposeGrantRole(manager, "TIMESTAMP_SETTER_ROLE", Guardian)
           p6 == proposeGrantRole(manager, "PAUSER_ROLE", Pauser)
           p7 == proposeGrantRole(manager, "LIST_CONFIGURER_ROLE", Guardian)
           p8 == proposeGrantRole(manager, "RELAYER_ROLE", Guardian)
<1>1. ~Useful(t) /\ Recorded(Needs(t))
  <2>1. ~Useful(t)
    BY DEF Complete, ProposingTasks
  <2>2. record["USDXManager"] # Absent /\ record["USDX_Pricer"] # Absent /\ record["USDX"] # Absent
    BY DEF Complete
  <2>3. Recorded(Needs(t))
    BY <2>2 DEF Recorded, Needs
  <2> QED BY <2>1, <2>3
<1>2. \A i \in 1..Len(Proposals(t)) : InEffect(Proposals(t)[i]) \/ Contains(pending, Proposals(t)[i])
  BY <1>1 DEF Useful
<1>3. \A p : Contains(pending, p) => p.call = "deployUSDX"
  <2>1. DOMAIN pending = 1..Len(pending)
    BY DEF Sound, TasksSound, Complete
  <2> QED BY <2>1 DEF Complete, Contains
<1>4. p3.call = "setPricer" /\ p3.to = manager /\ p3.args[1] = record["USDX_Pricer"]
  BY DEF proposeFunctionCall, Proposal
<1>5. /\ p1.call = "grantRole" /\ p2.call = "grantRole" /\ p4.call = "grantRole"
      /\ p5.call = "grantRole" /\ p8.call = "grantRole"
  BY DEF proposeGrantRole, Proposal
<1>6. Proposals(t) = <<p1, p2, p3, p4, p5, p6, p7, p8>>
  BY DEF Proposals, GatewayProposals
<1> HIDE DEF t, token, manager, p1, p2, p3, p4, p5, p6, p7, p8
<1>7. /\ Len(Proposals(t)) = 8 /\ Proposals(t)[1] = p1 /\ Proposals(t)[2] = p2
      /\ Proposals(t)[3] = p3 /\ Proposals(t)[4] = p4 /\ Proposals(t)[5] = p5
      /\ Proposals(t)[8] = p8
  BY <1>6
<1>8. /\ InEffect(p1) /\ InEffect(p2) /\ InEffect(p3) /\ InEffect(p4) /\ InEffect(p5)
      /\ InEffect(p8)
  BY <1>2, <1>3, <1>4, <1>5, <1>7
<1>9. managers[manager[2]].pricer = record["USDX_Pricer"]
  <2>1. InEffect(p3) => managers[p3.to[2]].pricer = p3.args[1]
    BY <1>4 DEF InEffect
  <2> QED BY <1>4, <1>8, <2>1
<1> QED BY <1>8, <1>9, GrantInEffect DEF p1, p2, p4, p5, p8, token, manager

\* Where the procedure ends with one allowlist and one token: every record is
\* the one contract of its kind.
LEMMA CompleteRecords ==
  ASSUME Sound, AsPlanned, Complete, ProxiedOnce
  PROVE  /\ record["Allowlist"] = At("Allowlist", 1) /\ 1 \in DOMAIN allowlists
         /\ record["ProxyAdminAllowlist"] = At("ProxyAdminAllowlist", 1)
         /\ record["USDX"] = At("USDX", 1) /\ 1 \in DOMAIN tokens
         /\ record["ProxyAdminUSDX"] = At("ProxyAdminUSDX", 1)
         /\ record["USDXManager"] = At("USDXManager", 1) /\ 1 \in DOMAIN managers
         /\ managers[1].rwa = At("USDX", 1)
         /\ record["USDX_Pricer"] = Pricer /\ record["Blocklist"] = Blocklist
<1> USE DEF Sound, ChainSound
<1>1. /\ allowlists # <<>> /\ Len(allowlists) = 1 /\ 1 \in DOMAIN allowlists
      /\ tokens # <<>> /\ Len(tokens) = 1 /\ 1 \in DOMAIN tokens
  <2>1. Len(allowlists) = 1 /\ Len(tokens) = 1
    BY DEF ProxiedOnce
  <2>2. \A S : \A s \in Seq(S) : Len(s) = 1 => s # <<>> /\ 1 \in DOMAIN s
    OBVIOUS
  <2>3. allowlists \in Seq(AllowlistProxies) /\ tokens \in Seq(TokenProxies)
    BY DEF InstancesSound
  <2> QED BY <2>1, <2>2, <2>3
<1>2. /\ allowlistProxy = At("Allowlist", 1)
      /\ allowlistProxyAdmin = At("ProxyAdminAllowlist", 1)
      /\ USDXProxy = At("USDX", 1) /\ USDXProxyAdmin = At("ProxyAdminUSDX", 1)
  BY <1>1 DEF allowlistProxy, allowlistProxyAdmin, USDXProxy, USDXProxyAdmin, Latest
<1>3. At("Allowlist", 1) # ZERO_ADDRESS /\ At("USDX", 1) # ZERO_ADDRESS
  BY DEF At, ZERO_ADDRESS, EOA
<1>4. record["Allowlist"] = At("Allowlist", 1)
      /\ record["ProxyAdminAllowlist"] = At("ProxyAdminAllowlist", 1)
  <2> DEFINE t == "2-save-USDX-prod"
  <2>1. ~Useful(t) /\ Recorded(Needs(t))
    BY DEF Complete, SavingTasks, Recorded, Needs
  <2>2. ~OutOfDate("Allowlist", "ProxyAdminAllowlist", allowlistProxy, allowlistProxyAdmin)
    BY <2>1 DEF Useful
  <2> QED BY <1>2, <1>3, <2>2 DEF OutOfDate
<1>5. record["USDX"] = At("USDX", 1) /\ record["ProxyAdminUSDX"] = At("ProxyAdminUSDX", 1)
  <2> DEFINE t == "4-save-USDX-prod"
  <2>1. ~Useful(t) /\ Recorded(Needs(t))
    BY DEF Complete, SavingTasks, Recorded, Needs
  <2>2. ~OutOfDate("USDX", "ProxyAdminUSDX", USDXProxy, USDXProxyAdmin)
    BY <2>1 DEF Useful
  <2> QED BY <1>2, <1>3, <2>2 DEF OutOfDate
<1>6. /\ IsMade(record["USDXManager"], "USDXManager", managers)
      /\ record["USDX_Pricer"] = Pricer /\ record["Blocklist"] = Blocklist
  BY DEF Complete, RecordsSound, RecordFits, Records
<1>7. record["USDXManager"] = At("USDXManager", 1) /\ 1 \in DOMAIN managers
  <2>1. managers # <<>>
    BY <1>6 DEF IsMade
  <2> QED BY <1>1, <2>1 DEF AsPlanned, Complete, SingleManager, OneManager, InstancesSound
<1>8. managers[1].rwa = At("USDX", 1)
  <2>1. rwaOf(record["USDXManager"]) = managers[1].rwa
    BY <1>7 DEF rwaOf, At
  <2> QED BY <1>2, <2>1 DEF Complete
<1> QED BY <1>1, <1>4, <1>5, <1>6, <1>7, <1>8

\* At the end the holders of the roles are those of config.ts.
LEMMA CompleteHolders ==
  ASSUME Sound, AsPlanned, Complete, ProxiedOnce
  PROVE  /\ assertRoleMembers(record["Allowlist"], USDX_config.allowlist) = {}
         /\ assertRoleMembers(record["USDX_Pricer"], USDX_config.USDX_pricer) = {}
         /\ assertRoleMembers(record["USDXManager"], USDX_config.USDXManager) = {}
         /\ assertRoleMembers(record["USDX"], USDX_config.USDX) \subseteq {"LIST_CONFIGURER_ROLE"}
<1> DEFINE allowlist == At("Allowlist", 1)
           token == At("USDX", 1)
           manager == At("USDXManager", 1)
<1>1. /\ record["Allowlist"] = allowlist /\ 1 \in DOMAIN allowlists
      /\ record["USDX"] = token /\ 1 \in DOMAIN tokens
      /\ record["USDXManager"] = manager /\ 1 \in DOMAIN managers
      /\ record["USDX_Pricer"] = Pricer
  BY CompleteRecords
<1>2. HoldersAsPlanned /\ SingleManager
  BY DEF AsPlanned, Complete
<1>3. /\ AllowlistHolders(members, allowlist) /\ TokenHolders(members, token)
      /\ ManagerHolders(members, manager) /\ PricerHolders(members)
  BY <1>1, <1>2, NamedAccounts DEF HoldersAsPlanned, HoldersOn
<1>4. /\ HasRole(members, token, "MINTER_ROLE", manager)
      /\ HasRole(members, token, "PAUSER_ROLE", Pauser)
      /\ \A role \in {"PRICE_ID_SETTER_ROLE", "TIMESTAMP_SETTER_ROLE", "RELAYER_ROLE"} :
           HasRole(members, manager, role, Guardian)
  BY <1>1, GatewayInEffect
<1>5. Members(members, token, "MINTER_ROLE") \in {<<>>, <<manager>>}
  BY <1>1, <1>2 DEF SingleManager, OneManager, ProxiedOnce
<1>6. \A x : ~Contains(<<>>, x)
  BY DEF Contains
<1>7. ~Contains(<<Guardian>>, Pauser)
  <2>1. Guardian # Pauser
    BY DEF Guardian, Pauser, EOA
  <2>2. Len(<<Guardian>>) = 1 /\ <<Guardian>>[1] = Guardian
    OBVIOUS
  <2> QED BY <2>1, <2>2 DEF Contains
<1> HIDE DEF allowlist, token, manager
<1>8. assertRoleMembers(allowlist, USDX_config.allowlist) = {}
  <2>1. USDX_config.allowlist = [DEFAULT_ADMIN_ROLE |-> <<Guardian>>,
                                 ALLOWLIST_SETTER |-> <<Guardian>>,
                                 ALLOWLIST_ADMIN |-> <<Guardian>>]
    BY DEF USDX_config
  <2> QED BY <1>3, <2>1 DEF assertRoleMembers, AllowlistHolders
<1>9. assertRoleMembers(Pricer, USDX_config.USDX_pricer) = {}
  <2>1. USDX_config.USDX_pricer = [DEFAULT_ADMIN_ROLE |-> <<Guardian>>,
                                   PRICE_UPDATE_ROLE |-> <<Guardian>>]
    BY DEF USDX_config
  <2> QED BY <1>3, <2>1 DEF assertRoleMembers, PricerHolders
<1>10. assertRoleMembers(manager, USDX_config.USDXManager) = {}
  <2>1. USDX_config.USDXManager =
          [DEFAULT_ADMIN_ROLE |-> <<Guardian>>, MANAGER_ADMIN |-> <<Guardian>>,
           PAUSER_ADMIN |-> <<Pauser>>, PRICE_ID_SETTER_ROLE |-> <<Guardian>>,
           RELAYER_ROLE |-> <<Guardian>>, TIMESTAMP_SETTER_ROLE |-> <<Guardian>>]
    BY DEF USDX_config
  <2>2. \A role \in {"PRICE_ID_SETTER_ROLE", "TIMESTAMP_SETTER_ROLE", "RELAYER_ROLE"} :
          Members(members, manager, role) = <<Guardian>>
    BY <1>3, <1>4, <1>6 DEF ManagerHolders, HasRole
  <2> QED BY <1>3, <2>1, <2>2 DEF assertRoleMembers, ManagerHolders
<1>11. assertRoleMembers(token, USDX_config.USDX) \subseteq {"LIST_CONFIGURER_ROLE"}
  <2>1. USDX_config.USDX =
          [DEFAULT_ADMIN_ROLE |-> <<Guardian>>, BURNER_ROLE |-> <<>>,
           LIST_CONFIGURER_ROLE |-> <<Guardian>>, MINTER_ROLE |-> <<manager>>,
           PAUSER_ROLE |-> <<Guardian, Pauser>>]
    BY <1>1 DEF USDX_config
  <2>2. Members(members, token, "MINTER_ROLE") = <<manager>>
    BY <1>4, <1>5, <1>6 DEF HasRole
  <2>3. Members(members, token, "PAUSER_ROLE") = <<Guardian, Pauser>>
    BY <1>3, <1>4, <1>7 DEF TokenHolders, HasRole
  <2> QED BY <1>3, <2>1, <2>2, <2>3 DEF assertRoleMembers, TokenHolders
<1> QED BY <1>1, <1>8, <1>9, <1>10, <1>11

\* However the procedure was interrupted, repeated and overtaken on its way:
\* once it has come to its end with one allowlist and one token, the check-*
\* tasks print nothing but the three assertions that no deployment passes, the
\* token's LIST_CONFIGURER_ROLE and the blocklist's name and owner.
\* (assert_usdx_configuration.ts:19, assert_usdxManager_configuration.ts)
THEOREM CompletionIsVerified == Spec => []CompleteDeploymentIsVerified
<1>1. Sound /\ AsPlanned => CompleteDeploymentIsVerified
  <2> SUFFICES ASSUME Sound, AsPlanned, Complete, ProxiedOnce
               PROVE  FailedAssertions \subseteq {<<"check-USDX", "LIST_CONFIGURER_ROLE">>,
                                                  <<"check-blocklist", "name">>,
                                                  <<"check-blocklist", "owner">>}
    BY DEF CompleteDeploymentIsVerified
  <2>1. /\ record["Allowlist"] = At("Allowlist", 1) /\ 1 \in DOMAIN allowlists
        /\ record["ProxyAdminAllowlist"] = At("ProxyAdminAllowlist", 1)
        /\ record["USDX"] = At("USDX", 1) /\ 1 \in DOMAIN tokens
        /\ record["ProxyAdminUSDX"] = At("ProxyAdminUSDX", 1)
        /\ record["USDXManager"] = At("USDXManager", 1) /\ 1 \in DOMAIN managers
        /\ managers[1].rwa = At("USDX", 1)
        /\ record["USDX_Pricer"] = Pricer /\ record["Blocklist"] = Blocklist
    BY CompleteRecords
  <2>2. \A kind : At(kind, 1)[2] = 1
    BY DEF At
  <2>3. checkAllowlist = {}
    <3>1. allowlists[1].proxyAdminOwner = Guardian
      BY <2>1, SoundRights DEF NoStrayRights
    <3> QED BY <2>1, <2>2, <3>1, CompleteHolders
            DEF checkAllowlist, assertProxyAdmin, assertAgainstBlockchain
  <2>4. checkBlocklist \subseteq {"name", "owner"}
    BY DEF checkBlocklist, assertAgainstBlockchain
  <2>5. checkUSDXPricer = {}
    BY CompleteHolders DEF checkUSDXPricer
  <2>6. checkUSDXManager = {}
    <3>1. managers[1].pricer = record["USDX_Pricer"]
      BY <2>1, <2>2, GatewayInEffect
    <3> QED BY <2>1, <2>2, <3>1, CompleteHolders DEF checkUSDXManager, assertAgainstBlockchain
  <2>7. checkUSDX \subseteq {"LIST_CONFIGURER_ROLE"}
    <3>1. tokens[1].proxyAdminOwner = Guardian
      BY <2>1, SoundRights DEF NoStrayRights
    <3>2. tokens[1].blocklist = Blocklist /\ IsMade(tokens[1].allowlist, "Allowlist", allowlists)
      BY <2>1 DEF Sound, ChainSound, InstancesSound
    <3>3. tokens[1].allowlist = At("Allowlist", 1)
      <4>1. \A i \in DOMAIN allowlists : i = 1
        BY DEF ProxiedOnce, Sound, ChainSound, InstancesSound
      <4> QED BY <3>2, <4>1 DEF IsMade
    <3> QED BY <2>1, <2>2, <3>1, <3>2, <3>3, CompleteHolders
            DEF checkUSDX, assertProxyAdmin, assertAgainstBlockchain
  <2>8. /\ {"check-allowlist"} \X checkAllowlist = {}
        /\ {"check-USDX-pricer"} \X checkUSDXPricer = {}
        /\ {"check-USDX-manager"} \X checkUSDXManager = {}
    <3>1. \A a : {a} \X {} = {}
      OBVIOUS
    <3> QED BY <2>3, <2>5, <2>6, <3>1
  <2>9. /\ {"check-blocklist"} \X checkBlocklist
             \subseteq {<<"check-blocklist", "name">>, <<"check-blocklist", "owner">>}
        /\ {"check-USDX"} \X checkUSDX \subseteq {<<"check-USDX", "LIST_CONFIGURER_ROLE">>}
    <3>1. ASSUME NEW a, NEW x, NEW S, S \subseteq {x}
          PROVE  {a} \X S \subseteq {<<a, x>>}
      <4>1. S = {} \/ S = {x}
        BY <3>1
      <4>2. {a} \X {} = {} /\ {a} \X {x} = {<<a, x>>}
        OBVIOUS
      <4> QED BY <4>1, <4>2
    <3>2. {"check-blocklist"} \X checkBlocklist
            \subseteq {<<"check-blocklist", "name">>, <<"check-blocklist", "owner">>}
      <4>1. \A x \in checkBlocklist : x = "name" \/ x = "owner"
        BY <2>4
      <4> QED BY <4>1
    <3>3. {"check-USDX"} \X checkUSDX \subseteq {<<"check-USDX", "LIST_CONFIGURER_ROLE">>}
      BY <2>7, <3>1
    <3> QED BY <3>2, <3>3
  <2> QED BY <2>8, <2>9, Zenon DEF FailedAssertions
<1> QED BY <1>1, AlwaysSound, AlwaysAsPlanned, PTL
=============================================================================
