# A verification development of the USDX gateway

TLA+ specifications of the contracts in `contracts/` that carry the protocol's
own logic and of the scripts that deploy and check them, TLC configurations that
check the specifications on small instances, and theorems about them proved with
TLAPS. Paths below are relative to the repository (`RWAHub.sol:131` is
`contracts/RWAHub.sol`, line 131).

## 1. Inventory

### Components

| Component | State it keeps | Operations | Talks to |
|---|---|---|---|
| `RWAHub` (abstract) | the two counters, `depositIdToDepositor`, `redemptionIdToRedeemer`, fees, minimums, `assetSender`, `feeRecipient`, `pricer`, two pauses | request and claim subscriptions and redemptions, `addProof`, price id setters, overwrites, setters, pauses | collateral (USDC), the token, the pricer |
| `RWAHubOffChainRedemptions` (abstract) | its minimum and its pause | request a redemption serviced off chain, its setters | the token |
| `USDXManager` | `depositIdToClaimableTimestamp`, the addresses of the lists | `setClaimableTimestamp`, list setters; overrides `_claimMint` and `_checkRestrictions` | blocklist, sanctions list |
| `Pricer` | `prices`, `priceIds`, `currentPriceId`, `latestPriceId` | `addPrice`, `updatePrice` | read by the hub |
| `PricerWithOracle` | the pricer's | `addPrice`, `addLatestOraclePrice`, `updatePrice` | its oracle, called inside `addPrice` |
| `RWAOracleRateCheck` | price, time it was set | `setPrice` | - |
| `RWAOracleExternalComparisonCheck` | price, time, last Chainlink round | `setPrice` | Chainlink |
| `USDX` | balances, allowances, pause, three list addresses | transfer, mint, burn, admin burn, list setters | blocklist, allowlist, sanctions list, called by the transfer hook |
| `AllowlistUpgradeable` | terms, current and valid indexes, verifications | add and validate terms, add oneself or another by signature, set status | - |
| `Blocklist` | the blocked accounts, owner and pending owner | add, remove, transfer of ownership | - |
| `USDXFactory`, `AllowlistFactory` | the deployed addresses, the guardian | deploy, initialise and hand the roles over, multicall | proxies, token, allowlist |
| access control | roles, their members and admins | grant, revoke, renounce | all of the above |
| production deployment: `deploy/usdx/production`, `scripts/usdx/1-..5-`, `scripts/utils` | `deployments/mainnet`, the proposals in the guardian's Safe | five deploy scripts, three tasks that propose, two that save what the chain answers | the contracts, Defender, the Safe |
| verification tasks: `scripts/usdx/verification-scripts` | none; `config.ts` says what to expect | five `check-*` tasks | read the contracts |
| local deployment: `deploy/usdx/local`, `scripts/ci` | `deployments/localhost` | five scripts ordered by hardhat-deploy, the event coverage script | a local node |

The hub, its off-chain extension and the manager are one contract: one storage,
one `nonReentrant` lock.

### How a subscription and a redemption go

A user deposits (`requestSubscription`), or a relayer records a deposit made
directly to the custodian (`addProof`). A price id setter then names the price
(`setPriceIdForDeposits`), a timestamp setter the earliest claim
(`setClaimableTimestamp`), and anyone claims a batch (`claimMint`), which mints
to the depositors. A redemption burns first (`requestRedemption`), is priced
(`setPriceIdForRedemptions`) and is claimed by anyone in a batch
(`claimRedemption`), paid to the redeemers from `assetSender`. The price itself
lives in the pricer and is read at the claim. Every mint, burn and transfer of
USDX asks the three lists for everyone involved, the manager and the admin
burner included.

### How the gateway is deployed

The deployer's account deploys the two factories, the blocklist, the pricer and
the manager. Everything else is done by the guardian's Safe: the numbered tasks
only *propose* transactions (deploy the allowlist, deploy the token, eight
grants and settings), which the signers execute some day, and between them the
operator runs the tasks that read the proxies from the factories and save them
in `deployments/`. Later scripts read their addresses from there. On a local
node the scripts do it all themselves.

### What is hard

There is no concurrency inside a transaction and no transaction is half done;
what is hard is the order of transactions by different roles, and of scripts,
proposals and executions.

- **State set before or after its subject.** Claimable timestamps, price ids
  of redemptions and overwrites are accepted for ids that have not been issued;
  ids of proofs are reused. Something set for one entry must not act on another.
- **Checked then, used now.** Restrictions, prices, fees, terms and
  `assetSender` may all change between request and claim; addresses between a
  proposal and its execution.
- **One step of several failing.** A claim is a batch, and one refused mint
  refuses it all; a deployment command that throws leaves what it did before.
- **Retries and lost answers.** The relayer may resend a proof, a price setter
  repeat a call, an operator repeat a task whose proposals had arrived.
- **Two contracts in step.** The oracle has setters besides the pricer.
- **Truncation.** Fees in basis points, 6 against 18 decimals, changes in basis
  points, signed in one oracle.

### What makes each component correct

- *Hub and manager*: an entry is minted, or a burn paid, once, to whoever made
  it, for what it was made with; with a price id, and for mints a timestamp,
  chosen for that entry; a price id once chosen stays; collateral adds up; a
  restricted account moves none; no rounding profits the user.
- *Pricer*: ids dense and never reused, the latest pointer at the newest price.
- *Oracles and pricer*: one bounded move per window, in step with each other
  and with Chainlink.
- *Token and lists*: every movement passes the three lists for everyone
  involved, admin burns like any other; what was refused can be claimed once
  the refusal ends.
- *Allowlist*: an account is allowed only for terms it has agreed to, or that
  the setter placed it under.
- *Deployment*: rights end with the guardian, the pauser and the managers
  whatever goes wrong on the way; the gateway opens in the end; the checks pass.

## 2. Plan

In order of importance. All of it is done, except what section 6 leaves out;
liveness is model-checked, everything else also proved where section 5 says so.

1. `HubMath`, the arithmetic, with proofs.
2. `USDXManager`: hub, off-chain redemptions and manager as one contract,
   checked and its ledgers proved.
3. `Pricer` and `RWAOracleRateCheck`, then `PricerWithOracle`.
4. `AllowlistUpgradeable` and `USDX`: the transfer hook over three lists that
   change between calls, with the liveness of claims.
5. `RWAOracleExternalComparisonCheck` with an external Chainlink feed.
6. `Requests`, the abstract life of an entry, which `USDXManager` implements.
7. Deployment: contracts and roles, production scripts, verification tasks,
   local scripts.
8. Proofs: payouts, price ids and collateral of the manager, the refinement, the
   token, the pricer, the oracles and their comparison with Chainlink, the
   rights and references of both deployments.

## 3. Modules

| Module | Models | Kind |
|---|---|---|
| `HubMath` | `RWAHub.sol:653-721` | operators |
| `USDXManager` | `RWAHub.sol`, `RWAHubOffChainRedemptions.sol`, `usdx/USDXManager.sol` | state machine |
| `Requests` | what the hub promises of one request | abstract state machine |
| `USDXManagerRefinement` | - | refinement mappings of `USDXManager` to `Requests`, one for deposits, one for redemptions |
| `Pricer` | `Pricer.sol` | state machine with a specification of its own (`PricerSpec`) |
| `RWAOracleRateCheck`, `RWAOracleExternalComparisonCheck` | the two files of these names in `rwaOracles/` | actions and properties, composed below |
| `PricerWithOracle` | `PricerWithOracle.sol` over either oracle, and a `Pricer` without one | composition of the three above |
| `AllowlistUpgradeable` | `usdx/allowlist/AllowlistUpgradeable.sol` | actions, composed below |
| `USDX` | `usdx/USDX.sol`, its list clients, `usdx/blocklist/Blocklist.sol` | state machine |
| `DeployedContracts` | factories, role membership, ownership, constructors | actions on the chain, used by both deployments |
| `ProductionScripts` | `deploy/usdx/production`, `scripts/usdx/1-..5-`, `scripts/utils/{defender-helper,prod-subtasks}.ts` and the Safe | state machine |
| `LocalScripts` | `deploy/usdx/local`, `scripts/ci/event_coverage_usdx.ts` | state machine |
| `Verification` | `scripts/usdx/verification-scripts` | operators on the chain's state |
| `Deployment` | one network with its procedure | composition of the four above |
| `MCHubMath`, `MCUSDXManager`, `MCDeployment` | - | instances for TLC |
| `HubMath_proofs`, `MCHubMath_proofs`, `USDXManager_proofs`, `USDXManagerRefinement_proofs`, `USDX_proofs`, `Pricer_proofs`, `PricerWithOracle_proofs`, `Deployment_proofs` | - | theorems and proofs |

### Contracts

**A transaction is an action.** The EVM runs one at a time and undoes one that
reverts; so every external function is one action, its `require`s and reverts
are guards, and a reverted call is an action that is not enabled. Calls the
function makes to other contracts are part of the action.

**Roles.** Outside the deployment an action is a call by some account that holds
the role the function asks for. Role holders are not assumed to behave: the
relayer may send any proof, under a hash or under an id of the counter, given
out or not; the setters any id. The one exception is that `addProof` is not
called with the zero address as user, whereas overwrites are.
Who holds which role is the subject of `DeployedContracts`.

**Batches** are sets of ids. No successful batch depends on its order: the
elements read and write their own entries only, and the transfers add up. A
batch with a repeated id reverts, if it is a claim (the first element deletes
what the second needs), or does what a batch without the repetition does.

**Amounts, prices, fees** are natural numbers from small sets; the literals
(10_000 basis points, 1e18, 10**12) are the constants of `HubMath`, so that
small numbers exercise the truncation. Products beyond 2^256, on which the code
reverts, do not occur.

**Around the manager.** `prices` is what `pricer.getPrice` answers, and changes
by `PricerSets` (add, correct) or at once by `SetPricer`. `restricted` are the
accounts the two lists name, whoever's lists the manager is pointed at.
`tokenDenied` are those the token's hook refuses; a paused token denies
everyone. `usdc` is the net flow of collateral per account: users and
`assetSender` are taken to hold and to have approved what they move, since a
missing balance is a revert like others. USDX is transferable, so `usdxSupply`
bounds what a user can burn. That no transfer to the zero address succeeds is
the collateral's (and the token's) behaviour; this is what stops a claim for an
id without a redeemer (`Payable`), `RWAHub.sol` itself does not check it.

**Around the token.** The manager appears in `USDX` as a contract that burns
what holders approve (`BurnFrom`) and mints what is due (`ClaimMint`, one unit
per deposit, batches all or none). `increaseAllowance` and `decreaseAllowance`
are `Approve`; an infinite allowance, which is not spent, is left out. The
sanctions list is an external set. Replacing a list is modelled as pointing at
one just deployed, that is an empty one. A signature is a fact about who signed
which text: `signed` only grows and whoever wants may submit one, because
`addAccountToAllowlist` neither asks who calls nor signs over index or list.
ECDSA itself is not modelled.

**Oracles.** A deployment has one of the two, so they share their variables and
one constant stands for the `MAX_CHANGE_DIFF_BPS` of either. `chainlink` is what
`latestRoundData` answers: each new round is answered in its own round or
reports an earlier answer. The initial price of the comparison oracle is taken
to be positive. A pricer is deployed alone by the scripts (`setup = "Pricer"`);
nothing but the time and Chainlink's rounds moves by itself.

**Histories.** `depositLog` and `redemptionLog` record per id what was entered,
minted, burned and paid (`ahead` counts the proofs entered under an id that the
counter had yet to give out); `rwaPriceLog` and `answerLog` the oracle's prices and
what Chainlink said at each; `agreed` the texts an account accepted, `placed`
the statuses the setter made. No guard reads them except to bound an instance.

**`_Faulty` operators** are bugs, one per property that could hide it; no
specification uses them. Substituting one for the definition beside it makes TLC
report the property.

### Deployment

**The chain** is `members` (every role's enumeration, in order), the proxies and
managers by instance number, the blocklist's owner, and `record`, the contents
of `deployments/<network>`. `grantRole` needs the role's admin; a call to the
zero address succeeds and does nothing.

**The operator** on mainnet runs deploy scripts and tasks one at a time; a
proposing task sends its proposals one by one (`Propose`), a saving task reads
the proxy and then its admin, in two calls. He runs the first useful task by
number: one that would propose what is neither in effect nor pending, or save
what has changed, without looking whether a saved address is zero. **The Safe**
executes pending proposals; those that deploy in any order, the others, which
commute with each other, in the order proposed, which loses no outcome.

**Slips**, at most `MaxSlips`, are what goes wrong: the task dies before its next
call, or after it (a lost answer), or between the two records it saves; a task is
run too early or again; the signers reject a proposal.

**Edits the operator must make first** (`mainnet_constants.ts:9`, "To Set Before
Deployment"): `PROD_GUARDIAN_OMMF`, which a script imports and the file lacks,
is a constant set to the guardian; the artifact `USDXPricer` is taken to be
`Pricer`; that imports of `hardhat.config.ts` differ from file names in case is
overlooked.

**Locally** a command is a tag; hardhat-deploy runs the tagged scripts in the
order of their files, dependencies first, as one queue of steps. A step that
throws ends the command. The node starts with `Local` (`package.json:14`), the
developer may give more commands or stop one. The coverage script may start
while the deployment still runs, since CI only sleeps; its calls are modelled by
the roles and references they need, and its one race with the node's clock by
`CoverageLate`.

**The check tasks** are `FailedAssertions`, the set of what they would print.

## 4. Runs

| Run | Shows |
|---|---|
| `deposits` | one counter id, under which proofs may come too, one hash that may be entered twice, two price ids, two instants, batches of two: entries minted once, each mint with its own timestamp and price id, price ids final; deposits implement `Requests` |
| `redemptions` | two ids from the shared counter, each on or off chain, two asset senders, batches of two with fees: burns settled once, collateral adds up, payouts priced after the request, restricted accounts move nothing; redemptions, off-chain ones included, implement `Requests` |
| `administration` | fees, minimums, a pause and overwrites, and a proof under the subscription's id, between every two steps of a subscription and a redemption; values inside and outside their bounds: parameters in range (`TypeOK`), no subscription escapes a fee, the inductive invariant of the proofs (`LedgerInvariant`), and both freshness properties |
| `arithmetic` | conversions and fees for all amounts to 40, prices to 15, fees to 10 of 10 |
| `pricer_oracle` | a pricer alone, over the rate check and over the comparison with Chainlink; three price ids, two windows, direct moves of the oracle, corrections and Chainlink's rounds in between: 12 properties |
| `token` | two users, one within reach of the lists, three changes by administrators among any transfers, claims and burns: types, consent, lists obeyed, and due mints arriving |
| `deployment` | mainnet with one slip anywhere, and a local node with two more commands: rights, references, and both procedures reaching their end |
| `proof_ids`, `future_timestamps`, `comparison_limit`, `ignored_rounds`, `deployment_checks` | **violated**, see findings |

### Bounds and why they are enough

*Manager.* Two ids and a batch of two suffice for one entry to disturb another;
a hash entered twice (`MaxProofs`) for a second life of an id; two price ids for
a change of price id; two instants for a timestamp to lie ahead and then behind;
one counter id among the `TxHashes` for a proof before, under or after a
subscription; two asset senders for one that is replaced between request and
claim; one user and one overwrite per entry, issued or not, in `administration`,
where what matters is what is under an id and not whose it is. Each
configuration opens one part of the contract and narrows the rest, because the
parts share no state but the pauses and parameters. `redemptions` uses the
symmetry of users; its properties treat them alike and both may be listed.

*Pricer and oracles.* A window is 2 time units, so that five instants hold two
updates and a refused third. The limits are 2 and 3 of 8 basis points: a move
from 6 to 4 (2.67) is refused, though a division that rounds down would let it
through. Answers 0, 4 and 8 give an unchanged round, one beyond the sane range
and one that cannot be divided by. Three price ids hold an old, a latest and an
out-of-order price. `MaxAhead` is how far in the future an added timestamp may
lie: 0, except in `future_timestamps`. The space ends at `MaxTime`.

*Token.* Two terms with one text are what a replayed signature needs, and two
users a third party and a holder. Three changes are enough to publish and
validate a term and take one thing away; the invariants and the liveness also
hold with four (1.83 million states).

*Deployment.* One slip, so that its consequences show unmixed; the invariants
alone also hold with two. Three local commands suffice to stop one and give
another. `MaxCommands` and `MaxSlips` bound the instance. Deadlock is not checked
there: a deployment ends.

### Fairness

Only two specifications state it.

`USDX`: weak fairness of `Accepts(u)`, the user joining under a valid term, and
of `ClaimMint({u})`, a claim alone. Both are calls anyone may make who wants the
mint, so this says only that a depositor acts in his own interest; no
administrator is assumed to act. `ClaimsArrive` therefore has as its premise
that in the end the depositor and the manager are listed nowhere, the token is
not paused and some term is valid. The code justifies the rest: `addSelfToAllowlist`
accepts any valid index, and a claim needs no batch but one's own.

`Deployment`: weak fairness of the operator, of the signers, of the local
command and of the coverage script: people and processes that go on while there
is something to do. Slips and stopped commands are not forced, nor are they
excluded; `GatewayOpens` says that the procedure repairs them.

The safety runs need no fairness.

### Findings

- **`proof_ids`.** README.md:15 of the repository says each deposit is given a
  unique id, and for off-chain deposits the id is the transaction hash.
  `addProof` (`RWAHub.sol:319`) refuses a hash only while its entry is open: once
  claimed, the same hash is a new deposit. TLC's trace is enter, price, release,
  claim, enter.
- **`future_timestamps`.** The comment at `PricerWithOracle.sol:91-92` says the
  latest price is never newer than the oracle's, "so we can skip a check".
  `addPrice` takes the timestamp from its caller, the oracle from the block. If
  the caller's lies ahead, the comment is false, and `addLatestOraclePrice` then
  makes an older price the latest one. With timestamps that are not in the
  future it holds (`pricer_oracle`, and for all constants `LatestInStep`).
- **`comparison_limit`.** `RWAOracleExternalComparisonCheck.sol:126` says the
  change of the price is `< MAX_ABSOLUTE_DIFF_BPS`. Line 164 reverts for larger
  changes only, and compares what line 257 has truncated: a change of the limit
  passes, and so does one of up to a basis point more. `ComparedPricesAreBounded`
  is the limit the code does keep.
- **`ignored_rounds`.** `RWAOracleExternalComparisonCheck.sol:129-130` says a
  Chainlink price that changed too much is ignored. An answer of 0 passes for a
  round (only `answer < 0` is refused, 227), is ignored in the comparison and
  stored at 206 as the round to compare with; every later `setPrice` then
  divides by it (257) and reverts.
- **`deployment_checks`.** Carried out without any incident, the production
  procedure ends with three failing assertions of the repository's own checks:
  `LIST_CONFIGURER_ROLE` is granted on the manager, which has no such role
  (`5-usdxManager-prod.ts:134`), and not on the token (`config.ts:72`);
  `config.ts:113` expects a blocklist named "Ondo Finance Blocklist Oracle"
  where `Blocklist.sol:25` answers "X Financial Technologies Blocklist Oracle";
  and no production script hands the blocklist over (`config.ts:114`).
  `CompleteDeploymentIsVerified` shows that of what is modelled nothing else can
  fail, slips or not (and `CompletionIsVerified`, however many slips).

Two remarks that no run is about. `assert` in `scripts/utils/helpers.ts` is
`console.assert`, so a check task that prints a failure still succeeds. And the
ids of README.md:15 are not unique in another way: `addProof` takes any
`bytes32`, also a value the counter will reach, and `requestSubscription`
(`RWAHub.sol:148-153`) writes its entry without looking at what is under the id,
so that a proof entered there is lost. `deposits` and `administration` let the
relayer do this; the properties name it as the exception (`Undisturbed`), and
`UnreachedIdsAreFree` says that it is the only way in which an id still to come
can have had an entry.

## 5. Proofs

All theorems hold for every value of the constants that the named assumptions
allow: sets of natural numbers, disjoint kinds of accounts, finitely many asset
senders and transaction hashes (the ledgers are summed over them), positive
windows and denominators.

**`HubMath_proofs`.** For every amount, price and fee, a fee lies between 0 and
the amount, does not vanish from `BPS_DENOMINATOR` units on, and neither round
trip at one price gains anything; an amount split in two pays no more fees than
the whole and at most a unit less (`SplitFeeThm`). The argument is the
characterisation of truncating division (`DivFloor`, `DivUpper`, `DivLower`) and
monotonicity of multiplication. The second half is about sums over finite sets:
changing one term changes the sum by as much (`SumAddsToOne`), changing the
terms of a subset by the sum of the changes (`SumAddsInPart`). The sums are
folds, so this takes induction over the set; the library's induction theorems
have an operator as parameter, and the proofs take a smallest counterexample
instead.

**`MCHubMath_proofs`.** The three properties that the run `arithmetic` walks
through hold on every range (`RoundTripOnEveryRange`,
`ReverseRoundTripOnEveryRange`, `SplitFeesOnEveryRange`).

**`USDXManager_proofs`.** `TypeCorrect`; `LedgerCorrect`, and from it
`EntriesMintedOnce`, `BurnsSettledOnce`; the action properties
`MintsAuthorised`, `PayoutsPriced` and `PriceIdsFinal`. They take the relayer at
his word for any hash: what they say of an entry holds unless the manager
overwrote it or a proof took its id before the counter gave it out
(`Undisturbed`); `MintsAuthorised` and `PayoutsPriced` hold without exception.
`EveryEntryMintedOnce` is not inductive: a mint adds what the entry recorded to
what was claimed, and needs the entry's amount to be what was entered, that no
stale amount is left in a closed entry, that nothing was entered under an id
the counter has not reached but proofs ahead of it (`UnreachedIdsAreFree`), and
that a price id or a timestamp in storage was chosen since the
last mint. `LedgerInvariant` adds exactly these (`DepositLogsAgree`,
`RedemptionLogsAgree`). Its preservation has one lemma per action that touches a
ledger; all others leave `depositVars` and `redemptionVars` alone
(`DepositFrame`, `RedemptionFrame`). The lemmas about histories (`EnteredLog`,
`MintedLog`, ...) say what each event does to each field.

Collateral: only two calls move it (`OnlyTwoCallsMove`), a subscription and a
batch of redemption claims. The run `redemptions`, which has no subscriptions,
exercises the second; the first, the custodian's side of `CollateralAddsUp` and
the subscriber's of `RestrictedMoveNoCollateral`, rests on these proofs. `CollateralCorrect` shows that both keep the
balances equal to the sums of the ledgers: a subscription adds one entry and
pays the custodian as much, a batch adds to the entries it pays and takes the
sum from `assetSender`, wherever that points at the time.
`RestrictedMoveNothing` says that neither call touches a listed account. `FeesNotEscaped` needs that the minimum, once at
`BPS_DENOMINATOR`, never goes below it (`MinimumStays`).

**`USDXManagerRefinement_proofs`.** `DepositsImplementRequests` and
`RedemptionsImplementRequests`: initial states map to the initial state, and
every step to `Open`, `Price`, `Settle` or `Amend`, or to a stutter. That what a
step opens was not open before is where the ledger invariants are used. An
off-chain redemption maps to a request that stays open without a price: a price
id set under its id does not count as pricing it, and that no request is opened
in its place and no batch of claims pays it rests on `BurnsSettledOnce` and on
`RedemptionLogsAgree` (ids not given out are not off-chain ones). A proof ahead of the counter maps to `Amend`.

**`USDX_proofs`.** `TokenTypeCorrect`, `AllowedConsented`, `MovementsChecked`.
Consent is strengthened to every verification, of a term that is valid or not
(`VerifiedByConsent`): a term may become valid later. It is inductive because
terms are only appended, so the text under an index stays.

**`Pricer_proofs`.** `LatestIsFirstOfNewest` and `KnownPricesKept` of
`PricerSpec`, a pricer without an oracle. The invariant is that ids are dense,
the pointer at the newest and ties with the first.

**`PricerWithOracle_proofs`.** `UpdatesSpaced`, `RateCheckBounded` and
`ComparisonBounded`: every step either leaves the oracle alone or moves it once,
a window or more after its last price and within the limit of the contract at
hand (`OracleSteps`); the properties follow by adding one price to the log.
`AddedPricesBounded` says the same against the pricer's latest price, which the
oracle does not know: it is the comparison of the two in `_updateOraclePrice`
that carries the limit over. The limits rest on what a
division rounded up, and one truncated, bound (`RoundedUpWithin`,
`RoundedDownWithin`).

`ChainlinkTracked`: the invariant adds that the stored round is the one the last
price was compared with (`Compared`). Its heart is an inequality between
products: two truncated quotients that differ by at most the limit belong to
moves that differ by less than the limit and two.

`OracleTypeCorrect`, `IdsDense`, `KnownPricesKeptOverOracle`,
`LatestIsTheOracles` and `AddedPricesBounded` hold wherever timestamps lie
(`IdsInOrder`). `LatestInStep` and `FirstOfTiesStays` assume `MaxAhead = 0`:
without it they are false, the first as `future_timestamps` shows, the second
when catching up has made an older price the latest one and the newest timestamp
is then added again (four prices). That the latest price is the newest, and no
newer than the oracle's, is only inductive together (`InSync`).

**`Deployment_proofs`.** `NothingLeftBehind`, `ListsAreReal`,
`ManagersMintTheirToken` and `CompletionIsVerified`, for any number of slips and
commands. None of the four is inductive: what the Safe executes, and what a script does next, was
decided in an earlier state. The invariant has three parts.

- `ChainSound`, of the chain and the records: a token's lists, a manager's token
  and whatever holds a right exist; a record is empty, the zero address a getter
  answered too early, or names a contract that was made; no right is with the
  deployer or a factory.
- `TasksSound`, of mainnet: every proposal, sent or still to be sent, is one the
  Safe may execute in any state to come (`SoundProposals`). It is preserved
  because contracts are never unmade (`Grown`): a proposal that was harmless
  when it was made is still harmless when it is executed, in any order, twice
  or never.
- `QueueSound`, of a local node: every step of the running command finds what it
  uses in the records, and the manager made a minter is one for the recorded
  token, since no step between deploys or saves anything (`StepReady`). This is
  shown of each script by itself, and kept when scripts are joined
  (`ReadyJoined`), so it holds of whatever a tag selects, in any order; that the
  recursive functions which select and order the scripts exist and yield scripts
  is proved on the way (`RecursionExists`, `Reached`).

On mainnet `ManagersMintTheirToken` counts on a single token, as the property
says: the token of a manager and the token it is granted the role on are both
tokens that exist.

`CompletionIsVerified` compares the members of every role, in their order, with
`config.ts`. For this `AsPlanned` adds that only the grants of the tasks are
ever proposed (`Planned`); that each role compared is held by whom the
constructor gave it to, or by these and the one account of its planned grant
(`HoldersOn`); and, as long as there is one token, that there is one manager,
the recorded one, and that it is the only minter (`OneManager`): the script that
deploys managers finds the recorded one serving the factory's token. Granting
twice changes nothing, so at the end, when the tasks find their proposals in
effect (`GatewayInEffect`) and the records up to date (`CompleteRecords`), each
role has exactly the members expected. `Complete` is reached: the run
`deployment_checks` shows a state in which it holds.

**Checked by TLC only.** Liveness (`ClaimsArrive`, `GatewayOpens`,
`FreshNodeServesCoverage`), which is outside the prover's reach. Every invariant
and every action property of a run that is expected to pass is stated by a
theorem.

## 6. Not modelled

- OpenZeppelin's, Chainlink's and Chainalysis' code, proxies and upgrades of an
  implementation: third-party, used through its interface.
- The factories' `multiexcall`, an arbitrary call by the guardian; revoking and
  renouncing roles outside the factories; reverting calls made by the wrong
  account.
- `scripts/xmmf`: tasks for contracts that are not in the repository, with
  constants that are not defined.
- The verification task of the oracle, whose address is empty; constants of the
  implementations that the other tasks compare (names other than the
  blocklist's, decimals, role hashes, implementation slots), and the amounts the coverage script looks at.
- Entries in Defender's address book (`addContract`), which nothing reads.
- ECDSA, events, view helpers, gas, and arithmetic beyond 2^256.
- What an entry is worth if its price is corrected between pricing and claim,
  and whether a redemption pays a fee: no document promises anything.
