----------------------------- MODULE USDXManager -----------------------------
(***************************************************************************)
(* The gateway of the USDX token: USDXManager.sol with the two abstract    *)
(* contracts it inherits from, RWAHubOffChainRedemptions.sol and           *)
(* RWAHub.sol.  They are one contract with one storage, so they are one    *)
(* module.                                                                 *)
(*                                                                         *)
(* Every external function is one action: an Ethereum transaction is       *)
(* atomic, `nonReentrant` keeps the calls to the tokens from coming back,  *)
(* and a transaction that reverts changes nothing, so a revert is an       *)
(* action that is not enabled.  The caller's role is left to the access    *)
(* control of the contract: an action is a call by an account that holds   *)
(* the role the function asks for.                                         *)
(*                                                                         *)
(* A batch is a set of ids.  No successful call depends on their order,    *)
(* and one that names an id twice either reverts (the first claim deletes  *)
(* what the second needs) or repeats itself.                               *)
(*                                                                         *)
(* Around the contract: `prices` is what pricer.getPrice answers, 0 where  *)
(* the priceId is undefined; `restricted` the accounts on the blocklist or *)
(* the sanctions list the manager consults; `tokenDenied` the accounts     *)
(* USDX refuses to move tokens for (its own lists, or its pause); `usdc`   *)
(* the net flow of collateral of every account since deployment, and       *)
(* `usdxSupply` the total supply of USDX.  Who holds the USDX is left      *)
(* open: it is transferable, so any account may hold all of it.            *)
(*                                                                         *)
(* depositLog and redemptionLog are history variables: they record what    *)
(* was done for an id and no action reads them, the bounds apart.          *)
(***************************************************************************)
EXTENDS HubMath, FiniteSets, FiniteSetsExt

CONSTANTS
  Users, NoUser,             \* accounts, and address(0)
  TxHashes,                  \* ids proofs are entered under (addProof): hashes of
                             \* transactions, or any value, one of the counter's too
  assetRecipient,            \* the custodian's deposit address
  AssetSenders,              \* addresses redemptions may be paid from
  FeeRecipients,             \* addresses fees may be paid to
  Amounts, RwaAmounts,       \* amounts of collateral and of USDX passed in
  FeeChoices, MinimumChoices,\* values passed to the setters
  PriceValues,               \* prices a pricer may answer
  InitialMinimumDeposit, InitialMinimumRedemption, \* constructor arguments
  InitialSupply              \* USDX issued before the manager was deployed

CONSTANTS \* bounds of an instance
  MaxDeposits, MaxRedemptions,  \* counter ids issued
  MaxProofs,                    \* entries made under an id of a proof
  MaxOverwrites,                \* overwrites of one entry
  MaxPriceId, MaxTime, MaxBatch,
  PausableFeatures,             \* the features that may be paused
  Listable                      \* the accounts that may be listed

CounterDepositIds == 1 .. MaxDeposits
DepositIds == CounterDepositIds \cup TxHashes
RedemptionIds == 1 .. MaxRedemptions
PriceIds == 1 .. MaxPriceId
Accounts == Users \cup AssetSenders \cup FeeRecipients \cup {assetRecipient}
Features == {"subscription", "redemption", "offChainRedemption"}

ASSUME ManagerAssumption ==
  /\ NoUser \notin Users
  /\ IsFiniteSet(TxHashes)
  /\ AssetSenders # {} /\ IsFiniteSet(AssetSenders) /\ FeeRecipients # {}
  /\ AssetSenders \cap FeeRecipients = {}
  /\ assetRecipient \notin AssetSenders \cup FeeRecipients
  /\ Users \cap (AssetSenders \cup FeeRecipients \cup {assetRecipient}) = {}
  /\ Amounts \subseteq Nat /\ RwaAmounts \subseteq Nat
  /\ FeeChoices \subseteq Nat /\ MinimumChoices \subseteq Nat
  /\ PriceValues \subseteq Nat \ {0}
  /\ {InitialMinimumDeposit, InitialMinimumRedemption, InitialSupply,
      MaxDeposits, MaxRedemptions, MaxProofs, MaxOverwrites,
      MaxPriceId, MaxTime, MaxBatch} \subseteq Nat
  /\ PausableFeatures \subseteq Features
  /\ Listable \subseteq Users

VARIABLES
  subscriptionRequestCounter, depositIdToDepositor, depositIdToClaimableTimestamp,
  redemptionRequestCounter, redemptionIdToRedeemer,
  paused,                       \* the features that are paused
  mintFee, redemptionFee, minimumDepositAmount, minimumRedemptionAmount,
  minimumOffChainRedemptionAmount, feeRecipient, assetSender,
  usdc, usdxSupply,
  now, prices, restricted, tokenDenied,
  depositLog, redemptionLog

depositVars == <<subscriptionRequestCounter, depositIdToDepositor,
                 depositIdToClaimableTimestamp, depositLog>>
redemptionVars == <<redemptionRequestCounter, redemptionIdToRedeemer, redemptionLog>>
parameterVars == <<mintFee, redemptionFee, minimumDepositAmount,
                   minimumRedemptionAmount, minimumOffChainRedemptionAmount,
                   feeRecipient, assetSender>>
tokenVars == <<usdc, usdxSupply>>
worldVars == <<now, prices, restricted, tokenDenied>>
vars == <<depositVars, redemptionVars, paused, parameterVars, tokenVars, worldVars>>

Depositor(user, amount, priceId) ==
  [user |-> user, amountDepositedMinusFees |-> amount, priceId |-> priceId]
Redeemer(user, amount, priceId) ==
  [user |-> user, amountRwaTokenBurned |-> amount, priceId |-> priceId]

\* What `delete` leaves in a mapping.
NoDepositor == Depositor(NoUser, 0, 0)
NoRedeemer == Redeemer(NoUser, 0, 0)

\* History of a deposit id: entries made and their collateral, how much of it
\* was paid in by subscription, mints claimed and the collateral they were
\* for, who made the last entry, whether a priceId was chosen for it, and a
\* claimable timestamp set, since the last mint; how often the manager
\* overwrote it, and a proof was entered ahead of the counter.
NoDepositLog == [entries |-> 0, entered |-> 0, subscribed |-> 0, mints |-> 0,
                 claimed |-> 0, depositor |-> NoUser, priced |-> FALSE,
                 armed |-> FALSE, overwrites |-> 0, ahead |-> 0]

\* History of a redemption id: USDX burned for it and settled, payouts made
\* and the collateral they cost before fees, who made the request, whether it
\* is serviced off chain, whether a priceId was chosen since the request.
NoRedemptionLog == [burned |-> 0, settled |-> 0, payouts |-> 0, paid |-> 0,
                    redeemer |-> NoUser, offChain |-> FALSE, priced |-> FALSE,
                    overwrites |-> 0]

\* What each event adds to a history.
Entered(log, user, amount, paidIn, ahead) ==
  [log EXCEPT !.entries = @ + 1, !.entered = @ + amount,
              !.subscribed = @ + paidIn, !.ahead = @ + ahead,
              !.depositor = user, !.priced = FALSE]
Minted(log, amount) ==
  [log EXCEPT !.mints = @ + 1, !.claimed = @ + amount,
              !.priced = FALSE, !.armed = FALSE]
Requested(log, user, amount) ==
  [log EXCEPT !.burned = amount, !.redeemer = user, !.priced = FALSE]
RequestedOffChain(log, user, amount) ==
  [log EXCEPT !.burned = amount, !.redeemer = user, !.offChain = TRUE]
PaidOut(log, amount, due) ==
  [log EXCEPT !.settled = @ + amount, !.payouts = @ + 1, !.paid = @ + due,
              !.priced = FALSE]
Priced(log, priceId) == [log EXCEPT !.priced = (priceId # 0)]
Armed(log) == [log EXCEPT !.armed = TRUE]
Overwritten(log, priceId) ==
  [log EXCEPT !.overwrites = @ + 1, !.priced = (priceId # 0)]

Batches(ids) == {B \in SUBSET ids : B # {} /\ Cardinality(B) <= MaxBatch}

\* Balances after a transfer of collateral.
Moved(balances, from, to, amount) ==
  LET debited == [balances EXCEPT ![from] = @ - amount]
  IN  [debited EXCEPT ![to] = @ + amount]

getPrice(priceId) == IF priceId \in PriceIds THEN prices[priceId] ELSE 0
-----------------------------------------------------------------------------
Init ==
  /\ subscriptionRequestCounter = 1
  /\ redemptionRequestCounter = 1
  /\ depositIdToDepositor = [id \in DepositIds |-> NoDepositor]
  /\ depositIdToClaimableTimestamp = [id \in DepositIds |-> 0]
  /\ redemptionIdToRedeemer = [id \in RedemptionIds |-> NoRedeemer]
  /\ paused = {}
  /\ mintFee = 0 /\ redemptionFee = 0
  /\ minimumDepositAmount = InitialMinimumDeposit
  /\ minimumRedemptionAmount = InitialMinimumRedemption
  /\ minimumOffChainRedemptionAmount = InitialMinimumRedemption
  /\ feeRecipient \in FeeRecipients
  /\ assetSender \in AssetSenders
  /\ usdc = [a \in Accounts |-> 0]
  /\ usdxSupply = InitialSupply
  /\ now = 1
  /\ prices = [p \in PriceIds |-> 0]
  /\ restricted = {} /\ tokenDenied = {}
  /\ depositLog = [id \in DepositIds |-> NoDepositLog]
  /\ redemptionLog = [id \in RedemptionIds |-> NoRedemptionLog]
-----------------------------------------------------------------------------
(* Subscriptions                                                           *)

\* Faulty variants (names with _Faulty) stand beside the definitions they
\* spoil.  No specification uses them: they show that the properties below
\* notice the bug each one describes.

\* The entry keeps the priceId that was under the id.
EnterDeposit_FaultyKeepsPriceId(id, user, depositAmountAfterFee) ==
  depositIdToDepositor' =
    [depositIdToDepositor EXCEPT ![id] =
       Depositor(user, depositAmountAfterFee, depositIdToDepositor[id].priceId)]

\* The storage a new entry fills in; whatever was under the id is replaced.
EnterDeposit(id, user, depositAmountAfterFee) ==
  depositIdToDepositor' =
    [depositIdToDepositor EXCEPT ![id] = Depositor(user, depositAmountAfterFee, 0)]

TakeSubscriptionId == subscriptionRequestCounter' = subscriptionRequestCounter + 1

\* Balances after a subscription: the fee to feeRecipient, the rest to the
\* custodian.
Collected(user, feesInCollateral, depositAmountAfterFee) ==
  Moved(Moved(usdc, user, feeRecipient, feesInCollateral),
        user, assetRecipient, depositAmountAfterFee)

RequestSubscription(user, amount) ==
  LET feesInCollateral == getMintFees(amount, mintFee)
      depositAmountAfterFee == amount - feesInCollateral
      id == subscriptionRequestCounter
  IN
  /\ subscriptionRequestCounter <= MaxDeposits
  /\ "subscription" \notin paused
  /\ user \notin restricted
  /\ amount >= minimumDepositAmount
  /\ TakeSubscriptionId
  /\ EnterDeposit(id, user, depositAmountAfterFee)
  /\ depositLog' = [depositLog EXCEPT ![id] =
                      Entered(depositLog[id], user, depositAmountAfterFee,
                              depositAmountAfterFee, 0)]
  /\ usdc' = Collected(user, feesInCollateral, depositAmountAfterFee)
  /\ UNCHANGED <<depositIdToClaimableTimestamp, redemptionVars, paused,
                 parameterVars, usdxSupply, worldVars>>

Provable_FaultyUnchecked(txHash) == TRUE

\* The proof of a deposit is refused only while an entry is open for it.
Provable(txHash) == depositIdToDepositor[txHash].user = NoUser

\* Ids the counter has not reached are the relayer's to take as well: the
\* subscription that reaches one replaces the proof.
AheadOfCounter(txHash) ==
  txHash \in CounterDepositIds /\ txHash >= subscriptionRequestCounter

AddProof(txHash, user, depositAmountAfterFee) ==
  /\ depositLog[txHash].entries < MaxProofs
  /\ user \notin restricted
  /\ Provable(txHash)
  /\ EnterDeposit(txHash, user, depositAmountAfterFee)
  /\ depositLog' = [depositLog EXCEPT ![txHash] =
                      Entered(depositLog[txHash], user, depositAmountAfterFee, 0,
                              IF AheadOfCounter(txHash) THEN 1 ELSE 0)]
  /\ UNCHANGED <<subscriptionRequestCounter, depositIdToClaimableTimestamp,
                 redemptionVars, paused, parameterVars, tokenVars, worldVars>>

DepositPriceable_FaultyReprices(id) == depositIdToDepositor[id].user # NoUser

DepositPriceable(id) == /\ depositIdToDepositor[id].user # NoUser
                        /\ depositIdToDepositor[id].priceId = 0

\* priceIds maps the deposit ids of the batch to priceIds; 0 changes nothing.
SetPriceIdForDeposits(ids, priceIds) ==
  /\ \A id \in ids : DepositPriceable(id)
  /\ depositIdToDepositor' =
       [id \in DepositIds |->
          IF id \in ids THEN [depositIdToDepositor[id] EXCEPT !.priceId = priceIds[id]]
                        ELSE depositIdToDepositor[id]]
  /\ depositLog' =
       [id \in DepositIds |->
          IF id \in ids THEN Priced(depositLog[id], priceIds[id]) ELSE depositLog[id]]
  /\ UNCHANGED <<subscriptionRequestCounter, depositIdToClaimableTimestamp,
                 redemptionVars, paused, parameterVars, tokenVars, worldVars>>

\* The ids need not have an entry yet.
SetClaimableTimestamp(claimTimestamp, ids) ==
  /\ claimTimestamp >= now
  /\ depositIdToClaimableTimestamp' =
       [id \in DepositIds |->
          IF id \in ids THEN claimTimestamp ELSE depositIdToClaimableTimestamp[id]]
  /\ depositLog' =
       [id \in DepositIds |->
          IF id \in ids THEN Armed(depositLog[id]) ELSE depositLog[id]]
  /\ UNCHANGED <<subscriptionRequestCounter, depositIdToDepositor,
                 redemptionVars, paused, parameterVars, tokenVars, worldVars>>

\* USDXManager's checks, then RWAHub's; the last two conjuncts are what
\* division by the price and USDX itself (no mint to the zero address, the
\* transfer hook) demand.
Mintable(id) ==
  LET depositor == depositIdToDepositor[id] IN
  /\ depositIdToClaimableTimestamp[id] # 0
  /\ depositIdToClaimableTimestamp[id] <= now
  /\ depositor.priceId # 0
  /\ getPrice(depositor.priceId) # 0
  /\ depositor.user \notin tokenDenied \cup {NoUser}

rwaOwed(id) ==
  getMintAmountForPrice(depositIdToDepositor[id].amountDepositedMinusFees,
                        getPrice(depositIdToDepositor[id].priceId))

\* The claimable timestamp outlives the claim.
CloseDeposits_FaultyKeepsTimestamp(ids) ==
  /\ depositIdToDepositor' =
       [id \in DepositIds |-> IF id \in ids THEN NoDepositor ELSE depositIdToDepositor[id]]
  /\ UNCHANGED depositIdToClaimableTimestamp

\* Claiming deletes the entry and its claimable timestamp.
CloseDeposits(ids) ==
  /\ depositIdToDepositor' =
       [id \in DepositIds |-> IF id \in ids THEN NoDepositor ELSE depositIdToDepositor[id]]
  /\ depositIdToClaimableTimestamp' =
       [id \in DepositIds |-> IF id \in ids THEN 0 ELSE depositIdToClaimableTimestamp[id]]

\* Anyone may claim; the token goes to the depositor.
ClaimMint(ids) ==
  /\ "subscription" \notin paused
  /\ \A id \in ids : Mintable(id)
  /\ CloseDeposits(ids)
  /\ usdxSupply' = usdxSupply + SumFunction([id \in ids |-> rwaOwed(id)])
  /\ depositLog' =
       [id \in DepositIds |->
          IF id \in ids
            THEN Minted(depositLog[id], depositIdToDepositor[id].amountDepositedMinusFees)
            ELSE depositLog[id]]
  /\ UNCHANGED <<subscriptionRequestCounter, redemptionVars, paused,
                 parameterVars, usdc, worldVars>>

\* Any id, existing or not; the zero address is not restricted, so an entry
\* can be cancelled this way.
OverwriteDepositor(id, user, depositAmountAfterFee, priceId) ==
  /\ depositLog[id].overwrites < MaxOverwrites
  /\ user \notin restricted
  /\ depositIdToDepositor' =
       [depositIdToDepositor EXCEPT ![id] =
          Depositor(user, depositAmountAfterFee, priceId)]
  /\ depositLog' = [depositLog EXCEPT ![id] =
                      Overwritten(depositLog[id], priceId)]
  /\ UNCHANGED <<subscriptionRequestCounter, depositIdToClaimableTimestamp,
                 redemptionVars, paused, parameterVars, tokenVars, worldVars>>
-----------------------------------------------------------------------------
(* Redemptions                                                             *)

\* rwa.burnFrom: the transfer hook of USDX (USDX.sol:74-105) and the holder's
\* balance.
Burnable(user, amount) == user \notin tokenDenied /\ amount <= usdxSupply

TakeRedemptionId == redemptionRequestCounter' = redemptionRequestCounter + 1

EnterRedemption_FaultyKeepsPriceId(id, user, amount) ==
  redemptionIdToRedeemer' =
    [redemptionIdToRedeemer EXCEPT ![id] =
       Redeemer(user, amount, redemptionIdToRedeemer[id].priceId)]

\* Replaces whatever was under the id, a priceId set ahead of time included.
EnterRedemption(id, user, amount) ==
  redemptionIdToRedeemer' =
    [redemptionIdToRedeemer EXCEPT ![id] = Redeemer(user, amount, 0)]

RequestRedemption(user, amount) ==
  LET id == redemptionRequestCounter IN
  /\ redemptionRequestCounter <= MaxRedemptions
  /\ "redemption" \notin paused
  /\ amount >= minimumRedemptionAmount
  /\ Burnable(user, amount)
  /\ TakeRedemptionId
  /\ EnterRedemption(id, user, amount)
  /\ usdxSupply' = usdxSupply - amount
  /\ redemptionLog' = [redemptionLog EXCEPT ![id] = Requested(redemptionLog[id], user, amount)]
  /\ UNCHANGED <<depositVars, paused, parameterVars, usdc, worldVars>>

\* The id is read off the counter and left there.
RequestRedemptionServicedOffchain_FaultyTakesNoId(user, amountRWATokenToRedeem) ==
  LET id == redemptionRequestCounter IN
  /\ redemptionRequestCounter <= MaxRedemptions
  /\ "offChainRedemption" \notin paused
  /\ amountRWATokenToRedeem >= minimumOffChainRedemptionAmount
  /\ Burnable(user, amountRWATokenToRedeem)
  /\ usdxSupply' = usdxSupply - amountRWATokenToRedeem
  /\ redemptionLog' = [redemptionLog EXCEPT ![id] =
                         RequestedOffChain(redemptionLog[id], user, amountRWATokenToRedeem)]
  /\ UNCHANGED <<depositVars, redemptionRequestCounter, redemptionIdToRedeemer,
                 paused, parameterVars, usdc, worldVars>>

\* Takes an id from the same counter and stores nothing under it.
RequestRedemptionServicedOffchain(user, amountRWATokenToRedeem) ==
  LET id == redemptionRequestCounter IN
  /\ redemptionRequestCounter <= MaxRedemptions
  /\ "offChainRedemption" \notin paused
  /\ amountRWATokenToRedeem >= minimumOffChainRedemptionAmount
  /\ Burnable(user, amountRWATokenToRedeem)
  /\ TakeRedemptionId
  /\ usdxSupply' = usdxSupply - amountRWATokenToRedeem
  /\ redemptionLog' = [redemptionLog EXCEPT ![id] =
                         RequestedOffChain(redemptionLog[id], user, amountRWATokenToRedeem)]
  /\ UNCHANGED <<depositVars, redemptionIdToRedeemer, paused, parameterVars,
                 usdc, worldVars>>

RedemptionPriceable_FaultyReprices(id) == TRUE

RedemptionPriceable(id) == redemptionIdToRedeemer[id].priceId = 0

\* No check that the id has a redeemer: it may be closed, serviced off
\* chain or not issued yet.
SetPriceIdForRedemptions(ids, priceIds) ==
  /\ \A id \in ids : RedemptionPriceable(id)
  /\ redemptionIdToRedeemer' =
       [id \in RedemptionIds |->
          IF id \in ids THEN [redemptionIdToRedeemer[id] EXCEPT !.priceId = priceIds[id]]
                        ELSE redemptionIdToRedeemer[id]]
  /\ redemptionLog' =
       [id \in RedemptionIds |->
          IF id \in ids THEN Priced(redemptionLog[id], priceIds[id]) ELSE redemptionLog[id]]
  /\ UNCHANGED <<depositVars, redemptionRequestCounter, paused, parameterVars,
                 tokenVars, worldVars>>

collateralDue(id) ==
  getRedemptionAmountForRwa(redemptionIdToRedeemer[id].amountRwaTokenBurned,
                            getPrice(redemptionIdToRedeemer[id].priceId))

redemptionFeeDue(id) == getRedemptionFees(collateralDue(id), redemptionFee)

Payable_FaultyNullRedeemer(id) ==
  /\ redemptionIdToRedeemer[id].user \notin restricted
  /\ redemptionIdToRedeemer[id].priceId # 0

Payable_FaultyUnrestricted(id) ==
  /\ redemptionIdToRedeemer[id].user # NoUser
  /\ redemptionIdToRedeemer[id].priceId # 0

\* The null redeemer is refused by the collateral token, which transfers
\* nothing to the zero address.
Payable(id) ==
  LET member == redemptionIdToRedeemer[id] IN
  /\ member.user \notin restricted \cup {NoUser}
  /\ member.priceId # 0

\* `fees = fee` for `fees += fee`: only one fee of the batch is collected.
Settled_FaultyOneFee(ids) ==
  LET postFees == [id \in ids |-> collateralDue(id) - redemptionFeeDue(id)]
      of(a) == {id \in ids : redemptionIdToRedeemer[id].user = a}
      paidOut == [a \in Accounts |-> usdc[a] + SumFunctionOnSet(postFees, of(a))]
  IN  Moved([paidOut EXCEPT ![assetSender] = @ - SumFunction(postFees)],
            assetSender, feeRecipient, redemptionFeeDue(CHOOSE id \in ids : TRUE))

\* Balances after the batch: each redeemer its due less the fee, then the
\* fees of the batch at once to feeRecipient, all from assetSender.
Settled(ids) ==
  LET postFees == [id \in ids |-> collateralDue(id) - redemptionFeeDue(id)]
      of(a) == {id \in ids : redemptionIdToRedeemer[id].user = a}
      paidOut == [a \in Accounts |-> usdc[a] + SumFunctionOnSet(postFees, of(a))]
  IN  Moved([paidOut EXCEPT ![assetSender] = @ - SumFunction(postFees)],
            assetSender, feeRecipient, SumFunction([id \in ids |-> redemptionFeeDue(id)]))

\* Anyone may claim; the collateral goes to the redeemer.
ClaimRedemption(ids) ==
  /\ "redemption" \notin paused
  /\ \A id \in ids : Payable(id)
  /\ redemptionIdToRedeemer' =
       [id \in RedemptionIds |-> IF id \in ids THEN NoRedeemer ELSE redemptionIdToRedeemer[id]]
  /\ usdc' = Settled(ids)
  /\ redemptionLog' =
       [id \in RedemptionIds |->
          IF id \in ids
            THEN PaidOut(redemptionLog[id],
                         redemptionIdToRedeemer[id].amountRwaTokenBurned,
                         collateralDue(id))
            ELSE redemptionLog[id]]
  /\ UNCHANGED <<depositVars, redemptionRequestCounter, paused, parameterVars,
                 usdxSupply, worldVars>>

OverwriteRedeemer(id, user, rwaTokenAmountBurned, priceId) ==
  /\ redemptionLog[id].overwrites < MaxOverwrites
  /\ user \notin restricted
  /\ redemptionIdToRedeemer' =
       [redemptionIdToRedeemer EXCEPT ![id] =
          Redeemer(user, rwaTokenAmountBurned, priceId)]
  /\ redemptionLog' = [redemptionLog EXCEPT ![id] =
                         Overwritten(redemptionLog[id], priceId)]
  /\ UNCHANGED <<depositVars, redemptionRequestCounter, paused, parameterVars,
                 tokenVars, worldVars>>
-----------------------------------------------------------------------------
(* Administration                                                          *)

SetMinimumDepositAmount_FaultyUnbounded(minDepositAmount) ==
  /\ minimumDepositAmount' = minDepositAmount
  /\ UNCHANGED <<mintFee, redemptionFee, minimumRedemptionAmount,
                 minimumOffChainRedemptionAmount, feeRecipient, assetSender,
                 depositVars, redemptionVars, paused, tokenVars, worldVars>>

SetMinimumDepositAmount(minDepositAmount) ==
  /\ minDepositAmount >= BPS_DENOMINATOR
  /\ minimumDepositAmount' = minDepositAmount
  /\ UNCHANGED <<mintFee, redemptionFee, minimumRedemptionAmount,
                 minimumOffChainRedemptionAmount, feeRecipient, assetSender,
                 depositVars, redemptionVars, paused, tokenVars, worldVars>>

SetMinimumRedemptionAmount(amount) ==
  /\ amount >= BPS_DENOMINATOR
  /\ minimumRedemptionAmount' = amount
  /\ UNCHANGED <<mintFee, redemptionFee, minimumDepositAmount,
                 minimumOffChainRedemptionAmount, feeRecipient, assetSender,
                 depositVars, redemptionVars, paused, tokenVars, worldVars>>

\* No lower bound here.
SetOffChainRedemptionMinimum(amount) ==
  /\ minimumOffChainRedemptionAmount' = amount
  /\ UNCHANGED <<mintFee, redemptionFee, minimumDepositAmount,
                 minimumRedemptionAmount, feeRecipient, assetSender,
                 depositVars, redemptionVars, paused, tokenVars, worldVars>>

SetMintFee_FaultyUnbounded(fee) ==
  /\ mintFee' = fee
  /\ UNCHANGED <<redemptionFee, minimumDepositAmount, minimumRedemptionAmount,
                 minimumOffChainRedemptionAmount, feeRecipient, assetSender,
                 depositVars, redemptionVars, paused, tokenVars, worldVars>>

SetMintFee(fee) ==
  /\ fee <= BPS_DENOMINATOR
  /\ mintFee' = fee
  /\ UNCHANGED <<redemptionFee, minimumDepositAmount, minimumRedemptionAmount,
                 minimumOffChainRedemptionAmount, feeRecipient, assetSender,
                 depositVars, redemptionVars, paused, tokenVars, worldVars>>

SetRedemptionFee(fee) ==
  /\ fee <= BPS_DENOMINATOR
  /\ redemptionFee' = fee
  /\ UNCHANGED <<mintFee, minimumDepositAmount, minimumRedemptionAmount,
                 minimumOffChainRedemptionAmount, feeRecipient, assetSender,
                 depositVars, redemptionVars, paused, tokenVars, worldVars>>

SetFeeRecipient(newFeeRecipient) ==
  /\ feeRecipient' = newFeeRecipient
  /\ UNCHANGED <<mintFee, redemptionFee, minimumDepositAmount,
                 minimumRedemptionAmount, minimumOffChainRedemptionAmount, assetSender,
                 depositVars, redemptionVars, paused, tokenVars, worldVars>>

SetAssetSender(newAssetSender) ==
  /\ assetSender' = newAssetSender
  /\ UNCHANGED <<mintFee, redemptionFee, minimumDepositAmount,
                 minimumRedemptionAmount, minimumOffChainRedemptionAmount, feeRecipient,
                 depositVars, redemptionVars, paused, tokenVars, worldVars>>

Pause(feature) ==
  /\ paused' = paused \cup {feature}
  /\ UNCHANGED <<depositVars, redemptionVars, parameterVars, tokenVars, worldVars>>

Unpause(feature) ==
  /\ paused' = paused \ {feature}
  /\ UNCHANGED <<depositVars, redemptionVars, parameterVars, tokenVars, worldVars>>

\* Another pricer knows other prices under the same priceIds.
SetPricer(newPrices) ==
  /\ prices' = newPrices
  /\ UNCHANGED <<now, restricted, tokenDenied, depositVars, redemptionVars,
                 paused, parameterVars, tokenVars>>
-----------------------------------------------------------------------------
(* The contracts around the manager                                        *)

\* Pricer.addPrice and updatePrice: a price becomes known, or is corrected.
PricerSets(priceId, price) ==
  /\ prices' = [prices EXCEPT ![priceId] = price]
  /\ UNCHANGED <<now, restricted, tokenDenied, depositVars, redemptionVars,
                 paused, parameterVars, tokenVars>>

\* The lists the manager consults change, or it is pointed at others.
RestrictionsChange(accounts) ==
  /\ restricted' = accounts
  /\ UNCHANGED <<now, prices, tokenDenied, depositVars, redemptionVars,
                 paused, parameterVars, tokenVars>>

\* The lists or the pause of USDX change.
TokenDenials(accounts) ==
  /\ tokenDenied' = accounts
  /\ UNCHANGED <<now, prices, restricted, depositVars, redemptionVars,
                 paused, parameterVars, tokenVars>>

Tick ==
  /\ now < MaxTime
  /\ now' = now + 1
  /\ UNCHANGED <<prices, restricted, tokenDenied, depositVars, redemptionVars,
                 paused, parameterVars, tokenVars>>
-----------------------------------------------------------------------------
UserCalls ==
  \/ \E u \in Users, a \in Amounts : RequestSubscription(u, a)
  \/ \E ids \in Batches(DepositIds) : ClaimMint(ids)
  \/ \E u \in Users, a \in RwaAmounts : RequestRedemption(u, a)
  \/ \E u \in Users, a \in RwaAmounts : RequestRedemptionServicedOffchain(u, a)
  \/ \E ids \in Batches(RedemptionIds) : ClaimRedemption(ids)

OperatorCalls ==
  \/ \E h \in TxHashes, u \in Users, a \in Amounts : AddProof(h, u, a)
  \/ \E ids \in Batches(DepositIds) : \E f \in [ids -> PriceIds \cup {0}] :
       SetPriceIdForDeposits(ids, f)
  \/ \E ids \in Batches(RedemptionIds) : \E f \in [ids -> PriceIds \cup {0}] :
       SetPriceIdForRedemptions(ids, f)
  \/ \E t \in 1 .. MaxTime, ids \in Batches(DepositIds) : SetClaimableTimestamp(t, ids)

ManagerCalls ==
  \/ \E id \in DepositIds, u \in Users \cup {NoUser}, a \in Amounts, p \in PriceIds \cup {0} :
       OverwriteDepositor(id, u, a, p)
  \/ \E id \in RedemptionIds, u \in Users \cup {NoUser}, a \in RwaAmounts, p \in PriceIds \cup {0} :
       OverwriteRedeemer(id, u, a, p)
  \/ \E m \in MinimumChoices : SetMinimumDepositAmount(m)
  \/ \E m \in MinimumChoices : SetMinimumRedemptionAmount(m)
  \/ \E m \in MinimumChoices : SetOffChainRedemptionMinimum(m)
  \/ \E fee \in FeeChoices : SetMintFee(fee)
  \/ \E fee \in FeeChoices : SetRedemptionFee(fee)
  \/ \E r \in FeeRecipients : SetFeeRecipient(r)
  \/ \E s \in AssetSenders : SetAssetSender(s)
  \/ \E f \in PausableFeatures : Pause(f)
  \/ \E f \in PausableFeatures : Unpause(f)
  \/ \E p \in [PriceIds -> PriceValues \cup {0}] : SetPricer(p)

WorldSteps ==
  \/ \E id \in PriceIds, p \in PriceValues : PricerSets(id, p)
  \/ \E S \in SUBSET Listable : RestrictionsChange(S)
  \/ \E S \in SUBSET Listable : TokenDenials(S)
  \/ Tick

Next == UserCalls \/ OperatorCalls \/ ManagerCalls \/ WorldSteps

Spec == Init /\ [][Next]_vars
-----------------------------------------------------------------------------
(* Properties                                                              *)

DepositorType == [user : Users \cup {NoUser}, amountDepositedMinusFees : Nat,
                  priceId : Nat]
RedeemerType == [user : Users \cup {NoUser}, amountRwaTokenBurned : Nat,
                 priceId : Nat]
DepositLogType == [entries : Nat, entered : Nat, subscribed : Nat, mints : Nat,
                   claimed : Nat, depositor : Users \cup {NoUser}, priced : BOOLEAN,
                   armed : BOOLEAN, overwrites : Nat, ahead : Nat]
RedemptionLogType == [burned : Nat, settled : Nat, payouts : Nat, paid : Nat,
                      redeemer : Users \cup {NoUser}, offChain : BOOLEAN,
                      priced : BOOLEAN, overwrites : Nat]

\* The type of the contract's storage, of the balances and of the histories;
\* fees stay within 100%, so that no fee subtraction underflows, and no burn
\* takes more USDX than there is.
TypeOK ==
  /\ subscriptionRequestCounter \in 1 .. MaxDeposits + 1
  /\ redemptionRequestCounter \in 1 .. MaxRedemptions + 1
  /\ depositIdToDepositor \in [DepositIds -> DepositorType]
  /\ depositIdToClaimableTimestamp \in [DepositIds -> Nat]
  /\ redemptionIdToRedeemer \in [RedemptionIds -> RedeemerType]
  /\ paused \subseteq Features
  /\ mintFee \in 0 .. BPS_DENOMINATOR /\ redemptionFee \in 0 .. BPS_DENOMINATOR
  /\ {minimumDepositAmount, minimumRedemptionAmount,
      minimumOffChainRedemptionAmount} \subseteq Nat
  /\ feeRecipient \in FeeRecipients /\ assetSender \in AssetSenders
  /\ usdc \in [Accounts -> Int] /\ usdxSupply \in Nat
  /\ now \in Nat \ {0}
  /\ prices \in [PriceIds -> Nat]
  /\ restricted \subseteq Users /\ tokenDenied \subseteq Users
  /\ depositLog \in [DepositIds -> DepositLogType]
  /\ redemptionLog \in [RedemptionIds -> RedemptionLogType]

\* What is under an id is the contract's doing alone: the manager did not
\* overwrite it, nor did the relayer take an id of the counter ahead.
Undisturbed(log) == log.overwrites = 0 /\ log.ahead = 0

\* Every entry made for a deposit id, by subscription or by proof, is minted
\* exactly once or still open under its depositor's name, and the collateral
\* it was made with is accounted for to the unit: as long as the manager
\* overwrites nothing under the id, and the relayer enters no proof under it
\* before the counter has passed it: requestSubscription does not look at what
\* is under the id it takes, and replaces such a proof.  (RWAHub.sol,
\* requestSubscription, addProof and claimMint.)
EveryEntryMintedOnce ==
  \A id \in DepositIds :
    LET d == depositIdToDepositor[id]
        log == depositLog[id]
    IN Undisturbed(log) =>
         IF d.user = NoUser
           THEN log.entries = log.mints /\ log.entered = log.claimed
           ELSE /\ log.entries = log.mints + 1
                /\ log.entered = log.claimed + d.amountDepositedMinusFees
                /\ d.user = log.depositor

\* Every redemption serviced on chain is open for its redeemer with exactly
\* the USDX that was burned for it, or was paid out once, for that amount;
\* nothing is paid for an id before it is issued, whatever priceIds were set
\* on it.  (RWAHub.sol, requestRedemption and claimRedemption.)
EveryBurnSettledOnce ==
  \A id \in RedemptionIds :
    LET r == redemptionIdToRedeemer[id]
        log == redemptionLog[id]
        onChain == id < redemptionRequestCounter /\ ~log.offChain
    IN log.overwrites = 0 =>
         IF r.user = NoUser
           THEN IF onChain THEN log.payouts = 1 /\ log.settled = log.burned
                           ELSE log.payouts = 0 /\ log.paid = 0
           ELSE /\ onChain
                /\ log.payouts = 0
                /\ r.amountRwaTokenBurned = log.burned
                /\ r.user = log.redeemer

\* The collateral ledger agrees with the mappings: the custodian holds what
\* the subscriptions recorded net of fees, whatever proofs were entered under
\* their ids, and what left the asset senders, payouts and fees together, is
\* what the redemptions were worth.  (The transfers of RWAHub.sol:154-162,
\* 278-292.)
CollateralAddsUp ==
  LET subscribed == [id \in CounterDepositIds |-> depositLog[id].subscribed]
      paid == [id \in RedemptionIds |-> redemptionLog[id].paid]
  IN  /\ usdc[assetRecipient] = SumFunction(subscribed)
      /\ SumFunctionOnSet(usdc, AssetSenders) = 0 - SumFunction(paid)

\* A mint uses up one claimable timestamp and one priceId chosen for the
\* entry it pays: neither serves a second mint, nor a later entry under the
\* same id.  (USDXManager.sol:77-88, RWAHub.sol:197-221.)
MintsFreshlyAuthorised ==
  [][\A id \in DepositIds :
       depositLog'[id].mints # depositLog[id].mints
         => depositLog[id].armed /\ depositLog[id].priced]_vars

\* A payout uses a priceId chosen after the redemption was requested, though
\* priceIds may be set on ids that are not issued yet (RWAHub.sol:370-385
\* checks no redeemer).
PayoutsFreshlyPriced ==
  [][\A id \in RedemptionIds :
       redemptionLog'[id].payouts # redemptionLog[id].payouts
         => redemptionLog[id].priced]_vars

\* Once a priceId is chosen for an open entry it stays until the entry is
\* claimed at it, unless the manager overwrites the entry, or it is a proof
\* under an id that a subscription has yet to be given.
PriceIdsAreFinal ==
  [][/\ \A id \in DepositIds :
          /\ depositIdToDepositor[id].priceId # 0
          /\ Undisturbed(depositLog'[id])
          => \/ depositIdToDepositor'[id] = depositIdToDepositor[id]
             \/ /\ depositIdToDepositor'[id] = NoDepositor
                /\ depositLog'[id].mints = depositLog[id].mints + 1
     /\ \A id \in RedemptionIds :
          /\ redemptionIdToRedeemer[id].user # NoUser
          /\ redemptionIdToRedeemer[id].priceId # 0
          /\ redemptionLog'[id].overwrites = 0
          => \/ redemptionIdToRedeemer'[id] = redemptionIdToRedeemer[id]
             \/ /\ redemptionIdToRedeemer'[id] = NoRedeemer
                /\ redemptionLog'[id].payouts = redemptionLog[id].payouts + 1]_vars

\* README.md:23: an account that is restricted, at the time of the call and
\* not of the request, neither pays into the fund nor is paid from it.
RestrictedMoveNoCollateral ==
  [][\A u \in restricted : usdc'[u] = usdc[u]]_vars

\* Given a deployment with a minimum of at least BPS_DENOMINATOR, no
\* subscription escapes a non-zero mint fee by rounding, whatever the manager
\* sets the minimum to afterwards (RWAHub.sol:486-495).
NoSubscriptionEscapesFee ==
  [][(/\ InitialMinimumDeposit >= BPS_DENOMINATOR
      /\ mintFee > 0
      /\ subscriptionRequestCounter' # subscriptionRequestCounter)
     => usdc'[feeRecipient] > usdc[feeRecipient]]_vars

\* The histories agree with the storage they are kept beside: what makes the
\* properties above inductive.
DepositLogsAgree ==
  \A id \in DepositIds :
    LET d == depositIdToDepositor[id]
        log == depositLog[id]
    IN /\ (depositIdToClaimableTimestamp[id] # 0) => log.armed
       /\ d.priceId # 0 => log.priced
       /\ (log.overwrites = 0 /\ d.user = NoUser) => d = NoDepositor

UnreachedIdsAreFree ==
  \A id \in CounterDepositIds :
    (AheadOfCounter(id) /\ depositLog[id].ahead = 0) => depositLog[id].entries = 0

RedemptionLogsAgree ==
  \A id \in RedemptionIds :
    LET r == redemptionIdToRedeemer[id]
        log == redemptionLog[id]
    IN /\ (r.user # NoUser /\ r.priceId # 0) => log.priced
       /\ id >= redemptionRequestCounter => ~log.offChain
       /\ (log.overwrites = 0 /\ log.payouts = 0) => log.settled = 0 /\ log.paid = 0

\* The inductive invariant: the two ledgers, with the facts they rest on.
DepositLedger == EveryEntryMintedOnce /\ DepositLogsAgree /\ UnreachedIdsAreFree
RedemptionLedger == EveryBurnSettledOnce /\ RedemptionLogsAgree
LedgerInvariant == TypeOK /\ DepositLedger /\ RedemptionLedger

\* README.md:15 says that every deposit is given a unique id.  For proofs of
\* off-chain deposits, whose id is the transaction hash, this would mean that
\* no hash is entered twice.
ProofIdsAreUnique == \A h \in TxHashes : depositLog[h].entries <= 1
=============================================================================
