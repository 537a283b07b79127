-------------------------- MODULE USDXManager_proofs --------------------------
(***************************************************************************)
(* Proofs about USDXManager for every set of accounts and hashes, every    *)
(* value of the bounds and every number of requests.                       *)
(***************************************************************************)
EXTENDS USDXManager, HubMath_proofs

\* A function into a set is one into every larger set.
LEMMA WiderRange ==
  ASSUME NEW S, NEW T, NEW U, T \subseteq U, NEW f \in [S -> T]
  PROVE  f \in [S -> U]
  OBVIOUS

\* A deposit less its fee is a natural number.
LEMMA NetIsNat ==
  ASSUME NEW amount \in Nat, NEW fee \in 0 .. BPS_DENOMINATOR
  PROVE  amount - getMintFees(amount, fee) \in Nat
<1>1. fee \in Nat /\ fee <= BPS_DENOMINATOR
  BY HubMathAssumption
<1>2. getMintFees(amount, fee) \in 0 .. amount
  BY <1>1, FeeWithinAmountThm DEF FeeWithinAmount
<1>3. QED
  BY <1>2

\* What a redemption is worth is a natural number.
LEMMA DueIsNat ==
  ASSUME TypeOK, NEW id \in RedemptionIds
  PROVE  collateralDue(id) \in Nat
<1> DEFINE burned == redemptionIdToRedeemer[id].amountRwaTokenBurned
           price == getPrice(redemptionIdToRedeemer[id].priceId)
<1>1. burned \in Nat /\ price \in Nat
  BY DEF TypeOK, RedeemerType, getPrice
<1>2. burned * price \in Nat
  BY <1>1, SMT
<1>3. (burned * price) \div PRICE_UNIT \in Nat
  BY <1>2, DivFloor, HubMathAssumption
<1>4. QED
  BY <1>3, DivFloor, HubMathAssumption
     DEF collateralDue, getRedemptionAmountForRwa, scaleDown

\* The ids a user call takes from the counters are ids of the mappings.
LEMMA CounterIds ==
  ASSUME TypeOK
  PROVE  /\ subscriptionRequestCounter <= MaxDeposits
              => subscriptionRequestCounter \in CounterDepositIds
         /\ redemptionRequestCounter <= MaxRedemptions
              => redemptionRequestCounter \in RedemptionIds
         /\ MaxDeposits \in Nat /\ MaxRedemptions \in Nat
  BY ManagerAssumption DEF TypeOK, CounterDepositIds, RedemptionIds

LEMMA TypeInit == Init => TypeOK
<1> SUFFICES ASSUME Init PROVE TypeOK
  OBVIOUS
<1> USE DEF Init, TypeOK
<1>1. NoDepositor \in DepositorType /\ NoRedeemer \in RedeemerType
  BY DEF NoDepositor, Depositor, DepositorType, NoRedeemer, Redeemer, RedeemerType
<1>2. NoDepositLog \in DepositLogType /\ NoRedemptionLog \in RedemptionLogType
  BY DEF NoDepositLog, DepositLogType, NoRedemptionLog, RedemptionLogType
<1>3. /\ 1 \in 1 .. MaxDeposits + 1 /\ 1 \in 1 .. MaxRedemptions + 1
      /\ 0 \in 0 .. BPS_DENOMINATOR
      /\ {InitialMinimumDeposit, InitialMinimumRedemption} \subseteq Nat
  BY ManagerAssumption, HubMathAssumption
<1>4. usdc \in [Accounts -> Int] /\ usdxSupply \in Nat
  BY ManagerAssumption
<1>5. QED
  BY <1>1, <1>2, <1>3, <1>4

\* What the history updates produce.  (The new values are named first: a
\* record update is easier to type when its fields are constants.)
LEMMA EnteredLog ==
  ASSUME NEW log \in DepositLogType, NEW user \in Users, NEW amount \in Nat,
         NEW paidIn \in Nat, NEW ahead \in Nat
  PROVE  LET new == Entered(log, user, amount, paidIn, ahead) IN
         /\ new \in DepositLogType
         /\ new.entries = log.entries + 1 /\ new.entered = log.entered + amount
         /\ new.subscribed = log.subscribed + paidIn /\ new.ahead = log.ahead + ahead
         /\ new.mints = log.mints /\ new.claimed = log.claimed
         /\ new.depositor = user /\ new.armed = log.armed
         /\ new.overwrites = log.overwrites
<1> DEFINE e == log.entries + 1
           a == log.entered + amount
           s == log.subscribed + paidIn
           h == log.ahead + ahead
<1>1. e \in Nat /\ a \in Nat /\ s \in Nat /\ h \in Nat
  BY DEF DepositLogType
<1>2. Entered(log, user, amount, paidIn, ahead) =
        [log EXCEPT !.entries = e, !.entered = a, !.subscribed = s, !.ahead = h,
                    !.depositor = user, !.priced = FALSE]
  BY DEF Entered
<1> HIDE DEF e, a, s, h
<1>3. LET new == [log EXCEPT !.entries = e, !.entered = a, !.subscribed = s,
                             !.ahead = h, !.depositor = user, !.priced = FALSE] IN
      /\ new \in DepositLogType
      /\ new.entries = e /\ new.entered = a /\ new.subscribed = s /\ new.ahead = h
      /\ new.mints = log.mints /\ new.claimed = log.claimed
      /\ new.depositor = user /\ new.armed = log.armed
      /\ new.overwrites = log.overwrites
  BY <1>1 DEF DepositLogType
<1>4. QED
  BY <1>2, <1>3 DEF e, a, s, h

\* Two of these by themselves, for where they are all that is needed.
LEMMA EnteredMints ==
  ASSUME NEW log \in DepositLogType, NEW user \in Users, NEW amount \in Nat,
         NEW paidIn \in Nat, NEW ahead \in Nat
  PROVE  Entered(log, user, amount, paidIn, ahead).mints = log.mints
BY EnteredLog

LEMMA EnteredSubscribed ==
  ASSUME NEW log \in DepositLogType, NEW user \in Users, NEW amount \in Nat,
         NEW paidIn \in Nat, NEW ahead \in Nat
  PROVE  Entered(log, user, amount, paidIn, ahead).subscribed = log.subscribed + paidIn
BY EnteredLog

LEMMA MintedLog ==
  ASSUME NEW log \in DepositLogType, NEW amount \in Nat
  PROVE  LET new == Minted(log, amount) IN
         /\ new \in DepositLogType
         /\ new.mints = log.mints + 1 /\ new.claimed = log.claimed + amount
         /\ new.entries = log.entries /\ new.entered = log.entered
         /\ new.depositor = log.depositor /\ ~new.armed
         /\ new.overwrites = log.overwrites
         /\ new.subscribed = log.subscribed /\ new.ahead = log.ahead
<1> DEFINE m == log.mints + 1
           a == log.claimed + amount
<1>1. m \in Nat /\ a \in Nat
  BY DEF DepositLogType
<1>2. Minted(log, amount) =
        [log EXCEPT !.mints = m, !.claimed = a, !.priced = FALSE, !.armed = FALSE]
  BY DEF Minted
<1> HIDE DEF m, a
<1>3. LET new == [log EXCEPT !.mints = m, !.claimed = a, !.priced = FALSE,
                             !.armed = FALSE] IN
      /\ new \in DepositLogType
      /\ new.mints = m /\ new.claimed = a
      /\ new.entries = log.entries /\ new.entered = log.entered
      /\ new.depositor = log.depositor /\ ~new.armed
      /\ new.overwrites = log.overwrites
      /\ new.subscribed = log.subscribed /\ new.ahead = log.ahead
  BY <1>1 DEF DepositLogType
<1>4. QED
  BY <1>2, <1>3 DEF m, a

LEMMA OverwrittenDepositLog ==
  ASSUME NEW log \in DepositLogType, NEW priceId \in Nat
  PROVE  LET new == Overwritten(log, priceId) IN
         /\ new \in DepositLogType
         /\ new.overwrites # 0 /\ new.overwrites = log.overwrites + 1
         /\ new.claimed = log.claimed /\ new.entered = log.entered
         /\ priceId # 0 => new.priced
         /\ new.entries = log.entries /\ new.mints = log.mints
         /\ new.armed = log.armed
         /\ new.subscribed = log.subscribed /\ new.ahead = log.ahead
<1> DEFINE n == log.overwrites + 1
           b == (priceId # 0)
<1>1. n \in Nat /\ n # 0 /\ b \in BOOLEAN
  BY DEF DepositLogType
<1>2. Overwritten(log, priceId) = [log EXCEPT !.overwrites = n, !.priced = b]
  BY DEF Overwritten
<1> HIDE DEF n, b
<1>3. LET new == [log EXCEPT !.overwrites = n, !.priced = b] IN
      /\ new \in DepositLogType
      /\ new.overwrites = n /\ new.priced = b
      /\ new.entries = log.entries /\ new.mints = log.mints
      /\ new.armed = log.armed /\ new.claimed = log.claimed
      /\ new.entered = log.entered
      /\ new.subscribed = log.subscribed /\ new.ahead = log.ahead
  BY <1>1 DEF DepositLogType
<1>4. QED
  BY <1>1, <1>2, <1>3 DEF n, b

LEMMA OverwrittenRedemptionLog ==
  ASSUME NEW log \in RedemptionLogType, NEW priceId \in Nat
  PROVE  LET new == Overwritten(log, priceId) IN
         /\ new \in RedemptionLogType
         /\ new.overwrites # 0 /\ new.overwrites = log.overwrites + 1
         /\ new.settled = log.settled /\ new.payouts = log.payouts
         /\ new.paid = log.paid
         /\ priceId # 0 => new.priced
         /\ new.offChain = log.offChain
<1> DEFINE n == log.overwrites + 1
           b == (priceId # 0)
<1>1. n \in Nat /\ n # 0 /\ b \in BOOLEAN
  BY DEF RedemptionLogType
<1>2. Overwritten(log, priceId) = [log EXCEPT !.overwrites = n, !.priced = b]
  BY DEF Overwritten
<1> HIDE DEF n, b
<1>3. LET new == [log EXCEPT !.overwrites = n, !.priced = b] IN
      /\ new \in RedemptionLogType
      /\ new.overwrites = n /\ new.priced = b
      /\ new.offChain = log.offChain /\ new.settled = log.settled
      /\ new.payouts = log.payouts /\ new.paid = log.paid
  BY <1>1 DEF RedemptionLogType
<1>4. QED
  BY <1>1, <1>2, <1>3 DEF n, b

LEMMA PricedLog ==
  ASSUME NEW priceId \in Nat
  PROVE  /\ \A log \in DepositLogType : LET new == Priced(log, priceId) IN
              /\ new \in DepositLogType
              /\ new.entries = log.entries /\ new.entered = log.entered
              /\ new.mints = log.mints /\ new.claimed = log.claimed
              /\ new.depositor = log.depositor /\ new.armed = log.armed
              /\ new.overwrites = log.overwrites
              /\ new.subscribed = log.subscribed /\ new.ahead = log.ahead
              /\ priceId # 0 => new.priced
         /\ \A log \in RedemptionLogType : LET new == Priced(log, priceId) IN
              /\ new \in RedemptionLogType
              /\ new.burned = log.burned /\ new.settled = log.settled
              /\ new.payouts = log.payouts /\ new.paid = log.paid
              /\ new.redeemer = log.redeemer /\ new.offChain = log.offChain
              /\ new.overwrites = log.overwrites
              /\ priceId # 0 => new.priced
<1> DEFINE b == (priceId # 0)
<1>1. b \in BOOLEAN /\ (priceId # 0 => b)
  OBVIOUS
<1>2. \A log : Priced(log, priceId) = [log EXCEPT !.priced = b]
  BY DEF Priced
<1> HIDE DEF b
<1>3. QED
  BY <1>1, <1>2 DEF DepositLogType, RedemptionLogType

LEMMA ArmedLog ==
  ASSUME NEW log \in DepositLogType
  PROVE  LET new == Armed(log) IN
         /\ new \in DepositLogType
         /\ new.entries = log.entries /\ new.entered = log.entered
         /\ new.mints = log.mints /\ new.claimed = log.claimed
         /\ new.depositor = log.depositor /\ new.priced = log.priced
         /\ new.overwrites = log.overwrites
         /\ new.subscribed = log.subscribed /\ new.ahead = log.ahead
         /\ new.armed
  BY DEF Armed, DepositLogType

LEMMA RequestedLog ==
  ASSUME NEW log \in RedemptionLogType, NEW user \in Users, NEW amount \in Nat
  PROVE  LET on == Requested(log, user, amount)
             off == RequestedOffChain(log, user, amount) IN
         /\ on \in RedemptionLogType /\ off \in RedemptionLogType
         /\ \A new \in {on, off} :
              /\ new.burned = amount /\ new.redeemer = user
              /\ new.settled = log.settled /\ new.payouts = log.payouts
              /\ new.paid = log.paid /\ new.overwrites = log.overwrites
         /\ on.offChain = log.offChain /\ off.offChain
         /\ off.priced = log.priced
  BY DEF Requested, RequestedOffChain, RedemptionLogType

LEMMA PaidOutLog ==
  ASSUME NEW log \in RedemptionLogType, NEW amount \in Nat, NEW due \in Nat
  PROVE  LET new == PaidOut(log, amount, due) IN
         /\ new \in RedemptionLogType
         /\ new.settled = log.settled + amount /\ new.payouts = log.payouts + 1
         /\ new.paid = log.paid + due
         /\ new.burned = log.burned /\ new.redeemer = log.redeemer
         /\ new.offChain = log.offChain /\ new.overwrites = log.overwrites
<1> DEFINE s == log.settled + amount
           n == log.payouts + 1
           c == log.paid + due
<1>1. s \in Nat /\ n \in Nat /\ c \in Nat
  BY DEF RedemptionLogType
<1>2. PaidOut(log, amount, due) =
        [log EXCEPT !.settled = s, !.payouts = n, !.paid = c, !.priced = FALSE]
  BY DEF PaidOut
<1> HIDE DEF s, n, c
<1>3. LET new == [log EXCEPT !.settled = s, !.payouts = n, !.paid = c,
                             !.priced = FALSE] IN
      /\ new \in RedemptionLogType
      /\ new.settled = s /\ new.payouts = n /\ new.paid = c
      /\ new.burned = log.burned /\ new.redeemer = log.redeemer
      /\ new.offChain = log.offChain /\ new.overwrites = log.overwrites
  BY <1>1 DEF RedemptionLogType
<1>4. QED
  BY <1>2, <1>3 DEF s, n, c

\* One step of each kind keeps the types.
LEMMA TypeEnterDeposit ==
  ASSUME TypeOK, NEW id \in DepositIds, NEW user \in Users, NEW amount \in Nat,
         NEW paidIn \in Nat, NEW ahead \in Nat,
         EnterDeposit(id, user, amount),
         depositLog' = [depositLog EXCEPT ![id] =
                          Entered(depositLog[id], user, amount, paidIn, ahead)]
  PROVE  /\ depositIdToDepositor' \in [DepositIds -> DepositorType]
         /\ depositLog' \in [DepositIds -> DepositLogType]
<1>1. Entered(depositLog[id], user, amount, paidIn, ahead) \in DepositLogType
  BY EnteredLog DEF TypeOK
<1>2. Depositor(user, amount, 0) \in DepositorType
  BY DEF Depositor, DepositorType
<1>3. QED
  BY <1>1, <1>2 DEF TypeOK, EnterDeposit

LEMMA TypeClaimMint ==
  ASSUME TypeOK, NEW ids \in SUBSET DepositIds, ClaimMint(ids)
  PROVE  /\ depositIdToDepositor' \in [DepositIds -> DepositorType]
         /\ depositIdToClaimableTimestamp' \in [DepositIds -> Nat]
         /\ depositLog' \in [DepositIds -> DepositLogType]
<1>1. NoDepositor \in DepositorType
  BY DEF NoDepositor, Depositor, DepositorType
<1>2. \A id \in DepositIds :
        Minted(depositLog[id], depositIdToDepositor[id].amountDepositedMinusFees)
          \in DepositLogType
  BY MintedLog DEF TypeOK, DepositorType
<1>3. QED
  BY <1>1, <1>2 DEF TypeOK, ClaimMint, CloseDeposits

LEMMA TypeClaimRedemption ==
  ASSUME TypeOK, NEW ids \in SUBSET RedemptionIds, ClaimRedemption(ids)
  PROVE  /\ redemptionIdToRedeemer' \in [RedemptionIds -> RedeemerType]
         /\ redemptionLog' \in [RedemptionIds -> RedemptionLogType]
<1>1. \A id \in RedemptionIds : collateralDue(id) \in Nat
  BY DueIsNat
<1>2. redemptionIdToRedeemer' \in [RedemptionIds -> RedeemerType]
  BY DEF TypeOK, ClaimRedemption, NoRedeemer, Redeemer, RedeemerType
<1>3. redemptionLog' \in [RedemptionIds -> RedemptionLogType]
  BY <1>1, PaidOutLog DEF TypeOK, ClaimRedemption, RedeemerType
<1>4. QED
  BY <1>2, <1>3

\* Who pays and who is paid are different accounts.
LEMMA AccountsDiffer ==
  /\ Users \subseteq Accounts /\ AssetSenders \subseteq Accounts
  /\ FeeRecipients \subseteq Accounts /\ assetRecipient \in Accounts
  /\ \A u \in Users : u \notin AssetSenders /\ u \notin FeeRecipients /\ u # assetRecipient
  /\ \A s \in AssetSenders : s \notin FeeRecipients /\ s # assetRecipient
  /\ assetRecipient \notin FeeRecipients
BY ManagerAssumption DEF Accounts

LEMMA MovedBalances ==
  ASSUME NEW balances \in [Accounts -> Int], NEW from \in Accounts, NEW to \in Accounts,
         from # to, NEW amount \in Nat,
         NEW after, after = Moved(balances, from, to, amount)
  PROVE  /\ after \in [Accounts -> Int]
         /\ after[from] = balances[from] - amount
         /\ after[to] = balances[to] + amount
         /\ \A a \in Accounts \ {from, to} : after[a] = balances[a]
<1> DEFINE less == balances[from] - amount
           more == balances[to] + amount
<1>1. less \in Int /\ more \in Int
  OBVIOUS
<1>2. after = [[balances EXCEPT ![from] = less] EXCEPT ![to] = more]
  BY DEF Moved
<1> HIDE DEF less, more
<1>3. /\ after \in [Accounts -> Int] /\ after[from] = less /\ after[to] = more
      /\ \A a \in Accounts \ {from, to} : after[a] = balances[a]
  BY <1>1, <1>2
<1> QED BY <1>3 DEF less, more

\* requestSubscription: the fee to the recipient, the rest to the custodian.
LEMMA SubscriptionTransfers ==
  ASSUME TypeOK, NEW u \in Users, NEW amount \in Amounts, RequestSubscription(u, amount)
  PROVE  /\ usdc' \in [Accounts -> Int]
         /\ getMintFees(amount, mintFee) \in Nat
         /\ amount - getMintFees(amount, mintFee) \in Nat
         /\ usdc'[assetRecipient]
              = usdc[assetRecipient] + (amount - getMintFees(amount, mintFee))
         /\ usdc'[feeRecipient] = usdc[feeRecipient] + getMintFees(amount, mintFee)
         /\ \A a \in Accounts \ {u, feeRecipient, assetRecipient} : usdc'[a] = usdc[a]
<1> DEFINE fees == getMintFees(amount, mintFee)
           net == amount - fees
           first == Moved(usdc, u, feeRecipient, fees)
<1>1. fees \in Nat /\ net \in Nat
  <2>1. amount \in Nat /\ mintFee \in 0 .. BPS_DENOMINATOR
    BY ManagerAssumption DEF TypeOK
  <2>2. fees \in 0 .. amount
    BY <2>1, HubMathAssumption, FeeWithinAmountThm DEF FeeWithinAmount
  <2> HIDE DEF fees
  <2> QED BY <2>1, <2>2
<1>2. usdc' = Moved(first, u, assetRecipient, net)
  BY DEF RequestSubscription, Collected
<1> HIDE DEF fees, net
<1>3. /\ usdc \in [Accounts -> Int] /\ u \in Accounts /\ feeRecipient \in Accounts
      /\ assetRecipient \in Accounts /\ u # feeRecipient /\ u # assetRecipient
      /\ feeRecipient # assetRecipient
  BY AccountsDiffer DEF TypeOK
<1>4. /\ first \in [Accounts -> Int]
      /\ first[feeRecipient] = usdc[feeRecipient] + fees
      /\ \A a \in Accounts \ {u, feeRecipient} : first[a] = usdc[a]
  BY <1>1, <1>3, MovedBalances
<1> HIDE DEF first
<1>5. /\ usdc' \in [Accounts -> Int]
      /\ usdc'[assetRecipient] = first[assetRecipient] + net
      /\ \A a \in Accounts \ {u, assetRecipient} : usdc'[a] = first[a]
  BY <1>1, <1>2, <1>3, <1>4, MovedBalances
<1>6. /\ usdc'[assetRecipient] = usdc[assetRecipient] + net
      /\ usdc'[feeRecipient] = usdc[feeRecipient] + fees
      /\ \A a \in Accounts \ {u, feeRecipient, assetRecipient} : usdc'[a] = usdc[a]
  BY <1>3, <1>4, <1>5
<1> QED BY <1>1, <1>5, <1>6 DEF fees, net

LEMMA FeeDueIsNat ==
  ASSUME TypeOK, NEW id \in RedemptionIds
  PROVE  redemptionFeeDue(id) \in Nat
<1>1. collateralDue(id) \in Nat /\ redemptionFee \in 0 .. BPS_DENOMINATOR
  BY DueIsNat DEF TypeOK
<1>2. redemptionFeeDue(id) \in 0 .. collateralDue(id)
  BY <1>1, HubMathAssumption, FeeWithinAmountThm DEF redemptionFeeDue, FeeWithinAmount
<1> QED BY <1>1, <1>2

LEMMA IdsAreFinite == IsFiniteSet(RedemptionIds) /\ IsFiniteSet(CounterDepositIds)
<1>1. MaxRedemptions \in Int /\ MaxDeposits \in Int
  BY ManagerAssumption
<1> QED BY <1>1, FS_Interval DEF RedemptionIds, CounterDepositIds

LEMMA BatchesAreFinite ==
  /\ \A ids \in Batches(RedemptionIds) : ids \subseteq RedemptionIds /\ IsFiniteSet(ids)
  /\ \A ids \in Batches(DepositIds) : ids \subseteq DepositIds /\ IsFiniteSet(ids)
<1>1. IsFiniteSet(DepositIds)
  BY IdsAreFinite, ManagerAssumption, FS_Union DEF DepositIds
<1> QED BY <1>1, IdsAreFinite, FS_Subset DEF Batches

\* claimRedemption: what the batch is due leaves assetSender, and nothing of
\* it goes to an account no id of the batch names, feeRecipient apart.
LEMMA SettlementTransfers ==
  ASSUME TypeOK, NEW ids \in Batches(RedemptionIds), ClaimRedemption(ids)
  PROVE  /\ usdc' \in [Accounts -> Int]
         /\ usdc'[assetSender]
              = usdc[assetSender] - SumFunction([id \in ids |-> collateralDue(id)])
         /\ \A a \in Accounts \ {assetSender, feeRecipient} :
              (\A id \in ids : redemptionIdToRedeemer[id].user # a) => usdc'[a] = usdc[a]
<1> DEFINE fee == [id \in ids |-> redemptionFeeDue(id)]
           due == [id \in ids |-> collateralDue(id)]
           postFees == [id \in ids |-> collateralDue(id) - redemptionFeeDue(id)]
           of(a) == {id \in ids : redemptionIdToRedeemer[id].user = a}
           paidOut == [a \in Accounts |-> usdc[a] + SumFunctionOnSet(postFees, of(a))]
           less == paidOut[assetSender] - SumFunction(postFees)
           debited == [paidOut EXCEPT ![assetSender] = less]
           fees == SumFunction(fee)
<1>1. ids \subseteq RedemptionIds /\ IsFiniteSet(ids)
  BY BatchesAreFinite
<1>2. \A id \in ids : /\ fee[id] \in Nat /\ due[id] \in Nat
                      /\ postFees[id] = due[id] - fee[id]
  BY <1>1, DueIsNat, FeeDueIsNat
<1>3. DOMAIN fee = ids /\ DOMAIN due = ids /\ DOMAIN postFees = ids
  OBVIOUS
<1>4. usdc' = Moved(debited, assetSender, feeRecipient, fees)
  BY DEF ClaimRedemption, Settled
<1>5. /\ usdc \in [Accounts -> Int] /\ assetSender \in Accounts /\ feeRecipient \in Accounts
      /\ assetSender # feeRecipient /\ assetSender \notin Users
      /\ \A id \in ids : redemptionIdToRedeemer[id].user \in Users
  <2>1. \A id \in ids : redemptionIdToRedeemer[id].user \in Users
    BY <1>1 DEF ClaimRedemption, Payable, TypeOK, RedeemerType
  <2> QED BY <2>1, AccountsDiffer DEF TypeOK
<1>6. \A a : of(a) \subseteq ids
  OBVIOUS
<1>7. of(assetSender) = {}
  BY <1>5
<1>8. \A a : (\A id \in ids : redemptionIdToRedeemer[id].user # a) => of(a) = {}
  OBVIOUS
<1> HIDE DEF fee, due, postFees, of
<1>9. \A a : SumFunctionOnSet(postFees, of(a)) \in Int
  <2> SUFFICES ASSUME NEW a PROVE SumFunctionOnSet(postFees, of(a)) \in Int
    OBVIOUS
  <2>1. IsFiniteSet(of(a)) /\ \A id \in of(a) : postFees[id] \in Int
    BY <1>1, <1>2, <1>6, FS_Subset
  <2> QED BY <2>1, SumIsInt
<1>10. /\ SumFunction(postFees) \in Int /\ fees \in Nat
       /\ SumFunction(due) = SumFunction(postFees) + fees
  <2>1. \A id \in ids : postFees[id] \in Int /\ fee[id] \in Int /\ due[id] = postFees[id] + fee[id]
    BY <1>2
  <2>2. SumFunctionOnSet(postFees, ids) \in Int /\ SumFunctionOnSet(fee, ids) \in Nat
    BY <1>1, <1>2, <2>1, SumIsInt, SumIsNat
  <2>3. SumFunctionOnSet(due, ids) = SumFunctionOnSet(postFees, ids) + SumFunctionOnSet(fee, ids)
    BY <1>1, <2>1, SumAdds
  <2> QED BY <1>3, <2>2, <2>3 DEF SumFunction
<1>11. /\ paidOut \in [Accounts -> Int]
       /\ \A a \in Accounts : of(a) = {} => paidOut[a] = usdc[a]
  <2>1. paidOut \in [Accounts -> Int]
    BY <1>5, <1>9
  <2>2. SumFunctionOnSet(postFees, {}) = 0
    BY SumOfNone
  <2> QED BY <1>5, <2>1, <2>2
<1>12. less = usdc[assetSender] - SumFunction(postFees) /\ less \in Int
  <2>1. paidOut[assetSender] = usdc[assetSender]
    BY <1>5, <1>7, <1>11
  <2> HIDE DEF paidOut
  <2> QED BY <1>5, <1>10, <2>1
<1> HIDE DEF paidOut, less, fees
<1>13. /\ debited \in [Accounts -> Int] /\ debited[assetSender] = less
       /\ \A a \in Accounts \ {assetSender} : debited[a] = paidOut[a]
  BY <1>5, <1>11, <1>12
<1> HIDE DEF debited
<1>14. /\ usdc' \in [Accounts -> Int] /\ usdc'[assetSender] = debited[assetSender] - fees
       /\ \A a \in Accounts \ {assetSender, feeRecipient} : usdc'[a] = debited[a]
  BY <1>4, <1>5, <1>10, <1>13, MovedBalances
<1>15. usdc'[assetSender] = usdc[assetSender] - SumFunction(due)
  BY <1>5, <1>10, <1>12, <1>13, <1>14
<1>16. \A a \in Accounts \ {assetSender, feeRecipient} : of(a) = {} => usdc'[a] = usdc[a]
  BY <1>11, <1>13, <1>14
<1> QED BY <1>8, <1>14, <1>15, <1>16 DEF due

LEMMA OwedIsNat ==
  ASSUME TypeOK, NEW id \in DepositIds, Mintable(id)
  PROVE  rwaOwed(id) \in Nat
<1> DEFINE amount == depositIdToDepositor[id].amountDepositedMinusFees
           price == getPrice(depositIdToDepositor[id].priceId)
<1>1. amount \in Nat /\ price \in Nat \ {0}
  BY DEF TypeOK, DepositorType, getPrice, Mintable
<1>2. amount * decimalsMultiplier \in Nat
  BY <1>1, HubMathAssumption, MulMono
<1>3. (amount * decimalsMultiplier) * PRICE_UNIT \in Nat
  BY <1>2, HubMathAssumption, MulMono
<1> HIDE DEF amount, price
<1>4. ((amount * decimalsMultiplier) * PRICE_UNIT) \div price \in Nat
  BY <1>1, <1>3, DivFloor
<1> QED BY <1>4 DEF rwaOwed, getMintAmountForPrice, scaleUp, amount, price

\* What a batch of claims mints is an amount.
LEMMA MintedIsNat ==
  ASSUME TypeOK, NEW ids \in Batches(DepositIds), ClaimMint(ids)
  PROVE  usdxSupply' \in Nat
<1> DEFINE owed == [id \in ids |-> rwaOwed(id)]
<1>1. ids \subseteq DepositIds /\ IsFiniteSet(ids)
  BY BatchesAreFinite
<1>2. \A id \in ids : owed[id] \in Nat
  BY <1>1, OwedIsNat DEF ClaimMint
<1>3. DOMAIN owed = ids /\ usdxSupply' = usdxSupply + SumFunction(owed)
  BY DEF ClaimMint
<1> HIDE DEF owed
<1>4. SumFunction(owed) \in Nat
  BY <1>1, <1>2, <1>3, SumIsNat DEF SumFunction
<1> QED BY <1>3, <1>4 DEF TypeOK

\* Calls of users keep the types.
LEMMA TypeUserCalls == TypeOK /\ UserCalls => TypeOK'
<1> SUFFICES ASSUME TypeOK, UserCalls PROVE TypeOK'
  OBVIOUS
<1> USE DEF depositVars, redemptionVars, parameterVars, tokenVars, worldVars
<1>1. ASSUME NEW u \in Users, NEW a \in Amounts, RequestSubscription(u, a)
      PROVE TypeOK'
  <2> DEFINE net == a - getMintFees(a, mintFee)
  <2>1. net \in Nat
    BY NetIsNat, ManagerAssumption DEF TypeOK
  <2>2. subscriptionRequestCounter \in CounterDepositIds
    BY <1>1, CounterIds DEF RequestSubscription
  <2>3. /\ EnterDeposit(subscriptionRequestCounter, u, net)
        /\ depositLog' =
             [depositLog EXCEPT ![subscriptionRequestCounter] =
                Entered(depositLog[subscriptionRequestCounter], u, net, net, 0)]
    BY <1>1 DEF RequestSubscription
  <2>4. /\ depositIdToDepositor' \in [DepositIds -> DepositorType]
        /\ depositLog' \in [DepositIds -> DepositLogType]
    BY <2>1, <2>2, <2>3, 0 \in Nat, TypeEnterDeposit DEF DepositIds
  <2>5. subscriptionRequestCounter' \in 1 .. MaxDeposits + 1
    BY <1>1, <2>2, CounterIds DEF RequestSubscription, TakeSubscriptionId, CounterDepositIds
  <2>6. usdc' \in [Accounts -> Int]
    BY <1>1, SubscriptionTransfers
  <2>7. QED
    BY <1>1, <2>4, <2>5, <2>6 DEF RequestSubscription, TypeOK
<1>2. ASSUME NEW ids \in Batches(DepositIds), ClaimMint(ids)
      PROVE TypeOK'
  <2>1. ids \in SUBSET DepositIds
    BY DEF Batches
  <2>2. /\ depositIdToDepositor' \in [DepositIds -> DepositorType]
        /\ depositIdToClaimableTimestamp' \in [DepositIds -> Nat]
        /\ depositLog' \in [DepositIds -> DepositLogType]
    BY <1>2, <2>1, TypeClaimMint
  <2>3. usdxSupply' \in Nat
    BY <1>2, MintedIsNat
  <2>4. QED
    BY <1>2, <2>2, <2>3 DEF ClaimMint, TypeOK
<1>3. ASSUME NEW u \in Users, NEW a \in RwaAmounts, RequestRedemption(u, a)
      PROVE TypeOK'
  <2>1. redemptionRequestCounter \in RedemptionIds /\ a \in Nat
    BY <1>3, CounterIds, ManagerAssumption DEF RequestRedemption
  <2>2. redemptionIdToRedeemer' \in [RedemptionIds -> RedeemerType]
    BY <1>3, <2>1 DEF RequestRedemption, EnterRedemption, Redeemer, RedeemerType, TypeOK
  <2>3. redemptionLog' \in [RedemptionIds -> RedemptionLogType]
    BY <1>3, <2>1, RequestedLog DEF RequestRedemption, TypeOK
  <2>4. redemptionRequestCounter' \in 1 .. MaxRedemptions + 1
    BY <1>3, <2>1, CounterIds DEF RequestRedemption, TakeRedemptionId, RedemptionIds
  <2>5. usdxSupply' \in Nat
    BY <1>3, <2>1 DEF RequestRedemption, Burnable, TypeOK
  <2>6. QED
    BY <1>3, <2>2, <2>3, <2>4, <2>5 DEF RequestRedemption, TypeOK
<1>4. ASSUME NEW u \in Users, NEW a \in RwaAmounts,
             RequestRedemptionServicedOffchain(u, a)
      PROVE TypeOK'
  <2>1. redemptionRequestCounter \in RedemptionIds /\ a \in Nat
    BY <1>4, CounterIds, ManagerAssumption DEF RequestRedemptionServicedOffchain
  <2>2. redemptionLog' \in [RedemptionIds -> RedemptionLogType]
    BY <1>4, <2>1, RequestedLog DEF RequestRedemptionServicedOffchain, TypeOK
  <2>3. redemptionRequestCounter' \in 1 .. MaxRedemptions + 1
    BY <1>4, <2>1, CounterIds
       DEF RequestRedemptionServicedOffchain, TakeRedemptionId, RedemptionIds
  <2>4. usdxSupply' \in Nat
    BY <1>4, <2>1 DEF RequestRedemptionServicedOffchain, Burnable, TypeOK
  <2>5. QED
    BY <1>4, <2>2, <2>3, <2>4 DEF RequestRedemptionServicedOffchain, TypeOK
<1>5. ASSUME NEW ids \in Batches(RedemptionIds), ClaimRedemption(ids)
      PROVE TypeOK'
  <2>1. ids \in SUBSET RedemptionIds
    BY DEF Batches
  <2>2. /\ redemptionIdToRedeemer' \in [RedemptionIds -> RedeemerType]
        /\ redemptionLog' \in [RedemptionIds -> RedemptionLogType]
    BY <1>5, <2>1, TypeClaimRedemption
  <2>3. usdc' \in [Accounts -> Int]
    BY <1>5, SettlementTransfers
  <2>4. QED
    BY <1>5, <2>2, <2>3 DEF ClaimRedemption, TypeOK
<1>6. QED
  BY <1>1, <1>2, <1>3, <1>4, <1>5 DEF UserCalls

\* Calls of the relayer, the price id setter and the timestamp setter keep
\* the types.
LEMMA TypeOperatorCalls == TypeOK /\ OperatorCalls => TypeOK'
<1> SUFFICES ASSUME TypeOK, OperatorCalls PROVE TypeOK'
  OBVIOUS
<1> USE DEF depositVars, redemptionVars, parameterVars, tokenVars, worldVars
<1>0. PriceIds \subseteq Nat /\ MaxTime \in Nat /\ 0 \in Nat
  BY ManagerAssumption DEF PriceIds
<1>1. ASSUME NEW h \in TxHashes, NEW u \in Users, NEW a \in Amounts, AddProof(h, u, a)
      PROVE TypeOK'
  <2> DEFINE ahead == IF AheadOfCounter(h) THEN 1 ELSE 0
  <2>a. ahead \in Nat /\ 0 \in Nat /\ a \in Nat /\ h \in DepositIds
    BY ManagerAssumption DEF DepositIds
  <2>b. /\ EnterDeposit(h, u, a)
        /\ depositLog' = [depositLog EXCEPT ![h] = Entered(depositLog[h], u, a, 0, ahead)]
    BY <1>1 DEF AddProof
  <2> HIDE DEF ahead
  <2>1. /\ depositIdToDepositor' \in [DepositIds -> DepositorType]
        /\ depositLog' \in [DepositIds -> DepositLogType]
    BY <2>a, <2>b, TypeEnterDeposit
  <2>2. QED
    BY <1>1, <2>1 DEF AddProof, TypeOK
<1>2. ASSUME NEW ids \in Batches(DepositIds), NEW f \in [ids -> PriceIds \cup {0}],
             SetPriceIdForDeposits(ids, f)
      PROVE TypeOK'
  <2>1. ids \in SUBSET DepositIds /\ \A id \in ids : f[id] \in Nat
    BY <1>0 DEF Batches
  <2>2. depositIdToDepositor' \in [DepositIds -> DepositorType]
    BY <1>2, <2>1 DEF SetPriceIdForDeposits, DepositorType, TypeOK
  <2>3. depositLog' \in [DepositIds -> DepositLogType]
    BY <1>2, <2>1, PricedLog DEF SetPriceIdForDeposits, TypeOK
  <2>4. QED
    BY <1>2, <2>2, <2>3 DEF SetPriceIdForDeposits, TypeOK
<1>3. ASSUME NEW ids \in Batches(RedemptionIds), NEW f \in [ids -> PriceIds \cup {0}],
             SetPriceIdForRedemptions(ids, f)
      PROVE TypeOK'
  <2>1. ids \in SUBSET RedemptionIds /\ \A id \in ids : f[id] \in Nat
    BY <1>0 DEF Batches
  <2>2. redemptionIdToRedeemer' \in [RedemptionIds -> RedeemerType]
    BY <1>3, <2>1 DEF SetPriceIdForRedemptions, RedeemerType, TypeOK
  <2>3. redemptionLog' \in [RedemptionIds -> RedemptionLogType]
    BY <1>3, <2>1, PricedLog DEF SetPriceIdForRedemptions, TypeOK
  <2>4. QED
    BY <1>3, <2>2, <2>3 DEF SetPriceIdForRedemptions, TypeOK
<1>4. ASSUME NEW t \in 1 .. MaxTime, NEW ids \in Batches(DepositIds),
             SetClaimableTimestamp(t, ids)
      PROVE TypeOK'
  <2>1. depositIdToClaimableTimestamp' \in [DepositIds -> Nat]
    BY <1>0, <1>4 DEF SetClaimableTimestamp, TypeOK
  <2>2. depositLog' \in [DepositIds -> DepositLogType]
    BY <1>4, ArmedLog DEF SetClaimableTimestamp, TypeOK
  <2>3. QED
    BY <1>4, <2>1, <2>2 DEF SetClaimableTimestamp, TypeOK
<1>5. QED
  BY <1>1, <1>2, <1>3, <1>4 DEF OperatorCalls

\* Calls of the manager and the pauser that set a parameter leave the ledgers
\* alone and keep the types.
ParameterCalls ==
  \/ \E m \in MinimumChoices : SetMinimumDepositAmount(m)
  \/ \E m \in MinimumChoices : SetMinimumRedemptionAmount(m)
  \/ \E m \in MinimumChoices : SetOffChainRedemptionMinimum(m)
  \/ \E fee \in FeeChoices : SetMintFee(fee)
  \/ \E fee \in FeeChoices : SetRedemptionFee(fee)
  \/ \E r \in FeeRecipients : SetFeeRecipient(r)
  \/ \E s \in AssetSenders : SetAssetSender(s)
  \/ \E f \in PausableFeatures : Pause(f)
  \/ \E f \in PausableFeatures : Unpause(f)
  \/ \E p \in [PriceIds -> PriceValues \cup {0}] : SetPricer(p)

LEMMA TypeParameterCalls ==
  TypeOK /\ ParameterCalls => TypeOK' /\ UNCHANGED <<depositVars, redemptionVars>>
<1> SUFFICES ASSUME TypeOK, ParameterCalls
             PROVE  TypeOK' /\ UNCHANGED <<depositVars, redemptionVars>>
  OBVIOUS
<1> USE DEF TypeOK, depositVars, redemptionVars, parameterVars, tokenVars, worldVars
<1>0. /\ MinimumChoices \subseteq Nat /\ FeeChoices \subseteq Nat
      /\ BPS_DENOMINATOR \in Nat /\ PriceValues \subseteq Nat
      /\ PausableFeatures \subseteq Features
  BY ManagerAssumption, HubMathAssumption
<1>1. CASE \E m \in MinimumChoices : SetMinimumDepositAmount(m)
  BY <1>0, <1>1 DEF SetMinimumDepositAmount
<1>2. CASE \E m \in MinimumChoices : SetMinimumRedemptionAmount(m)
  BY <1>0, <1>2 DEF SetMinimumRedemptionAmount
<1>3. CASE \E m \in MinimumChoices : SetOffChainRedemptionMinimum(m)
  BY <1>0, <1>3 DEF SetOffChainRedemptionMinimum
<1>4. CASE \E fee \in FeeChoices : SetMintFee(fee)
  BY <1>0, <1>4 DEF SetMintFee
<1>5. CASE \E fee \in FeeChoices : SetRedemptionFee(fee)
  BY <1>0, <1>5 DEF SetRedemptionFee
<1>6. CASE \E r \in FeeRecipients : SetFeeRecipient(r)
  BY <1>6 DEF SetFeeRecipient
<1>7. CASE \E s \in AssetSenders : SetAssetSender(s)
  BY <1>7 DEF SetAssetSender
<1>8. CASE \E f \in PausableFeatures : Pause(f)
  BY <1>0, <1>8 DEF Pause
<1>9. CASE \E f \in PausableFeatures : Unpause(f)
  BY <1>9 DEF Unpause
<1>10. CASE \E p \in [PriceIds -> PriceValues \cup {0}] : SetPricer(p)
  <2>1. PICK p \in [PriceIds -> PriceValues \cup {0}] : SetPricer(p)
    BY <1>10
  <2>2. PriceValues \cup {0} \subseteq Nat
    BY <1>0
  <2>3. p \in [PriceIds -> Nat]
    BY <2>2, WiderRange
  <2>4. QED
    BY <2>1, <2>3 DEF SetPricer
<1>11. QED
  BY <1>1, <1>2, <1>3, <1>4, <1>5, <1>6, <1>7, <1>8, <1>9, <1>10 DEF ParameterCalls

\* Steps of the contracts around the manager do the same.
LEMMA TypeWorldSteps ==
  TypeOK /\ WorldSteps => TypeOK' /\ UNCHANGED <<depositVars, redemptionVars>>
<1> SUFFICES ASSUME TypeOK, WorldSteps
             PROVE  TypeOK' /\ UNCHANGED <<depositVars, redemptionVars>>
  OBVIOUS
<1> USE DEF TypeOK, depositVars, redemptionVars, parameterVars, tokenVars, worldVars
<1>0. PriceValues \subseteq Nat /\ Listable \subseteq Users
  BY ManagerAssumption
<1>1. CASE \E id \in PriceIds, p \in PriceValues : PricerSets(id, p)
  BY <1>0, <1>1 DEF PricerSets
<1>2. CASE \E S \in SUBSET Listable : RestrictionsChange(S)
  BY <1>0, <1>2 DEF RestrictionsChange
<1>3. CASE \E S \in SUBSET Listable : TokenDenials(S)
  BY <1>0, <1>3 DEF TokenDenials
<1>4. CASE Tick
  BY <1>4 DEF Tick
<1>5. QED
  BY <1>1, <1>2, <1>3, <1>4 DEF WorldSteps

\* What an overwrite does to the ledgers.
LEMMA TypeOverwriteDepositor ==
  ASSUME TypeOK, NEW id \in DepositIds, NEW u \in Users \cup {NoUser},
         NEW a \in Amounts, NEW p \in PriceIds \cup {0}, OverwriteDepositor(id, u, a, p)
  PROVE  TypeOK'
<1>1. a \in Nat /\ p \in Nat
  BY ManagerAssumption DEF PriceIds
<1>2. Depositor(u, a, p) \in DepositorType
  BY <1>1 DEF Depositor, DepositorType
<1>3. Overwritten(depositLog[id], p) \in DepositLogType
  BY <1>1, OverwrittenDepositLog DEF TypeOK
<1>4. QED
  BY <1>2, <1>3 DEF OverwriteDepositor, TypeOK, redemptionVars, parameterVars,
                    tokenVars, worldVars

LEMMA TypeOverwriteRedeemer ==
  ASSUME TypeOK, NEW id \in RedemptionIds, NEW u \in Users \cup {NoUser},
         NEW a \in RwaAmounts, NEW p \in PriceIds \cup {0}, OverwriteRedeemer(id, u, a, p)
  PROVE  TypeOK'
<1>1. a \in Nat /\ p \in Nat
  BY ManagerAssumption DEF PriceIds
<1>2. Redeemer(u, a, p) \in RedeemerType
  BY <1>1 DEF Redeemer, RedeemerType
<1>3. Overwritten(redemptionLog[id], p) \in RedemptionLogType
  BY <1>1, OverwrittenRedemptionLog DEF TypeOK
<1>4. QED
  BY <1>2, <1>3 DEF OverwriteRedeemer, TypeOK, depositVars, parameterVars,
                    tokenVars, worldVars

LEMMA TypeManagerCalls == TypeOK /\ ManagerCalls => TypeOK'
  BY TypeParameterCalls, TypeOverwriteDepositor, TypeOverwriteRedeemer
     DEF ManagerCalls, ParameterCalls

LEMMA TypeStep == TypeOK /\ [Next]_vars => TypeOK'
<1> SUFFICES ASSUME TypeOK, [Next]_vars PROVE TypeOK'
  OBVIOUS
<1>1. CASE UNCHANGED vars
  BY <1>1 DEF vars, TypeOK, depositVars, redemptionVars, parameterVars, tokenVars, worldVars
<1>2. QED
  BY <1>1, TypeUserCalls, TypeOperatorCalls, TypeManagerCalls, TypeWorldSteps DEF Next

\* The storage of the manager and the histories keep their types, fees stay
\* within 100%: for every instance, not only the bounded ones.
THEOREM TypeCorrect == Spec => []TypeOK
<1>1. QED
  BY TypeInit, TypeStep, PTL DEF Spec
-----------------------------------------------------------------------------
LEMMA LedgerInit == Init => LedgerInvariant
<1> SUFFICES ASSUME Init PROVE LedgerInvariant
  OBVIOUS
<1> USE DEF Init
<1>1. TypeOK
  BY TypeInit
<1>2. EveryEntryMintedOnce /\ DepositLogsAgree
  BY DEF EveryEntryMintedOnce, DepositLogsAgree, NoDepositor, Depositor, NoDepositLog
<1>3. UnreachedIdsAreFree
  BY DEF UnreachedIdsAreFree, NoDepositLog, DepositIds
<1>4. EveryBurnSettledOnce /\ RedemptionLogsAgree
  BY ManagerAssumption DEF EveryBurnSettledOnce, RedemptionLogsAgree, NoRedeemer,
     Redeemer, NoRedemptionLog, RedemptionIds
<1>5. QED
  BY <1>1, <1>2, <1>3, <1>4 DEF LedgerInvariant, DepositLedger, RedemptionLedger

\* A step that leaves a ledger alone keeps its invariant.
LEMMA DepositFrame == DepositLedger /\ UNCHANGED depositVars => DepositLedger'
  BY DEF DepositLedger, depositVars, EveryEntryMintedOnce, UnreachedIdsAreFree,
         AheadOfCounter, Undisturbed, DepositLogsAgree

LEMMA RedemptionFrame ==
  RedemptionLedger /\ UNCHANGED redemptionVars => RedemptionLedger'
  BY DEF RedemptionLedger, redemptionVars, EveryBurnSettledOnce, RedemptionLogsAgree

\* A new entry, under an id that has no open entry unless the manager put it
\* there, or the relayer ahead of the counter.
LEMMA EnterDepositStep ==
  ASSUME TypeOK, DepositLedger,
         NEW id \in DepositIds, NEW user \in Users, NEW amount \in Nat,
         NEW paidIn \in Nat, NEW ahead \in Nat,
         Undisturbed(depositLog[id]) => depositIdToDepositor[id].user = NoUser,
         EnterDeposit(id, user, amount),
         depositLog' = [depositLog EXCEPT ![id] =
                          Entered(depositLog[id], user, amount, paidIn, ahead)],
         UNCHANGED depositIdToClaimableTimestamp
  PROVE  /\ EveryEntryMintedOnce' /\ DepositLogsAgree'
         /\ depositLog'[id].ahead = depositLog[id].ahead + ahead
         /\ \A i \in DepositIds : i # id => depositLog'[i] = depositLog[i]
<1>1. /\ depositLog'[id] = Entered(depositLog[id], user, amount, paidIn, ahead)
      /\ depositIdToDepositor'[id] = [user |-> user, amountDepositedMinusFees |-> amount,
                                      priceId |-> 0]
  BY DEF TypeOK, EnterDeposit, Depositor
<1>2. depositLog[id] \in DepositLogType /\ user # NoUser
  BY ManagerAssumption DEF TypeOK
<1>3. /\ depositLog'[id].entries = depositLog[id].entries + 1
      /\ depositLog'[id].entered = depositLog[id].entered + amount
      /\ depositLog'[id].mints = depositLog[id].mints
      /\ depositLog'[id].claimed = depositLog[id].claimed
      /\ depositLog'[id].depositor = user
      /\ depositLog'[id].armed = depositLog[id].armed
      /\ depositLog'[id].overwrites = depositLog[id].overwrites
      /\ depositLog'[id].ahead = depositLog[id].ahead + ahead
  <2> DEFINE log == depositLog[id]
             new == Entered(log, user, amount, paidIn, ahead)
  <2>1. /\ new.entries = log.entries + 1 /\ new.entered = log.entered + amount
        /\ new.ahead = log.ahead + ahead
        /\ new.mints = log.mints /\ new.claimed = log.claimed
        /\ new.depositor = user /\ new.armed = log.armed
        /\ new.overwrites = log.overwrites
    BY Z3T(30), <1>2, EnteredLog
  <2>2. depositLog'[id] = new
    BY <1>1
  <2> HIDE DEF new
  <2> QED BY <2>1, <2>2
<1>a. depositLog[id].ahead \in Nat
  BY <1>2 DEF DepositLogType
<1>4. ASSUME NEW i \in DepositIds, i # id
      PROVE  /\ depositLog'[i] = depositLog[i]
             /\ depositIdToDepositor'[i] = depositIdToDepositor[i]
  BY <1>4 DEF TypeOK, EnterDeposit
<1>5. EveryEntryMintedOnce'
  <2> SUFFICES ASSUME NEW i \in DepositIds, Undisturbed(depositLog'[i])
               PROVE  IF depositIdToDepositor'[i].user = NoUser
                        THEN /\ depositLog'[i].entries = depositLog'[i].mints
                             /\ depositLog'[i].entered = depositLog'[i].claimed
                        ELSE /\ depositLog'[i].entries = depositLog'[i].mints + 1
                             /\ depositLog'[i].entered = depositLog'[i].claimed
                                  + depositIdToDepositor'[i].amountDepositedMinusFees
                             /\ depositIdToDepositor'[i].user = depositLog'[i].depositor
    BY DEF EveryEntryMintedOnce, Undisturbed
  <2>1. CASE i = id
    <3>1. /\ depositLog[id].entries = depositLog[id].mints
          /\ depositLog[id].entered = depositLog[id].claimed
      <4>1. Undisturbed(depositLog[id])
        <5>1. depositLog'[id].overwrites = 0 /\ depositLog'[id].ahead = 0
          BY <2>1 DEF Undisturbed
        <5>2. depositLog[id].overwrites = 0 /\ depositLog[id].ahead = 0
          BY <1>3, <1>a, <5>1
        <5> QED BY <5>2 DEF Undisturbed
      <4> QED BY <4>1 DEF DepositLedger, EveryEntryMintedOnce
    <3>2. QED
      BY <1>1, <1>2, <1>3, <2>1, <3>1
  <2>2. CASE i # id
    BY <1>4, <2>2 DEF DepositLedger, EveryEntryMintedOnce
  <2>3. QED
    BY <2>1, <2>2
<1>6. DepositLogsAgree'
  <2> SUFFICES ASSUME NEW i \in DepositIds
               PROVE  /\ depositIdToClaimableTimestamp'[i] # 0 => depositLog'[i].armed
                      /\ depositIdToDepositor'[i].priceId # 0 => depositLog'[i].priced
                      /\ (/\ depositLog'[i].overwrites = 0
                          /\ depositIdToDepositor'[i].user = NoUser)
                           => depositIdToDepositor'[i] = NoDepositor
    BY DEF DepositLogsAgree, NoDepositor
  <2>1. CASE i = id
    BY <1>1, <1>2, <1>3, <2>1 DEF DepositLedger, DepositLogsAgree
  <2>2. CASE i # id
    BY <1>4, <2>2 DEF DepositLedger, DepositLogsAgree
  <2>3. QED
    BY <2>1, <2>2
<1>7. QED
  BY <1>3, <1>4, <1>5, <1>6

LEMMA RequestSubscriptionStep ==
  ASSUME LedgerInvariant, NEW u \in Users, NEW a \in Amounts, RequestSubscription(u, a)
  PROVE  DepositLedger'
<1> DEFINE id == subscriptionRequestCounter
           net == a - getMintFees(a, mintFee)
<1> USE DEF LedgerInvariant
<1>1. id \in CounterDepositIds /\ id \in DepositIds /\ id \in Nat /\ 0 \in Nat
  BY CounterIds DEF RequestSubscription, DepositIds, CounterDepositIds
<1>2. net \in Nat
  BY NetIsNat, ManagerAssumption DEF TypeOK
<1>3. /\ EnterDeposit(id, u, net) /\ UNCHANGED depositIdToClaimableTimestamp
      /\ depositLog' = [depositLog EXCEPT ![id] = Entered(depositLog[id], u, net, net, 0)]
  BY DEF RequestSubscription
<1>4. depositLog[id].ahead = 0 => depositLog[id].entries = 0
  BY <1>1 DEF DepositLedger, UnreachedIdsAreFree, AheadOfCounter
<1>5. Undisturbed(depositLog[id]) => depositIdToDepositor[id].user = NoUser
  BY <1>1, <1>4 DEF DepositLedger, EveryEntryMintedOnce, TypeOK, DepositLogType, Undisturbed
<1>6. /\ EveryEntryMintedOnce' /\ DepositLogsAgree'
      /\ \A i \in DepositIds : i # id => depositLog'[i] = depositLog[i]
  <2> HIDE DEF net
  <2> QED BY <1>1, <1>2, <1>3, <1>5, EnterDepositStep
<1>7. UnreachedIdsAreFree'
  <2>1. subscriptionRequestCounter' = id + 1
    BY DEF RequestSubscription, TakeSubscriptionId
  <2> SUFFICES ASSUME NEW i \in CounterDepositIds, i >= subscriptionRequestCounter',
                      depositLog'[i].ahead = 0
               PROVE  depositLog'[i].entries = 0
    BY DEF UnreachedIdsAreFree, AheadOfCounter
  <2>2. i \in Nat /\ i # id /\ i >= id /\ i \in DepositIds
    BY <1>1, <2>1 DEF CounterDepositIds, DepositIds
  <2> QED
    BY <1>6, <2>2 DEF DepositLedger, UnreachedIdsAreFree, AheadOfCounter
<1>8. QED
  BY <1>6, <1>7 DEF DepositLedger

LEMMA AddProofStep ==
  ASSUME LedgerInvariant, NEW h \in TxHashes, NEW u \in Users, NEW a \in Amounts,
         AddProof(h, u, a)
  PROVE  DepositLedger'
<1> DEFINE ahead == IF AheadOfCounter(h) THEN 1 ELSE 0
<1> USE DEF LedgerInvariant
<1>1. h \in DepositIds /\ a \in Nat /\ ahead \in Nat /\ 0 \in Nat
  BY ManagerAssumption DEF DepositIds
<1>2. /\ EnterDeposit(h, u, a)
      /\ depositLog' = [depositLog EXCEPT ![h] = Entered(depositLog[h], u, a, 0, ahead)]
      /\ UNCHANGED <<depositIdToClaimableTimestamp, subscriptionRequestCounter>>
      /\ depositIdToDepositor[h].user = NoUser
  BY DEF AddProof, Provable
<1>3. /\ EveryEntryMintedOnce' /\ DepositLogsAgree'
      /\ depositLog'[h].ahead = depositLog[h].ahead + ahead
      /\ \A i \in DepositIds : i # h => depositLog'[i] = depositLog[i]
  <2> HIDE DEF ahead
  <2> QED BY <1>1, <1>2, EnterDepositStep
<1>4. UnreachedIdsAreFree'
  <2> SUFFICES ASSUME NEW i \in CounterDepositIds, AheadOfCounter(i),
                      depositLog'[i].ahead = 0
               PROVE  depositLog'[i].entries = 0
    BY <1>2 DEF UnreachedIdsAreFree, AheadOfCounter
  <2>1. i \in DepositIds /\ depositLog[i].ahead \in Nat
    BY DEF DepositIds, TypeOK, DepositLogType
  <2>2. i # h
    BY <1>3, <2>1
  <2> QED
    BY <1>3, <2>1, <2>2 DEF DepositLedger, UnreachedIdsAreFree
<1>5. QED
  BY <1>3, <1>4 DEF DepositLedger

\* A batch of claims closes every entry it names.
LEMMA ClaimMintStep ==
  ASSUME LedgerInvariant, NEW ids \in Batches(DepositIds), ClaimMint(ids)
  PROVE  DepositLedger'
<1> USE DEF LedgerInvariant
<1>1. ASSUME NEW i \in DepositIds, i \notin ids
      PROVE  /\ depositLog'[i] = depositLog[i]
             /\ depositIdToDepositor'[i] = depositIdToDepositor[i]
             /\ depositIdToClaimableTimestamp'[i] = depositIdToClaimableTimestamp[i]
  BY <1>1 DEF ClaimMint, CloseDeposits
<1>2. ASSUME NEW i \in DepositIds, i \in ids
      PROVE  /\ depositLog'[i] =
                  Minted(depositLog[i], depositIdToDepositor[i].amountDepositedMinusFees)
             /\ depositIdToDepositor'[i] = NoDepositor
             /\ depositIdToClaimableTimestamp'[i] = 0
             /\ depositIdToDepositor[i].user # NoUser
  BY <1>2 DEF ClaimMint, CloseDeposits, Mintable
<1>3. ASSUME NEW i \in DepositIds, i \in ids
      PROVE  /\ depositLog'[i].mints = depositLog[i].mints + 1
             /\ depositLog'[i].claimed = depositLog[i].claimed
                  + depositIdToDepositor[i].amountDepositedMinusFees
             /\ depositLog'[i].entries = depositLog[i].entries
             /\ depositLog'[i].entered = depositLog[i].entered
             /\ depositLog'[i].overwrites = depositLog[i].overwrites
             /\ depositLog'[i].ahead = depositLog[i].ahead
  <2>1. /\ depositLog[i] \in DepositLogType
        /\ depositIdToDepositor[i].amountDepositedMinusFees \in Nat
    BY DEF TypeOK, DepositorType
  <2> DEFINE log == depositLog[i]
             amount == depositIdToDepositor[i].amountDepositedMinusFees
             new == Minted(log, amount)
  <2>2. /\ new.mints = log.mints + 1 /\ new.claimed = log.claimed + amount
        /\ new.entries = log.entries /\ new.entered = log.entered
        /\ new.overwrites = log.overwrites /\ new.ahead = log.ahead
    BY <2>1, MintedLog
  <2>3. depositLog'[i] = new
    BY <1>2, <1>3
  <2> HIDE DEF new
  <2>4. QED
    BY <2>2, <2>3
<1>4. EveryEntryMintedOnce'
  <2> SUFFICES ASSUME NEW i \in DepositIds, Undisturbed(depositLog'[i])
               PROVE  IF depositIdToDepositor'[i].user = NoUser
                        THEN /\ depositLog'[i].entries = depositLog'[i].mints
                             /\ depositLog'[i].entered = depositLog'[i].claimed
                        ELSE /\ depositLog'[i].entries = depositLog'[i].mints + 1
                             /\ depositLog'[i].entered = depositLog'[i].claimed
                                  + depositIdToDepositor'[i].amountDepositedMinusFees
                             /\ depositIdToDepositor'[i].user = depositLog'[i].depositor
    BY DEF EveryEntryMintedOnce, Undisturbed
  <2>1. CASE i \in ids
    <3>1. /\ depositLog[i].entries = depositLog[i].mints + 1
          /\ depositLog[i].entered = depositLog[i].claimed
               + depositIdToDepositor[i].amountDepositedMinusFees
      <4>1. Undisturbed(depositLog[i])
        BY <1>3, <2>1 DEF Undisturbed
      <4> QED BY <1>2, <2>1, <4>1 DEF DepositLedger, EveryEntryMintedOnce
    <3>2. depositIdToDepositor'[i].user = NoUser
      BY <1>2, <2>1 DEF NoDepositor, Depositor
    <3>3. QED
      BY <1>3, <2>1, <3>1, <3>2
  <2>2. CASE i \notin ids
    BY <1>1, <2>2 DEF DepositLedger, EveryEntryMintedOnce
  <2>3. QED
    BY <2>1, <2>2
<1>5. DepositLogsAgree'
  <2> SUFFICES ASSUME NEW i \in DepositIds
               PROVE  /\ depositIdToClaimableTimestamp'[i] # 0 => depositLog'[i].armed
                      /\ depositIdToDepositor'[i].priceId # 0 => depositLog'[i].priced
                      /\ (/\ depositLog'[i].overwrites = 0
                          /\ depositIdToDepositor'[i].user = NoUser)
                           => depositIdToDepositor'[i] = NoDepositor
    BY DEF DepositLogsAgree, NoDepositor
  <2>1. CASE i \in ids
    BY <1>2, <2>1 DEF NoDepositor, Depositor
  <2>2. CASE i \notin ids
    BY <1>1, <2>2 DEF DepositLedger, DepositLogsAgree
  <2>3. QED
    BY <2>1, <2>2
<1>6. UnreachedIdsAreFree'
  <2>1. \A i \in CounterDepositIds : /\ depositLog'[i].entries = depositLog[i].entries
                                     /\ depositLog'[i].ahead = depositLog[i].ahead
    BY <1>1, <1>3 DEF DepositIds
  <2>2. subscriptionRequestCounter' = subscriptionRequestCounter
    BY DEF ClaimMint
  <2>3. QED
    BY <2>1, <2>2 DEF UnreachedIdsAreFree, AheadOfCounter, DepositLedger
<1>7. QED
  BY <1>4, <1>5, <1>6 DEF DepositLedger

LEMMA SetPriceIdForDepositsStep ==
  ASSUME LedgerInvariant, NEW ids \in Batches(DepositIds),
         NEW f \in [ids -> PriceIds \cup {0}], SetPriceIdForDeposits(ids, f)
  PROVE  DepositLedger'
<1> USE DEF LedgerInvariant
<1>1. ASSUME NEW i \in DepositIds
      PROVE  /\ depositLog'[i] = IF i \in ids
                  THEN Priced(depositLog[i], f[i]) ELSE depositLog[i]
             /\ depositIdToDepositor'[i] = IF i \in ids
                  THEN [depositIdToDepositor[i] EXCEPT !.priceId = f[i]]
                  ELSE depositIdToDepositor[i]
             /\ i \in ids => depositIdToDepositor[i].user # NoUser
  BY DEF SetPriceIdForDeposits, DepositPriceable
<1>2. ASSUME NEW i \in DepositIds
      PROVE  /\ depositLog'[i].entries = depositLog[i].entries
             /\ depositLog'[i].entered = depositLog[i].entered
             /\ depositLog'[i].mints = depositLog[i].mints
             /\ depositLog'[i].claimed = depositLog[i].claimed
             /\ depositLog'[i].depositor = depositLog[i].depositor
             /\ depositLog'[i].armed = depositLog[i].armed
             /\ depositLog'[i].overwrites = depositLog[i].overwrites
             /\ depositLog'[i].ahead = depositLog[i].ahead
             /\ (i \in ids /\ f[i] # 0) => depositLog'[i].priced
  <2>1. depositLog[i] \in DepositLogType
    BY DEF TypeOK
  <2>2. CASE i \in ids
    <3>1. f[i] \in Nat
      BY <2>2, ManagerAssumption DEF PriceIds
    <3> DEFINE log == depositLog[i]
               new == Priced(log, f[i])
    <3>2. /\ new.entries = log.entries /\ new.entered = log.entered
          /\ new.mints = log.mints /\ new.claimed = log.claimed
          /\ new.depositor = log.depositor /\ new.armed = log.armed
          /\ new.overwrites = log.overwrites /\ new.ahead = log.ahead
          /\ f[i] # 0 => new.priced
      BY <2>1, <3>1, PricedLog
    <3>3. depositLog'[i] = new
      BY <1>1, <2>2
    <3> HIDE DEF new
    <3>4. QED
      BY <3>2, <3>3
  <2>3. CASE i \notin ids
    BY <1>1, <2>3
  <2>4. QED
    BY <2>2, <2>3
<1>3. ASSUME NEW i \in DepositIds
      PROVE  /\ depositIdToDepositor'[i].user = depositIdToDepositor[i].user
             /\ depositIdToDepositor'[i].amountDepositedMinusFees
                  = depositIdToDepositor[i].amountDepositedMinusFees
             /\ i \in ids => depositIdToDepositor'[i].priceId = f[i]
  BY <1>1 DEF TypeOK, DepositorType
<1>4. EveryEntryMintedOnce'
  BY <1>2, <1>3 DEF DepositLedger, EveryEntryMintedOnce, Undisturbed
<1>5. DepositLogsAgree'
  <2> SUFFICES ASSUME NEW i \in DepositIds
               PROVE  /\ depositIdToClaimableTimestamp'[i] # 0 => depositLog'[i].armed
                      /\ depositIdToDepositor'[i].priceId # 0 => depositLog'[i].priced
                      /\ (/\ depositLog'[i].overwrites = 0
                          /\ depositIdToDepositor'[i].user = NoUser)
                           => depositIdToDepositor'[i] = NoDepositor
    BY DEF DepositLogsAgree, NoDepositor
  <2>1. depositIdToClaimableTimestamp' = depositIdToClaimableTimestamp
    BY DEF SetPriceIdForDeposits
  <2>2. CASE i \in ids
    BY ZenonT(30), <1>1, <1>2, <1>3, <2>1, <2>2 DEF DepositLedger, DepositLogsAgree
  <2>3. CASE i \notin ids
    BY <1>1, <2>1, <2>3 DEF DepositLedger, DepositLogsAgree
  <2>4. QED
    BY <2>2, <2>3
<1>6. UnreachedIdsAreFree'
  BY <1>2 DEF UnreachedIdsAreFree, AheadOfCounter, DepositLedger, SetPriceIdForDeposits,
              DepositIds
<1>7. QED
  BY <1>4, <1>5, <1>6 DEF DepositLedger

LEMMA SetClaimableTimestampStep ==
  ASSUME LedgerInvariant, NEW ids \in Batches(DepositIds), NEW t \in 1 .. MaxTime,
         SetClaimableTimestamp(t, ids)
  PROVE  DepositLedger'
<1> USE DEF LedgerInvariant
<1>1. ASSUME NEW i \in DepositIds
      PROVE  /\ depositLog'[i].entries = depositLog[i].entries
             /\ depositLog'[i].entered = depositLog[i].entered
             /\ depositLog'[i].mints = depositLog[i].mints
             /\ depositLog'[i].claimed = depositLog[i].claimed
             /\ depositLog'[i].depositor = depositLog[i].depositor
             /\ depositLog'[i].priced = depositLog[i].priced
             /\ depositLog'[i].overwrites = depositLog[i].overwrites
             /\ depositLog'[i].ahead = depositLog[i].ahead
             /\ i \in ids => depositLog'[i].armed
             /\ i \notin ids => /\ depositLog'[i] = depositLog[i]
                               /\ depositIdToClaimableTimestamp'[i]
                                    = depositIdToClaimableTimestamp[i]
  BY ArmedLog DEF SetClaimableTimestamp, TypeOK
<1>2. UNCHANGED <<depositIdToDepositor, subscriptionRequestCounter>>
  BY DEF SetClaimableTimestamp
<1>3. EveryEntryMintedOnce'
  BY <1>1, <1>2 DEF DepositLedger, EveryEntryMintedOnce, Undisturbed
<1>4. DepositLogsAgree'
  BY <1>1, <1>2 DEF DepositLedger, DepositLogsAgree
<1>5. UnreachedIdsAreFree'
  BY <1>1, <1>2 DEF UnreachedIdsAreFree, AheadOfCounter, DepositLedger, DepositIds
<1>6. QED
  BY <1>3, <1>4, <1>5 DEF DepositLedger

LEMMA OverwriteDepositorStep ==
  ASSUME LedgerInvariant, NEW id \in DepositIds, NEW u \in Users \cup {NoUser},
         NEW a \in Amounts, NEW p \in PriceIds \cup {0}, OverwriteDepositor(id, u, a, p)
  PROVE  DepositLedger'
<1> USE DEF LedgerInvariant
<1>1. p \in Nat
  BY ManagerAssumption DEF PriceIds
<1>2. /\ depositLog'[id] = Overwritten(depositLog[id], p)
      /\ depositIdToDepositor'[id] = Depositor(u, a, p)
      /\ \A i \in DepositIds : i # id =>
           /\ depositLog'[i] = depositLog[i]
           /\ depositIdToDepositor'[i] = depositIdToDepositor[i]
      /\ UNCHANGED <<depositIdToClaimableTimestamp, subscriptionRequestCounter>>
  BY DEF OverwriteDepositor, TypeOK
<1>3. /\ depositLog'[id].overwrites # 0
      /\ p # 0 => depositLog'[id].priced
      /\ depositLog'[id].entries = depositLog[id].entries
      /\ depositLog'[id].armed = depositLog[id].armed
      /\ depositLog'[id].ahead = depositLog[id].ahead
  BY <1>1, <1>2, OverwrittenDepositLog DEF TypeOK
<1>4. EveryEntryMintedOnce'
  BY <1>2, <1>3 DEF DepositLedger, EveryEntryMintedOnce, Undisturbed
<1>5. DepositLogsAgree'
  <2> SUFFICES ASSUME NEW i \in DepositIds
               PROVE  /\ depositIdToClaimableTimestamp'[i] # 0 => depositLog'[i].armed
                      /\ depositIdToDepositor'[i].priceId # 0 => depositLog'[i].priced
                      /\ (/\ depositLog'[i].overwrites = 0
                          /\ depositIdToDepositor'[i].user = NoUser)
                           => depositIdToDepositor'[i] = NoDepositor
    BY DEF DepositLogsAgree, NoDepositor
  <2>1. CASE i = id
    BY <1>2, <1>3, <2>1 DEF DepositLedger, DepositLogsAgree, Depositor
  <2>2. CASE i # id
    BY <1>2, <2>2 DEF DepositLedger, DepositLogsAgree
  <2>3. QED
    BY <2>1, <2>2
<1>6. UnreachedIdsAreFree'
  BY <1>2, <1>3 DEF UnreachedIdsAreFree, AheadOfCounter, DepositLedger, DepositIds
<1>7. QED
  BY <1>4, <1>5, <1>6 DEF DepositLedger

\* A new request, on chain or off chain, takes the next id, under which
\* nothing is open and nothing was paid.
LEMMA RequestRedemptionStep ==
  ASSUME LedgerInvariant, NEW u \in Users, NEW a \in RwaAmounts,
         RequestRedemption(u, a) \/ RequestRedemptionServicedOffchain(u, a)
  PROVE  RedemptionLedger'
<1> DEFINE id == redemptionRequestCounter
           log == redemptionLog[id]
           on == Requested(log, u, a)
           off == RequestedOffChain(log, u, a)
<1> USE DEF LedgerInvariant
<1>1. id \in RedemptionIds /\ id \in Nat /\ redemptionRequestCounter' = id + 1
  BY CounterIds DEF RequestRedemption, RequestRedemptionServicedOffchain,
                    TakeRedemptionId, RedemptionIds
<1>2. a \in Nat /\ log \in RedemptionLogType /\ u # NoUser
  BY <1>1, ManagerAssumption DEF TypeOK
<1>3. /\ on \in RedemptionLogType /\ off \in RedemptionLogType
      /\ \A new \in {on, off} :
           /\ new.burned = a /\ new.redeemer = u
           /\ new.settled = log.settled /\ new.payouts = log.payouts
           /\ new.paid = log.paid /\ new.overwrites = log.overwrites
      /\ on.offChain = log.offChain /\ off.offChain
      /\ off.priced = log.priced
  BY <1>2, RequestedLog
<1>4. ~log.offChain
  BY <1>1 DEF RedemptionLedger, RedemptionLogsAgree
<1>5. log.overwrites = 0 =>
        /\ redemptionIdToRedeemer[id].user = NoUser
        /\ log.payouts = 0 /\ log.paid = 0
  BY <1>1 DEF RedemptionLedger, EveryBurnSettledOnce
<1>6. ASSUME NEW i \in RedemptionIds, i # id
      PROVE  /\ redemptionLog'[i] = redemptionLog[i]
             /\ redemptionIdToRedeemer'[i] = redemptionIdToRedeemer[i]
             /\ i < redemptionRequestCounter' <=> i < redemptionRequestCounter
             /\ i >= redemptionRequestCounter' <=> i >= redemptionRequestCounter
  <2>1. /\ redemptionLog'[i] = redemptionLog[i]
        /\ redemptionIdToRedeemer'[i] = redemptionIdToRedeemer[i]
    BY <1>6 DEF RequestRedemption, RequestRedemptionServicedOffchain, EnterRedemption, TypeOK
  <2>2. i \in Nat
    BY DEF RedemptionIds
  <2>3. /\ i < redemptionRequestCounter' <=> i < redemptionRequestCounter
        /\ i >= redemptionRequestCounter' => i >= redemptionRequestCounter
        /\ i >= redemptionRequestCounter => i >= redemptionRequestCounter'
    BY <1>1, <1>6, <2>2
  <2>4. QED
    BY <2>1, <2>3
<1>7. CASE RequestRedemption(u, a)
  <2>1. /\ redemptionLog'[id] = on
        /\ redemptionIdToRedeemer'[id] = [user |-> u, amountRwaTokenBurned |-> a, priceId |-> 0]
    BY <1>1, <1>7 DEF RequestRedemption, EnterRedemption, Redeemer, TypeOK
  <2> HIDE DEF on, off, log
  <2>2. id < redemptionRequestCounter' /\ ~(id >= redemptionRequestCounter')
    BY <1>1
  <2>3. EveryBurnSettledOnce'
    <3> SUFFICES ASSUME NEW i \in RedemptionIds, redemptionLog'[i].overwrites = 0
                 PROVE  IF redemptionIdToRedeemer'[i].user = NoUser
                          THEN IF i < redemptionRequestCounter' /\ ~redemptionLog'[i].offChain
                                 THEN /\ redemptionLog'[i].payouts = 1
                                      /\ redemptionLog'[i].settled = redemptionLog'[i].burned
                                 ELSE redemptionLog'[i].payouts = 0 /\ redemptionLog'[i].paid = 0
                          ELSE /\ i < redemptionRequestCounter' /\ ~redemptionLog'[i].offChain
                               /\ redemptionLog'[i].payouts = 0
                               /\ redemptionIdToRedeemer'[i].amountRwaTokenBurned
                                    = redemptionLog'[i].burned
                               /\ redemptionIdToRedeemer'[i].user = redemptionLog'[i].redeemer
      BY DEF EveryBurnSettledOnce
    <3>1. CASE i = id
      BY <1>2, <1>3, <1>4, <1>5, <2>1, <2>2, <3>1
    <3>2. CASE i # id
      BY <1>6, <3>2 DEF RedemptionLedger, EveryBurnSettledOnce
    <3>3. QED
      BY <3>1, <3>2
  <2>4. RedemptionLogsAgree'
    <3> SUFFICES ASSUME NEW i \in RedemptionIds
                 PROVE  /\ (/\ redemptionIdToRedeemer'[i].user # NoUser
                            /\ redemptionIdToRedeemer'[i].priceId # 0)
                             => redemptionLog'[i].priced
                        /\ i >= redemptionRequestCounter' => ~redemptionLog'[i].offChain
                        /\ (redemptionLog'[i].overwrites = 0 /\ redemptionLog'[i].payouts = 0)
                             => redemptionLog'[i].settled = 0 /\ redemptionLog'[i].paid = 0
      BY DEF RedemptionLogsAgree
    <3>1. CASE i = id
      <4>1. (log.overwrites = 0 /\ log.payouts = 0) => log.settled = 0 /\ log.paid = 0
        BY <1>1 DEF RedemptionLedger, RedemptionLogsAgree, log
      <4>2. QED
        BY <1>3, <2>1, <2>2, <3>1, <4>1
    <3>2. CASE i # id
      BY <1>6, <3>2 DEF RedemptionLedger, RedemptionLogsAgree
    <3>3. QED
      BY <3>1, <3>2
  <2>5. QED
    BY <2>3, <2>4 DEF RedemptionLedger
<1>8. CASE RequestRedemptionServicedOffchain(u, a)
  <2>1. redemptionLog'[id] = off /\ redemptionIdToRedeemer' = redemptionIdToRedeemer
    BY <1>1, <1>8 DEF RequestRedemptionServicedOffchain, TypeOK
  <2> HIDE DEF on, off
  <2>2. id < redemptionRequestCounter' /\ ~(id >= redemptionRequestCounter')
    BY <1>1
  <2>3. EveryBurnSettledOnce'
    <3> SUFFICES ASSUME NEW i \in RedemptionIds, redemptionLog'[i].overwrites = 0
                 PROVE  IF redemptionIdToRedeemer'[i].user = NoUser
                          THEN IF i < redemptionRequestCounter' /\ ~redemptionLog'[i].offChain
                                 THEN /\ redemptionLog'[i].payouts = 1
                                      /\ redemptionLog'[i].settled = redemptionLog'[i].burned
                                 ELSE redemptionLog'[i].payouts = 0 /\ redemptionLog'[i].paid = 0
                          ELSE /\ i < redemptionRequestCounter' /\ ~redemptionLog'[i].offChain
                               /\ redemptionLog'[i].payouts = 0
                               /\ redemptionIdToRedeemer'[i].amountRwaTokenBurned
                                    = redemptionLog'[i].burned
                               /\ redemptionIdToRedeemer'[i].user = redemptionLog'[i].redeemer
      BY DEF EveryBurnSettledOnce
    <3>1. CASE i = id
      BY <1>3, <1>5, <2>1, <3>1
    <3>2. CASE i # id
      BY <1>6, <3>2 DEF RedemptionLedger, EveryBurnSettledOnce
    <3>3. QED
      BY <3>1, <3>2
  <2>4. RedemptionLogsAgree'
    <3> SUFFICES ASSUME NEW i \in RedemptionIds
                 PROVE  /\ (/\ redemptionIdToRedeemer'[i].user # NoUser
                            /\ redemptionIdToRedeemer'[i].priceId # 0)
                             => redemptionLog'[i].priced
                        /\ i >= redemptionRequestCounter' => ~redemptionLog'[i].offChain
                        /\ (redemptionLog'[i].overwrites = 0 /\ redemptionLog'[i].payouts = 0)
                             => redemptionLog'[i].settled = 0 /\ redemptionLog'[i].paid = 0
      BY DEF RedemptionLogsAgree
    <3>1. CASE i = id
      <4>1. /\ (log.overwrites = 0 /\ log.payouts = 0) => log.settled = 0 /\ log.paid = 0
            /\ (/\ redemptionIdToRedeemer[id].user # NoUser
                /\ redemptionIdToRedeemer[id].priceId # 0) => log.priced
        BY <1>1 DEF RedemptionLedger, RedemptionLogsAgree
      <4> HIDE DEF log
      <4>2. QED
        BY <1>3, <2>1, <2>2, <3>1, <4>1
    <3>2. CASE i # id
      BY <1>6, <3>2 DEF RedemptionLedger, RedemptionLogsAgree
    <3>3. QED
      BY <3>1, <3>2
  <2>5. QED
    BY <2>3, <2>4 DEF RedemptionLedger
<1>9. QED
  BY <1>7, <1>8

\* A batch of claims settles every redemption it names.
LEMMA ClaimRedemptionStep ==
  ASSUME LedgerInvariant, NEW ids \in Batches(RedemptionIds), ClaimRedemption(ids)
  PROVE  RedemptionLedger'
<1> USE DEF LedgerInvariant
<1>1. ASSUME NEW i \in RedemptionIds, i \notin ids
      PROVE  /\ redemptionLog'[i] = redemptionLog[i]
             /\ redemptionIdToRedeemer'[i] = redemptionIdToRedeemer[i]
  BY <1>1 DEF ClaimRedemption
<1>2. ASSUME NEW i \in RedemptionIds, i \in ids
      PROVE  /\ redemptionLog'[i].settled =
                  redemptionLog[i].settled + redemptionIdToRedeemer[i].amountRwaTokenBurned
             /\ redemptionLog'[i].payouts = redemptionLog[i].payouts + 1
             /\ redemptionLog'[i].burned = redemptionLog[i].burned
             /\ redemptionLog'[i].offChain = redemptionLog[i].offChain
             /\ redemptionLog'[i].overwrites = redemptionLog[i].overwrites
             /\ redemptionIdToRedeemer'[i] = NoRedeemer
             /\ redemptionIdToRedeemer[i].user # NoUser
  <2> DEFINE log == redemptionLog[i]
             amount == redemptionIdToRedeemer[i].amountRwaTokenBurned
             due == collateralDue(i)
             new == PaidOut(log, amount, due)
  <2>1. log \in RedemptionLogType /\ amount \in Nat /\ due \in Nat
    BY DueIsNat DEF TypeOK, RedeemerType
  <2>2. /\ new.settled = log.settled + amount /\ new.payouts = log.payouts + 1
        /\ new.burned = log.burned /\ new.offChain = log.offChain
        /\ new.overwrites = log.overwrites
    <3> HIDE DEF log, amount, due
    <3> QED BY <2>1, PaidOutLog
  <2>3. /\ redemptionLog'[i] = new
        /\ redemptionIdToRedeemer'[i] = NoRedeemer
        /\ redemptionIdToRedeemer[i].user # NoUser
    BY <1>2 DEF ClaimRedemption, Payable
  <2> HIDE DEF new
  <2>4. QED
    BY <2>2, <2>3
<1>3. redemptionRequestCounter' = redemptionRequestCounter
  BY DEF ClaimRedemption
<1>4. EveryBurnSettledOnce'
  <2> SUFFICES ASSUME NEW i \in RedemptionIds, redemptionLog'[i].overwrites = 0
               PROVE  IF redemptionIdToRedeemer'[i].user = NoUser
                        THEN IF i < redemptionRequestCounter' /\ ~redemptionLog'[i].offChain
                               THEN /\ redemptionLog'[i].payouts = 1
                                    /\ redemptionLog'[i].settled = redemptionLog'[i].burned
                               ELSE redemptionLog'[i].payouts = 0 /\ redemptionLog'[i].paid = 0
                        ELSE /\ i < redemptionRequestCounter' /\ ~redemptionLog'[i].offChain
                             /\ redemptionLog'[i].payouts = 0
                             /\ redemptionIdToRedeemer'[i].amountRwaTokenBurned
                                  = redemptionLog'[i].burned
                             /\ redemptionIdToRedeemer'[i].user = redemptionLog'[i].redeemer
    BY DEF EveryBurnSettledOnce
  <2>1. CASE i \in ids
    <3>1. /\ i < redemptionRequestCounter /\ ~redemptionLog[i].offChain
          /\ redemptionLog[i].payouts = 0
          /\ redemptionIdToRedeemer[i].amountRwaTokenBurned = redemptionLog[i].burned
      BY <1>2, <2>1 DEF RedemptionLedger, EveryBurnSettledOnce
    <3>2. redemptionLog[i].settled = 0 /\ redemptionLog[i].burned \in Nat
      BY <1>2, <2>1, <3>1 DEF RedemptionLedger, RedemptionLogsAgree, TypeOK,
                              RedemptionLogType
    <3>3. redemptionIdToRedeemer'[i].user = NoUser
      BY <1>2, <2>1 DEF NoRedeemer, Redeemer
    <3>4. QED
      BY <1>2, <1>3, <2>1, <3>1, <3>2, <3>3
  <2>2. CASE i \notin ids
    BY <1>1, <1>3, <2>2 DEF RedemptionLedger, EveryBurnSettledOnce
  <2>3. QED
    BY <2>1, <2>2
<1>5. RedemptionLogsAgree'
  <2> SUFFICES ASSUME NEW i \in RedemptionIds
               PROVE  /\ (/\ redemptionIdToRedeemer'[i].user # NoUser
                          /\ redemptionIdToRedeemer'[i].priceId # 0)
                           => redemptionLog'[i].priced
                      /\ i >= redemptionRequestCounter' => ~redemptionLog'[i].offChain
                      /\ (redemptionLog'[i].overwrites = 0 /\ redemptionLog'[i].payouts = 0)
                           => redemptionLog'[i].settled = 0 /\ redemptionLog'[i].paid = 0
    BY DEF RedemptionLogsAgree
  <2>1. CASE i \in ids
    <3>1. redemptionIdToRedeemer'[i].user = NoUser
      BY <1>2, <2>1 DEF NoRedeemer, Redeemer
    <3>2. redemptionLog'[i].payouts # 0
      <4>1. redemptionLog[i].payouts \in Nat
        BY DEF TypeOK, RedemptionLogType
      <4>2. QED
        BY <1>2, <2>1, <4>1
    <3>3. QED
      BY <1>2, <1>3, <2>1, <3>1, <3>2 DEF RedemptionLedger, RedemptionLogsAgree
  <2>2. CASE i \notin ids
    BY <1>1, <1>3, <2>2 DEF RedemptionLedger, RedemptionLogsAgree
  <2>3. QED
    BY <2>1, <2>2
<1>6. QED
  BY <1>4, <1>5 DEF RedemptionLedger

LEMMA SetPriceIdForRedemptionsStep ==
  ASSUME LedgerInvariant, NEW ids \in Batches(RedemptionIds),
         NEW f \in [ids -> PriceIds \cup {0}], SetPriceIdForRedemptions(ids, f)
  PROVE  RedemptionLedger'
<1> USE DEF LedgerInvariant
<1>1. ASSUME NEW i \in RedemptionIds
      PROVE  /\ redemptionLog'[i].burned = redemptionLog[i].burned
             /\ redemptionLog'[i].settled = redemptionLog[i].settled
             /\ redemptionLog'[i].payouts = redemptionLog[i].payouts
             /\ redemptionLog'[i].paid = redemptionLog[i].paid
             /\ redemptionLog'[i].redeemer = redemptionLog[i].redeemer
             /\ redemptionLog'[i].offChain = redemptionLog[i].offChain
             /\ redemptionLog'[i].overwrites = redemptionLog[i].overwrites
             /\ (i \in ids /\ f[i] # 0) => redemptionLog'[i].priced
             /\ i \notin ids => redemptionLog'[i] = redemptionLog[i]
  <2>1. redemptionLog[i] \in RedemptionLogType
    BY DEF TypeOK
  <2>2. CASE i \in ids
    <3> DEFINE log == redemptionLog[i]
               new == Priced(log, f[i])
    <3>1. f[i] \in Nat
      BY <2>2, ManagerAssumption DEF PriceIds
    <3>2. /\ new.burned = log.burned /\ new.settled = log.settled
          /\ new.payouts = log.payouts /\ new.paid = log.paid
          /\ new.redeemer = log.redeemer /\ new.offChain = log.offChain
          /\ new.overwrites = log.overwrites
          /\ f[i] # 0 => new.priced
      BY <2>1, <3>1, PricedLog
    <3>3. redemptionLog'[i] = new
      BY <2>2 DEF SetPriceIdForRedemptions
    <3> HIDE DEF new
    <3>4. QED
      BY <2>2, <3>2, <3>3
  <2>3. CASE i \notin ids
    BY <2>3 DEF SetPriceIdForRedemptions
  <2>4. QED
    BY <2>2, <2>3
<1>2. ASSUME NEW i \in RedemptionIds
      PROVE  /\ redemptionIdToRedeemer'[i].user = redemptionIdToRedeemer[i].user
             /\ redemptionIdToRedeemer'[i].amountRwaTokenBurned
                  = redemptionIdToRedeemer[i].amountRwaTokenBurned
             /\ i \in ids => redemptionIdToRedeemer'[i].priceId = f[i]
             /\ i \notin ids => redemptionIdToRedeemer'[i] = redemptionIdToRedeemer[i]
  BY DEF SetPriceIdForRedemptions, TypeOK, RedeemerType
<1>3. redemptionRequestCounter' = redemptionRequestCounter
  BY DEF SetPriceIdForRedemptions
<1>4. EveryBurnSettledOnce'
  BY <1>1, <1>2, <1>3 DEF RedemptionLedger, EveryBurnSettledOnce
<1>5. RedemptionLogsAgree'
  <2> SUFFICES ASSUME NEW i \in RedemptionIds
               PROVE  /\ (/\ redemptionIdToRedeemer'[i].user # NoUser
                          /\ redemptionIdToRedeemer'[i].priceId # 0)
                           => redemptionLog'[i].priced
                      /\ i >= redemptionRequestCounter' => ~redemptionLog'[i].offChain
                      /\ (redemptionLog'[i].overwrites = 0 /\ redemptionLog'[i].payouts = 0)
                           => redemptionLog'[i].settled = 0 /\ redemptionLog'[i].paid = 0
    BY DEF RedemptionLogsAgree
  <2>1. CASE i \in ids
    BY <1>1, <1>2, <1>3, <2>1 DEF RedemptionLedger, RedemptionLogsAgree
  <2>2. CASE i \notin ids
    BY <1>1, <1>2, <1>3, <2>2 DEF RedemptionLedger, RedemptionLogsAgree
  <2>3. QED
    BY <2>1, <2>2
<1>6. QED
  BY <1>4, <1>5 DEF RedemptionLedger

LEMMA OverwriteRedeemerStep ==
  ASSUME LedgerInvariant, NEW id \in RedemptionIds, NEW u \in Users \cup {NoUser},
         NEW a \in RwaAmounts, NEW p \in PriceIds \cup {0}, OverwriteRedeemer(id, u, a, p)
  PROVE  RedemptionLedger'
<1> USE DEF LedgerInvariant
<1>1. p \in Nat
  BY ManagerAssumption DEF PriceIds
<1>2. /\ redemptionLog'[id] = Overwritten(redemptionLog[id], p)
      /\ redemptionIdToRedeemer'[id] = Redeemer(u, a, p)
      /\ \A i \in RedemptionIds : i # id =>
           /\ redemptionLog'[i] = redemptionLog[i]
           /\ redemptionIdToRedeemer'[i] = redemptionIdToRedeemer[i]
      /\ redemptionRequestCounter' = redemptionRequestCounter
  BY DEF OverwriteRedeemer, TypeOK
<1>3. /\ redemptionLog'[id].overwrites # 0
      /\ p # 0 => redemptionLog'[id].priced
      /\ redemptionLog'[id].offChain = redemptionLog[id].offChain
  <2>1. redemptionLog[id] \in RedemptionLogType
    BY DEF TypeOK
  <2> QED BY <1>1, <1>2, <2>1, OverwrittenRedemptionLog
<1>4. EveryBurnSettledOnce'
  BY <1>2, <1>3 DEF RedemptionLedger, EveryBurnSettledOnce
<1>5. RedemptionLogsAgree'
  <2> SUFFICES ASSUME NEW i \in RedemptionIds
               PROVE  /\ (/\ redemptionIdToRedeemer'[i].user # NoUser
                          /\ redemptionIdToRedeemer'[i].priceId # 0)
                           => redemptionLog'[i].priced
                      /\ i >= redemptionRequestCounter' => ~redemptionLog'[i].offChain
                      /\ (redemptionLog'[i].overwrites = 0 /\ redemptionLog'[i].payouts = 0)
                           => redemptionLog'[i].settled = 0 /\ redemptionLog'[i].paid = 0
    BY DEF RedemptionLogsAgree
  <2>1. CASE i = id
    BY <1>2, <1>3, <2>1 DEF RedemptionLedger, RedemptionLogsAgree, Redeemer
  <2>2. CASE i # id
    BY <1>2, <2>2 DEF RedemptionLedger, RedemptionLogsAgree
  <2>3. QED
    BY <2>1, <2>2
<1>6. QED
  BY <1>4, <1>5 DEF RedemptionLedger
-----------------------------------------------------------------------------
LEMMA LedgerStep == LedgerInvariant /\ [Next]_vars => LedgerInvariant'
<1> SUFFICES ASSUME LedgerInvariant, [Next]_vars PROVE LedgerInvariant'
  OBVIOUS
<1>1. TypeOK /\ DepositLedger /\ RedemptionLedger /\ TypeOK'
  BY TypeStep DEF LedgerInvariant
<1>2. CASE UNCHANGED vars
  BY <1>1, <1>2, DepositFrame, RedemptionFrame DEF LedgerInvariant, vars
<1>3. CASE UserCalls
  <2>1. CASE \E u \in Users, a \in Amounts : RequestSubscription(u, a)
    <3>1. UNCHANGED redemptionVars
      BY <2>1 DEF RequestSubscription
    <3>2. QED
      BY <1>1, <2>1, <3>1, RequestSubscriptionStep, RedemptionFrame DEF LedgerInvariant
  <2>2. CASE \E ids \in Batches(DepositIds) : ClaimMint(ids)
    <3>1. UNCHANGED redemptionVars
      BY <2>2 DEF ClaimMint
    <3>2. QED
      BY <1>1, <2>2, <3>1, ClaimMintStep, RedemptionFrame DEF LedgerInvariant
  <2>3. CASE \E u \in Users, a \in RwaAmounts :
               RequestRedemption(u, a) \/ RequestRedemptionServicedOffchain(u, a)
    <3>1. UNCHANGED depositVars
      BY <2>3 DEF RequestRedemption, RequestRedemptionServicedOffchain
    <3>2. QED
      BY <1>1, <2>3, <3>1, RequestRedemptionStep, DepositFrame DEF LedgerInvariant
  <2>4. CASE \E ids \in Batches(RedemptionIds) : ClaimRedemption(ids)
    <3>1. UNCHANGED depositVars
      BY <2>4 DEF ClaimRedemption
    <3>2. QED
      BY <1>1, <2>4, <3>1, ClaimRedemptionStep, DepositFrame DEF LedgerInvariant
  <2>5. QED
    BY <1>3, <2>1, <2>2, <2>3, <2>4 DEF UserCalls
<1>4. CASE OperatorCalls
  <2>1. CASE \E h \in TxHashes, u \in Users, a \in Amounts : AddProof(h, u, a)
    <3>1. UNCHANGED redemptionVars
      BY <2>1 DEF AddProof
    <3>2. QED
      BY <1>1, <2>1, <3>1, AddProofStep, RedemptionFrame DEF LedgerInvariant
  <2>2. CASE \E ids \in Batches(DepositIds) : \E f \in [ids -> PriceIds \cup {0}] :
               SetPriceIdForDeposits(ids, f)
    <3>1. UNCHANGED redemptionVars
      BY <2>2 DEF SetPriceIdForDeposits
    <3>2. QED
      BY <1>1, <2>2, <3>1, SetPriceIdForDepositsStep, RedemptionFrame DEF LedgerInvariant
  <2>3. CASE \E ids \in Batches(RedemptionIds) : \E f \in [ids -> PriceIds \cup {0}] :
               SetPriceIdForRedemptions(ids, f)
    <3>1. UNCHANGED depositVars
      BY <2>3 DEF SetPriceIdForRedemptions
    <3>2. QED
      BY <1>1, <2>3, <3>1, SetPriceIdForRedemptionsStep, DepositFrame DEF LedgerInvariant
  <2>4. CASE \E t \in 1 .. MaxTime, ids \in Batches(DepositIds) :
               SetClaimableTimestamp(t, ids)
    <3>1. UNCHANGED redemptionVars
      BY <2>4 DEF SetClaimableTimestamp
    <3>2. QED
      BY <1>1, <2>4, <3>1, SetClaimableTimestampStep, RedemptionFrame DEF LedgerInvariant
  <2>5. QED
    BY <1>4, <2>1, <2>2, <2>3, <2>4 DEF OperatorCalls
<1>5. CASE ManagerCalls
  <2>1. CASE \E id \in DepositIds, u \in Users \cup {NoUser}, a \in Amounts,
               p \in PriceIds \cup {0} : OverwriteDepositor(id, u, a, p)
    <3>1. UNCHANGED redemptionVars
      BY <2>1 DEF OverwriteDepositor
    <3>2. QED
      BY <1>1, <2>1, <3>1, OverwriteDepositorStep, RedemptionFrame DEF LedgerInvariant
  <2>2. CASE \E id \in RedemptionIds, u \in Users \cup {NoUser}, a \in RwaAmounts,
               p \in PriceIds \cup {0} : OverwriteRedeemer(id, u, a, p)
    <3>1. UNCHANGED depositVars
      BY <2>2 DEF OverwriteRedeemer
    <3>2. QED
      BY <1>1, <2>2, <3>1, OverwriteRedeemerStep, DepositFrame DEF LedgerInvariant
  <2>3. CASE ParameterCalls
    BY <1>1, <2>3, TypeParameterCalls, DepositFrame, RedemptionFrame DEF LedgerInvariant
  <2>4. QED
    BY <1>5, <2>1, <2>2, <2>3 DEF ManagerCalls, ParameterCalls
<1>6. CASE WorldSteps
  BY <1>1, <1>6, TypeWorldSteps, DepositFrame, RedemptionFrame DEF LedgerInvariant
<1>7. QED
  BY <1>2, <1>3, <1>4, <1>5, <1>6 DEF Next

\* The inductive invariant holds in every reachable state.
THEOREM LedgerCorrect == Spec => []LedgerInvariant
<1>1. QED
  BY LedgerInit, LedgerStep, PTL DEF Spec

\* Every deposit entry is minted at most once, for the collateral it was made
\* with, to whoever made it, under every id the manager did not overwrite nor
\* the relayer take ahead of the counter.
THEOREM EntriesMintedOnce == Spec => []EveryEntryMintedOnce
<1>1. LedgerInvariant => EveryEntryMintedOnce
  BY DEF LedgerInvariant, DepositLedger
<1>2. QED
  BY <1>1, LedgerCorrect, PTL

\* Every on-chain redemption is paid out at most once, for the USDX burned,
\* and nothing is paid out for an id that is off chain or not issued.
THEOREM BurnsSettledOnce == Spec => []EveryBurnSettledOnce
<1>1. LedgerInvariant => EveryBurnSettledOnce
  BY DEF LedgerInvariant, RedemptionLedger
<1>2. QED
  BY <1>1, LedgerCorrect, PTL

\* Only a claim changes the number of mints, and it needs both a timestamp
\* and a priceId, which by the invariant were set since the last one.
LEMMA MintNeedsAuthority ==
  ASSUME LedgerInvariant, [Next]_vars, NEW id \in DepositIds,
         depositLog'[id].mints # depositLog[id].mints
  PROVE  depositLog[id].armed /\ depositLog[id].priced
<1> USE DEF LedgerInvariant
<1>1. ASSUME UNCHANGED depositLog PROVE FALSE
  BY <1>1
<1>2. ASSUME NEW i \in DepositIds, NEW u \in Users, NEW a \in Nat, NEW s \in Nat,
             NEW k \in Nat,
             depositLog' = [depositLog EXCEPT ![i] = Entered(depositLog[i], u, a, s, k)]
      PROVE  FALSE
  <2>1. depositLog'[id] =
          IF id = i THEN Entered(depositLog[i], u, a, s, k) ELSE depositLog[id]
    BY <1>2 DEF TypeOK
  <2>2. depositLog[i] \in DepositLogType
    BY DEF TypeOK
  <2>3. Entered(depositLog[i], u, a, s, k).mints = depositLog[i].mints
    <3>1. \A log \in DepositLogType : Entered(log, u, a, s, k).mints = log.mints
      BY EnteredMints
    <3>2. QED
      BY Zenon, <2>2, <3>1
  <2>4. QED
    BY <2>1, <2>3
<1>3. CASE UserCalls
  <2>1. ASSUME NEW u \in Users, NEW a \in Amounts, RequestSubscription(u, a)
        PROVE  FALSE
    <3> DEFINE net == a - getMintFees(a, mintFee)
    <3>1. net \in Nat /\ 0 \in Nat
      BY NetIsNat, ManagerAssumption DEF TypeOK
    <3>2. subscriptionRequestCounter \in DepositIds
      BY <2>1, CounterIds DEF RequestSubscription, DepositIds
    <3>3. depositLog' = [depositLog EXCEPT ![subscriptionRequestCounter] =
            Entered(depositLog[subscriptionRequestCounter], u, net, net, 0)]
      BY <2>1 DEF RequestSubscription
    <3> HIDE DEF net
    <3>4. QED
      BY <1>2, <3>1, <3>2, <3>3
  <2>2. ASSUME NEW ids \in Batches(DepositIds), ClaimMint(ids)
        PROVE  depositLog[id].armed /\ depositLog[id].priced
    <3>1. id \in ids
      BY <2>2 DEF ClaimMint
    <3>2. Mintable(id)
      BY <2>2, <3>1 DEF ClaimMint
    <3>3. QED
      BY <3>2 DEF Mintable, DepositLedger, DepositLogsAgree
  <2>3. QED
    BY <1>1, <1>3, <2>1, <2>2
       DEF UserCalls, RequestRedemption, RequestRedemptionServicedOffchain,
           ClaimRedemption, depositVars
<1>4. CASE OperatorCalls
  <2>1. ASSUME NEW h \in TxHashes, NEW u \in Users, NEW a \in Amounts, AddProof(h, u, a)
        PROVE  FALSE
    <3> DEFINE ahead == IF AheadOfCounter(h) THEN 1 ELSE 0
    <3>1. ahead \in Nat /\ 0 \in Nat /\ a \in Nat /\ h \in DepositIds
      BY ManagerAssumption DEF DepositIds
    <3>2. depositLog' = [depositLog EXCEPT ![h] = Entered(depositLog[h], u, a, 0, ahead)]
      BY <2>1 DEF AddProof
    <3> HIDE DEF ahead
    <3> QED BY <1>2, <3>1, <3>2
  <2>2. ASSUME NEW ids \in Batches(DepositIds), NEW f \in [ids -> PriceIds \cup {0}],
               SetPriceIdForDeposits(ids, f)
        PROVE  FALSE
    <3>1. id \in ids /\ depositLog'[id] = Priced(depositLog[id], f[id])
      BY <2>2 DEF SetPriceIdForDeposits
    <3>2. f[id] \in Nat
      BY <3>1, ManagerAssumption DEF PriceIds
    <3>3. depositLog[id] \in DepositLogType
      BY DEF TypeOK
    <3>4. Priced(depositLog[id], f[id]).mints = depositLog[id].mints
      BY <3>2, <3>3, PricedLog
    <3>5. QED
      BY <3>1, <3>4
  <2>3. ASSUME NEW t \in 1 .. MaxTime, NEW ids \in Batches(DepositIds),
               SetClaimableTimestamp(t, ids)
        PROVE  FALSE
    <3>1. id \in ids /\ depositLog'[id] = Armed(depositLog[id])
      BY <2>3 DEF SetClaimableTimestamp
    <3>2. Armed(depositLog[id]).mints = depositLog[id].mints
      BY ArmedLog DEF TypeOK
    <3>3. QED
      BY <3>1, <3>2
  <2>4. QED
    BY <1>1, <1>4, <2>1, <2>2, <2>3 DEF OperatorCalls, SetPriceIdForRedemptions, depositVars
<1>5. CASE ManagerCalls
  <2>1. ASSUME NEW i \in DepositIds, NEW u \in Users \cup {NoUser}, NEW a \in Amounts,
               NEW p \in PriceIds \cup {0}, OverwriteDepositor(i, u, a, p)
        PROVE  FALSE
    <3>1. depositLog'[id] = IF id = i THEN Overwritten(depositLog[i], p) ELSE depositLog[id]
      BY <2>1 DEF OverwriteDepositor, TypeOK
    <3>2. p \in Nat
      BY ManagerAssumption DEF PriceIds
    <3>3. depositLog[i] \in DepositLogType
      BY DEF TypeOK
    <3>4. Overwritten(depositLog[i], p).mints = depositLog[i].mints
      BY <3>2, <3>3, OverwrittenDepositLog
    <3>5. QED
      BY <3>1, <3>4
  <2>2. ASSUME ParameterCalls PROVE FALSE
    BY <1>1, <2>2, TypeParameterCalls DEF depositVars
  <2>3. QED
    BY <1>1, <1>5, <2>1, <2>2 DEF ManagerCalls, ParameterCalls, OverwriteRedeemer, depositVars
<1>6. CASE WorldSteps
  BY <1>1, <1>6, TypeWorldSteps DEF depositVars
<1>7. QED
  BY <1>1, <1>3, <1>4, <1>5, <1>6 DEF Next, vars, depositVars

\* Every mint uses up a claimable timestamp and a priceId of its own.
THEOREM MintsAuthorised == Spec => MintsFreshlyAuthorised
<1>1. LedgerInvariant /\ [Next]_vars =>
        [\A id \in DepositIds :
           depositLog'[id].mints # depositLog[id].mints
             => depositLog[id].armed /\ depositLog[id].priced]_vars
  BY MintNeedsAuthority
<1>2. QED
  BY <1>1, LedgerCorrect, PTL DEF Spec, MintsFreshlyAuthorised

LEMMA PayoutNeedsPrice ==
  ASSUME LedgerInvariant, [Next]_vars, NEW id \in RedemptionIds,
         redemptionLog'[id].payouts # redemptionLog[id].payouts
  PROVE  redemptionLog[id].priced
<1> USE DEF LedgerInvariant
<1>1. ASSUME UNCHANGED redemptionLog PROVE FALSE
  BY <1>1
<1>2. ASSUME NEW u \in Users, NEW a \in RwaAmounts,
             RequestRedemption(u, a) \/ RequestRedemptionServicedOffchain(u, a)
      PROVE  FALSE
  <2>1. id = redemptionRequestCounter
    BY <1>2 DEF RequestRedemption, RequestRedemptionServicedOffchain, TypeOK
  <2>2. redemptionLog'[id] \in {Requested(redemptionLog[id], u, a),
                               RequestedOffChain(redemptionLog[id], u, a)}
    BY <1>2, <2>1 DEF RequestRedemption, RequestRedemptionServicedOffchain, TypeOK
  <2>3. redemptionLog[id] \in RedemptionLogType /\ a \in Nat
    BY ManagerAssumption DEF TypeOK
  <2> QED BY <2>2, <2>3, RequestedLog
<1>3. ASSUME NEW ids \in Batches(RedemptionIds), ClaimRedemption(ids)
      PROVE  redemptionLog[id].priced
  <2>1. id \in ids
    BY <1>3 DEF ClaimRedemption
  <2>2. Payable(id)
    BY <1>3, <2>1 DEF ClaimRedemption
  <2> QED BY <2>2 DEF Payable, RedemptionLedger, RedemptionLogsAgree
<1>4. ASSUME NEW ids \in Batches(RedemptionIds), NEW f \in [ids -> PriceIds \cup {0}],
             SetPriceIdForRedemptions(ids, f)
      PROVE  FALSE
  <2>1. id \in ids /\ redemptionLog'[id] = Priced(redemptionLog[id], f[id])
    BY <1>4 DEF SetPriceIdForRedemptions
  <2>2. f[id] \in Nat
    BY <2>1, ManagerAssumption DEF PriceIds
  <2>3. redemptionLog[id] \in RedemptionLogType
    BY DEF TypeOK
  <2>4. Priced(redemptionLog[id], f[id]).payouts = redemptionLog[id].payouts
    BY <2>2, <2>3, PricedLog
  <2> QED BY <2>1, <2>4
<1>5. ASSUME NEW i \in RedemptionIds, NEW u, NEW a, NEW p \in PriceIds \cup {0},
             OverwriteRedeemer(i, u, a, p)
      PROVE  FALSE
  <2>1. redemptionLog'[id] =
          IF id = i THEN Overwritten(redemptionLog[i], p) ELSE redemptionLog[id]
    BY <1>5 DEF OverwriteRedeemer, TypeOK
  <2>2. p \in Nat /\ redemptionLog[i] \in RedemptionLogType
    BY ManagerAssumption DEF PriceIds, TypeOK
  <2>3. Overwritten(redemptionLog[i], p).payouts = redemptionLog[i].payouts
    BY <2>2, OverwrittenRedemptionLog
  <2> QED BY <2>1, <2>3
<1>6. CASE UserCalls
  BY <1>1, <1>2, <1>3, <1>6 DEF UserCalls, RequestSubscription, ClaimMint, redemptionVars
<1>7. CASE OperatorCalls
  BY <1>1, <1>4, <1>7
     DEF OperatorCalls, AddProof, SetPriceIdForDeposits, SetClaimableTimestamp, redemptionVars
<1>8. CASE ManagerCalls
  <2>1. ASSUME ParameterCalls PROVE FALSE
    BY <1>1, <2>1, TypeParameterCalls DEF redemptionVars
  <2> QED BY <1>1, <1>5, <1>8, <2>1
          DEF ManagerCalls, ParameterCalls, OverwriteDepositor, redemptionVars
<1>9. CASE WorldSteps
  BY <1>1, <1>9, TypeWorldSteps DEF redemptionVars
<1> QED BY <1>1, <1>6, <1>7, <1>8, <1>9 DEF Next, vars, redemptionVars

\* Every payout is at a priceId chosen after its redemption was requested.
\* (RWAHub.sol:229-294, 370-385.)
THEOREM PayoutsPriced == Spec => PayoutsFreshlyPriced
<1>1. LedgerInvariant /\ [Next]_vars =>
        [\A id \in RedemptionIds :
           redemptionLog'[id].payouts # redemptionLog[id].payouts
             => redemptionLog[id].priced]_vars
  BY PayoutNeedsPrice
<1> QED BY <1>1, LedgerCorrect, PTL DEF Spec, PayoutsFreshlyPriced
-----------------------------------------------------------------------------
\* What may become of a deposit that has its priceId.
DepositPriceKept(id) ==
  \/ depositIdToDepositor'[id] = depositIdToDepositor[id]
  \/ /\ depositIdToDepositor'[id] = NoDepositor
     /\ depositLog'[id].mints = depositLog[id].mints + 1

LEMMA PricedDepositStays ==
  ASSUME LedgerInvariant, [Next]_vars, NEW id \in DepositIds,
         depositIdToDepositor[id].priceId # 0, Undisturbed(depositLog'[id])
  PROVE  DepositPriceKept(id)
<1> USE DEF LedgerInvariant, Undisturbed
<1>1. ASSUME UNCHANGED depositIdToDepositor PROVE DepositPriceKept(id)
  BY <1>1 DEF DepositPriceKept
<1>2. ASSUME NEW i \in DepositIds, NEW u \in Users, NEW a \in Nat, NEW s \in Nat,
             NEW k \in Nat,
             Undisturbed(depositLog[i]) => depositIdToDepositor[i].user = NoUser,
             EnterDeposit(i, u, a),
             depositLog' = [depositLog EXCEPT ![i] = Entered(depositLog[i], u, a, s, k)]
      PROVE  DepositPriceKept(id)
  <2>1. CASE id # i
    BY <1>2, <2>1 DEF EnterDeposit, TypeOK, DepositPriceKept
  <2>2. CASE id = i
    <3> DEFINE new == Entered(depositLog[id], u, a, s, k)
    <3>1. depositLog'[id] = new /\ depositLog[id] \in DepositLogType
      BY <1>2, <2>2 DEF TypeOK
    <3>a. /\ new.overwrites = depositLog[id].overwrites
          /\ new.ahead = depositLog[id].ahead + k
      BY Z3T(30), <3>1, EnteredLog
    <3> HIDE DEF new
    <3>b. depositLog[id].ahead \in Nat
      BY <3>1 DEF DepositLogType
    <3>c. depositLog'[id].overwrites = 0 /\ depositLog'[id].ahead = 0
      BY DEF Undisturbed
    <3>d. new.overwrites = 0 /\ new.ahead = 0
      BY <3>1, <3>c
    <3>2. depositLog[id].overwrites = 0 /\ depositLog[id].ahead = 0
      BY <3>a, <3>b, <3>d
    <3>3. depositIdToDepositor[id] = NoDepositor
      BY <1>2, <2>2, <3>2 DEF DepositLedger, DepositLogsAgree
    <3> QED BY <3>3 DEF NoDepositor, Depositor
  <2> QED BY <2>1, <2>2
<1>3. ASSUME NEW u \in Users, NEW a \in Amounts, RequestSubscription(u, a)
      PROVE  DepositPriceKept(id)
  <2> DEFINE i == subscriptionRequestCounter
             net == a - getMintFees(a, mintFee)
  <2>1. i \in DepositIds /\ i \in CounterDepositIds /\ net \in Nat
        /\ i >= subscriptionRequestCounter
    BY <1>3, CounterIds, NetIsNat, ManagerAssumption
       DEF RequestSubscription, DepositIds, CounterDepositIds, TypeOK
  <2>2. Undisturbed(depositLog[i]) => depositIdToDepositor[i].user = NoUser
    <3>1. /\ depositLog[i].ahead = 0 => depositLog[i].entries = 0
          /\ depositLog[i].mints \in Nat
      BY <2>1 DEF DepositLedger, UnreachedIdsAreFree, AheadOfCounter, TypeOK, DepositLogType
    <3>2. 0 # depositLog[i].mints + 1
      BY <3>1
    <3> QED BY <2>1, <3>1, <3>2 DEF DepositLedger, EveryEntryMintedOnce
  <2>3. /\ EnterDeposit(i, u, net) /\ 0 \in Nat
        /\ depositLog' = [depositLog EXCEPT ![i] = Entered(depositLog[i], u, net, net, 0)]
    BY <1>3 DEF RequestSubscription
  <2> HIDE DEF i, net
  <2> QED BY <1>2, <2>1, <2>2, <2>3
<1>4. ASSUME NEW h \in TxHashes, NEW u \in Users, NEW a \in Amounts, AddProof(h, u, a)
      PROVE  DepositPriceKept(id)
  <2> DEFINE ahead == IF AheadOfCounter(h) THEN 1 ELSE 0
  <2>1. ahead \in Nat /\ 0 \in Nat /\ h \in DepositIds /\ a \in Nat
    BY ManagerAssumption DEF DepositIds
  <2>2. /\ EnterDeposit(h, u, a) /\ depositIdToDepositor[h].user = NoUser
        /\ depositLog' = [depositLog EXCEPT ![h] = Entered(depositLog[h], u, a, 0, ahead)]
    BY <1>4 DEF AddProof, Provable
  <2> HIDE DEF ahead
  <2> QED BY <1>2, <2>1, <2>2
<1>5. ASSUME NEW ids \in Batches(DepositIds), ClaimMint(ids)
      PROVE  DepositPriceKept(id)
  <2>1. CASE id \notin ids
    BY <1>5, <2>1 DEF ClaimMint, CloseDeposits, DepositPriceKept
  <2>2. CASE id \in ids
    <3>1. /\ depositIdToDepositor'[id] = NoDepositor
          /\ depositLog'[id] =
               Minted(depositLog[id], depositIdToDepositor[id].amountDepositedMinusFees)
      BY <1>5, <2>2 DEF ClaimMint, CloseDeposits
    <3>2. /\ depositIdToDepositor[id].amountDepositedMinusFees \in Nat
          /\ depositLog[id] \in DepositLogType
      BY DEF TypeOK, DepositorType
    <3> QED BY SMTT(30), <3>1, <3>2, MintedLog DEF DepositPriceKept
  <2> QED BY <2>1, <2>2
<1>6. ASSUME NEW ids \in Batches(DepositIds), NEW f \in [ids -> PriceIds \cup {0}],
             SetPriceIdForDeposits(ids, f)
      PROVE  DepositPriceKept(id)
  BY <1>6 DEF SetPriceIdForDeposits, DepositPriceable, DepositPriceKept
<1>7. ASSUME NEW i \in DepositIds, NEW u, NEW a, NEW p \in PriceIds \cup {0},
             OverwriteDepositor(i, u, a, p)
      PROVE  DepositPriceKept(id)
  <2>1. CASE id # i
    BY <1>7, <2>1 DEF OverwriteDepositor, TypeOK, DepositPriceKept
  <2>2. CASE id = i
    <3>1. depositLog'[id] = Overwritten(depositLog[id], p)
      BY <1>7, <2>2 DEF OverwriteDepositor, TypeOK
    <3>2. p \in Nat /\ depositLog[id] \in DepositLogType
      BY ManagerAssumption DEF PriceIds, TypeOK
    <3> QED BY <3>1, <3>2, OverwrittenDepositLog
  <2> QED BY <2>1, <2>2
<1>8. CASE UserCalls
  BY <1>1, <1>3, <1>5, <1>8
     DEF UserCalls, RequestRedemption, RequestRedemptionServicedOffchain, ClaimRedemption,
         depositVars
<1>9. CASE OperatorCalls
  BY <1>1, <1>4, <1>6, <1>9
     DEF OperatorCalls, SetPriceIdForRedemptions, SetClaimableTimestamp, depositVars
<1>10. CASE ManagerCalls
  <2>1. ASSUME ParameterCalls PROVE DepositPriceKept(id)
    BY <1>1, <2>1, TypeParameterCalls DEF depositVars
  <2> QED BY <1>1, <1>7, <1>10, <2>1
          DEF ManagerCalls, ParameterCalls, OverwriteRedeemer, depositVars
<1>11. CASE WorldSteps
  BY <1>1, <1>11, TypeWorldSteps DEF depositVars
<1> QED BY <1>1, <1>8, <1>9, <1>10, <1>11 DEF Next, vars, depositVars

\* What may become of a redemption that has its priceId.
RedemptionPriceKept(id) ==
  \/ redemptionIdToRedeemer'[id] = redemptionIdToRedeemer[id]
  \/ /\ redemptionIdToRedeemer'[id] = NoRedeemer
     /\ redemptionLog'[id].payouts = redemptionLog[id].payouts + 1

LEMMA PricedRedemptionStays ==
  ASSUME LedgerInvariant, [Next]_vars, NEW id \in RedemptionIds,
         redemptionIdToRedeemer[id].user # NoUser,
         redemptionIdToRedeemer[id].priceId # 0, redemptionLog'[id].overwrites = 0
  PROVE  RedemptionPriceKept(id)
<1> USE DEF LedgerInvariant
<1>1. ASSUME UNCHANGED redemptionIdToRedeemer PROVE RedemptionPriceKept(id)
  BY <1>1 DEF RedemptionPriceKept
<1>2. ASSUME NEW u \in Users, NEW a \in RwaAmounts, RequestRedemption(u, a)
      PROVE  RedemptionPriceKept(id)
  <2> DEFINE i == redemptionRequestCounter
  <2>1. CASE id # i
    BY <1>2, <2>1 DEF RequestRedemption, EnterRedemption, TypeOK, RedemptionPriceKept
  <2>2. CASE id = i
    <3>1. /\ redemptionLog'[id] = Requested(redemptionLog[id], u, a)
          /\ redemptionLog[id] \in RedemptionLogType /\ a \in Nat
      BY <1>2, <2>2, ManagerAssumption DEF RequestRedemption, TypeOK
    <3>2. redemptionLog[id].overwrites = 0
      BY <3>1, RequestedLog
    <3>3. id < redemptionRequestCounter
      BY <3>2 DEF RedemptionLedger, EveryBurnSettledOnce
    <3> QED BY <2>2, <3>3 DEF TypeOK
  <2> QED BY <2>1, <2>2
<1>3. ASSUME NEW ids \in Batches(RedemptionIds), ClaimRedemption(ids)
      PROVE  RedemptionPriceKept(id)
  <2>1. CASE id \notin ids
    BY <1>3, <2>1 DEF ClaimRedemption, RedemptionPriceKept
  <2>2. CASE id \in ids
    <3>1. /\ redemptionIdToRedeemer'[id] = NoRedeemer
          /\ redemptionLog'[id] =
               PaidOut(redemptionLog[id], redemptionIdToRedeemer[id].amountRwaTokenBurned,
                       collateralDue(id))
      BY <1>3, <2>2 DEF ClaimRedemption
    <3>2. /\ redemptionIdToRedeemer[id].amountRwaTokenBurned \in Nat
          /\ redemptionLog[id] \in RedemptionLogType /\ collateralDue(id) \in Nat
      BY DueIsNat DEF TypeOK, RedeemerType
    <3>3. PaidOut(redemptionLog[id], redemptionIdToRedeemer[id].amountRwaTokenBurned,
                  collateralDue(id)).payouts = redemptionLog[id].payouts + 1
      BY <3>2, PaidOutLog
    <3> QED BY <3>1, <3>3 DEF RedemptionPriceKept
  <2> QED BY <2>1, <2>2
<1>4. ASSUME NEW ids \in Batches(RedemptionIds), NEW f \in [ids -> PriceIds \cup {0}],
             SetPriceIdForRedemptions(ids, f)
      PROVE  RedemptionPriceKept(id)
  BY <1>4 DEF SetPriceIdForRedemptions, RedemptionPriceable, RedemptionPriceKept
<1>5. ASSUME NEW i \in RedemptionIds, NEW u, NEW a, NEW p \in PriceIds \cup {0},
             OverwriteRedeemer(i, u, a, p)
      PROVE  RedemptionPriceKept(id)
  <2>1. CASE id # i
    BY <1>5, <2>1 DEF OverwriteRedeemer, TypeOK, RedemptionPriceKept
  <2>2. CASE id = i
    <3>1. redemptionLog'[id] = Overwritten(redemptionLog[id], p)
      BY <1>5, <2>2 DEF OverwriteRedeemer, TypeOK
    <3>2. p \in Nat /\ redemptionLog[id] \in RedemptionLogType
      BY ManagerAssumption DEF PriceIds, TypeOK
    <3> QED BY <3>1, <3>2, OverwrittenRedemptionLog
  <2> QED BY <2>1, <2>2
<1>6. CASE UserCalls
  BY <1>1, <1>2, <1>3, <1>6
     DEF UserCalls, RequestSubscription, ClaimMint, RequestRedemptionServicedOffchain,
         redemptionVars
<1>7. CASE OperatorCalls
  BY <1>1, <1>4, <1>7
     DEF OperatorCalls, AddProof, SetPriceIdForDeposits, SetClaimableTimestamp, redemptionVars
<1>8. CASE ManagerCalls
  <2>1. ASSUME ParameterCalls PROVE RedemptionPriceKept(id)
    BY <1>1, <2>1, TypeParameterCalls DEF redemptionVars
  <2> QED BY <1>1, <1>5, <1>8, <2>1
          DEF ManagerCalls, ParameterCalls, OverwriteDepositor, redemptionVars
<1>9. CASE WorldSteps
  BY <1>1, <1>9, TypeWorldSteps DEF redemptionVars
<1> QED BY <1>1, <1>6, <1>7, <1>8, <1>9 DEF Next, vars, redemptionVars

\* A priceId chosen for an open entry stays until the entry is claimed at it,
\* under every id the manager does not overwrite nor the relayer take ahead of
\* the counter.
\* (RWAHub.sol:312-385.)
THEOREM PriceIdsFinal == Spec => PriceIdsAreFinal
<1>1. LedgerInvariant /\ [Next]_vars =>
        [/\ \A id \in DepositIds :
              /\ depositIdToDepositor[id].priceId # 0
              /\ Undisturbed(depositLog'[id])
              => \/ depositIdToDepositor'[id] = depositIdToDepositor[id]
                 \/ /\ depositIdToDepositor'[id] = NoDepositor
                    /\ depositLog'[id].mints = depositLog[id].mints + 1
         /\ \A id \in RedemptionIds :
              /\ redemptionIdToRedeemer[id].user # NoUser
              /\ redemptionIdToRedeemer[id].priceId # 0
              /\ redemptionLog'[id].overwrites = 0
              => \/ redemptionIdToRedeemer'[id] = redemptionIdToRedeemer[id]
                 \/ /\ redemptionIdToRedeemer'[id] = NoRedeemer
                    /\ redemptionLog'[id].payouts = redemptionLog[id].payouts + 1]_vars
  BY PricedDepositStays, PricedRedemptionStays DEF DepositPriceKept, RedemptionPriceKept
<1> QED BY <1>1, LedgerCorrect, PTL DEF Spec, PriceIdsAreFinal
-----------------------------------------------------------------------------
(* Collateral                                                              *)

\* Steps that no collateral takes part in, with the calls that enter a proof:
\* the balances stay, and so does what the counter ids record of them.
MovesNothing ==
  /\ usdc' = usdc
  /\ \A id \in CounterDepositIds : depositLog'[id].subscribed = depositLog[id].subscribed
  /\ \A id \in RedemptionIds : redemptionLog'[id].paid = redemptionLog[id].paid

LEMMA UserCallsMoveNothing ==
  ASSUME TypeOK
  PROVE  /\ \A ids \in Batches(DepositIds) : ClaimMint(ids) => MovesNothing
         /\ \A u \in Users, a \in RwaAmounts :
              RequestRedemption(u, a) \/ RequestRedemptionServicedOffchain(u, a)
                => MovesNothing
<1> USE DEF MovesNothing, depositVars, redemptionVars, tokenVars
<1>1. ASSUME NEW ids \in Batches(DepositIds), ClaimMint(ids) PROVE MovesNothing
  <2>1. usdc' = usdc /\ redemptionLog' = redemptionLog
    BY <1>1 DEF ClaimMint
  <2>2. ASSUME NEW id \in CounterDepositIds
        PROVE  depositLog'[id].subscribed = depositLog[id].subscribed
    <3> DEFINE amount == depositIdToDepositor[id].amountDepositedMinusFees
    <3>1. id \in DepositIds
      BY DEF DepositIds
    <3>2. amount \in Nat /\ depositLog[id] \in DepositLogType
      BY <3>1 DEF TypeOK, DepositorType
    <3>3. Minted(depositLog[id], amount).subscribed = depositLog[id].subscribed
      BY <3>2, MintedLog
    <3>4. depositLog'[id] = IF id \in ids THEN Minted(depositLog[id], amount)
                                          ELSE depositLog[id]
      BY <1>1, <3>1 DEF ClaimMint
    <3> QED BY <3>3, <3>4
  <2> QED BY <2>1, <2>2
<1>2. ASSUME NEW u \in Users, NEW a \in RwaAmounts,
             RequestRedemption(u, a) \/ RequestRedemptionServicedOffchain(u, a)
      PROVE  MovesNothing
  <2> DEFINE i == redemptionRequestCounter
  <2>1. usdc' = usdc /\ depositLog' = depositLog
    BY <1>2 DEF RequestRedemption, RequestRedemptionServicedOffchain
  <2>2. i \in RedemptionIds /\ a \in Nat /\ redemptionLog[i] \in RedemptionLogType
    BY <1>2, CounterIds, ManagerAssumption
       DEF RequestRedemption, RequestRedemptionServicedOffchain, TypeOK
  <2>3. \E new \in {Requested(redemptionLog[i], u, a), RequestedOffChain(redemptionLog[i], u, a)} :
          redemptionLog' = [redemptionLog EXCEPT ![i] = new]
    BY <1>2 DEF RequestRedemption, RequestRedemptionServicedOffchain
  <2>4. \A new \in {Requested(redemptionLog[i], u, a), RequestedOffChain(redemptionLog[i], u, a)} :
          new.paid = redemptionLog[i].paid
    BY <2>2, RequestedLog
  <2> HIDE DEF i
  <2>5. \A id \in RedemptionIds : redemptionLog'[id].paid = redemptionLog[id].paid
    BY <2>2, <2>3, <2>4 DEF TypeOK
  <2> QED BY <2>1, <2>5
<1> QED BY <1>1, <1>2

LEMMA OperatorCallsMoveNothing ==
  ASSUME TypeOK, OperatorCalls
  PROVE  MovesNothing
<1> USE DEF MovesNothing, depositVars, redemptionVars, tokenVars
<1>0. CounterDepositIds \subseteq DepositIds /\ PriceIds \cup {0} \subseteq Nat
  BY ManagerAssumption DEF DepositIds, PriceIds
<1>1. ASSUME NEW h \in TxHashes, NEW u \in Users, NEW a \in Amounts, AddProof(h, u, a)
      PROVE  MovesNothing
  <2> DEFINE ahead == IF AheadOfCounter(h) THEN 1 ELSE 0
             new == Entered(depositLog[h], u, a, 0, ahead)
  <2>1. /\ usdc' = usdc /\ redemptionLog' = redemptionLog
        /\ depositLog' = [depositLog EXCEPT ![h] = new]
    BY <1>1 DEF AddProof
  <2>2. /\ h \in DepositIds /\ a \in Nat /\ ahead \in Nat /\ 0 \in Nat
        /\ depositLog[h] \in DepositLogType
    BY ManagerAssumption DEF DepositIds, TypeOK
  <2> HIDE DEF ahead
  <2>3. new.subscribed = depositLog[h].subscribed + 0
    <3>1. \A log \in DepositLogType :
            Entered(log, u, a, 0, ahead).subscribed = log.subscribed + 0
      BY <2>2, EnteredSubscribed
    <3>2. QED
      BY Zenon, <2>2, <3>1
  <2>4. depositLog[h].subscribed \in Nat
    BY <2>2 DEF DepositLogType
  <2> HIDE DEF new
  <2>5. new.subscribed = depositLog[h].subscribed
    BY <2>3, <2>4
  <2> QED BY <1>0, <2>1, <2>2, <2>5 DEF TypeOK
<1>2. ASSUME NEW ids \in Batches(DepositIds), NEW f \in [ids -> PriceIds \cup {0}],
             SetPriceIdForDeposits(ids, f)
      PROVE  MovesNothing
  <2>1. usdc' = usdc /\ redemptionLog' = redemptionLog
    BY <1>2 DEF SetPriceIdForDeposits
  <2>2. ASSUME NEW id \in CounterDepositIds
        PROVE  depositLog'[id].subscribed = depositLog[id].subscribed
    <3>1. id \in DepositIds /\ depositLog[id] \in DepositLogType
      BY <1>0 DEF TypeOK
    <3>2. depositLog'[id] = IF id \in ids THEN Priced(depositLog[id], f[id]) ELSE depositLog[id]
      BY <1>2, <3>1 DEF SetPriceIdForDeposits
    <3>3. id \in ids => f[id] \in Nat
      BY <1>0
    <3>4. id \in ids => Priced(depositLog[id], f[id]).subscribed = depositLog[id].subscribed
      BY <3>1, <3>3, PricedLog
    <3> QED BY <3>2, <3>4
  <2> QED BY <2>1, <2>2
<1>3. ASSUME NEW ids \in Batches(RedemptionIds), NEW f \in [ids -> PriceIds \cup {0}],
             SetPriceIdForRedemptions(ids, f)
      PROVE  MovesNothing
  <2>1. usdc' = usdc /\ depositLog' = depositLog
    BY <1>3 DEF SetPriceIdForRedemptions
  <2>2. ASSUME NEW id \in RedemptionIds
        PROVE  redemptionLog'[id].paid = redemptionLog[id].paid
    <3>1. redemptionLog[id] \in RedemptionLogType
      BY DEF TypeOK
    <3>2. redemptionLog'[id] =
            IF id \in ids THEN Priced(redemptionLog[id], f[id]) ELSE redemptionLog[id]
      BY <1>3 DEF SetPriceIdForRedemptions
    <3>3. id \in ids => f[id] \in Nat
      BY <1>0
    <3>4. id \in ids => Priced(redemptionLog[id], f[id]).paid = redemptionLog[id].paid
      BY <3>1, <3>3, PricedLog
    <3> QED BY <3>2, <3>4
  <2> QED BY <2>1, <2>2
<1>4. ASSUME NEW t \in 1 .. MaxTime, NEW ids \in Batches(DepositIds),
             SetClaimableTimestamp(t, ids)
      PROVE  MovesNothing
  <2>1. \A id \in DepositIds : depositLog[id] \in DepositLogType
    BY DEF TypeOK
  <2>2. \A id \in DepositIds : Armed(depositLog[id]).subscribed = depositLog[id].subscribed
    BY <2>1, ArmedLog
  <2> QED BY <1>0, <1>4, <2>2 DEF SetClaimableTimestamp
<1> QED BY <1>1, <1>2, <1>3, <1>4 DEF OperatorCalls

LEMMA ManagerCallsMoveNothing ==
  ASSUME TypeOK, ManagerCalls
  PROVE  MovesNothing
<1> USE DEF MovesNothing, depositVars, redemptionVars, tokenVars
<1>0. CounterDepositIds \subseteq DepositIds /\ PriceIds \cup {0} \subseteq Nat
  BY ManagerAssumption DEF DepositIds, PriceIds
<1>1. ASSUME NEW i \in DepositIds, NEW u, NEW a, NEW p \in PriceIds \cup {0},
             OverwriteDepositor(i, u, a, p)
      PROVE  MovesNothing
  <2> DEFINE new == Overwritten(depositLog[i], p)
  <2>1. new.subscribed = depositLog[i].subscribed
    BY <1>0, OverwrittenDepositLog DEF TypeOK
  <2>2. /\ usdc' = usdc /\ redemptionLog' = redemptionLog
        /\ depositLog' = [depositLog EXCEPT ![i] = new]
    BY <1>1 DEF OverwriteDepositor
  <2> HIDE DEF new
  <2> QED BY <1>0, <2>1, <2>2 DEF TypeOK
<1>2. ASSUME NEW i \in RedemptionIds, NEW u, NEW a, NEW p \in PriceIds \cup {0},
             OverwriteRedeemer(i, u, a, p)
      PROVE  MovesNothing
  <2> DEFINE new == Overwritten(redemptionLog[i], p)
  <2>1. new.paid = redemptionLog[i].paid
    BY <1>0, OverwrittenRedemptionLog DEF TypeOK
  <2>2. /\ usdc' = usdc /\ depositLog' = depositLog
        /\ redemptionLog' = [redemptionLog EXCEPT ![i] = new]
    BY <1>2 DEF OverwriteRedeemer
  <2> HIDE DEF new
  <2> QED BY <2>1, <2>2 DEF TypeOK
<1>3. ASSUME ParameterCalls PROVE MovesNothing
  <2>1. UNCHANGED <<depositVars, redemptionVars>>
    BY <1>3, TypeParameterCalls
  <2>2. usdc' = usdc
    BY <1>3 DEF ParameterCalls, SetMinimumDepositAmount, SetMinimumRedemptionAmount,
       SetOffChainRedemptionMinimum, SetMintFee, SetRedemptionFee, SetFeeRecipient,
       SetAssetSender, Pause, Unpause, SetPricer
  <2> QED BY <2>1, <2>2
<1> QED BY <1>1, <1>2, <1>3 DEF ManagerCalls, ParameterCalls

\* Collateral is moved by requestSubscription and claimRedemption alone.
LEMMA OnlyTwoCallsMove ==
  ASSUME TypeOK, [Next]_vars
  PROVE  \/ MovesNothing
         \/ \E u \in Users, a \in Amounts : RequestSubscription(u, a)
         \/ \E ids \in Batches(RedemptionIds) : ClaimRedemption(ids)
<1>1. CASE UNCHANGED vars
  BY <1>1 DEF vars, MovesNothing, depositVars, redemptionVars, tokenVars
<1>2. CASE WorldSteps
  <2>1. usdc' = usdc
    BY <1>2 DEF WorldSteps, PricerSets, RestrictionsChange, TokenDenials, Tick, tokenVars
  <2> QED BY <1>2, <2>1, TypeWorldSteps DEF MovesNothing, depositVars, redemptionVars
<1> QED BY <1>1, <1>2, UserCallsMoveNothing, OperatorCallsMoveNothing,
           ManagerCallsMoveNothing DEF Next, UserCalls

\* What the histories say was paid in under the counter ids and paid out.
SubscribedOf(log) == [id \in CounterDepositIds |-> log[id].subscribed]
PaidOf(log) == [id \in RedemptionIds |-> log[id].paid]

LEMMA LedgersAreFinite ==
  ASSUME TypeOK
  PROVE  /\ IsFiniteSet(CounterDepositIds) /\ IsFiniteSet(RedemptionIds)
         /\ \A id \in CounterDepositIds : SubscribedOf(depositLog)[id] \in Nat
         /\ \A id \in RedemptionIds : PaidOf(redemptionLog)[id] \in Nat
<1>1. CounterDepositIds \subseteq DepositIds
  BY DEF DepositIds
<1> QED BY <1>1, IdsAreFinite DEF SubscribedOf, PaidOf, TypeOK, DepositLogType, RedemptionLogType

\* CollateralAddsUp with the sums over sets named.
LEMMA CollateralSums ==
  CollateralAddsUp
    <=> /\ usdc[assetRecipient]
             = SumFunctionOnSet(SubscribedOf(depositLog), CounterDepositIds)
        /\ SumFunctionOnSet(usdc, AssetSenders)
             = 0 - SumFunctionOnSet(PaidOf(redemptionLog), RedemptionIds)
  BY DEF CollateralAddsUp, SumFunction, SubscribedOf, PaidOf

LEMMA CollateralSumsAfter ==
  CollateralAddsUp'
    <=> /\ usdc'[assetRecipient]
             = SumFunctionOnSet(SubscribedOf(depositLog'), CounterDepositIds)
        /\ SumFunctionOnSet(usdc', AssetSenders)
             = 0 - SumFunctionOnSet(PaidOf(redemptionLog'), RedemptionIds)
  BY DEF CollateralAddsUp, SumFunction, SubscribedOf, PaidOf

LEMMA CollateralInitial == Init => CollateralAddsUp
<1> SUFFICES ASSUME Init PROVE CollateralAddsUp
  OBVIOUS
<1>1. /\ IsFiniteSet(CounterDepositIds) /\ IsFiniteSet(RedemptionIds)
      /\ IsFiniteSet(AssetSenders)
  BY TypeInit, LedgersAreFinite, ManagerAssumption
<1>2. /\ \A id \in CounterDepositIds : SubscribedOf(depositLog)[id] = 0
      /\ \A id \in RedemptionIds : PaidOf(redemptionLog)[id] = 0
      /\ \A a \in Accounts : usdc[a] = 0
  BY DEF Init, SubscribedOf, PaidOf, NoDepositLog, NoRedemptionLog, DepositIds
<1>3. AssetSenders \subseteq Accounts /\ assetRecipient \in Accounts
  BY AccountsDiffer
<1>4. ASSUME NEW S, IsFiniteSet(S), NEW f, \A x \in S : f[x] = 0
      PROVE  SumFunctionOnSet(f, S) = 0
  <2>1. \A x \in S : f[x] \in Int /\ f[x] = f[x] + f[x]
    BY <1>4
  <2>2. SumFunctionOnSet(f, S) = SumFunctionOnSet(f, S) + SumFunctionOnSet(f, S)
    BY <1>4, <2>1, SumAdds
  <2>3. SumFunctionOnSet(f, S) \in Int
    BY <1>4, <2>1, SumIsInt
  <2>4. \A n \in Int : n = n + n => n = 0
    OBVIOUS
  <2>5. PICK sum \in Int : sum = SumFunctionOnSet(f, S)
    BY <2>3
  <2>6. sum = sum + sum
    BY <2>2, <2>5, Zenon
  <2> QED BY <2>4, <2>5, <2>6
<1>5. /\ SumFunctionOnSet(SubscribedOf(depositLog), CounterDepositIds) = 0
      /\ SumFunctionOnSet(PaidOf(redemptionLog), RedemptionIds) = 0
  BY <1>1, <1>2, <1>4
<1>6. SumFunctionOnSet(usdc, AssetSenders) = 0
  BY <1>1, <1>2, <1>3, <1>4
<1> QED BY <1>2, <1>3, <1>5, <1>6, CollateralSums

LEMMA CollateralUnmoved ==
  ASSUME TypeOK, CollateralAddsUp, MovesNothing
  PROVE  CollateralAddsUp'
<1>1. /\ SubscribedOf(depositLog') = SubscribedOf(depositLog)
      /\ PaidOf(redemptionLog') = PaidOf(redemptionLog)
      /\ usdc' = usdc
  BY DEF MovesNothing, SubscribedOf, PaidOf
<1> QED BY <1>1, CollateralSums, CollateralSumsAfter

\* A subscription: the custodian is paid what the new entry records.
LEMMA CollateralSubscribed ==
  ASSUME TypeOK, CollateralAddsUp, NEW u \in Users, NEW a \in Amounts,
         RequestSubscription(u, a)
  PROVE  CollateralAddsUp'
<1> DEFINE id == subscriptionRequestCounter
           net == a - getMintFees(a, mintFee)
<1>1. /\ net \in Nat /\ usdc'[assetRecipient] = usdc[assetRecipient] + net
      /\ usdc' \in [Accounts -> Int]
      /\ \A b \in Accounts \ {u, feeRecipient, assetRecipient} : usdc'[b] = usdc[b]
  BY SubscriptionTransfers
<1>2. depositLog' = [depositLog EXCEPT ![id] = Entered(depositLog[id], u, net, net, 0)]
  BY DEF RequestSubscription
<1>3. redemptionLog' = redemptionLog
  BY DEF RequestSubscription, redemptionVars
<1>4. id \in CounterDepositIds
  BY CounterIds DEF RequestSubscription
<1> HIDE DEF id, net
<1>5. depositLog[id] \in DepositLogType /\ CounterDepositIds \subseteq DepositIds
  BY <1>4 DEF TypeOK, DepositIds
<1> DEFINE new == Entered(depositLog[id], u, net, net, 0)
<1>6. depositLog' = [depositLog EXCEPT ![id] = new]
  BY <1>2
<1>7. new.subscribed = depositLog[id].subscribed + net
  BY Z3T(30), <1>1, <1>5, EnteredLog
<1> HIDE DEF new
<1>8. /\ SubscribedOf(depositLog')[id] = SubscribedOf(depositLog)[id] + net
      /\ \A i \in CounterDepositIds \ {id} : SubscribedOf(depositLog')[i] = SubscribedOf(depositLog)[i]
  BY <1>4, <1>5, <1>6, <1>7 DEF SubscribedOf, TypeOK
<1>9. SumFunctionOnSet(SubscribedOf(depositLog'), CounterDepositIds)
        = SumFunctionOnSet(SubscribedOf(depositLog), CounterDepositIds) + net
  <2>1. \A i \in CounterDepositIds : SubscribedOf(depositLog)[i] \in Int
    BY LedgersAreFinite
  <2>2. net \in Int
    BY <1>1
  <2> QED BY <1>4, <1>8, <2>1, <2>2, LedgersAreFinite, SumAddsToOne
<1>10. SumFunctionOnSet(usdc', AssetSenders) = SumFunctionOnSet(usdc, AssetSenders)
  <2>1. \A s \in AssetSenders : usdc'[s] = usdc[s]
    BY <1>1, AccountsDiffer DEF TypeOK
  <2>2. IsFiniteSet(AssetSenders)
    BY ManagerAssumption
  <2> QED BY <2>1, <2>2, SumSameNumbers
<1> QED BY <1>1, <1>3, <1>9, <1>10, CollateralSums, CollateralSumsAfter

\* A batch of redemptions: what leaves assetSender is what they were worth.
LEMMA CollateralRedeemed ==
  ASSUME TypeOK, CollateralAddsUp, NEW ids \in Batches(RedemptionIds), ClaimRedemption(ids)
  PROVE  CollateralAddsUp'
<1> DEFINE due == [id \in ids |-> collateralDue(id)]
           sum == SumFunction(due)
<1>1. /\ usdc' \in [Accounts -> Int] /\ usdc'[assetSender] = usdc[assetSender] - sum
      /\ \A a \in Accounts \ {assetSender, feeRecipient} :
           (\A id \in ids : redemptionIdToRedeemer[id].user # a) => usdc'[a] = usdc[a]
  BY SettlementTransfers
<1>2. ids \subseteq RedemptionIds /\ IsFiniteSet(ids)
  BY BatchesAreFinite
<1>3. \A id \in ids : due[id] \in Nat /\ due[id] = collateralDue(id)
  BY <1>2, DueIsNat
<1>4. sum = SumFunctionOnSet(due, ids)
  BY DEF SumFunction
<1>5. \A id \in ids : redemptionIdToRedeemer[id].user \in Users
  BY <1>2 DEF ClaimRedemption, Payable, TypeOK, RedeemerType
<1>6. depositLog' = depositLog
  BY DEF ClaimRedemption, depositVars
<1> HIDE DEF due, sum
<1>7. sum \in Int
  BY <1>2, <1>3, <1>4, SumIsInt
<1>8. usdc'[assetRecipient] = usdc[assetRecipient]
  BY <1>1, <1>5, AccountsDiffer DEF TypeOK
<1>9. SumFunctionOnSet(usdc', AssetSenders) = SumFunctionOnSet(usdc, AssetSenders) + (0 - sum)
  <2>1. IsFiniteSet(AssetSenders) /\ assetSender \in AssetSenders /\ 0 - sum \in Int
    BY <1>7, ManagerAssumption DEF TypeOK
  <2>2. \A s \in AssetSenders : usdc[s] \in Int
    BY AccountsDiffer DEF TypeOK
  <2>3. usdc'[assetSender] = usdc[assetSender] + (0 - sum)
    BY <1>1, <1>7, <2>1, <2>2
  <2>4. \A s \in AssetSenders \ {assetSender} : usdc'[s] = usdc[s]
    BY <1>1, <1>5, AccountsDiffer DEF TypeOK
  <2> QED BY <2>1, <2>2, <2>3, <2>4, SumAddsToOne
<1>10. SumFunctionOnSet(PaidOf(redemptionLog'), RedemptionIds)
         = SumFunctionOnSet(PaidOf(redemptionLog), RedemptionIds) + sum
  <2>1. \A id \in ids : PaidOf(redemptionLog')[id] = PaidOf(redemptionLog)[id] + due[id]
    <3> SUFFICES ASSUME NEW id \in ids
                 PROVE  PaidOf(redemptionLog')[id] = PaidOf(redemptionLog)[id] + due[id]
      OBVIOUS
    <3> DEFINE burned == redemptionIdToRedeemer[id].amountRwaTokenBurned
    <3>1. id \in RedemptionIds /\ redemptionLog[id] \in RedemptionLogType
          /\ burned \in Nat /\ collateralDue(id) \in Nat
      BY <1>2, DueIsNat DEF TypeOK, RedeemerType
    <3>2. redemptionLog'[id] = PaidOut(redemptionLog[id], burned, collateralDue(id))
      BY <3>1 DEF ClaimRedemption
    <3>3. PaidOut(redemptionLog[id], burned, collateralDue(id)).paid
            = redemptionLog[id].paid + collateralDue(id)
      BY <3>1, PaidOutLog
    <3> QED BY <1>3, <3>1, <3>2, <3>3 DEF PaidOf
  <2>2. \A id \in RedemptionIds \ ids : PaidOf(redemptionLog')[id] = PaidOf(redemptionLog)[id]
    BY DEF ClaimRedemption, PaidOf
  <2>3. \A id \in ids : due[id] \in Int
    BY <1>3
  <2>4. /\ IsFiniteSet(RedemptionIds) /\ ids \in SUBSET RedemptionIds
        /\ \A id \in RedemptionIds : PaidOf(redemptionLog)[id] \in Int
    BY <1>2, LedgersAreFinite
  <2> QED BY <1>4, <2>1, <2>2, <2>3, <2>4, SumAddsInPart
<1>11. SumFunctionOnSet(PaidOf(redemptionLog), RedemptionIds) \in Int
  <2>1. /\ IsFiniteSet(RedemptionIds)
        /\ \A id \in RedemptionIds : PaidOf(redemptionLog)[id] \in Int
    BY LedgersAreFinite
  <2> QED BY <2>1, SumIsInt
<1> QED BY <1>6, <1>7, <1>8, <1>9, <1>10, <1>11, CollateralSums, CollateralSumsAfter

\* The collateral ledger agrees with the mappings: what the custodian holds
\* and what left the asset senders is, to the unit, what was recorded.
\* (RWAHub.sol:154-162, 278-292.)
THEOREM CollateralCorrect == Spec => []CollateralAddsUp
<1>1. Init => TypeOK /\ CollateralAddsUp
  BY TypeInit, CollateralInitial
<1>2. TypeOK /\ CollateralAddsUp /\ [Next]_vars => TypeOK' /\ CollateralAddsUp'
  BY TypeStep, OnlyTwoCallsMove, CollateralUnmoved, CollateralSubscribed, CollateralRedeemed
<1> QED BY <1>1, <1>2, PTL DEF Spec
-----------------------------------------------------------------------------
\* An account on the lists neither pays into the fund nor is paid from it:
\* the lists are asked at the claim, whatever they said at the request.
\* (RWAHub.sol:135, 255; README.md:23.)
THEOREM RestrictedMoveNothing == Spec => RestrictedMoveNoCollateral
<1>1. ASSUME TypeOK, [Next]_vars, NEW u \in restricted
      PROVE  usdc'[u] = usdc[u]
  <2>1. u \in Users
    BY <1>1 DEF TypeOK
  <2>2. ASSUME NEW v \in Users, NEW a \in Amounts, RequestSubscription(v, a)
        PROVE  usdc'[u] = usdc[u]
    <3>1. u # v
      BY <1>1, <2>2 DEF RequestSubscription
    <3>2. u \in Accounts \ {v, feeRecipient, assetRecipient}
      BY <1>1, <2>1, <3>1, AccountsDiffer DEF TypeOK
    <3> QED BY <1>1, <2>2, <3>2, SubscriptionTransfers
  <2>3. ASSUME NEW ids \in Batches(RedemptionIds), ClaimRedemption(ids)
        PROVE  usdc'[u] = usdc[u]
    <3>1. \A id \in ids : redemptionIdToRedeemer[id].user # u
      BY <1>1, <2>3 DEF ClaimRedemption, Payable
    <3>2. u \in Accounts \ {assetSender, feeRecipient}
      BY <1>1, <2>1, AccountsDiffer DEF TypeOK
    <3> QED BY <1>1, <2>3, <3>1, <3>2, SettlementTransfers
  <2> QED BY <1>1, <2>2, <2>3, OnlyTwoCallsMove DEF MovesNothing
<1>2. TypeOK /\ [Next]_vars => [\A u \in restricted : usdc'[u] = usdc[u]]_vars
  BY <1>1
<1> QED BY <1>2, TypeCorrect, PTL DEF Spec, RestrictedMoveNoCollateral
-----------------------------------------------------------------------------
\* The minimum a subscription must reach never falls below BPS_DENOMINATOR,
\* once a deployment has it there.
MinimumStays ==
  InitialMinimumDeposit >= BPS_DENOMINATOR => minimumDepositAmount >= BPS_DENOMINATOR

LEMMA MinimumStaysStep ==
  ASSUME MinimumStays, [Next]_vars
  PROVE  MinimumStays'
<1>1. \/ minimumDepositAmount' = minimumDepositAmount
      \/ minimumDepositAmount' >= BPS_DENOMINATOR
  <2> USE DEF parameterVars
  <2>1. CASE UNCHANGED vars
    BY <2>1 DEF vars
  <2>2. CASE UserCalls
    BY <2>2 DEF UserCalls, RequestSubscription, ClaimMint, RequestRedemption,
                RequestRedemptionServicedOffchain, ClaimRedemption
  <2>3. CASE OperatorCalls
    BY <2>3 DEF OperatorCalls, AddProof, SetPriceIdForDeposits, SetPriceIdForRedemptions,
                SetClaimableTimestamp
  <2>4. CASE ManagerCalls
    BY <2>4 DEF ManagerCalls, OverwriteDepositor, OverwriteRedeemer,
       SetMinimumDepositAmount, SetMinimumRedemptionAmount,
       SetOffChainRedemptionMinimum, SetMintFee, SetRedemptionFee, SetFeeRecipient,
       SetAssetSender, Pause, Unpause, SetPricer
  <2>5. CASE WorldSteps
    BY <2>5 DEF WorldSteps, PricerSets, RestrictionsChange, TokenDenials, Tick
  <2> QED BY <2>1, <2>2, <2>3, <2>4, <2>5 DEF Next
<1> QED BY <1>1 DEF MinimumStays

\* The counter of subscriptions moves with a subscription only.
LEMMA OnlySubscriptionsCount ==
  ASSUME TypeOK, [Next]_vars, subscriptionRequestCounter' # subscriptionRequestCounter
  PROVE  \E u \in Users, a \in Amounts : RequestSubscription(u, a)
<1> USE DEF depositVars
<1>1. CASE UNCHANGED vars
  BY <1>1 DEF vars
<1>2. CASE UserCalls
  BY <1>2 DEF UserCalls, ClaimMint, RequestRedemption,
              RequestRedemptionServicedOffchain, ClaimRedemption
<1>3. CASE OperatorCalls
  BY <1>3 DEF OperatorCalls, AddProof, SetPriceIdForDeposits, SetPriceIdForRedemptions,
              SetClaimableTimestamp
<1>4. CASE ManagerCalls
  BY <1>4, TypeParameterCalls
     DEF ManagerCalls, ParameterCalls, OverwriteDepositor, OverwriteRedeemer
<1>5. CASE WorldSteps
  BY <1>5, TypeWorldSteps
<1> QED BY <1>1, <1>2, <1>3, <1>4, <1>5 DEF Next

LEMMA SubscriptionPaysFee ==
  ASSUME TypeOK, MinimumStays, [Next]_vars,
         InitialMinimumDeposit >= BPS_DENOMINATOR, mintFee > 0,
         subscriptionRequestCounter' # subscriptionRequestCounter
  PROVE  usdc'[feeRecipient] > usdc[feeRecipient]
<1>1. PICK u \in Users, a \in Amounts : RequestSubscription(u, a)
  BY OnlySubscriptionsCount
<1> DEFINE fee == getMintFees(a, mintFee)
<1>2. a \in Nat /\ mintFee \in Nat
  BY ManagerAssumption, HubMathAssumption DEF TypeOK
<1>3. a >= BPS_DENOMINATOR
  <2>1. a >= minimumDepositAmount
    BY <1>1 DEF RequestSubscription
  <2>2. minimumDepositAmount >= BPS_DENOMINATOR
    BY DEF MinimumStays
  <2>3. minimumDepositAmount \in Nat /\ BPS_DENOMINATOR \in Nat
    BY HubMathAssumption DEF TypeOK
  <2> QED BY <1>2, <2>1, <2>2, <2>3
<1>4. FeeNotRoundedAway(a, mintFee)
  BY <1>2, FeeNotRoundedAwayThm
<1>5. fee > 0
  BY <1>3, <1>4 DEF FeeNotRoundedAway
<1>6. fee \in Nat /\ usdc'[feeRecipient] = usdc[feeRecipient] + fee
  BY <1>1, SubscriptionTransfers
<1>7. usdc[feeRecipient] \in Int
  BY AccountsDiffer DEF TypeOK
<1> HIDE DEF fee
<1> QED BY <1>5, <1>6, <1>7

\* No subscription escapes a non-zero mint fee by rounding, whatever the
\* manager sets the minimum to: it cannot be set below BPS_DENOMINATOR.
\* (RWAHub.sol:154-162, 486-495.)
THEOREM FeesNotEscaped == Spec => NoSubscriptionEscapesFee
<1>1. Init => MinimumStays
  BY DEF Init, MinimumStays
<1>2. MinimumStays /\ [Next]_vars => MinimumStays'
  BY MinimumStaysStep
<1>3. TypeOK /\ MinimumStays /\ [Next]_vars =>
        [(/\ InitialMinimumDeposit >= BPS_DENOMINATOR
          /\ mintFee > 0
          /\ subscriptionRequestCounter' # subscriptionRequestCounter)
         => usdc'[feeRecipient] > usdc[feeRecipient]]_vars
  BY SubscriptionPaysFee
<1> QED BY <1>1, <1>2, <1>3, TypeCorrect, PTL DEF Spec, NoSubscriptionEscapesFee
=============================================================================
