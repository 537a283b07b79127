---------------------- MODULE USDXManagerRefinement_proofs ----------------------
(***************************************************************************)
(* The gateway implements Requests, twice, for every value of the          *)
(* constants.  Each call that touches a ledger is one step of it: a        *)
(* subscription, a proof or a redemption, on chain or off, opens a         *)
(* request, a batch of priceIds prices those that are open, a batch of     *)
(* claims settles some, an overwrite and a proof ahead of the counter      *)
(* amend one.  Every other call is a stutter.  That a request opened is    *)
(* never one that was open, and that nothing is stored under the id of an  *)
(* off-chain one, is what the ledger invariants are needed for.            *)
(***************************************************************************)
EXTENDS USDXManagerRefinement, USDXManager_proofs

\* A function on S whose values are those of f updated at x is that update.
LEMMA PointwiseUpdate ==
  ASSUME NEW S, NEW f, NEW g, NEW x \in S, NEW v,
         f = [y \in S |-> f[y]], g = [y \in S |-> g[y]],
         \A y \in S : g[y] = IF y = x THEN v ELSE f[y]
  PROVE  g = [f EXCEPT ![x] = v]
OBVIOUS

\* The refinement mapping, id by id.
LEMMA DepositsShown ==
  /\ depositRequest = [id \in DepositIds |-> depositRequest[id]]
  /\ depositSettled = [id \in DepositIds |-> depositSettled[id]]
  /\ depositAmendments = [id \in DepositIds |-> depositAmendments[id]]
  /\ \A id \in DepositIds :
       /\ depositRequest[id] =
            Shown(depositIdToDepositor[id].user,
                  depositIdToDepositor[id].amountDepositedMinusFees,
                  depositIdToDepositor[id].priceId)
       /\ depositSettled[id] = depositLog[id].claimed
       /\ depositAmendments[id] = depositLog[id].overwrites + depositLog[id].ahead
BY DEF depositRequest, depositSettled, depositAmendments

LEMMA DepositsShownNext ==
  /\ depositRequest' = [id \in DepositIds |-> depositRequest'[id]]
  /\ depositSettled' = [id \in DepositIds |-> depositSettled'[id]]
  /\ depositAmendments' = [id \in DepositIds |-> depositAmendments'[id]]
  /\ \A id \in DepositIds :
       /\ depositRequest'[id] =
            Shown(depositIdToDepositor'[id].user,
                  depositIdToDepositor'[id].amountDepositedMinusFees,
                  depositIdToDepositor'[id].priceId)
       /\ depositSettled'[id] = depositLog'[id].claimed
       /\ depositAmendments'[id] = depositLog'[id].overwrites + depositLog'[id].ahead
BY DEF depositRequest, depositSettled, depositAmendments, Shown

LEMMA DepositsStutter ==
  ASSUME UNCHANGED depositIdToDepositor,
         \A id \in DepositIds : /\ depositLog'[id].claimed = depositLog[id].claimed
                                /\ depositLog'[id].overwrites = depositLog[id].overwrites
                                /\ depositLog'[id].ahead = depositLog[id].ahead
  PROVE  UNCHANGED Deposits!vars
<1>1. UNCHANGED depositRequest
  BY DEF depositRequest, Shown
<1>2. UNCHANGED depositSettled
  BY DEF depositSettled
<1>3. UNCHANGED depositAmendments
  BY DEF depositAmendments
<1> QED BY <1>1, <1>2, <1>3 DEF Deposits!vars
-----------------------------------------------------------------------------
(* Deposits                                                                *)

\* What an entry does to the requests, whether it opens one or amends one.
LEMMA DepositEntered ==
  ASSUME TypeOK, NEW id \in DepositIds, NEW user \in Users, NEW amount \in Nat,
         NEW paidIn \in Nat, NEW ahead \in Nat,
         EnterDeposit(id, user, amount),
         depositLog' = [depositLog EXCEPT ![id] =
                          Entered(depositLog[id], user, amount, paidIn, ahead)]
  PROVE  /\ depositRequest' = [depositRequest EXCEPT ![id] = depositRequest'[id]]
         /\ depositRequest'[id] = Deposits!Request(user, depositRequest'[id].amount, 0)
         /\ UNCHANGED depositSettled
         /\ depositAmendments' =
              [depositAmendments EXCEPT ![id] = depositAmendments[id] + ahead]
         /\ depositAmendments[id] \in Nat
<1> DEFINE log == depositLog[id]
           new == Entered(log, user, amount, paidIn, ahead)
<1>1. \A x \in DepositIds :
        /\ depositIdToDepositor'[x] =
             IF x = id THEN Depositor(user, amount, 0) ELSE depositIdToDepositor[x]
        /\ depositLog'[x] = IF x = id THEN new ELSE depositLog[x]
  BY DEF EnterDeposit, TypeOK
<1>2. log \in DepositLogType /\ log.overwrites \in Nat /\ log.ahead \in Nat
  BY DEF TypeOK, DepositLogType
<1>3. /\ new.claimed = log.claimed /\ new.overwrites = log.overwrites
      /\ new.ahead = log.ahead + ahead
  <2>1. /\ new \in DepositLogType
        /\ new.entries = log.entries + 1 /\ new.entered = log.entered + amount
        /\ new.subscribed = log.subscribed + paidIn /\ new.ahead = log.ahead + ahead
        /\ new.mints = log.mints /\ new.claimed = log.claimed
        /\ new.depositor = user /\ new.armed = log.armed
        /\ new.overwrites = log.overwrites
    <3> HIDE DEF log
    <3> QED BY Z3T(30), <1>2, EnteredLog
  <2> HIDE DEF new
  <2> QED BY <2>1
<1> HIDE DEF new
<1>4. \A x \in DepositIds : x # id => depositRequest'[x] = depositRequest[x]
  BY <1>1, DepositsShown, DepositsShownNext
<1>5. depositRequest' = [depositRequest EXCEPT ![id] = depositRequest'[id]]
  BY <1>4, PointwiseUpdate, DepositsShown, DepositsShownNext
<1>6. depositRequest'[id] = Deposits!Request(user, depositRequest'[id].amount, 0)
  <2>1. user # NoUser
    BY ManagerAssumption
  <2>2. depositRequest'[id] = Shown(user, amount, 0)
    BY <1>1, DepositsShownNext DEF Depositor
  <2> QED BY <2>1, <2>2 DEF Shown, Deposits!Request
<1>7. UNCHANGED depositSettled
  BY <1>1, <1>3 DEF depositSettled
<1>8. depositAmendments[id] \in Nat
  BY <1>2, DepositsShown
<1>9. depositAmendments' = [depositAmendments EXCEPT ![id] = depositAmendments[id] + ahead]
  <2>1. \A x \in DepositIds : x # id => depositAmendments'[x] = depositAmendments[x]
    BY <1>1, DepositsShown, DepositsShownNext
  <2>2. /\ depositAmendments'[id] = log.overwrites + (log.ahead + ahead)
        /\ depositAmendments[id] = log.overwrites + log.ahead
    BY <1>1, <1>3, DepositsShown, DepositsShownNext
  <2>3. depositAmendments'[id] = depositAmendments[id] + ahead
    BY <1>2, <2>2
  <2> QED BY <2>1, <2>3, PointwiseUpdate, DepositsShown, DepositsShownNext
<1> QED BY <1>5, <1>6, <1>7, <1>8, <1>9

LEMMA DepositOpens ==
  ASSUME TypeOK, NEW id \in DepositIds, NEW user \in Users, NEW amount \in Nat,
         NEW paidIn \in Nat,
         Undisturbed(depositLog[id]) => depositIdToDepositor[id].user = NoUser,
         EnterDeposit(id, user, amount),
         depositLog' = [depositLog EXCEPT ![id] =
                          Entered(depositLog[id], user, amount, paidIn, 0)]
  PROVE  Deposits!Open(id)
<1>1. /\ depositRequest' = [depositRequest EXCEPT ![id] = depositRequest'[id]]
      /\ depositRequest'[id] = Deposits!Request(user, depositRequest'[id].amount, 0)
      /\ UNCHANGED depositSettled
      /\ depositAmendments' = [depositAmendments EXCEPT ![id] = depositAmendments[id] + 0]
      /\ depositAmendments[id] \in Nat
  BY DepositEntered, 0 \in Nat
<1>2. UNCHANGED depositAmendments
  <2>1. depositAmendments[id] + 0 = depositAmendments[id]
    BY <1>1
  <2> QED BY <1>1, <2>1, DepositsShown
<1>3. ~Deposits!IsOpen(id) \/ depositAmendments[id] # 0
  <2>1. /\ depositAmendments[id] = depositLog[id].overwrites + depositLog[id].ahead
        /\ depositLog[id].overwrites \in Nat /\ depositLog[id].ahead \in Nat
    BY DepositsShown DEF TypeOK, DepositLogType
  <2>2. CASE Undisturbed(depositLog[id])
    BY <2>2, DepositsShown DEF Deposits!IsOpen, Shown
  <2>3. CASE ~Undisturbed(depositLog[id])
    BY <2>1, <2>3 DEF Undisturbed
  <2> QED BY <2>2, <2>3
<1> QED BY <1>1, <1>2, <1>3 DEF Deposits!Open

LEMMA SubscriptionOpens ==
  ASSUME LedgerInvariant, NEW user \in Users, NEW amount \in Amounts,
         RequestSubscription(user, amount)
  PROVE  \E id \in DepositIds : Deposits!Open(id)
<1> DEFINE id == subscriptionRequestCounter
           net == amount - getMintFees(amount, mintFee)
<1>1. id \in CounterDepositIds /\ id \in DepositIds /\ id >= subscriptionRequestCounter
  BY CounterIds DEF RequestSubscription, LedgerInvariant, DepositIds, CounterDepositIds, TypeOK
<1>2. net \in Nat
  BY NetIsNat, ManagerAssumption DEF LedgerInvariant, TypeOK
<1>3. Undisturbed(depositLog[id]) => depositIdToDepositor[id].user = NoUser
  <2>1. /\ depositLog[id].ahead = 0 => depositLog[id].entries = 0
        /\ depositLog[id].mints \in Nat
    BY <1>1 DEF LedgerInvariant, DepositLedger, UnreachedIdsAreFree, AheadOfCounter, TypeOK,
                DepositLogType
  <2>2. 0 # depositLog[id].mints + 1
    BY <2>1
  <2> QED BY <1>1, <2>1, <2>2
          DEF LedgerInvariant, DepositLedger, EveryEntryMintedOnce, Undisturbed
<1>4. /\ EnterDeposit(id, user, net)
      /\ depositLog' = [depositLog EXCEPT ![id] = Entered(depositLog[id], user, net, net, 0)]
  BY DEF RequestSubscription
<1> HIDE DEF id, net
<1> QED BY <1>1, <1>2, <1>3, <1>4, DepositOpens DEF LedgerInvariant

\* A proof opens a request, unless its id is one the counter has yet to give
\* out: then it amends the id.
LEMMA ProofOpensOrAmends ==
  ASSUME TypeOK, NEW h \in TxHashes, NEW user \in Users, NEW amount \in Amounts,
         AddProof(h, user, amount)
  PROVE  \E id \in DepositIds : Deposits!Open(id) \/ Deposits!Amend(id)
<1> DEFINE ahead == IF AheadOfCounter(h) THEN 1 ELSE 0
<1>1. h \in DepositIds /\ amount \in Nat /\ 0 \in Nat /\ 1 \in Nat
  BY ManagerAssumption DEF DepositIds
<1>2. /\ EnterDeposit(h, user, amount) /\ depositIdToDepositor[h].user = NoUser
      /\ depositLog' = [depositLog EXCEPT ![h] =
                          Entered(depositLog[h], user, amount, 0, ahead)]
  BY DEF AddProof, Provable
<1>3. ahead = 0 \/ ahead = 1
  OBVIOUS
<1> HIDE DEF ahead
<1>4. CASE ahead = 0
  BY <1>1, <1>2, <1>4, DepositOpens
<1>5. CASE ahead = 1
  <2>1. depositLog' = [depositLog EXCEPT ![h] = Entered(depositLog[h], user, amount, 0, 1)]
    BY <1>2, <1>5
  <2>a. EnterDeposit(h, user, amount) /\ h \in DepositIds /\ amount \in Nat
    BY <1>1, <1>2
  <2>2. /\ depositRequest' = [depositRequest EXCEPT ![h] = depositRequest'[h]]
        /\ depositRequest'[h] = Deposits!Request(user, depositRequest'[h].amount, 0)
        /\ UNCHANGED depositSettled
        /\ depositAmendments' = [depositAmendments EXCEPT ![h] = depositAmendments[h] + 1]
        /\ depositAmendments[h] \in Nat
    BY <2>a, <2>1, DepositEntered, 0 \in Nat, 1 \in Nat
  <2> QED BY <1>1, <2>2 DEF Deposits!Amend
<1> QED BY <1>3, <1>4, <1>5

LEMMA DepositsPriced ==
  ASSUME TypeOK, NEW ids \in Batches(DepositIds), NEW priceIds \in [ids -> PriceIds \cup {0}],
         SetPriceIdForDeposits(ids, priceIds)
  PROVE  Deposits!Price(ids)
<1>1. /\ ids \subseteq DepositIds
      /\ \A id \in ids : priceIds[id] \in Nat
  BY ManagerAssumption DEF Batches, PriceIds
<1>2. \A id \in DepositIds \ ids :
        depositIdToDepositor'[id] = depositIdToDepositor[id] /\ depositLog'[id] = depositLog[id]
  BY DEF SetPriceIdForDeposits
<1>3. \A id \in ids :
        /\ depositIdToDepositor'[id] = [depositIdToDepositor[id] EXCEPT !.priceId = priceIds[id]]
        /\ depositLog'[id] = Priced(depositLog[id], priceIds[id])
  BY <1>1 DEF SetPriceIdForDeposits
<1>4. \A id \in ids :
        /\ depositIdToDepositor'[id].user = depositIdToDepositor[id].user
        /\ depositIdToDepositor'[id].amountDepositedMinusFees =
             depositIdToDepositor[id].amountDepositedMinusFees
        /\ depositIdToDepositor[id].user # NoUser
        /\ depositIdToDepositor[id].priceId = 0
  BY <1>1, <1>3 DEF SetPriceIdForDeposits, DepositPriceable, TypeOK, DepositorType
<1>5. \A id \in DepositIds : /\ depositLog'[id].claimed = depositLog[id].claimed
                             /\ depositLog'[id].overwrites = depositLog[id].overwrites
                             /\ depositLog'[id].ahead = depositLog[id].ahead
  <2>1. ASSUME NEW id \in ids
        PROVE  /\ Priced(depositLog[id], priceIds[id]).claimed = depositLog[id].claimed
               /\ Priced(depositLog[id], priceIds[id]).overwrites = depositLog[id].overwrites
               /\ Priced(depositLog[id], priceIds[id]).ahead = depositLog[id].ahead
    <3>1. priceIds[id] \in Nat /\ depositLog[id] \in DepositLogType
      BY <1>1 DEF TypeOK
    <3> QED BY <3>1, PricedLog
  <2> QED BY <1>2, <1>3, <2>1
<1>6. \A id \in DepositIds :
        depositRequest'[id] =
          IF id \in ids
            THEN Deposits!Request(depositRequest[id].user, depositRequest[id].amount,
                                  depositRequest'[id].priceId)
            ELSE depositRequest[id]
  BY <1>2, <1>4, DepositsShown, DepositsShownNext DEF Shown, Deposits!Request
<1>7. \A id \in ids : Deposits!IsOpen(id) /\ depositRequest[id].priceId = 0
  BY <1>1, <1>4, DepositsShown DEF Shown, Deposits!IsOpen
<1>8. UNCHANGED <<depositSettled, depositAmendments>>
  BY <1>5 DEF depositSettled, depositAmendments
<1>9. depositRequest' =
        [id \in DepositIds |->
           IF id \in ids
             THEN Deposits!Request(depositRequest[id].user, depositRequest[id].amount,
                                   depositRequest'[id].priceId)
             ELSE depositRequest[id]]
  BY <1>6, DepositsShownNext
<1> QED BY <1>7, <1>8, <1>9 DEF Deposits!Price

LEMMA DepositsSettle ==
  ASSUME TypeOK, NEW ids \in Batches(DepositIds), ClaimMint(ids)
  PROVE  Deposits!Settle(ids)
<1>1. ids \subseteq DepositIds
  BY DEF Batches
<1>2. \A id \in DepositIds \ ids :
        depositIdToDepositor'[id] = depositIdToDepositor[id] /\ depositLog'[id] = depositLog[id]
  BY DEF ClaimMint, CloseDeposits
<1>3. \A id \in ids :
        /\ depositIdToDepositor'[id] = NoDepositor
        /\ depositLog'[id] =
             Minted(depositLog[id], depositIdToDepositor[id].amountDepositedMinusFees)
        /\ depositIdToDepositor[id].user # NoUser
        /\ depositIdToDepositor[id].priceId # 0
        /\ depositIdToDepositor[id].amountDepositedMinusFees \in Nat
        /\ depositLog[id] \in DepositLogType
  BY <1>1 DEF ClaimMint, CloseDeposits, Mintable, TypeOK, DepositorType
<1>4. \A id \in ids :
        /\ depositLog'[id].claimed =
             depositLog[id].claimed + depositIdToDepositor[id].amountDepositedMinusFees
        /\ depositLog'[id].overwrites = depositLog[id].overwrites
        /\ depositLog'[id].ahead = depositLog[id].ahead
  BY <1>3, MintedLog
<1>5. \A id \in ids :
        /\ depositRequest[id].user # NoUser /\ depositRequest[id].priceId # 0
        /\ depositRequest[id].amount = depositIdToDepositor[id].amountDepositedMinusFees
        /\ depositRequest'[id] = Deposits!Closed
  BY SMTT(30), <1>1, <1>3, DepositsShown, DepositsShownNext
     DEF Shown, NoDepositor, Depositor, Deposits!Closed, Deposits!Request
<1>6. depositRequest' =
        [id \in DepositIds |-> IF id \in ids THEN Deposits!Closed ELSE depositRequest[id]]
  <2>1. \A id \in DepositIds :
          depositRequest'[id] = IF id \in ids THEN Deposits!Closed ELSE depositRequest[id]
    <3>1. \A id \in DepositIds \ ids : depositRequest'[id] = depositRequest[id]
      BY <1>2, DepositsShown, DepositsShownNext
    <3> QED BY <1>5, <3>1
  <2> QED BY <2>1, DepositsShownNext
<1>7. depositSettled' =
        [id \in DepositIds |-> IF id \in ids THEN depositSettled[id] + depositRequest[id].amount
                                             ELSE depositSettled[id]]
  <2>1. \A id \in DepositIds :
          depositSettled'[id] = IF id \in ids THEN depositSettled[id] + depositRequest[id].amount
                                              ELSE depositSettled[id]
    <3>1. \A id \in DepositIds \ ids : depositSettled'[id] = depositSettled[id]
      BY <1>2, DepositsShown, DepositsShownNext
    <3>2. \A id \in ids : depositSettled'[id] = depositSettled[id] + depositRequest[id].amount
      BY <1>1, <1>4, <1>5, DepositsShown, DepositsShownNext
    <3> QED BY <3>1, <3>2
  <2> QED BY <2>1, DepositsShownNext
<1>8. UNCHANGED depositAmendments
  BY <1>2, <1>4 DEF depositAmendments
<1> QED BY <1>5, <1>6, <1>7, <1>8 DEF Deposits!Settle, Deposits!IsOpen

LEMMA DepositAmended ==
  ASSUME TypeOK, NEW id \in DepositIds, NEW user, NEW amount, NEW priceId \in PriceIds \cup {0},
         OverwriteDepositor(id, user, amount, priceId)
  PROVE  Deposits!Amend(id)
<1>1. priceId \in Nat
  BY ManagerAssumption DEF PriceIds
<1>2. /\ \A x \in DepositIds : x # id =>
           depositIdToDepositor'[x] = depositIdToDepositor[x] /\ depositLog'[x] = depositLog[x]
      /\ depositLog'[id] = Overwritten(depositLog[id], priceId)
  BY DEF OverwriteDepositor, TypeOK
<1>3. /\ depositLog'[id].claimed = depositLog[id].claimed
      /\ depositLog'[id].overwrites = depositLog[id].overwrites + 1
      /\ depositLog'[id].ahead = depositLog[id].ahead
  <2>1. depositLog[id] \in DepositLogType
    BY DEF TypeOK
  <2>2. /\ Overwritten(depositLog[id], priceId).claimed = depositLog[id].claimed
        /\ Overwritten(depositLog[id], priceId).overwrites = depositLog[id].overwrites + 1
        /\ Overwritten(depositLog[id], priceId).ahead = depositLog[id].ahead
    BY <1>1, <2>1, OverwrittenDepositLog
  <2> QED BY <1>2, <2>2
<1>4. depositRequest' = [depositRequest EXCEPT ![id] = depositRequest'[id]]
  BY <1>2, PointwiseUpdate, DepositsShown, DepositsShownNext
<1>5. depositAmendments' = [depositAmendments EXCEPT ![id] = depositAmendments[id] + 1]
  <2>1. \A x \in DepositIds : x # id => depositAmendments'[x] = depositAmendments[x]
    BY <1>2, DepositsShown, DepositsShownNext
  <2>2. /\ depositAmendments'[id] = (depositLog[id].overwrites + 1) + depositLog[id].ahead
        /\ depositAmendments[id] = depositLog[id].overwrites + depositLog[id].ahead
    BY <1>3, DepositsShown, DepositsShownNext
  <2>3. depositLog[id].overwrites \in Nat /\ depositLog[id].ahead \in Nat
    BY DEF TypeOK, DepositLogType
  <2>4. depositAmendments'[id] = depositAmendments[id] + 1
    BY <2>2, <2>3
  <2> QED BY <2>1, <2>4, PointwiseUpdate, DepositsShown, DepositsShownNext
<1>6. UNCHANGED depositSettled
  BY <1>2, <1>3 DEF depositSettled
<1> QED BY <1>4, <1>5, <1>6 DEF Deposits!Amend

LEMMA DepositsFrame == UNCHANGED depositVars => UNCHANGED Deposits!vars
BY DepositsStutter DEF depositVars

LEMMA DepositsInitial == Init => Deposits!Init
<1> SUFFICES ASSUME Init PROVE Deposits!Init
  OBVIOUS
<1>1. depositRequest = [id \in DepositIds |-> Deposits!Closed]
  BY DEF Init, depositRequest, NoDepositor, Depositor, Shown, Deposits!Closed, Deposits!Request
<1>2. /\ depositSettled = [id \in DepositIds |-> 0]
      /\ depositAmendments = [id \in DepositIds |-> 0]
  BY DEF Init, depositSettled, depositAmendments, NoDepositLog
<1> QED BY <1>1, <1>2 DEF Deposits!Init

LEMMA DepositsStep ==
  LedgerInvariant /\ [Next]_vars => [Deposits!Next]_(Deposits!vars)
<1> SUFFICES ASSUME LedgerInvariant, [Next]_vars
             PROVE  Deposits!Next \/ UNCHANGED Deposits!vars
  OBVIOUS
<1>0. TypeOK
  BY DEF LedgerInvariant
<1>1. ASSUME NEW u \in Users, NEW a \in Amounts, RequestSubscription(u, a)
      PROVE  Deposits!Next
  BY <1>1, SubscriptionOpens DEF Deposits!Next
<1>2. ASSUME NEW ids \in Batches(DepositIds), ClaimMint(ids)
      PROVE  Deposits!Next
  BY <1>0, <1>2, DepositsSettle DEF Deposits!Next, Batches
<1>3. ASSUME NEW h \in TxHashes, NEW u \in Users, NEW a \in Amounts, AddProof(h, u, a)
      PROVE  Deposits!Next
  BY <1>0, <1>3, ProofOpensOrAmends DEF Deposits!Next
<1>4. ASSUME NEW ids \in Batches(DepositIds), NEW f \in [ids -> PriceIds \cup {0}],
             SetPriceIdForDeposits(ids, f)
      PROVE  Deposits!Next
  BY <1>0, <1>4, DepositsPriced DEF Deposits!Next, Batches
<1>5. ASSUME NEW t \in 1 .. MaxTime, NEW ids \in Batches(DepositIds),
             SetClaimableTimestamp(t, ids)
      PROVE  UNCHANGED Deposits!vars
  <2>1. \A id \in DepositIds :
          depositLog'[id] = IF id \in ids THEN Armed(depositLog[id]) ELSE depositLog[id]
    BY <1>5 DEF SetClaimableTimestamp
  <2>2. \A id \in DepositIds : /\ depositLog'[id].claimed = depositLog[id].claimed
                               /\ depositLog'[id].overwrites = depositLog[id].overwrites
                               /\ depositLog'[id].ahead = depositLog[id].ahead
    BY <1>0, <2>1, ArmedLog DEF TypeOK
  <2> QED BY <1>5, <2>2, DepositsStutter DEF SetClaimableTimestamp
<1>6. ASSUME NEW id \in DepositIds, NEW u, NEW a, NEW p \in PriceIds \cup {0},
             OverwriteDepositor(id, u, a, p)
      PROVE  Deposits!Next
  BY <1>0, <1>6, DepositAmended DEF Deposits!Next
<1>7. ASSUME \/ \E u \in Users, a \in RwaAmounts :
                  RequestRedemption(u, a) \/ RequestRedemptionServicedOffchain(u, a)
             \/ \E ids \in Batches(RedemptionIds) : ClaimRedemption(ids)
             \/ \E ids \in Batches(RedemptionIds) : \E f \in [ids -> PriceIds \cup {0}] :
                  SetPriceIdForRedemptions(ids, f)
             \/ \E id \in RedemptionIds, u \in Users \cup {NoUser}, a \in RwaAmounts,
                   p \in PriceIds \cup {0} : OverwriteRedeemer(id, u, a, p)
      PROVE  UNCHANGED Deposits!vars
  BY <1>7, DepositsFrame
     DEF RequestRedemption, RequestRedemptionServicedOffchain, ClaimRedemption,
         SetPriceIdForRedemptions, OverwriteRedeemer
<1>8. ASSUME ParameterCalls \/ WorldSteps \/ UNCHANGED vars
      PROVE  UNCHANGED Deposits!vars
  BY <1>0, <1>8, TypeParameterCalls, TypeWorldSteps, DepositsFrame DEF vars
<1> QED BY <1>1, <1>2, <1>3, <1>4, <1>5, <1>6, <1>7, <1>8
        DEF Next, UserCalls, OperatorCalls, ManagerCalls, ParameterCalls

\* The gateway implements Requests with its deposits: every entry is opened
\* once, priced once, settled once and for its amount, whatever the ids of
\* proofs; under one the counter has yet to give out a proof is an amendment.
\* (RWAHub.sol:131-221,
\* 312-362; USDXManager.sol:77-88.)
THEOREM DepositsImplementRequests == Spec => DepositsAreRequests
BY DepositsInitial, DepositsStep, LedgerCorrect, PTL
   DEF Spec, DepositsAreRequests, Deposits!Spec
-----------------------------------------------------------------------------
(* Redemptions                                                             *)

LEMMA RedemptionsShown ==
  /\ redemptionRequest = [id \in RedemptionIds |-> redemptionRequest[id]]
  /\ redemptionSettled = [id \in RedemptionIds |-> redemptionSettled[id]]
  /\ redemptionAmendments = [id \in RedemptionIds |-> redemptionAmendments[id]]
  /\ \A id \in RedemptionIds :
       /\ redemptionRequest[id] =
            IF ServicedOffChain(id)
              THEN Shown(redemptionLog[id].redeemer, redemptionLog[id].burned, 0)
              ELSE Shown(redemptionIdToRedeemer[id].user,
                         redemptionIdToRedeemer[id].amountRwaTokenBurned,
                         redemptionIdToRedeemer[id].priceId)
       /\ redemptionSettled[id] = redemptionLog[id].settled
       /\ redemptionAmendments[id] = redemptionLog[id].overwrites
BY DEF redemptionRequest, redemptionSettled, redemptionAmendments

LEMMA RedemptionsShownNext ==
  /\ redemptionRequest' = [id \in RedemptionIds |-> redemptionRequest'[id]]
  /\ redemptionSettled' = [id \in RedemptionIds |-> redemptionSettled'[id]]
  /\ redemptionAmendments' = [id \in RedemptionIds |-> redemptionAmendments'[id]]
  /\ \A id \in RedemptionIds :
       /\ redemptionRequest'[id] =
            IF redemptionLog'[id].offChain /\ redemptionLog'[id].overwrites = 0
              THEN Shown(redemptionLog'[id].redeemer, redemptionLog'[id].burned, 0)
              ELSE Shown(redemptionIdToRedeemer'[id].user,
                         redemptionIdToRedeemer'[id].amountRwaTokenBurned,
                         redemptionIdToRedeemer'[id].priceId)
       /\ redemptionSettled'[id] = redemptionLog'[id].settled
       /\ redemptionAmendments'[id] = redemptionLog'[id].overwrites
BY DEF redemptionRequest, redemptionSettled, redemptionAmendments, Shown, ServicedOffChain

\* A step that leaves the redemptions alone, or adds nothing to them but what
\* goes on under an id the manager overwrote.
LEMMA RedemptionsStutter ==
  ASSUME UNCHANGED redemptionIdToRedeemer,
         \A id \in RedemptionIds :
           \/ redemptionLog'[id] = redemptionLog[id]
           \/ /\ redemptionLog[id].overwrites # 0 /\ ~redemptionLog[id].offChain
              /\ redemptionLog'[id].settled = redemptionLog[id].settled
              /\ redemptionLog'[id].overwrites = redemptionLog[id].overwrites
  PROVE  UNCHANGED Redemptions!vars
<1>1. UNCHANGED redemptionRequest
  <2>1. \A id \in RedemptionIds : redemptionRequest'[id] = redemptionRequest[id]
    BY RedemptionsShown, RedemptionsShownNext DEF ServicedOffChain
  <2> QED BY <2>1, RedemptionsShown, RedemptionsShownNext
<1>2. UNCHANGED redemptionSettled
  BY DEF redemptionSettled
<1>3. UNCHANGED redemptionAmendments
  BY DEF redemptionAmendments
<1> QED BY <1>1, <1>2, <1>3 DEF Redemptions!vars

\* Nothing is stored under the id of a redemption serviced off chain.
LEMMA OffChainStoresNothing ==
  ASSUME LedgerInvariant, NEW id \in RedemptionIds
  PROVE  ServicedOffChain(id) => redemptionIdToRedeemer[id].user = NoUser
BY DEF LedgerInvariant, RedemptionLedger, EveryBurnSettledOnce, ServicedOffChain

\* A request takes an id nothing is open under, unless the manager put it
\* there ahead of time; a priceId set ahead of time is dropped.
LEMMA RedemptionOpens ==
  ASSUME LedgerInvariant, NEW user \in Users, NEW amount \in RwaAmounts,
         RequestRedemption(user, amount)
  PROVE  \E id \in RedemptionIds : Redemptions!Open(id)
<1> DEFINE id == redemptionRequestCounter
<1>1. id \in RedemptionIds /\ ~(id < redemptionRequestCounter) /\ amount \in Nat
  BY CounterIds, ManagerAssumption DEF RequestRedemption, LedgerInvariant, TypeOK
<1>a. ~redemptionLog[id].offChain
  BY <1>1 DEF LedgerInvariant, RedemptionLedger, RedemptionLogsAgree, RedemptionIds
<1>2. redemptionLog[id].overwrites = 0 => redemptionIdToRedeemer[id].user = NoUser
  BY <1>1 DEF LedgerInvariant, RedemptionLedger, EveryBurnSettledOnce
<1>3. \A x \in RedemptionIds :
        /\ redemptionIdToRedeemer'[x] =
             IF x = id THEN Redeemer(user, amount, 0) ELSE redemptionIdToRedeemer[x]
        /\ redemptionLog'[x] =
             IF x = id THEN Requested(redemptionLog[id], user, amount) ELSE redemptionLog[x]
  BY DEF RequestRedemption, EnterRedemption, LedgerInvariant, TypeOK
<1> HIDE DEF id
<1>4. \A x \in RedemptionIds :
        /\ redemptionLog'[x].settled = redemptionLog[x].settled
        /\ redemptionLog'[x].overwrites = redemptionLog[x].overwrites
        /\ redemptionLog'[x].offChain = redemptionLog[x].offChain
  <2>1. redemptionLog[id] \in RedemptionLogType
    BY <1>1 DEF LedgerInvariant, TypeOK
  <2>2. LET new == Requested(redemptionLog[id], user, amount)
        IN  /\ new.settled = redemptionLog[id].settled
            /\ new.overwrites = redemptionLog[id].overwrites
            /\ new.offChain = redemptionLog[id].offChain
    BY <1>1, <2>1, RequestedLog
  <2> QED BY <1>3, <2>2
<1>5. redemptionRequest'[id] = Shown(user, amount, 0)
  BY <1>1, <1>a, <1>3, <1>4, RedemptionsShownNext DEF Redeemer
<1>6. \A x \in RedemptionIds : x # id => redemptionRequest'[x] = redemptionRequest[x]
  BY <1>3, RedemptionsShown, RedemptionsShownNext DEF ServicedOffChain
<1>7. redemptionRequest' =
        [redemptionRequest EXCEPT
           ![id] = Redemptions!Request(user, redemptionRequest'[id].amount, 0)]
  <2>1. user # NoUser
    BY ManagerAssumption
  <2>2. redemptionRequest'[id] = Redemptions!Request(user, redemptionRequest'[id].amount, 0)
    BY <1>5, <2>1 DEF Shown, Redemptions!Request
  <2> QED BY <1>1, <1>6, <2>2, PointwiseUpdate, RedemptionsShown, RedemptionsShownNext
<1>8. UNCHANGED <<redemptionSettled, redemptionAmendments>>
  BY <1>4 DEF redemptionSettled, redemptionAmendments
<1>9. ~Redemptions!IsOpen(id) \/ redemptionAmendments[id] # 0
  BY <1>1, <1>a, <1>2, RedemptionsShown DEF Redemptions!IsOpen, Shown, ServicedOffChain
<1> QED BY <1>1, <1>7, <1>8, <1>9 DEF Redemptions!Open

\* A redemption serviced off chain opens a request under the id it takes from
\* the counter, though it stores nothing there.  What the manager put under
\* the id before stays, in its place.
LEMMA OffChainOpens ==
  ASSUME LedgerInvariant, NEW user \in Users, NEW amount \in RwaAmounts,
         RequestRedemptionServicedOffchain(user, amount)
  PROVE  \/ \E id \in RedemptionIds : Redemptions!Open(id)
         \/ UNCHANGED Redemptions!vars
<1> DEFINE id == redemptionRequestCounter
           log == redemptionLog[id]
           new == RequestedOffChain(log, user, amount)
<1>1. id \in RedemptionIds /\ ~(id < redemptionRequestCounter) /\ amount \in Nat
  BY CounterIds, ManagerAssumption
     DEF RequestRedemptionServicedOffchain, LedgerInvariant, TypeOK
<1>2. ~log.offChain /\ (log.overwrites = 0 => redemptionIdToRedeemer[id].user = NoUser)
  BY <1>1 DEF LedgerInvariant, RedemptionLedger, RedemptionLogsAgree, EveryBurnSettledOnce,
              RedemptionIds
<1>3. /\ UNCHANGED redemptionIdToRedeemer
      /\ \A x \in RedemptionIds :
           redemptionLog'[x] = IF x = id THEN new ELSE redemptionLog[x]
  BY DEF RequestRedemptionServicedOffchain, LedgerInvariant, TypeOK
<1>4. /\ new.burned = amount /\ new.redeemer = user /\ new.offChain
      /\ new.settled = log.settled /\ new.overwrites = log.overwrites
  <2>1. log \in RedemptionLogType
    BY <1>1 DEF LedgerInvariant, TypeOK
  <2> QED BY <1>1, <2>1, RequestedLog
<1> HIDE DEF id, new
<1>5. CASE log.overwrites = 0
  <2>1. ~Redemptions!IsOpen(id)
    BY <1>1, <1>2, <1>5, RedemptionsShown DEF Redemptions!IsOpen, Shown, ServicedOffChain
  <2>2. user # NoUser
    BY ManagerAssumption
  <2>3. redemptionRequest'[id] = Redemptions!Request(user, redemptionRequest'[id].amount, 0)
    <3>1. redemptionRequest'[id] = Shown(user, amount, 0)
      BY <1>1, <1>3, <1>4, <1>5, RedemptionsShownNext
    <3> QED BY <2>2, <3>1 DEF Shown, Redemptions!Request
  <2>4. \A x \in RedemptionIds : x # id => redemptionRequest'[x] = redemptionRequest[x]
    BY <1>3, RedemptionsShown, RedemptionsShownNext DEF ServicedOffChain
  <2>5. redemptionRequest' =
          [redemptionRequest EXCEPT
             ![id] = Redemptions!Request(user, redemptionRequest'[id].amount, 0)]
    BY <1>1, <2>3, <2>4, PointwiseUpdate, RedemptionsShown, RedemptionsShownNext
  <2>6. UNCHANGED <<redemptionSettled, redemptionAmendments>>
    BY <1>3, <1>4 DEF redemptionSettled, redemptionAmendments
  <2> QED BY <1>1, <2>1, <2>5, <2>6 DEF Redemptions!Open
<1>6. CASE log.overwrites # 0
  BY <1>2, <1>3, <1>4, <1>6, RedemptionsStutter
<1> QED BY <1>5, <1>6

\* Of the batch, those that are open are priced; a priceId set on the others
\* shows nowhere.
LEMMA RedemptionsPriced ==
  ASSUME LedgerInvariant, NEW ids \in Batches(RedemptionIds),
         NEW priceIds \in [ids -> PriceIds \cup {0}],
         SetPriceIdForRedemptions(ids, priceIds)
  PROVE  \E open \in SUBSET RedemptionIds : Redemptions!Price(open)
<1> DEFINE open == {id \in ids : redemptionIdToRedeemer[id].user # NoUser}
<1>0. TypeOK /\ \A id \in RedemptionIds :
                   ServicedOffChain(id) => redemptionIdToRedeemer[id].user = NoUser
  BY OffChainStoresNothing DEF LedgerInvariant
<1>1. /\ ids \subseteq RedemptionIds
      /\ \A id \in ids : priceIds[id] \in Nat
  BY ManagerAssumption DEF Batches, PriceIds
<1>2. \A id \in RedemptionIds \ ids :
        /\ redemptionIdToRedeemer'[id] = redemptionIdToRedeemer[id]
        /\ redemptionLog'[id] = redemptionLog[id]
  BY DEF SetPriceIdForRedemptions
<1>3. \A id \in ids :
        /\ redemptionIdToRedeemer'[id] =
             [redemptionIdToRedeemer[id] EXCEPT !.priceId = priceIds[id]]
        /\ redemptionLog'[id] = Priced(redemptionLog[id], priceIds[id])
  BY <1>1 DEF SetPriceIdForRedemptions
<1>4. \A id \in ids :
        /\ redemptionIdToRedeemer'[id].user = redemptionIdToRedeemer[id].user
        /\ redemptionIdToRedeemer'[id].amountRwaTokenBurned =
             redemptionIdToRedeemer[id].amountRwaTokenBurned
        /\ redemptionIdToRedeemer[id].priceId = 0
  BY <1>0, <1>1, <1>3 DEF SetPriceIdForRedemptions, RedemptionPriceable, TypeOK, RedeemerType
<1>5. \A id \in RedemptionIds :
        /\ redemptionLog'[id].settled = redemptionLog[id].settled
        /\ redemptionLog'[id].overwrites = redemptionLog[id].overwrites
        /\ redemptionLog'[id].offChain = redemptionLog[id].offChain
        /\ redemptionLog'[id].redeemer = redemptionLog[id].redeemer
        /\ redemptionLog'[id].burned = redemptionLog[id].burned
  <2>1. ASSUME NEW id \in ids
        PROVE  LET new == Priced(redemptionLog[id], priceIds[id]) IN
               /\ new.settled = redemptionLog[id].settled
               /\ new.overwrites = redemptionLog[id].overwrites
               /\ new.offChain = redemptionLog[id].offChain
               /\ new.redeemer = redemptionLog[id].redeemer
               /\ new.burned = redemptionLog[id].burned
    <3>1. priceIds[id] \in Nat /\ redemptionLog[id] \in RedemptionLogType
      BY <1>0, <1>1 DEF TypeOK
    <3> QED BY <3>1, PricedLog
  <2> QED BY <1>2, <1>3, <2>1
<1>6. \A id \in RedemptionIds :
        redemptionRequest'[id] =
          IF id \in open
            THEN Redemptions!Request(redemptionRequest[id].user, redemptionRequest[id].amount,
                                     redemptionRequest'[id].priceId)
            ELSE redemptionRequest[id]
  <2>1. \A id \in RedemptionIds \ ids : redemptionRequest'[id] = redemptionRequest[id]
    BY <1>2, RedemptionsShown, RedemptionsShownNext DEF ServicedOffChain
  <2>2. \A id \in ids : redemptionIdToRedeemer[id].user = NoUser
                          => redemptionRequest'[id] = redemptionRequest[id]
    BY SMTT(30), <1>1, <1>4, <1>5, RedemptionsShown, RedemptionsShownNext
       DEF Shown, ServicedOffChain
  <2>3. \A id \in open :
          redemptionRequest'[id] =
            Redemptions!Request(redemptionRequest[id].user, redemptionRequest[id].amount,
                                redemptionRequest'[id].priceId)
    BY SMTT(30), <1>0, <1>1, <1>4, <1>5, RedemptionsShown, RedemptionsShownNext
       DEF Shown, ServicedOffChain, Redemptions!Request
  <2> QED BY <2>1, <2>2, <2>3
<1>7. \A id \in open : Redemptions!IsOpen(id) /\ redemptionRequest[id].priceId = 0
  BY <1>0, <1>1, <1>4, RedemptionsShown DEF Shown, ServicedOffChain, Redemptions!IsOpen
<1>8. UNCHANGED <<redemptionSettled, redemptionAmendments>>
  BY <1>5 DEF redemptionSettled, redemptionAmendments
<1>9. open \in SUBSET RedemptionIds
  BY <1>1
<1> HIDE DEF open
<1>10. redemptionRequest' =
         [id \in RedemptionIds |->
            IF id \in open
              THEN Redemptions!Request(redemptionRequest[id].user, redemptionRequest[id].amount,
                                       redemptionRequest'[id].priceId)
              ELSE redemptionRequest[id]]
  BY <1>6, RedemptionsShownNext
<1> QED BY <1>7, <1>8, <1>9, <1>10 DEF Redemptions!Price

LEMMA RedemptionsSettle ==
  ASSUME LedgerInvariant, NEW ids \in Batches(RedemptionIds), ClaimRedemption(ids)
  PROVE  Redemptions!Settle(ids)
<1>0. TypeOK
  BY DEF LedgerInvariant
<1>1. ids \subseteq RedemptionIds
  BY DEF Batches
<1>2. \A id \in RedemptionIds \ ids :
        /\ redemptionIdToRedeemer'[id] = redemptionIdToRedeemer[id]
        /\ redemptionLog'[id] = redemptionLog[id]
  BY DEF ClaimRedemption
<1>3. \A id \in ids :
        /\ redemptionIdToRedeemer'[id] = NoRedeemer
        /\ redemptionLog'[id] =
             PaidOut(redemptionLog[id], redemptionIdToRedeemer[id].amountRwaTokenBurned,
                     collateralDue(id))
        /\ redemptionIdToRedeemer[id].user # NoUser
        /\ redemptionIdToRedeemer[id].priceId # 0
        /\ ~ServicedOffChain(id)
  BY <1>1, OffChainStoresNothing DEF ClaimRedemption, Payable
<1>4. \A id \in ids :
        /\ redemptionLog'[id].settled =
             redemptionLog[id].settled + redemptionIdToRedeemer[id].amountRwaTokenBurned
        /\ redemptionLog'[id].overwrites = redemptionLog[id].overwrites
        /\ redemptionLog'[id].offChain = redemptionLog[id].offChain
  <2> SUFFICES ASSUME NEW id \in ids
               PROVE  /\ redemptionLog'[id].settled =
                           redemptionLog[id].settled
                             + redemptionIdToRedeemer[id].amountRwaTokenBurned
                      /\ redemptionLog'[id].overwrites = redemptionLog[id].overwrites
                      /\ redemptionLog'[id].offChain = redemptionLog[id].offChain
    OBVIOUS
  <2>1. /\ redemptionIdToRedeemer[id].amountRwaTokenBurned \in Nat
        /\ redemptionLog[id] \in RedemptionLogType
    BY <1>0, <1>1 DEF TypeOK, RedeemerType
  <2>2. collateralDue(id) \in Nat
    BY <1>0, <1>1, DueIsNat
  <2>3. LET new == PaidOut(redemptionLog[id],
                           redemptionIdToRedeemer[id].amountRwaTokenBurned, collateralDue(id))
        IN  /\ new.settled =
                 redemptionLog[id].settled + redemptionIdToRedeemer[id].amountRwaTokenBurned
            /\ new.overwrites = redemptionLog[id].overwrites
            /\ new.offChain = redemptionLog[id].offChain
    BY <2>1, <2>2, PaidOutLog
  <2> QED BY <1>3, <2>3
<1>5. \A id \in ids :
        /\ redemptionRequest[id].user # NoUser /\ redemptionRequest[id].priceId # 0
        /\ redemptionRequest[id].amount = redemptionIdToRedeemer[id].amountRwaTokenBurned
        /\ redemptionRequest'[id] = Redemptions!Closed
  BY SMTT(30), <1>1, <1>3, <1>4, RedemptionsShown, RedemptionsShownNext
     DEF ServicedOffChain, Shown, NoRedeemer, Redeemer, Redemptions!Closed, Redemptions!Request
<1>6. redemptionRequest' =
        [id \in RedemptionIds |-> IF id \in ids THEN Redemptions!Closed
                                                ELSE redemptionRequest[id]]
  <2>1. \A id \in RedemptionIds \ ids : redemptionRequest'[id] = redemptionRequest[id]
    BY <1>2, RedemptionsShown, RedemptionsShownNext DEF ServicedOffChain
  <2> QED BY <1>5, <2>1, RedemptionsShownNext
<1>7. redemptionSettled' =
        [id \in RedemptionIds |->
           IF id \in ids THEN redemptionSettled[id] + redemptionRequest[id].amount
                         ELSE redemptionSettled[id]]
  <2>1. \A id \in RedemptionIds \ ids : redemptionSettled'[id] = redemptionSettled[id]
    BY <1>2, RedemptionsShown, RedemptionsShownNext
  <2>2. \A id \in ids :
          redemptionSettled'[id] = redemptionSettled[id] + redemptionRequest[id].amount
    BY <1>1, <1>4, <1>5, RedemptionsShown, RedemptionsShownNext
  <2> QED BY <2>1, <2>2, RedemptionsShownNext
<1>8. UNCHANGED redemptionAmendments
  BY <1>2, <1>4 DEF redemptionAmendments
<1> QED BY <1>5, <1>6, <1>7, <1>8 DEF Redemptions!Settle, Redemptions!IsOpen

LEMMA RedemptionAmended ==
  ASSUME TypeOK, NEW id \in RedemptionIds, NEW user, NEW amount,
         NEW priceId \in PriceIds \cup {0},
         OverwriteRedeemer(id, user, amount, priceId)
  PROVE  Redemptions!Amend(id)
<1>1. priceId \in Nat
  BY ManagerAssumption DEF PriceIds
<1>2. /\ \A x \in RedemptionIds : x # id =>
           /\ redemptionIdToRedeemer'[x] = redemptionIdToRedeemer[x]
           /\ redemptionLog'[x] = redemptionLog[x]
      /\ redemptionLog'[id] = Overwritten(redemptionLog[id], priceId)
  BY DEF OverwriteRedeemer, TypeOK
<1>3. /\ redemptionLog'[id].settled = redemptionLog[id].settled
      /\ redemptionLog'[id].overwrites = redemptionLog[id].overwrites + 1
  BY <1>1, <1>2, OverwrittenRedemptionLog DEF TypeOK
<1>4. redemptionRequest' = [redemptionRequest EXCEPT ![id] = redemptionRequest'[id]]
  BY <1>2, PointwiseUpdate, RedemptionsShown, RedemptionsShownNext DEF ServicedOffChain
<1>5. redemptionAmendments' = [redemptionAmendments EXCEPT ![id] = redemptionAmendments[id] + 1]
  BY <1>2, <1>3, PointwiseUpdate, RedemptionsShown, RedemptionsShownNext
<1>6. UNCHANGED redemptionSettled
  BY <1>2, <1>3 DEF redemptionSettled
<1> QED BY <1>4, <1>5, <1>6 DEF Redemptions!Amend

LEMMA RedemptionsFrame == UNCHANGED redemptionVars => UNCHANGED Redemptions!vars
BY RedemptionsStutter DEF redemptionVars

LEMMA RedemptionsInitial == Init => Redemptions!Init
<1> SUFFICES ASSUME Init PROVE Redemptions!Init
  OBVIOUS
<1>1. redemptionRequest = [id \in RedemptionIds |-> Redemptions!Closed]
  BY DEF Init, redemptionRequest, NoRedeemer, Redeemer, NoRedemptionLog, ServicedOffChain,
         Shown, Redemptions!Closed, Redemptions!Request
<1>2. /\ redemptionSettled = [id \in RedemptionIds |-> 0]
      /\ redemptionAmendments = [id \in RedemptionIds |-> 0]
  BY DEF Init, redemptionSettled, redemptionAmendments, NoRedemptionLog
<1> QED BY <1>1, <1>2 DEF Redemptions!Init

LEMMA RedemptionsStep ==
  LedgerInvariant /\ [Next]_vars => [Redemptions!Next]_(Redemptions!vars)
<1> SUFFICES ASSUME LedgerInvariant, [Next]_vars
             PROVE  Redemptions!Next \/ UNCHANGED Redemptions!vars
  OBVIOUS
<1>0. TypeOK
  BY DEF LedgerInvariant
<1>1. ASSUME NEW u \in Users, NEW a \in RwaAmounts, RequestRedemption(u, a)
      PROVE  Redemptions!Next
  BY <1>1, RedemptionOpens DEF Redemptions!Next
<1>2. ASSUME NEW u \in Users, NEW a \in RwaAmounts, RequestRedemptionServicedOffchain(u, a)
      PROVE  Redemptions!Next \/ UNCHANGED Redemptions!vars
  BY <1>2, OffChainOpens DEF Redemptions!Next
<1>3. ASSUME NEW ids \in Batches(RedemptionIds), ClaimRedemption(ids)
      PROVE  Redemptions!Next
  BY <1>3, RedemptionsSettle DEF Redemptions!Next, Batches
<1>4. ASSUME NEW ids \in Batches(RedemptionIds), NEW f \in [ids -> PriceIds \cup {0}],
             SetPriceIdForRedemptions(ids, f)
      PROVE  Redemptions!Next
  BY <1>4, RedemptionsPriced DEF Redemptions!Next
<1>5. ASSUME NEW id \in RedemptionIds, NEW u, NEW a, NEW p \in PriceIds \cup {0},
             OverwriteRedeemer(id, u, a, p)
      PROVE  Redemptions!Next
  BY <1>0, <1>5, RedemptionAmended DEF Redemptions!Next
<1>6. ASSUME \/ \E u \in Users, a \in Amounts : RequestSubscription(u, a)
             \/ \E ids \in Batches(DepositIds) : ClaimMint(ids)
             \/ \E h \in TxHashes, u \in Users, a \in Amounts : AddProof(h, u, a)
             \/ \E ids \in Batches(DepositIds) : \E f \in [ids -> PriceIds \cup {0}] :
                  SetPriceIdForDeposits(ids, f)
             \/ \E t \in 1 .. MaxTime, ids \in Batches(DepositIds) :
                  SetClaimableTimestamp(t, ids)
             \/ \E id \in DepositIds, u \in Users \cup {NoUser}, a \in Amounts,
                   p \in PriceIds \cup {0} : OverwriteDepositor(id, u, a, p)
      PROVE  UNCHANGED Redemptions!vars
  BY <1>6, RedemptionsFrame
     DEF RequestSubscription, ClaimMint, AddProof, SetPriceIdForDeposits,
         SetClaimableTimestamp, OverwriteDepositor
<1>7. ASSUME ParameterCalls \/ WorldSteps \/ UNCHANGED vars
      PROVE  UNCHANGED Redemptions!vars
  BY <1>0, <1>7, TypeParameterCalls, TypeWorldSteps, RedemptionsFrame DEF vars
<1> QED BY <1>1, <1>2, <1>3, <1>4, <1>5, <1>6, <1>7
        DEF Next, UserCalls, OperatorCalls, ManagerCalls, ParameterCalls

\* The gateway implements Requests with its redemptions: one on chain is
\* opened, priced and settled once though priceIds may precede it, one off
\* chain is opened under an id of the same counter and stays as it was burned,
\* whatever priceIds and claims come under its id.  (RWAHub.sol:229-294,
\* 370-385; RWAHubOffChainRedemptions.sol:55-73.)
THEOREM RedemptionsImplementRequests == Spec => RedemptionsAreRequests
BY RedemptionsInitial, RedemptionsStep, LedgerCorrect, PTL
   DEF Spec, RedemptionsAreRequests, Redemptions!Spec
=============================================================================
