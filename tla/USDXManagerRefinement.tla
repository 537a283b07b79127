------------------------ MODULE USDXManagerRefinement ------------------------
(***************************************************************************)
(* The gateway keeps two kinds of Requests, in two mappings: deposits,     *)
(* under ids that are counted or hashes of proofs, and redemptions.        *)
(***************************************************************************)
EXTENDS USDXManager

\* Nothing is open under an id without a user, whatever else the mapping
\* holds: a priceId may be set on a redemption not requested yet.
Shown(user, amount, priceId) ==
  [user |-> user,
   amount |-> IF user = NoUser THEN 0 ELSE amount,
   priceId |-> IF user = NoUser THEN 0 ELSE priceId]

depositRequest ==
  [id \in DepositIds |->
     Shown(depositIdToDepositor[id].user,
           depositIdToDepositor[id].amountDepositedMinusFees,
           depositIdToDepositor[id].priceId)]
depositSettled == [id \in DepositIds |-> depositLog[id].claimed]
\* A proof under an id that the counter has yet to give out counts as an
\* amendment, since the subscription that is given the id replaces it.
depositAmendments ==
  [id \in DepositIds |-> depositLog[id].overwrites + depositLog[id].ahead]

\* A redemption serviced off chain, of which the contract stores nothing, is a
\* request for what was burned under its id.  It is settled elsewhere, so that
\* here it stays open without a price: a priceId set under its id is nobody's.
ServicedOffChain(id) == redemptionLog[id].offChain /\ redemptionLog[id].overwrites = 0

redemptionRequest ==
  [id \in RedemptionIds |->
     IF ServicedOffChain(id)
       THEN Shown(redemptionLog[id].redeemer, redemptionLog[id].burned, 0)
       ELSE Shown(redemptionIdToRedeemer[id].user,
                  redemptionIdToRedeemer[id].amountRwaTokenBurned,
                  redemptionIdToRedeemer[id].priceId)]
redemptionSettled == [id \in RedemptionIds |-> redemptionLog[id].settled]
redemptionAmendments == [id \in RedemptionIds |-> redemptionLog[id].overwrites]

Deposits == INSTANCE Requests
  WITH Ids <- DepositIds, request <- depositRequest,
       settled <- depositSettled, amendments <- depositAmendments

Redemptions == INSTANCE Requests
  WITH Ids <- RedemptionIds, request <- redemptionRequest,
       settled <- redemptionSettled, amendments <- redemptionAmendments

\* Every behaviour of the gateway is one of Requests, for its deposits:
\* subscriptions, proofs, batches of priceIds and of claims, restrictions and
\* timestamps never open, reprice, settle or drop a request otherwise.
\* (RWAHub.sol:131-221, 312-362; USDXManager.sol:77-88)
DepositsAreRequests == Deposits!Spec

\* The same for redemptions: those on chain, whose priceIds may precede them,
\* and those off chain, whose ids come from the same counter.  No request,
\* on chain or off, is opened under an id that an off-chain one has taken,
\* and nothing is paid for it, whatever priceIds are set and claims made
\* under the id.  (RWAHub.sol:229-294, 370-385;
\* RWAHubOffChainRedemptions.sol:55-73)
RedemptionsAreRequests == Redemptions!Spec
=============================================================================
