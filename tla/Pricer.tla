-------------------------------- MODULE Pricer --------------------------------
(***************************************************************************)
(* Pricer.sol: prices under consecutive priceIds, added in any order of    *)
(* their timestamps, with a pointer to the newest.  The timestamp of a     *)
(* price is whatever the PRICE_UPDATE_ROLE says, past or future.           *)
(***************************************************************************)
EXTENDS Integers, Sequences

CONSTANTS
  AddedPrices,          \* prices passed to addPrice and updatePrice
  Timestamps,           \* timestamps passed to addPrice
  MaxPriceId            \* bound on the priceIds

ASSUME PricerAssumption ==
  /\ AddedPrices \subseteq Nat
  /\ Timestamps \subseteq Nat
  /\ MaxPriceId \in Nat

VARIABLES prices, priceIds, currentPriceId, latestPriceId

pricerVars == <<prices, priceIds, currentPriceId, latestPriceId>>

\* The mapping is total: an undefined priceId, and 0 always, has price 0.
AllPriceIds == 0 .. MaxPriceId

NoPrice == [price |-> 0, timestamp |-> 0]

getPrice(priceId) == prices[priceId].price

PricerInit ==
  /\ prices = [id \in AllPriceIds |-> NoPrice]
  /\ priceIds = <<>>
  /\ currentPriceId = 0
  /\ latestPriceId = 0

\* `currentPriceId++` for `++currentPriceId`: the id is used before it moves.
RecordPrice_FaultyPostIncrement(price, timestamp) ==
  /\ currentPriceId < MaxPriceId
  /\ currentPriceId' = currentPriceId + 1
  /\ prices' = [prices EXCEPT ![currentPriceId] = [price |-> price, timestamp |-> timestamp]]
  /\ priceIds' = Append(priceIds, currentPriceId)

\* A new priceId, and the price under it.
RecordPrice(price, timestamp) ==
  /\ currentPriceId < MaxPriceId
  /\ currentPriceId' = currentPriceId + 1
  /\ prices' = [prices EXCEPT ![currentPriceId'] = [price |-> price, timestamp |-> timestamp]]
  /\ priceIds' = Append(priceIds, currentPriceId')

IsLatest_FaultyOrEqual(timestamp) == timestamp >= prices[latestPriceId].timestamp

\* The price is compared with the one added last.
IsLatest_FaultyAgainstCurrent(timestamp) == timestamp > prices[currentPriceId].timestamp

\* Read after the price is recorded, when latestPriceId is still the old one.
IsLatest(timestamp) == timestamp > prices[latestPriceId].timestamp

AddPrice(price, timestamp) ==
  /\ price # 0
  /\ RecordPrice(price, timestamp)
  /\ latestPriceId' = IF IsLatest(timestamp) THEN currentPriceId' ELSE latestPriceId

\* Corrects a known price under its timestamp.
UpdatePrice(priceId, price) ==
  /\ price # 0
  /\ getPrice(priceId) # 0
  /\ prices' = [prices EXCEPT ![priceId].price = price]
  /\ UNCHANGED <<priceIds, currentPriceId, latestPriceId>>

PricerNext ==
  \/ \E price \in AddedPrices, t \in Timestamps : AddPrice(price, t)
  \/ \E id \in AllPriceIds, price \in AddedPrices : UpdatePrice(id, price)

PricerSpec == PricerInit /\ [][PricerNext]_pricerVars
-----------------------------------------------------------------------------
PricerTypeOK ==
  /\ currentPriceId \in AllPriceIds
  /\ latestPriceId \in 0 .. currentPriceId
  /\ prices \in [AllPriceIds -> [price : Nat, timestamp : Nat]]
  /\ priceIds \in Seq(AllPriceIds)

\* A price is known under exactly the priceIds listed, 1 .. currentPriceId:
\* 0 stays undefined, which is what lets the hub use it for "not priced yet",
\* and correcting a price never makes up an id.
PriceIdsAreDense ==
  /\ \A id \in AllPriceIds : getPrice(id) # 0 <=> id \in 1 .. currentPriceId
  /\ priceIds = [i \in 1 .. currentPriceId |-> i]

\* Pricer.sol:30: latestPriceId is the price with the newest timestamp, in
\* whatever order prices came; 0 while none has a timestamp above 0.
LatestIsNewest ==
  /\ \A id \in 1 .. currentPriceId :
       prices[id].timestamp <= prices[latestPriceId].timestamp
  /\ latestPriceId \in 0 .. currentPriceId

\* Of prices with one timestamp the first to be added is the latest: a second
\* price for the same moment does not replace it (Pricer.sol:78).
TiesKeepTheFirst ==
  \A id \in 1 .. currentPriceId :
    id < latestPriceId => prices[id].timestamp < prices[latestPriceId].timestamp

\* The timestamp under a priceId never changes once the id is given out, nor
\* does its price become undefined again: what the hub relies on between
\* setPriceId... and a claim.
KnownPricesStay ==
  [][\A id \in 1 .. currentPriceId :
       /\ prices'[id].timestamp = prices[id].timestamp
       /\ prices'[id].price # 0]_pricerVars
=============================================================================
