----------------------------- MODULE Pricer_proofs -----------------------------
(***************************************************************************)
(* What holds of a Pricer for every sequence of prices and timestamps.     *)
(*                                                                         *)
(* The inductive invariant has two parts: the ids given out are exactly    *)
(* those that have a price, and latestPriceId points at the first of the   *)
(* newest.  addPrice moves both, and updatePrice touches prices that are   *)
(* known, under their timestamps.  Over an oracle the newest price need    *)
(* not be the first of its timestamp; the rest, PricerCore, holds there    *)
(* too.                                                                    *)
(***************************************************************************)
EXTENDS Pricer, TLAPS

PricerCore == PricerTypeOK /\ PriceIdsAreDense /\ LatestIsNewest

PricerInvariant == PricerCore /\ TiesKeepTheFirst
-----------------------------------------------------------------------------
(* What the operations do to the prices                                    *)

\* A new price takes the next id; every other price stays as it was.
LEMMA PriceRecorded ==
  ASSUME PricerTypeOK, NEW price \in Nat, NEW t \in Nat, RecordPrice(price, t)
  PROVE  /\ currentPriceId' = currentPriceId + 1
         /\ currentPriceId' \in AllPriceIds
         /\ prices'[currentPriceId + 1] = [price |-> price, timestamp |-> t]
         /\ \A id \in AllPriceIds : id # currentPriceId + 1 => prices'[id] = prices[id]
         /\ prices' \in [AllPriceIds -> [price : Nat, timestamp : Nat]]
         /\ priceIds' = Append(priceIds, currentPriceId + 1)
<1>1. /\ currentPriceId' = currentPriceId + 1
      /\ currentPriceId + 1 \in AllPriceIds
      /\ priceIds' = Append(priceIds, currentPriceId + 1)
      /\ prices' = [prices EXCEPT ![currentPriceId + 1] = [price |-> price, timestamp |-> t]]
  BY PricerAssumption DEF PricerTypeOK, RecordPrice, AllPriceIds
<1>2. [price |-> price, timestamp |-> t] \in [price : Nat, timestamp : Nat]
  OBVIOUS
<1> QED BY <1>1, <1>2 DEF PricerTypeOK

\* A correction keeps every timestamp, and a known price stays known.
LEMMA UpdatePriceCorrects ==
  ASSUME PricerTypeOK, NEW priceId \in AllPriceIds, NEW price \in AddedPrices,
         UpdatePrice(priceId, price)
  PROVE  /\ prices' \in [AllPriceIds -> [price : Nat, timestamp : Nat]]
         /\ \A id \in AllPriceIds :
              /\ prices'[id].timestamp = prices[id].timestamp
              /\ prices'[id].price # 0 <=> prices[id].price # 0
         /\ UNCHANGED <<priceIds, currentPriceId, latestPriceId>>
<1>1. prices' = [prices EXCEPT ![priceId].price = price] /\ price \in Nat \ {0}
      /\ prices[priceId].price # 0
  BY PricerAssumption DEF UpdatePrice, getPrice
<1>2. \A id \in AllPriceIds :
        prices'[id] = IF id = priceId
                        THEN [price |-> price, timestamp |-> prices[id].timestamp]
                        ELSE prices[id]
  BY <1>1 DEF PricerTypeOK
<1>3. prices' \in [AllPriceIds -> [price : Nat, timestamp : Nat]]
  BY <1>1 DEF PricerTypeOK
<1> QED BY <1>1, <1>2, <1>3 DEF UpdatePrice, PricerTypeOK

LEMMA IdRange ==
  ASSUME PricerTypeOK
  PROVE  /\ currentPriceId \in Nat /\ currentPriceId \in AllPriceIds
         /\ latestPriceId \in 0 .. currentPriceId /\ latestPriceId \in AllPriceIds
         /\ 1 .. currentPriceId \subseteq AllPriceIds
         /\ 1 .. currentPriceId + 1 = (1 .. currentPriceId) \cup {currentPriceId + 1}
         /\ \A id \in AllPriceIds : prices[id].timestamp \in Nat
<1>1. currentPriceId \in AllPriceIds /\ latestPriceId \in 0 .. currentPriceId
  BY DEF PricerTypeOK
<1>2. \A id \in AllPriceIds : prices[id].timestamp \in Nat
  BY DEF PricerTypeOK
<1> QED BY <1>1, <1>2, PricerAssumption DEF AllPriceIds
-----------------------------------------------------------------------------
(* The invariant                                                           *)

LEMMA PricerInitial == PricerInit => PricerInvariant
<1> SUFFICES ASSUME PricerInit PROVE PricerInvariant
  OBVIOUS
<1>1. PricerTypeOK
  BY PricerAssumption DEF PricerInit, PricerTypeOK, AllPriceIds, NoPrice
<1>2. PriceIdsAreDense
  BY PricerAssumption DEF PricerInit, PriceIdsAreDense, getPrice, AllPriceIds, NoPrice
<1>3. LatestIsNewest /\ TiesKeepTheFirst
  BY DEF PricerInit, LatestIsNewest, TiesKeepTheFirst
<1> QED BY <1>1, <1>2, <1>3 DEF PricerInvariant, PricerCore

\* Recording a price keeps the ids dense, wherever the latest price moves.
LEMMA RecordKeepsIds ==
  ASSUME PricerTypeOK, PriceIdsAreDense, NEW price \in Nat \ {0}, NEW t \in Nat,
         RecordPrice(price, t), latestPriceId' \in {latestPriceId, currentPriceId'}
  PROVE  PricerTypeOK' /\ PriceIdsAreDense'
<1> DEFINE new == currentPriceId + 1
<1>1. /\ currentPriceId' = new /\ new \in AllPriceIds
      /\ prices'[new] = [price |-> price, timestamp |-> t]
      /\ \A id \in AllPriceIds : id # new => prices'[id] = prices[id]
      /\ prices' \in [AllPriceIds -> [price : Nat, timestamp : Nat]]
      /\ priceIds' = Append(priceIds, new)
  BY PriceRecorded
<1>2. PricerTypeOK'
  <2>1. priceIds' \in Seq(AllPriceIds)
    BY <1>1 DEF PricerTypeOK
  <2>2. latestPriceId' \in 0 .. currentPriceId'
    BY <1>1, IdRange
  <2> QED BY <1>1, <2>1, <2>2 DEF PricerTypeOK, AllPriceIds
<1>3. PriceIdsAreDense'
  <2>1. /\ currentPriceId \in Nat /\ 1 .. new = (1 .. currentPriceId) \cup {new}
        /\ new \notin 1 .. currentPriceId
    BY IdRange
  <2>2. \A id \in AllPriceIds : prices[id].price # 0 <=> id \in 1 .. currentPriceId
    BY DEF PriceIdsAreDense, getPrice
  <2>3. \A id \in AllPriceIds : prices'[id].price # 0 <=> id \in 1 .. new
    BY <1>1, <2>1, <2>2
  <2>4. priceIds' = [i \in 1 .. new |-> i]
    <3>1. priceIds = [i \in 1 .. currentPriceId |-> i]
      BY DEF PriceIdsAreDense
    <3> QED BY <1>1, <2>1, <3>1
  <2> QED BY <1>1, <2>3, <2>4 DEF PriceIdsAreDense, getPrice, AllPriceIds
<1> QED BY <1>2, <1>3

\* A price recorded as the latest is the newest if none is newer.
LEMMA RecordKeepsNewest ==
  ASSUME PricerTypeOK, LatestIsNewest, NEW price \in Nat, NEW t \in Nat,
         RecordPrice(price, t),
         \/ latestPriceId' = currentPriceId' /\ prices[latestPriceId].timestamp <= t
         \/ latestPriceId' = latestPriceId /\ t <= prices[latestPriceId].timestamp
  PROVE  LatestIsNewest'
<1> DEFINE new == currentPriceId + 1
           newest == prices[latestPriceId].timestamp
<1>1. /\ currentPriceId' = new /\ prices'[new].timestamp = t
      /\ \A id \in 1 .. currentPriceId : prices'[id].timestamp = prices[id].timestamp
      /\ prices'[latestPriceId].timestamp = newest
      /\ newest \in Nat /\ \A id \in 1 .. currentPriceId : prices[id].timestamp \in Nat
  <2>1. /\ currentPriceId \in Nat /\ latestPriceId \in AllPriceIds /\ latestPriceId # new
        /\ \A id \in 1 .. currentPriceId : id \in AllPriceIds /\ id # new
        /\ \A id \in AllPriceIds : prices[id].timestamp \in Nat
    BY IdRange
  <2>2. /\ currentPriceId' = new /\ prices'[new] = [price |-> price, timestamp |-> t]
        /\ \A id \in AllPriceIds : id # new => prices'[id] = prices[id]
    BY PriceRecorded
  <2> HIDE DEF new
  <2> QED BY <2>1, <2>2
<1>2. \A id \in 1 .. currentPriceId : prices[id].timestamp <= newest
  BY DEF LatestIsNewest
<1>3. prices'[latestPriceId'].timestamp \in {t, newest}
      /\ t <= prices'[latestPriceId'].timestamp /\ newest <= prices'[latestPriceId'].timestamp
  BY <1>1
<1>4. \A id \in 1 .. new : prices'[id].timestamp <= prices'[latestPriceId'].timestamp
  BY <1>1, <1>2, <1>3, IdRange
<1>5. latestPriceId' \in 0 .. new
  BY <1>1, IdRange
<1> QED BY <1>1, <1>4, <1>5 DEF LatestIsNewest

\* addPrice and the pointer.
LEMMA AddPriceMovesLatest ==
  ASSUME PricerTypeOK, NEW price \in AddedPrices, NEW t \in Timestamps,
         AddPrice(price, t)
  PROVE  /\ price \in Nat \ {0} /\ t \in Nat /\ RecordPrice(price, t)
         /\ IsLatest(t) <=> t > prices[latestPriceId].timestamp
         /\ latestPriceId' = IF t > prices[latestPriceId].timestamp
                               THEN currentPriceId' ELSE latestPriceId
BY PricerAssumption DEF AddPrice, IsLatest

LEMMA AddPriceKeepsCore ==
  ASSUME PricerCore, NEW price \in AddedPrices, NEW t \in Timestamps, AddPrice(price, t)
  PROVE  PricerCore'
<1>1. PricerTypeOK /\ PriceIdsAreDense /\ LatestIsNewest
  BY DEF PricerCore
<1>2. /\ price \in Nat \ {0} /\ t \in Nat /\ RecordPrice(price, t)
      /\ latestPriceId' = IF t > prices[latestPriceId].timestamp
                            THEN currentPriceId' ELSE latestPriceId
  BY <1>1, AddPriceMovesLatest
<1>3. PricerTypeOK' /\ PriceIdsAreDense'
  BY <1>1, <1>2, RecordKeepsIds
<1>4. prices[latestPriceId].timestamp \in Nat
  BY <1>1, IdRange
<1>5. LatestIsNewest'
  BY <1>1, <1>2, <1>4, RecordKeepsNewest
<1> QED BY <1>3, <1>5 DEF PricerCore

LEMMA AddPriceKeepsTies ==
  ASSUME PricerInvariant, NEW price \in AddedPrices, NEW t \in Timestamps,
         AddPrice(price, t)
  PROVE  TiesKeepTheFirst'
<1> DEFINE new == currentPriceId + 1
<1>1. PricerTypeOK /\ LatestIsNewest /\ TiesKeepTheFirst
  BY DEF PricerInvariant, PricerCore
<1>2. /\ t \in Nat /\ currentPriceId' = new /\ prices'[new].timestamp = t
      /\ \A id \in 1 .. currentPriceId : prices'[id].timestamp = prices[id].timestamp
      /\ prices'[latestPriceId].timestamp = prices[latestPriceId].timestamp
      /\ latestPriceId' = IF t > prices[latestPriceId].timestamp THEN new ELSE latestPriceId
  <2>1. /\ currentPriceId \in Nat /\ latestPriceId \in AllPriceIds /\ latestPriceId # new
        /\ \A id \in 1 .. currentPriceId : id \in AllPriceIds /\ id # new
    BY <1>1, IdRange
  <2>2. /\ price \in Nat /\ t \in Nat /\ RecordPrice(price, t)
        /\ latestPriceId' = IF t > prices[latestPriceId].timestamp
                              THEN currentPriceId' ELSE latestPriceId
    BY <1>1, AddPriceMovesLatest
  <2>3. /\ currentPriceId' = new /\ prices'[new] = [price |-> price, timestamp |-> t]
        /\ \A id \in AllPriceIds : id # new => prices'[id] = prices[id]
    BY <1>1, <2>2, PriceRecorded
  <2> HIDE DEF new
  <2> QED BY <2>1, <2>2, <2>3
<1>3. CASE t > prices[latestPriceId].timestamp
  <2>1. \A id \in 1 .. currentPriceId : prices'[id].timestamp < t
    BY <1>1, <1>2, <1>3, IdRange DEF LatestIsNewest
  <2> QED BY <1>1, <1>2, <1>3, <2>1, IdRange DEF TiesKeepTheFirst
<1>4. CASE ~(t > prices[latestPriceId].timestamp)
  <2>1. latestPriceId' = latestPriceId
    BY <1>2, <1>4
  <2>2. ASSUME NEW id \in 1 .. new, id < latestPriceId
        PROVE  id \in 1 .. currentPriceId
    BY <1>1, <2>2, IdRange
  <2> QED BY <1>1, <1>2, <2>1, <2>2 DEF TiesKeepTheFirst
<1> QED BY <1>3, <1>4

LEMMA UpdateKeepsIds ==
  ASSUME PricerTypeOK, PriceIdsAreDense, NEW priceId \in AllPriceIds,
         NEW price \in AddedPrices, UpdatePrice(priceId, price)
  PROVE  PricerTypeOK' /\ PriceIdsAreDense'
<1>1. /\ prices' \in [AllPriceIds -> [price : Nat, timestamp : Nat]]
      /\ \A id \in AllPriceIds : prices'[id].price # 0 <=> prices[id].price # 0
      /\ UNCHANGED <<priceIds, currentPriceId, latestPriceId>>
  BY UpdatePriceCorrects
<1>2. PricerTypeOK'
  BY <1>1 DEF PricerTypeOK, AllPriceIds
<1>3. PriceIdsAreDense'
  BY <1>1 DEF PriceIdsAreDense, getPrice, AllPriceIds
<1> QED BY <1>2, <1>3

LEMMA UpdatePriceKeepsCore ==
  ASSUME PricerCore, NEW priceId \in AllPriceIds, NEW price \in AddedPrices,
         UpdatePrice(priceId, price)
  PROVE  /\ PricerCore'
         /\ \A id \in AllPriceIds : prices'[id].timestamp = prices[id].timestamp
         /\ UNCHANGED <<currentPriceId, latestPriceId>>
<1>1. PricerTypeOK /\ PriceIdsAreDense /\ LatestIsNewest
  BY DEF PricerCore
<1>2. /\ \A id \in AllPriceIds : prices'[id].timestamp = prices[id].timestamp
      /\ UNCHANGED <<currentPriceId, latestPriceId>>
  BY <1>1, UpdatePriceCorrects
<1>3. PricerTypeOK' /\ PriceIdsAreDense'
  BY <1>1, UpdateKeepsIds
<1>4. LatestIsNewest'
  <2>1. \A id \in 1 .. currentPriceId : prices'[id].timestamp = prices[id].timestamp
    BY <1>1, <1>2, IdRange
  <2>2. prices'[latestPriceId].timestamp = prices[latestPriceId].timestamp
    BY <1>1, <1>2, IdRange
  <2> QED BY <1>1, <1>2, <2>1, <2>2 DEF LatestIsNewest
<1> QED BY <1>2, <1>3, <1>4 DEF PricerCore

LEMMA PricerStep == PricerInvariant /\ [PricerNext]_pricerVars => PricerInvariant'
<1> SUFFICES ASSUME PricerInvariant, [PricerNext]_pricerVars PROVE PricerInvariant'
  OBVIOUS
<1>1. ASSUME NEW price \in AddedPrices, NEW t \in Timestamps, AddPrice(price, t)
      PROVE  PricerInvariant'
  BY <1>1, AddPriceKeepsCore, AddPriceKeepsTies DEF PricerInvariant
<1>2. ASSUME NEW id \in AllPriceIds, NEW price \in AddedPrices, UpdatePrice(id, price)
      PROVE  PricerInvariant'
  <2>1. /\ PricerCore' /\ UNCHANGED <<currentPriceId, latestPriceId>>
        /\ \A i \in AllPriceIds : prices'[i].timestamp = prices[i].timestamp
    BY <1>2, UpdatePriceKeepsCore DEF PricerInvariant
  <2>2. PricerTypeOK /\ TiesKeepTheFirst
    BY DEF PricerInvariant, PricerCore
  <2>3. TiesKeepTheFirst'
    BY <2>1, <2>2, IdRange DEF TiesKeepTheFirst
  <2> QED BY <2>1, <2>3 DEF PricerInvariant
<1>3. CASE UNCHANGED pricerVars
  BY <1>3 DEF pricerVars, PricerInvariant, PricerCore, PricerTypeOK, PriceIdsAreDense,
              getPrice, LatestIsNewest, TiesKeepTheFirst, AllPriceIds
<1> QED BY <1>1, <1>2, <1>3 DEF PricerNext

LEMMA PricerInvariantHolds == PricerSpec => []PricerInvariant
BY PricerInitial, PricerStep, PTL DEF PricerSpec

\* latestPriceId names the first price added of those with the newest
\* timestamp, in whatever order prices come.  (Pricer.sol:30, 78-80.)
THEOREM LatestIsFirstOfNewest == PricerSpec => [](LatestIsNewest /\ TiesKeepTheFirst)
<1>1. PricerInvariant => LatestIsNewest /\ TiesKeepTheFirst
  BY DEF PricerInvariant, PricerCore
<1> QED BY <1>1, PricerInvariantHolds, PTL
-----------------------------------------------------------------------------
(* What a step does to the prices that are known                           *)

LEMMA DenseIdsAreOld ==
  ASSUME PricerTypeOK, PriceIdsAreDense, NEW id \in 1 .. currentPriceId
  PROVE  id \in AllPriceIds /\ id # currentPriceId + 1 /\ prices[id].price # 0
BY IdRange DEF PriceIdsAreDense, getPrice

LEMMA RecordKeepsKnownPrices ==
  ASSUME PricerTypeOK, PriceIdsAreDense, NEW price \in Nat, NEW t \in Nat,
         RecordPrice(price, t), NEW id \in 1 .. currentPriceId
  PROVE  prices'[id].timestamp = prices[id].timestamp /\ prices'[id].price # 0
BY PriceRecorded, DenseIdsAreOld

LEMMA UpdateKeepsKnownPrices ==
  ASSUME PricerTypeOK, PriceIdsAreDense, NEW priceId \in AllPriceIds,
         NEW price \in AddedPrices, UpdatePrice(priceId, price),
         NEW id \in 1 .. currentPriceId
  PROVE  prices'[id].timestamp = prices[id].timestamp /\ prices'[id].price # 0
BY UpdatePriceCorrects, DenseIdsAreOld

\* A priceId given out keeps its timestamp and stays priced, whatever is added
\* or corrected afterwards: the hub may read it at any later claim.
\* (Pricer.sol:70-81, 92-104.)
THEOREM KnownPricesKept == PricerSpec => KnownPricesStay
<1>1. PricerInvariant /\ [PricerNext]_pricerVars
        => [\A id \in 1 .. currentPriceId :
              /\ prices'[id].timestamp = prices[id].timestamp
              /\ prices'[id].price # 0]_pricerVars
  <2> SUFFICES ASSUME PricerInvariant, PricerNext, NEW id \in 1 .. currentPriceId
               PROVE  prices'[id].timestamp = prices[id].timestamp /\ prices'[id].price # 0
    OBVIOUS
  <2>1. PricerTypeOK /\ PriceIdsAreDense
    BY DEF PricerInvariant, PricerCore
  <2>2. ASSUME NEW price \in AddedPrices, NEW t \in Timestamps, AddPrice(price, t)
        PROVE  prices'[id].timestamp = prices[id].timestamp /\ prices'[id].price # 0
    <3>1. price \in Nat /\ t \in Nat /\ RecordPrice(price, t)
      BY <2>1, <2>2, AddPriceMovesLatest
    <3> QED BY <2>1, <3>1, RecordKeepsKnownPrices
  <2>3. ASSUME NEW i \in AllPriceIds, NEW price \in AddedPrices, UpdatePrice(i, price)
        PROVE  prices'[id].timestamp = prices[id].timestamp /\ prices'[id].price # 0
    BY <2>1, <2>3, UpdateKeepsKnownPrices
  <2> QED BY <2>2, <2>3 DEF PricerNext
<1> QED BY <1>1, PricerInvariantHolds, PTL DEF PricerSpec, KnownPricesStay
=============================================================================
