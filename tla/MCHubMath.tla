------------------------------ MODULE MCHubMath ------------------------------
(***************************************************************************)
(* The relations of HubMath over a range of inputs: a walk that raises one *)
(* of the inputs at a time visits all of them.                             *)
(***************************************************************************)
EXTENDS HubMath

CONSTANTS MaxAmount, MaxPrice

VARIABLES amount, bps, price

inputs == <<amount, bps, price>>

Init == amount = 0 /\ bps = 0 /\ price = 1

RaiseAmount == amount < MaxAmount /\ amount' = amount + 1 /\ UNCHANGED <<bps, price>>
RaiseBps == bps < BPS_DENOMINATOR /\ bps' = bps + 1 /\ UNCHANGED <<amount, price>>
RaisePrice == price < MaxPrice /\ price' = price + 1 /\ UNCHANGED <<amount, bps>>
StartOver == amount' = 0 /\ bps' = 0 /\ price' = 1

Next == RaiseAmount \/ RaiseBps \/ RaisePrice \/ StartOver

Spec == Init /\ [][Next]_inputs

\* RWAHub.sol:679-701: a deposit claimed and redeemed at one price returns no
\* more than it cost.
RoundTrip == RoundTripNoProfit(amount, price)

\* The same, redeeming first: no USDX is gained.
ReverseRoundTrip == ReverseRoundTripNoProfit(amount, price)

\* RWAHub.sol:653-657: one deposit split into two never pays more fees, and
\* pays less by one unit at most.
SplitFees == \A part \in 0 .. amount : SplitFee(part, amount - part, bps)
=============================================================================
