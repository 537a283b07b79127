--------------------------- MODULE MCHubMath_proofs ---------------------------
(***************************************************************************)
(* What the walk of MCHubMath finds on its ranges holds on every range.    *)
(***************************************************************************)
EXTENDS MCHubMath, HubMath_proofs

InputsAreNat == amount \in Nat /\ bps \in Nat /\ price \in Nat

LEMMA InputsAreNatHolds == Spec => []InputsAreNat
<1>1. Init => InputsAreNat
  BY DEF Init, InputsAreNat
<1>2. InputsAreNat /\ [Next]_inputs => InputsAreNat'
  BY DEF InputsAreNat, Next, RaiseAmount, RaiseBps, RaisePrice, StartOver, inputs
<1> QED BY <1>1, <1>2, PTL DEF Spec

\* Whatever the amount and the price, a deposit claimed and redeemed at one
\* price returns no more than it cost.  (RWAHub.sol:679-701.)
THEOREM RoundTripOnEveryRange == Spec => []RoundTrip
<1>1. InputsAreNat => RoundTrip
  BY RoundTripNoProfitThm DEF InputsAreNat, RoundTrip
<1> QED BY <1>1, InputsAreNatHolds, PTL

\* Nor does redeeming first gain any USDX.  (RWAHub.sol:679-701.)
THEOREM ReverseRoundTripOnEveryRange == Spec => []ReverseRoundTrip
<1>1. InputsAreNat => ReverseRoundTrip
  BY ReverseRoundTripNoProfitThm DEF InputsAreNat, ReverseRoundTrip
<1> QED BY <1>1, InputsAreNatHolds, PTL

\* However a deposit is split into two, its fees differ by one unit at most,
\* and not to the depositor's cost.  (RWAHub.sol:653-657.)
THEOREM SplitFeesOnEveryRange == Spec => []SplitFees
<1>1. InputsAreNat => SplitFees
  <2> SUFFICES ASSUME InputsAreNat, NEW part \in 0 .. amount
               PROVE  SplitFee(part, amount - part, bps)
    BY DEF SplitFees
  <2>1. part \in Nat /\ amount - part \in Nat /\ bps \in Nat
    BY DEF InputsAreNat
  <2> QED BY <2>1, SplitFeeThm
<1> QED BY <1>1, InputsAreNatHolds, PTL
=============================================================================
