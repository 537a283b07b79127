------------------- MODULE RWAOracleExternalComparisonCheck -------------------
(***************************************************************************)
(* rwaOracles/RWAOracleExternalComparisonCheck.sol: a price that may move  *)
(* once per window, by at most MAX_ABSOLUTE_DIFF_BPS, and within           *)
(* MAX_CHANGE_DIFF_BPS of what a Chainlink price did since the last        *)
(* update.  It keeps its price as RWAOracleRateCheck does, whose           *)
(* definitions it shares; a deployment has one of the two, so one constant *)
(* stands for the MAX_CHANGE_DIFF_BPS of either (100 there, 74 here).      *)
(*                                                                         *)
(* `chainlink` is what latestRoundData answers.  answerLog is a history    *)
(* variable beside rwaPriceLog: Chainlink's answer at each update.         *)
(***************************************************************************)
EXTENDS RWAOracleRateCheck

CONSTANTS
  MAX_CL_WINDOW, MAX_ABSOLUTE_DIFF_BPS,
  Answers,      \* what Chainlink may answer
  MaxRound      \* bound on its rounds

ASSUME ComparisonAssumption ==
  /\ MAX_CL_WINDOW \in Nat /\ MAX_ABSOLUTE_DIFF_BPS \in Nat
  /\ Answers \subseteq Int
  /\ MaxRound \in Nat \ {0}

VARIABLES chainlink, lastSetRound, answerLog

comparisonVars == <<oracleVars, lastSetRound, answerLog>>

Round(roundId, answer, updatedAt, answeredInRound) ==
  [roundId |-> roundId, answer |-> answer, updatedAt |-> updatedAt,
   answeredInRound |-> answeredInRound]

\* A new round is answered now, or reports the answer of the one before it.
ChainlinkAnswers(answer) ==
  /\ chainlink.roundId < MaxRound
  /\ \E inRound \in {chainlink.roundId, chainlink.roundId + 1} :
       chainlink' = Round(chainlink.roundId + 1, answer, now, inRound)

Abs(x) == IF x < 0 THEN 0 - x ELSE x

\* Solidity divides towards zero.
truncatedDiv(x, y) == IF x < 0 THEN 0 - ((0 - x) \div y) ELSE x \div y

signedChangeBps(previousPrice, newPrice) ==
  truncatedDiv((newPrice - previousPrice) * BPS_DENOMINATOR, previousPrice)

\* _getLatestChainlinkRoundData does not revert, nor the check that follows.
RoundUsable ==
  /\ chainlink.answer >= 0
  /\ chainlink.roundId = chainlink.answeredInRound /\ chainlink.roundId # 0
  /\ chainlink.updatedAt # 0 /\ chainlink.updatedAt <= now
  /\ now <= chainlink.updatedAt + MAX_CL_WINDOW

ComparisonInit ==
  /\ OracleInit
  /\ \E answer \in Answers : chainlink = Round(1, answer, now, 1)
  /\ RoundUsable
  /\ lastSetRound = chainlink
  /\ answerLog = <<chainlink.answer>>

WithinAbsoluteLimit_FaultyWide(change) ==
  Abs(change) <= MAX_ABSOLUTE_DIFF_BPS + MAX_CHANGE_DIFF_BPS

\* The change of the price itself, whatever Chainlink did.
WithinAbsoluteLimit(change) == Abs(change) <= MAX_ABSOLUTE_DIFF_BPS

\* Chainlink's change since the last update is deemed sane.
ChainlinkSane(clChange) == Abs(clChange) <= MAX_ABSOLUTE_DIFF_BPS + MAX_CHANGE_DIFF_BPS

Agrees(change, clChange) ==
  ChainlinkSane(clChange) => Abs(change - clChange) <= MAX_CHANGE_DIFF_BPS

KeepRound_FaultyForgets == UNCHANGED lastSetRound

KeepRound == lastSetRound' = chainlink

\* setPrice.  The division by the answer of lastSetRound reverts if it is 0.
SetPriceCompared(newPrice) ==
  LET change == signedChangeBps(rwaPrice, newPrice)
      clChange == signedChangeBps(lastSetRound.answer, chainlink.answer)
  IN
  /\ newPrice > 0
  /\ RoundUsable
  /\ chainlink.roundId # lastSetRound.roundId
  /\ now >= priceTimestamp + MIN_PRICE_UPDATE_WINDOW
  /\ WithinAbsoluteLimit(change)
  /\ lastSetRound.answer # 0
  /\ Agrees(change, clChange)
  /\ rwaPrice' = newPrice /\ priceTimestamp' = now
  /\ KeepRound
  /\ rwaPriceLog' = Append(rwaPriceLog, PriceInfo(newPrice, now))
  /\ answerLog' = Append(answerLog, chainlink.answer)
-----------------------------------------------------------------------------
\* NatSpec of setPrice, 127-130.  Between two updates the price and Chainlink
\* moved apart by less than MAX_CHANGE_DIFF_BPS and the two basis points the
\* truncated divisions lose, unless Chainlink jumped: the answers compared
\* are those in force at the two updates, whatever came in between.
TracksChainlink ==
  \A i \in 1 .. Len(answerLog) - 1 :
    LET old == rwaPriceLog[i].price
        new == rwaPriceLog[i + 1].price
        clOld == answerLog[i]
        clNew == answerLog[i + 1]
    IN  Abs(clNew - clOld) * BPS_DENOMINATOR
          <= (MAX_ABSOLUTE_DIFF_BPS + MAX_CHANGE_DIFF_BPS) * clOld
        => Abs(new * clOld - clNew * old) * BPS_DENOMINATOR
             < (MAX_CHANGE_DIFF_BPS + 2) * old * clOld

\* NatSpec of setPrice, 129-130: a Chainlink price that changed too much "is
\* deemed malfunctioning and ignored".  If it is ignored it does not keep
\* later prices from being set: what they are compared with can be divided by.
IgnoredRoundsDoNoHarm == Len(answerLog) > 1 => lastSetRound.answer # 0
=============================================================================
