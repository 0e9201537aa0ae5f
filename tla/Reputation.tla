----------------------------- MODULE Reputation -----------------------------
(***************************************************************************)
(* x/reputation: a score per user and group, kept as the decimal text of   *)
(* an int64 and never stored below zero.  Scores wrap like the int64       *)
(* arithmetic that computes them.                                          *)
(***************************************************************************)
EXTENDS Store

CONSTANTS
  IntMax,       \* the largest int64, 2^63 - 1 in the code
  Adjustments,  \* the adjustments that MsgAdjustScore messages carry
  MaxScore      \* bound on the score an adjustment by the authority may reach

ASSUME ReputationAssumption ==
  IntMax \in Nat /\ Adjustments \subseteq -IntMax - 1 .. IntMax /\ MaxScore \in Nat

VARIABLE scores  \* Keeper.ReputationScores by <<address, group id>>

\* Two's complement wrap-around into -IntMax - 1 .. IntMax.
Wrap(x) == ((x + IntMax + 1) % (2 * (IntMax + 1))) - (IntMax + 1)

\* GetReputationScore: the stored score, zero when there is none.
ScoreOf(user, group) ==
  IF <<user, group>> \in DOMAIN scores THEN scores[<<user, group>>] ELSE 0

\* The score AdjustReputationScore stores.
AdjustedUnclamped(score, adjustment) == Wrap(score + adjustment)
Adjusted(score, adjustment) ==
  LET new == Wrap(score + adjustment) IN IF new < 0 THEN 0 ELSE new

ReputationInit == scores = EmptyStore

\* MsgAdjustScore, which only the module's authority may send.
AdjustScore(user, group, adjustment) ==
  LET new == Adjusted(ScoreOf(user, group), adjustment)
  IN /\ new <= MaxScore
     /\ scores' = Put(scores, <<user, group>>, new)
=============================================================================
