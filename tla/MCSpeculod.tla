----------------------------- MODULE MCSpeculod -----------------------------
(***************************************************************************)
(* The whole chain on small instances, and the claim of the documentation  *)
(* that a restart breaks.                                                  *)
(***************************************************************************)
EXTENDS Speculod, TLC

CONSTANTS y, n, z, g1, g2

MCLowerCase    == [c \in {y, n, z} |-> c]
MCEmptyText    == <<>>
MCLabels       == {<<y>>, <<n>>}
MCOutcomeLists == {<<<<y>>, <<n>>>>}
MCVotes        == {<<y>>, <<n>>}
MCNonces       == {<<z>>}
MCPenalties    == {-1}
Interchangeable == Permutations({g1, g2})

-----------------------------------------------------------------------------
(* A claim the code does not meet *)

\* readme.md: "The settlement module only allows voting on markets whose
\* deadline (from the prediction module) has passed": no market is decided
\* before its deadline.
DecidesExpiredMarkets ==
  [][\A m \in DOMAIN outcomes' \ DOMAIN outcomes :
       m \in DOMAIN markets /\ now >= markets[m].deadline]_chainVars
=============================================================================
