---------------------------- MODULE MCSettlement ----------------------------
(***************************************************************************)
(* Settlement on small instances, and the claims of the documentation      *)
(* about voting that the code does not meet.                               *)
(***************************************************************************)
EXTENDS Keys, TLC

CONSTANTS y, Y, n, z, alice, bob, g1, g2

\* Outcomes of one letter, in either case, and nonces of one letter z; the empty
\* nonce stands for the nonces of a length that is not accepted.  The vote <<y, z>>
\* names no outcome, and with the empty nonce has the digest of y with nonce z.
\* ButCreators leaves out the creators of markets, which no action of settlement
\* reads: states that differ in them alone are explored once.
MCLowerCase    == [c \in {y, Y, n, z} |-> IF c = Y THEN y ELSE c]
MCEmptyText    == <<>>
MCLabels       == {<<y>>, <<n>>}
MCOutcomeLists == {<<<<y>>, <<n>>>>}
MCBothLists    == MCOutcomeLists \cup {<<<<n>>, <<>>>>}
MCVotes        == {<<y>>, <<n>>, <<y, z>>}
MCFoldVotes    == {<<y>>, <<Y>>, <<n>>}
MCOneNonce     == {<<z>>}
MCNonces       == {<<z>>, <<>>}
ButCreators    ==
  <<now, height, marketSeq, [m \in DOMAIN markets |-> [markets[m] EXCEPT !.creator = alice]],
    scores, settlementVars>>
Interchangeable == Permutations({alice, bob}) \cup Permutations({g1, g2})

-----------------------------------------------------------------------------
(* Claims the code does not meet *)

\* readme.md: "Once all reveals are in, or after a timeout, anyone can trigger
\* finalization": no market is finalized while a committed vote may still be
\* revealed and no time has passed since voting opened.
FinalizationWaits ==
  [][\A m \in Finalized :
       \/ now > markets[m].deadline
       \/ \A v \in Users : <<m, v>> \in DOMAIN commits => <<m, v>> \in DOMAIN reveals]_vars

\* settlement_test.go: in a tie the consensus is the first outcome, so the
\* votes that are revealed decide it.
TieHasOneWinner ==
  \A m \in DOMAIN markets : Revealers(m) # {} =>
    Cardinality(Heaviest(VoteWeights(m))) = 1

\* readme.md: "All votes are validated against the set of possible outcomes for
\* the market", so the outcome decided is one of them.
OutcomeIsListed ==
  \A m \in DOMAIN outcomes :
    \E i \in DOMAIN markets[m].outcomes : markets[m].outcomes[i] = outcomes[m]
=============================================================================
