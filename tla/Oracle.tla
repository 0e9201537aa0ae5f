------------------------------- MODULE Oracle -------------------------------
(***************************************************************************)
(* What the vote on markets promises, without commitments, nonces, clocks, *)
(* weights and letters: a market trades, is voted on, and is decided once, *)
(* by a text that somebody has shown or, failing that, by none.            *)
(* Settlement implements this specification.                               *)
(***************************************************************************)
EXTENDS Store

CONSTANTS
  Ids,      \* the markets there may be
  Voters,   \* the accounts that vote
  Texts,    \* the votes they may show
  NoText    \* the decision when no text wins

VARIABLES
  phase,     \* "trading", "voting" or "decided", by market
  cast,      \* the ballots cast: pairs of market and voter
  shown,     \* the text of each ballot that its voter has shown
  decision   \* the text decided, by market

vars == <<phase, cast, shown, decision>>

Init ==
  /\ phase = EmptyStore
  /\ cast = {}
  /\ shown = EmptyStore
  /\ decision = EmptyStore

Open(m) ==
  /\ m \notin DOMAIN phase
  /\ phase' = Put(phase, m, "trading")
  /\ UNCHANGED <<cast, shown, decision>>

\* Time passes, and trade in some markets ends.
Close(expired) ==
  /\ \A m \in expired : phase[m] = "trading"
  /\ phase' = [m \in DOMAIN phase |-> IF m \in expired THEN "voting" ELSE phase[m]]
  /\ UNCHANGED <<cast, shown, decision>>

\* A ballot that comes after the decision is kept too.
Cast(m, v) ==
  /\ phase[m] # "trading"
  /\ <<m, v>> \notin cast
  /\ cast' = cast \cup {<<m, v>>}
  /\ UNCHANGED <<phase, shown, decision>>

Show(m, v, text) ==
  /\ <<m, v>> \in cast
  /\ <<m, v>> \notin DOMAIN shown
  /\ shown' = Put(shown, <<m, v>>, text)
  /\ UNCHANGED <<phase, cast, decision>>

Decide(m, text) ==
  LET ballots == {k \in DOMAIN shown : k[1] = m}
  IN /\ phase[m] = "voting"
     /\ ballots # {}
     /\ text \in {shown[k] : k \in ballots} \cup {NoText}
     /\ phase' = [phase EXCEPT ![m] = "decided"]
     /\ decision' = Put(decision, m, text)
     /\ UNCHANGED <<cast, shown>>

Next ==
  \/ \E m \in Ids : Open(m)
  \/ \E expired \in SUBSET DOMAIN phase : Close(expired)
  \/ \E m \in DOMAIN phase, v \in Voters : Cast(m, v)
  \/ \E m \in DOMAIN phase, v \in Voters, t \in Texts : Show(m, v, t)
  \/ \E m \in DOMAIN phase, t \in Texts \cup {NoText} : Decide(m, t)

Spec == Init /\ [][Next]_vars
=============================================================================
