-------------------------------- MODULE Keys --------------------------------
(***************************************************************************)
(* The keys under which x/settlement stores commits and reveals: the       *)
(* decimal text of the market's id, a slash and the voter's address.  All  *)
(* markets share one store, and the votes of a market are found by a scan  *)
(* for the keys that begin with its id.                                    *)
(***************************************************************************)
EXTENDS Settlement

CONSTANTS
  Slash,          \* the character that ends the id
  AddressLength,  \* characters of an address, 45 in the code
  MaxMarketId     \* bound on the ids that the scans are checked for

Decimal[n \in Nat] == IF n < 10 THEN <<n>> ELSE Append(Decimal[n \div 10], n % 10)

\* No address is shorter than the text of an id, which has at most 20 digits.
ASSUME KeysAssumption ==
  /\ Slash \notin 0 .. 9
  /\ AddressLength \in Nat /\ MaxMarketId \in Nat
  /\ Len(Decimal[MaxMarketId]) <= AddressLength

\* A slip that the checks must detect: a scan for the id alone.
IdAlone(m) == Decimal[m]
ScanPrefix(m) == Append(Decimal[m], Slash)

MarketVoterKey(m, voter) ==
  Append(Decimal[m], Slash) \o [i \in 1 .. AddressLength |-> voter]

\* The slice key[:len(prefix)] panics when the key is shorter.
SliceFits(key, m) == Len(ScanPrefix(m)) <= Len(key)
Matches(key, m)   == SubSeq(key, 1, Len(ScanPrefix(m))) = ScanPrefix(m)

\* The scan for the votes of a market finds these and no others, market 1 not
\* those of market 10, and runs over the keys of all markets without a panic.
ScanFindsItsMarket(voter) ==
  \A m, n \in 0 .. MaxMarketId :
    LET key == MarketVoterKey(n, voter)
    IN SliceFits(key, m) /\ (Matches(key, m) <=> n = m)

\* The voters whose votes every scan finds where they belong.
Scannable == {v \in Users : ScanFindsItsMarket(v)}

\* GetAllCommits and GetAllReveals return the votes of one market and of no other,
\* and do not panic: the pairs that key commits and reveals here are texts in the
\* store, and the texts of a voter with a commitment do not run into each other.
ScansAreExact == \A k \in DOMAIN commits : k[2] \in Scannable
=============================================================================
