------------------------------- MODULE Store -------------------------------
(***************************************************************************)
(* The typed views of the key-value store that the keepers are built from: *)
(* collections.Map is a function on the keys that are set, and             *)
(* collections.Sequence is a counter.                                      *)
(***************************************************************************)
EXTENDS Integers

\* Map.Set: the store with `value` under `key`.
Put(store, key, value) ==
  [k \in DOMAIN store \cup {key} |-> IF k = key THEN value ELSE store[k]]

\* A store with no key set.
EmptyStore == [k \in {} |-> {}]

\* Sequence.Next hands out the counter and moves it on by one.  NextSeqStuck is
\* a slip that the checks must detect, and is used nowhere else.
NextSeqStuck(seq) == seq
NextSeq(seq) == seq + 1
=============================================================================
