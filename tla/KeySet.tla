------------------------------- MODULE KeySet -------------------------------
(* What a dictionary promises its callers: a set of keys that changes only *)
(* by the insertion of one key, the removal of one key, or being emptied.  *)
(* Growing, shrinking and moving entries between tables is invisible.      *)
CONSTANT Keys

VARIABLE keys

Init == keys = {}

Insert(k) == keys' = keys \cup {k}

Remove(k) == keys' = keys \ {k}

Clear == keys' = {}

Next == Clear \/ \E k \in Keys : Insert(k) \/ Remove(k)

Spec == Init /\ [][Next]_keys

=============================================================================
