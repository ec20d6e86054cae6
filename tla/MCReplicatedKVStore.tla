------------------------ MODULE MCReplicatedKVStore ------------------------
(* Instances of ReplicatedKVStore for TLC. *)
EXTENDS ReplicatedKVStore

CONSTANTS k1, k2, v1, v2

OneKey == {k1}
TwoKeys == {k1, k2}
OneValue == {v1}
TwoValues == {v1, v2}

\* What other devices write: a value or a tombstone; damaged bytes; one value.
ValuesAndTombstones == {v2, Deleted}
DamagedBytes == {v1, Corrupt, Foreign}
JustV1 == {v1}
=============================================================================
