-------------------------- MODULE MCStorageWriter --------------------------
(* Model-checking instance of StorageWriter: see the .cfg files.           *)
EXTENDS StorageWriter, TLC

CONSTANTS t1, t2, c1, c2, k1

MCTwoTasks == {t1, t2}
MCOneTask == {t1}
MCTwoCallers == {c1, c2}
MCOneCaller == {c1}
MCCheckpointer == {k1}
MCNobody == {}

\* Tasks and callers are interchangeable.
MCSymmetry == Permutations({t1, t2}) \cup Permutations({c1, c2})
=============================================================================
