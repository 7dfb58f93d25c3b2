-------------------------- MODULE MCEvidenceStore ---------------------------
(* Small instances of EvidenceStore for TLC.                               *)
EXTENDS EvidenceStore, TLC

CONSTANTS tA, p1, p2, t1, t2, t3, d1, d2, d3

\* All threads in one process, or t1 in a process of its own.
OneProcess == [th \in Threads |-> p1]
TwoProcesses == [th \in Threads |-> IF th = t1 THEN p1 ELSE p2]

Symmetry == Permutations(Threads) \cup Permutations(Decisions)

\* The state without the returned hashes, which no action reads.  It serves runs
\* whose properties do not read them either.
Unacked == <<log, torn, lock, advisory, pc, job, prev, edited, walk>>
=============================================================================
