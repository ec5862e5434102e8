----------------------------- MODULE MCJobLease -----------------------------
EXTENDS JobLease, TLC

CONSTANTS s1, s2, s3, o1

\* Invocations of one deployment, which share its worker id.
MCOwner == [s \in Sessions |-> o1]

Symmetry == Permutations(Sessions)
=============================================================================
