---------------------------- MODULE MCBsimRunner -----------------------------
EXTENDS BsimRunner
CONSTANTS p, q
\* The keyboard prints two lines, the sibling one.
SnapshotLines == [d \in Teed |-> IF d = 0 THEN <<p, q>> ELSE <<p>>]
\* No device prints more than its snapshot has.
LineBound == [d \in Teed |-> Len(SnapshotLines[d])]
=============================================================================
