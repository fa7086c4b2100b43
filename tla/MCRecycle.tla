----------------------------- MODULE MCRecycle -----------------------------
\* Instances of Recycle for TLC.
EXTENDS Recycle, TLC

CONSTANTS chip1, chip2, c1, c2, c3, c4, s1, s2, s3

Alike == Permutations({c1, c2, c3, c4}) \cup Permutations({s1, s2, s3})
=============================================================================
