------------------------- MODULE MCVersionDispatch -------------------------
\* Instances of VersionDispatch for TLC: one shell, or two alike.
EXTENDS VersionDispatch, TLC

CONSTANTS s1, s2

Alike == Permutations({s1, s2})
=============================================================================
