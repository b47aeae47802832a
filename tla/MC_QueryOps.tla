---------------------------- MODULE MC_QueryOps ----------------------------
EXTENDS QueryOps

CONSTANTS v1, v2

\* INSERT INTO t VALUES (v1), (v2), (v1)
MCSrc == <<v1, v2, v1>>

=============================================================================
