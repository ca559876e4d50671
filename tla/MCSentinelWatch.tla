-------------------------- MODULE MCSentinelWatch --------------------------
(* SentinelWatch for TLC: a cluster whose Sentinels are one or two, which   *)
(* stand for a set and a larger set.                                        *)
EXTENDS SentinelWatch

CONSTANTS a

OneOrTwo == [c \in Clusters |-> {1, 2}]
=============================================================================
