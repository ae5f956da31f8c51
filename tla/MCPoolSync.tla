------------------------------- MODULE MCPoolSync -------------------------------
(* A pool of two danmaku.                                                      *)
EXTENDS PoolSync, TLC

CONSTANTS a, b
TwoItems == {a, b}
AnyOrder == {<<>>, <<a, b>>, <<b, a, b>>}

================================================================================
