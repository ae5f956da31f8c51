---------------------------- MODULE MCDanmakuCache -----------------------------
(* The danmaku cache, up to the names of readers and writers.                  *)
EXTENDS DanmakuCache, TLC

Symmetry == Permutations(Readers) \cup Permutations(Writers)

================================================================================
