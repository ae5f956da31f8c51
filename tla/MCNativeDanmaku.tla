---------------------------- MODULE MCNativeDanmaku ----------------------------
(* One video, one address that may be banned, a text that has a ruled word,    *)
(* two authors whose rules replace each by the other.                          *)
EXTENDS NativeDanmaku, TLC

CONSTANTS v, i, plain, rude, old, new, ban, word

TwoPosts == {[vid |-> v, ip |-> i, text |-> t, author |-> old] : t \in {plain, rude}}
Coverage == {<<ban, i>>, <<word, rude>>}
Renames == [a \in {old, new} |-> IF a = old THEN new ELSE old]
BothAuthors == {old, new}
Tables == {{}, {word, old}, {ban}}
SenderSymmetry == Permutations(Senders)

================================================================================
