----------------------------- MODULE MCEditCache -----------------------------
(* Small instances of EditCache.  Contents are model values; Big does not   *)
(* fit the cache, every other file takes one byte.                          *)
EXTENDS EditCacheFiles, TLC

CONSTANTS Big

MCSize == [c \in Content |-> IF c = NoFile THEN 0 ELSE IF c = Big THEN 3 ELSE 1]

Symmetric == Permutations(Call)
=============================================================================
