----------------------------- MODULE MCSFCache -----------------------------
(* TLC instances of SFCache: the callers, and the keys, are interchangeable. *)
EXTENDS SFCache, TLC

CONSTANTS g1, g2, g3, k1, k2, k3, none, nokey

TwoGoroutines == {g1, g2}
ThreeGoroutines == {g1, g2, g3}
Nobody == {}
OneKey == {k1}
ThreeKeys == {k1, k2, k3}

Symmetry == Permutations(Goroutines) \union Permutations(Keys)

=============================================================================
