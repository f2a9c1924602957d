---------------------------- MODULE MCCacheService ----------------------------
(* Instances of CacheService for TLC.                                      *)
EXTENDS CacheService, TLC

CONSTANTS api, worker, c1, c2, c3, v1, v2

TwoProcesses == {api, worker}
ThreeCalls == {c1, c2, c3}
TwoLists == {v1, v2}
Alike == Permutations({v1, v2}) \union Permutations({c1, c2})
\* Two calls overlap in the API process.
HomeOf(c) == IF c = c3 THEN worker ELSE api
=============================================================================
