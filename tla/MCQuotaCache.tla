---------------------------- MODULE MCQuotaCache ----------------------------
(* Small instances of QuotaCache for TLC; callers are interchangeable.    *)
EXTENDS QuotaCache, TLC
CONSTANTS c1, c2, c3
CallerSymmetry == Permutations(Caller)
=============================================================================
