--------------------------- MODULE MCAbortManager ---------------------------
(* Small instances of AbortManager, with the bugs its properties catch.     *)
EXTENDS AbortManager, TLC

Symmetry == Permutations(Ids)

AllOps == {"create", "abort", "abortByPattern", "abortAll", "abortByTag",
           "cleanupStaleControllers", "extendTimeout", "dispose"}
NoDispose == AllOps \ {"dispose"}
NoCreate == AllOps \ {"create"}
=============================================================================
