------------------------- MODULE MCCodebaseWatcher -------------------------
(* Small instances of CodebaseWatcher. *)
EXTENDS CodebaseWatcher, TLC

CONSTANTS f1, f2, v1, v2, b1, b2

WatcherSymmetry == Permutations(Files) \cup Permutations(Contents) \cup Permutations(Batches)
=============================================================================
