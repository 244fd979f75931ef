------------------------- MODULE MCIndexerRegistry -------------------------
(* Instances of IndexerRegistry for TLC. *)
EXTENDS IndexerRegistry, TLC

CONSTANTS d1, d2, d3, host, host2, a, b, r1, r2, w1

\* One daemon that serves two codebases.
OneDaemonNode   == d1 :> host
OneDaemonServes == d1 :> {a, b}

\* d1 and d2 share a host and the codebase a, d2 and d3 the codebase b.
TwoHosts        == d1 :> host @@ d2 :> host @@ d3 :> host2
SharedCodebases == d1 :> {a} @@ d2 :> {a, b} @@ d3 :> {b}

AllOnB == [j \in Jobs |-> b]

\* The connections are interchangeable (used by runs without liveness properties).
ConnSymmetry == Permutations(Conns)
=============================================================================
