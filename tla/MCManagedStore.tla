--------------------------- MODULE MCManagedStore ---------------------------
(***************************************************************************)
(* Instances of ManagedStore for TLC: two workers in two processes, one    *)
(* store instance each, or three threads of one process.                   *)
(***************************************************************************)
EXTENDS ManagedStore, TLC

CONSTANTS w1, w2, w3, s1, s2, r1

MCTwoProcesses == w1 :> s1 @@ w2 :> s2
MCThreeThreads == w1 :> s1 @@ w2 :> s1 @@ w3 :> s1
MCLegacy == {<<r1, "o1">>}

\* Safety runs: file identities are interchangeable, and so are the two
\* processes, each with its worker.
MCSymmetry ==
    Permutations(FileIds)
        \cup {w1 :> w2 @@ w2 :> w1 @@ s1 :> s2 @@ s2 :> s1}
=============================================================================
