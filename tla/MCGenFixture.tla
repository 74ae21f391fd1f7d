---------------------------- MODULE MCGenFixture ----------------------------
(***************************************************************************)
(* A small instance of the generator.                                      *)
(***************************************************************************)
EXTENDS GenFixture

\* Every combination of flags over up to NUM_COMPUTORS + 1 commits.
MCOptions ==
    [commits : 0 .. NUM_COMPUTORS + 1, badCommits : 0 .. NUM_COMPUTORS,
     wrongDigest : 0 .. NUM_COMPUTORS, revealBy : {0, NUM_COMPUTORS},
     replay : BOOLEAN, shuffle : BOOLEAN, othersInRange : BOOLEAN]
=============================================================================
