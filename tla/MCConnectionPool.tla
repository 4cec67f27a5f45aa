-------------------------- MODULE MCConnectionPool --------------------------
(* ConnectionPool on small sets of calls, reloads and aliases.             *)
EXTENDS ConnectionPool, TLC

\* Calls and aliases are interchangeable: no definition orders them.
PoolSymmetry ==
    Permutations(Gets) \cup Permutations(Reloads) \cup Permutations(Aliases)
=============================================================================
