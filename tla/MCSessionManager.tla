-------------------------- MODULE MCSessionManager --------------------------
(* SessionManager on small sets of calls and sessions.                     *)
EXTENDS SessionManager, TLC

\* Calls are interchangeable: no definition orders them.
CallSymmetry == Permutations(Calls)
=============================================================================
