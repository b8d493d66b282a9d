---------------------------- MODULE MCOAuthSession ----------------------------
(* Two processes and up to two logins.  A unit of time is shorter than the   *)
(* replay window and longer than a request.                                  *)
EXTENDS OAuthSession, TLC

Symmetry == Permutations(Procs) \cup Permutations(Logins)
=============================================================================
