-------------------------- MODULE MCConnectionPool --------------------------
(* Model values of ConnectionPool for TLC. *)
EXTENDS ConnectionPool, TLC

Symm == Permutations(Threads) \cup Permutations(Conns) \cup Permutations(Routers)
=============================================================================
