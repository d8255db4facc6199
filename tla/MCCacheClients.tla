--------------------------- MODULE MCCacheClients ---------------------------
(* A small instance of CacheClients for TLC. *)
EXTENDS CacheClients, TLC

MCKeys == {"login", "ticket", "alive"}
MCValues == Passwords \cup {Ticket, Alive}
MCSymmetry == Permutations(Procs) \cup Permutations(Passwords)
=============================================================================
