--------------------------- MODULE MCRateLimiter ---------------------------
(* Values for RateLimiter.  Threads are interchangeable, and so are senders. *)
EXTENDS RateLimiter, TLC

Symmetric == Permutations(Threads) \union Permutations(Senders)
=============================================================================
