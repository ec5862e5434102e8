-------------------------- MODULE MCAccountClaims --------------------------
\* Accounts a and b sign in with Google and old is from before; its payment can be
\* proved by two references.
EXTENDS AccountClaims, TLC

CONSTANTS a, b, old, p, o, rp, ro1, ro2

MCBuyer == [x \in Purchases |-> IF x = p THEN a ELSE old]
MCProves == [r \in References |-> IF r = rp THEN p ELSE o]

Symmetry == Permutations(Requests) \cup Permutations({ro1, ro2})
=============================================================================
