--------------------------- MODULE MCSubscriptions ---------------------------
(* One user, two checkouts, and a few facts of the provider.               *)
EXTENDS Subscriptions, TLC

CONSTANTS k1, k2

Symmetry == Permutations(Keys)

=============================================================================
