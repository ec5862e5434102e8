-------------------------- MODULE MCBrowserSession --------------------------
(* One browser and three calls of its pages.                               *)
EXTENDS BrowserSession, TLC

CONSTANTS c1, c2, c3

Symmetry == Permutations(Calls)

=============================================================================
