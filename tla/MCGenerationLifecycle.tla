------------------------ MODULE MCGenerationLifecycle ------------------------
EXTENDS GenerationLifecycle, TLC

CONSTANTS w1, w2

Symmetry == Permutations(Workers)
=============================================================================
