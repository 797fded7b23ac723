-------------------------------- MODULE MCJit --------------------------------
\* One compiler, two handles, two contexts, a module with an owning global and
\* a manifest constant.
EXTENDS JitInv, TLC

CONSTANTS c1, h1, h2, k1, k2

MCGlobals == <<"owning", "manifest">>

Symmetry == Permutations(Jits) \cup Permutations(Contexts)
=============================================================================
