---------------------------- MODULE MCKernelMap ----------------------------
EXTENDS KernelMapProofs
MCHashValues == {0, 1, 3, 7}
Symmetry == Permutations(Threads) \union Permutations(Kernels)
              \union Permutations(Keys \ {ZeroKey})
=============================================================================
