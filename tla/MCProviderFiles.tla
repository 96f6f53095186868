--------------------------- MODULE MCProviderFiles ----------------------------
(* A small instance of the provider configuration transaction for TLC. *)
EXTENDS ProviderFiles, TLC

CONSTANTS p1, p2,   \* processes
          f1, f2    \* provider files

Files == Permutations(File)
===============================================================================
