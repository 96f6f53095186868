--------------------------- MODULE MCPermissionHook ---------------------------
(* Small instances of the permission hook for TLC. *)
EXTENDS PermissionRefinement, TLC

CONSTANTS h1, h2,            \* invocations
          plain, risky,      \* requests
          s1, s2             \* lock files

\* Two requests that share a lock file, as any two of 256 may.
OneShard == [i \in Identity |-> s1]

\* Each request on a lock file of its own.
OwnShard == [i \in Identity |-> IF i = plain THEN s1 ELSE s2]
==============================================================================
