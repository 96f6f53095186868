------------------------ MODULE MCRecoveryCoordinator -------------------------
(* A small instance of the recovery coordinator for TLC. *)
EXTENDS RecoveryCoordinator, TLC

CONSTANTS a1, a2,       \* attempts
          d1, d2,       \* a diagnostic of each
          t1, t2, t3    \* threads

OneEach == d1 :> a1 @@ d2 :> a2
===============================================================================
