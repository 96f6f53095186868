------------------------------ MODULE MCRecovery ------------------------------
(* Small instances of automatic recovery for TLC. *)
EXTENDS Recovery

CONSTANTS h1, w1,   \* executors
          s1, s2,   \* sessions
          p1, p2    \* prompts
==============================================================================
