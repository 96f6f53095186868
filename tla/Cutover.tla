-------------------------------- MODULE Cutover --------------------------------
(***************************************************************************)
(* What the migration promises: the history is entirely in the legacy      *)
(* files or entirely in the store.  The store is filled once, from what    *)
(* the files held at some time, and takes over only if it holds what they  *)
(* hold then; from that step on no file that exists is written any more.   *)
(***************************************************************************)
EXTENDS Naturals

CONSTANTS Source,  \* the legacy files the store replaces
          Empty    \* the store before it is filled

VARIABLES legacy,     \* the version of every file; 0: it does not exist
          store,      \* the versions the store was filled with
          authority   \* where the history is

Init ==
  /\ legacy \in [Source -> Nat]
  /\ store = Empty
  /\ authority = "files"

\* A file the store replaced may not be written; one that did not exist may appear.
Write(s) ==
  /\ authority = "files" \/ store[s] = 0
  /\ legacy' = [legacy EXCEPT ![s] = @ + 1]
  /\ UNCHANGED <<store, authority>>

Fill ==
  /\ store = Empty /\ store' # Empty
  /\ \A s \in Source : store'[s] <= legacy[s]
  /\ UNCHANGED <<legacy, authority>>

TakeOver ==
  /\ authority = "files" /\ store # Empty
  /\ \A s \in Source : store[s] > 0 => legacy[s] = store[s]
  /\ authority' = "store"
  /\ UNCHANGED <<legacy, store>>

Next == (\E s \in Source : Write(s)) \/ Fill \/ TakeOver
Spec == Init /\ [][Next]_<<legacy, store, authority>>
================================================================================
