----------------------------- MODULE LifecycleLog -----------------------------
(***************************************************************************)
(* What the readers of the lifecycle tables rely on, and all that recovery *)
(* sees of them (src/brain/storage/lifecycle.rs, columns latest_sequence   *)
(* and latest_event): every accepted event takes a sequence number no row  *)
(* ever had, and a row keeps its number until the next event of its        *)
(* session or until the session is removed with the one that started it.   *)
(*                                                                         *)
(* LifecycleRefinement shows that LifecycleStore keeps this promise;       *)
(* Recovery runs on it.                                                    *)
(***************************************************************************)
EXTENDS Naturals

CONSTANTS Session, MaxSequence

ASSUME LogAssumption == MaxSequence \in Nat \ {0}

VARIABLES row,   \* the latest event of each session, as its number and kind
          next   \* the number of the next event

Row == [seq : 0..MaxSequence, stop : BOOLEAN]
Absent == [seq |-> 0, stop |-> FALSE]

LogTypeOK == row \in [Session -> Row] /\ next \in 1..MaxSequence

LogInit == row = [s \in Session |-> Absent] /\ next = 1

\* One event of session s; the sessions in gone are removed.
Hear(s, stop, gone) ==
  /\ next < MaxSequence
  /\ row' = [x \in Session |-> CASE x = s -> [seq |-> next, stop |-> stop]
                                 [] x \in gone \ {s} -> Absent
                                 [] OTHER -> row[x]]
  /\ next' = next + 1

LogNext == \E s \in Session, stop \in BOOLEAN, gone \in SUBSET Session : Hear(s, stop, gone)

LogSpec == LogInit /\ [][LogNext]_<<row, next>>
==============================================================================
