------------------------- MODULE LifecycleRefinement -------------------------
(* The stored lifecycle implements the log its readers rely on. *)
EXTENDS LifecycleStore

\* The columns latest_sequence and latest_event of each session's row.
LatestEvent ==
  [s \in Session |->
     IF s \in DOMAIN db.sessions
     THEN [seq  |-> db.sessions[s].seq, stop |-> db.sessions[s].signature.kind = "Stop"]
     ELSE [seq |-> 0, stop |-> FALSE]]

Log == INSTANCE LifecycleLog WITH row <- LatestEvent, next <- db.next

\* No event, reproof or removal ever gives a session a number that was used
\* before, renumbers a row, or turns a stop into something else: what recovery
\* assumes when it names an attempt by a session and the number of its stop.
ImplementsLog == Log!LogSpec
==============================================================================
