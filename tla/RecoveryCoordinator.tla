-------------------------- MODULE RecoveryCoordinator --------------------------
(* The coordinator of automatic recovery inside one TUI                       *)
(* (src/brain/recovery.rs).  The tick of the TUI polls it; it starts threads  *)
(* that scan for sessions to recover, evaluate what a scan found, and write   *)
(* again the diagnostics whose write failed.  A thread answers through a      *)
(* channel that the next poll drains.  What an evaluation does to a session   *)
(* is the executor of module Recovery.                                        *)
EXTENDS Naturals, FiniteSets, Sequences

CONSTANTS Attempt,      \* the attempts that scans report
          Diagnostic,   \* what an evaluation has to say of its attempt
          About,        \* the attempt that a diagnostic is about
          Thread,       \* threads, more than may run at once
          MaxQueue,     \* MAX_RECOVERY_QUEUE
          MaxWorkers,   \* MAX_RECOVERY_WORKERS
          MaxFailures   \* bound: threads that cannot be started

ASSUME AboutIsTotal == About \in [Diagnostic -> Attempt]
ASSUME LimitsAreNumbers == MaxQueue \in Nat \ {0} /\ MaxWorkers \in Nat \ {0}
ASSUME FailuresAreBounded == MaxFailures \in Nat
ASSUME ThreadsAreFinite == IsFiniteSet(Thread)

VARIABLES poll,       \* where the poll that holds the state's lock is
          queue, inflight, active, scanning, due,
          found,      \* what a received scan reports and is not yet queued
          channel,    \* threads whose result is sent and not received
          job,        \* what each thread does
          order, entry,   \* the cache of diagnostics
          failures

coordinator == <<queue, inflight, active, scanning, due>>
cache == <<order, entry>>
vars == <<poll, coordinator, found, channel, job, cache, failures>>

\* A scan is cut at one candidate more than the queue holds.
Work == UNION {[1..n -> Attempt] : n \in 0..(MaxQueue + 1)}

\* A thread scans, evaluates an attempt, writes what it has to say of it, or
\* writes again what could not be written; "sent" is a result not yet received.
Job == [kind : {"none"}]
       \cup [kind : {"scan"}, at : {"run", "sent"}, work : Work]
       \cup [kind : {"evaluate"}, at : {"run", "done", "sent"}, attempt : Attempt]
       \cup [kind : {"report"}, at : {"write"}, attempt : Attempt, diagnostic : Diagnostic]
       \cup [kind : {"retry"}, at : {"write", "sent"}, diagnostic : Diagnostic, ok : BOOLEAN]

Idle == [kind |-> "none"]
Scan(at, work) == [kind |-> "scan", at |-> at, work |-> work]
Evaluation(at, a) == [kind |-> "evaluate", at |-> at, attempt |-> a]
Report(a, d) == [kind |-> "report", at |-> "write", attempt |-> a, diagnostic |-> d]
Retry(at, d, ok) == [kind |-> "retry", at |-> at, diagnostic |-> d, ok |-> ok]

Elements(s) == {s[i] : i \in DOMAIN s}

Init == /\ poll = "idle"
        /\ queue = <<>> /\ inflight = {} /\ active = 0
        /\ scanning = FALSE /\ due = TRUE
        /\ found = <<>> /\ channel = <<>>
        /\ job = [t \in Thread |-> Idle]
        /\ order = <<>> /\ entry = [d \in {} |-> "retained"]
        /\ failures = 0

-------------------------------------------------------------------------------
(* The cache of reported diagnostics. *)

\* Mutant of Evictable: the oldest entry is dropped whoever writes it.
EvictableAny == DOMAIN order
Evictable == {i \in DOMAIN order : entry[order[i]] # "inflight"}

\* A full cache makes room by dropping its oldest entry that nobody writes.
Without(s, i) == [k \in 1..(Len(s) - 1) |-> IF k < i THEN s[k] ELSE s[k + 1]]
Least(S) == CHOOSE i \in S : \A k \in S : i <= k
Evict == IF Len(order) >= MaxQueue /\ Evictable # {}
         THEN Without(order, Least(Evictable)) ELSE order

IsNew(d) == d \notin DOMAIN entry /\ Len(Evict) < MaxQueue

\* reserve_if_new evicts even if it then finds no room.
ReserveIfNew(d) ==
  IF d \in DOMAIN entry THEN UNCHANGED cache
  ELSE LET room == Len(Evict) < MaxQueue
       IN  /\ order' = IF room THEN Append(Evict, d) ELSE Evict
           /\ entry' = [e \in Elements(order') |-> IF e = d THEN "inflight" ELSE entry[e]]

\* Mutant of Finish: a write that failed is taken for one still under way.
FinishIfWritten(d, ok) ==
  /\ entry' = [e \in DOMAIN entry |-> IF e = d /\ ok THEN "retained" ELSE entry[e]]
  /\ UNCHANGED order

Finish(d, ok) ==
  /\ entry' = [e \in DOMAIN entry |->
                 IF e # d \/ entry[e] = "retained" THEN entry[e]
                 ELSE IF ok THEN "retained" ELSE "pending"]
  /\ UNCHANGED order

Pending == {i \in DOMAIN order : entry[order[i]] = "pending"}
FirstPending == order[Least(Pending)]

-------------------------------------------------------------------------------
(* The poll, in the order of its steps; another poll finds the lock taken. *)

StartPoll == /\ poll = "idle" /\ poll' = "drain"
             /\ UNCHANGED <<coordinator, found, channel, job, cache, failures>>

\* A slot is free again when the result of its thread is received.
Free == active' = active - 1

\* Mutant of ReceiveScan: the scan is not marked as over.
ReceiveScanOnly(j) == /\ j.kind = "scan"
                      /\ Free
                      /\ found' = j.work /\ poll' = "enqueue"
                      /\ UNCHANGED <<queue, inflight, scanning, due, cache>>

ReceiveScan(j) == /\ j.kind = "scan"
                  /\ Free /\ scanning' = FALSE
                  /\ found' = j.work /\ poll' = "enqueue"
                  /\ UNCHANGED <<queue, inflight, due, cache>>

ReceiveEvaluated(j) == /\ j.kind = "evaluate"
                       /\ Free /\ inflight' = inflight \ {j.attempt}
                       /\ UNCHANGED <<poll, queue, scanning, due, found, cache>>

ReceiveRetried(j) == /\ j.kind = "retry"
                     /\ Free /\ Finish(j.diagnostic, j.ok)
                     /\ UNCHANGED <<poll, queue, inflight, scanning, due, found>>

Receive == /\ poll = "drain" /\ channel # <<>>
           /\ LET t == Head(channel)
              IN /\ \/ ReceiveScan(job[t])
                    \/ ReceiveEvaluated(job[t])
                    \/ ReceiveRetried(job[t])
                 /\ job' = [job EXCEPT ![t] = Idle]
           /\ channel' = Tail(channel)
           /\ UNCHANGED failures

\* A candidate of a scan is queued unless it is known or the queue is full.
Known(a) == a \in inflight \cup Elements(queue)

Enqueue ==
  /\ poll = "enqueue" /\ found # <<>>
  /\ queue' = IF Known(Head(found)) \/ Len(queue) >= MaxQueue THEN queue
              ELSE Append(queue, Head(found))
  /\ found' = Tail(found)
  /\ UNCHANGED <<poll, inflight, active, scanning, due, channel, job, cache, failures>>

Enqueued == /\ poll = "enqueue" /\ found = <<>>
            /\ poll' = "drain"
            /\ UNCHANGED <<coordinator, found, channel, job, cache, failures>>

Drained == /\ poll = "drain" /\ channel = <<>>
           /\ poll' = "retry"
           /\ UNCHANGED <<coordinator, found, channel, job, cache, failures>>

\* A thread is started and takes a worker's slot.
Spawn(j) == /\ \E t \in Thread : job[t] = Idle /\ job' = [job EXCEPT ![t] = j]
            /\ active' = active + 1
            /\ UNCHANGED failures

\* Mutant of SpawnFails: the slot is not given back.
SpawnFailsKeeping == /\ failures < MaxFailures /\ failures' = failures + 1
                     /\ active' = active + 1
                     /\ UNCHANGED job

\* It cannot be started, and the slot is given back.
SpawnFails == /\ failures < MaxFailures /\ failures' = failures + 1
              /\ UNCHANGED <<job, active>>

\* One failed diagnostic is written again.
RetryDiagnostic ==
  /\ poll = "retry" /\ active < MaxWorkers /\ Pending # {}
  /\ \/ /\ Spawn(Retry("write", FirstPending, FALSE))
        /\ entry' = [entry EXCEPT ![FirstPending] = "inflight"]
     \/ SpawnFails /\ UNCHANGED entry
  /\ poll' = "start"
  /\ UNCHANGED <<queue, inflight, scanning, due, found, channel, order>>

NoRetry == /\ poll = "retry" /\ (active >= MaxWorkers \/ Pending = {})
           /\ poll' = "start"
           /\ UNCHANGED <<coordinator, found, channel, job, cache, failures>>

\* Mutant of StartWorker: the attempt is not marked as being evaluated.
StartWorkerUnmarked ==
  /\ poll = "start" /\ active < MaxWorkers /\ queue # <<>>
  /\ queue' = Tail(queue)
  /\ IF Head(queue) \in inflight THEN UNCHANGED <<active, job, failures>>
     ELSE Spawn(Evaluation("run", Head(queue))) \/ SpawnFails
  /\ UNCHANGED <<poll, inflight, scanning, due, found, channel, cache>>

\* The oldest candidate goes to a worker.  One that cannot be started is left to
\* the next scan.
StartWorker ==
  /\ poll = "start" /\ active < MaxWorkers /\ queue # <<>>
  /\ queue' = Tail(queue)
  /\ IF Head(queue) \in inflight THEN UNCHANGED <<inflight, active, job, failures>>
     ELSE \/ /\ Spawn(Evaluation("run", Head(queue)))
             /\ inflight' = inflight \cup {Head(queue)}
          \/ SpawnFails /\ UNCHANGED inflight
  /\ UNCHANGED <<poll, scanning, due, found, channel, cache>>

NoWorker == /\ poll = "start" /\ (active >= MaxWorkers \/ queue = <<>>)
            /\ poll' = "scan"
            /\ UNCHANGED <<coordinator, found, channel, job, cache, failures>>

\* The interval runs from the start of a scan, also of one that failed to start.
StartScan ==
  /\ poll = "scan"
  /\ ~scanning /\ active < MaxWorkers /\ due
  /\ \/ Spawn(Scan("run", <<>>)) /\ scanning' = TRUE
     \/ SpawnFails /\ UNCHANGED scanning
  /\ due' = FALSE
  /\ poll' = "idle"
  /\ UNCHANGED <<queue, inflight, found, channel, cache>>

NoScan == /\ poll = "scan" /\ (scanning \/ active >= MaxWorkers \/ ~due)
          /\ poll' = "idle"
          /\ UNCHANGED <<coordinator, found, channel, job, cache, failures>>

\* RECOVERY_SCAN_INTERVAL has passed.
IntervalPasses == /\ ~due /\ due' = TRUE
                  /\ UNCHANGED <<poll, queue, inflight, active, scanning,
                                 found, channel, job, cache, failures>>

-------------------------------------------------------------------------------
(* The threads. *)

Becomes(t, j) == job' = [job EXCEPT ![t] = j]

Send(t, j) == /\ Becomes(t, j)
              /\ channel' = Append(channel, t)
              /\ UNCHANGED <<poll, coordinator, found, cache, failures>>

FinishScan(t) ==
  job[t] = Scan("run", <<>>) /\ \E w \in Work : Send(t, Scan("sent", w))

\* An evaluation ends with nothing to say, or with a diagnostic that is known or
\* for which the cache has no room, or it goes on to write one.
Evaluate(t) ==
  /\ job[t].kind = "evaluate" /\ job[t].at = "run"
  /\ LET a == job[t].attempt
     IN \/ Becomes(t, Evaluation("done", a)) /\ UNCHANGED cache
        \/ \E d \in Diagnostic :
             /\ About[d] = a
             /\ ReserveIfNew(d)
             /\ Becomes(t, IF IsNew(d) THEN Report(a, d) ELSE Evaluation("done", a))
  /\ UNCHANGED <<poll, coordinator, found, channel, failures>>

\* append_recovery_activity_if_absent succeeds or fails.
WriteReport(t, d, ok) ==
  /\ job[t].kind = "report" /\ job[t].diagnostic = d
  /\ Finish(d, ok)
  /\ Becomes(t, Evaluation("done", job[t].attempt))
  /\ UNCHANGED <<poll, coordinator, found, channel, failures>>

WriteAgain(t, d, ok) ==
  /\ job[t] = Retry("write", d, FALSE)
  /\ Send(t, Retry("sent", d, ok))

SendEvaluated(t) ==
  /\ job[t].kind = "evaluate" /\ job[t].at = "done"
  /\ Send(t, Evaluation("sent", job[t].attempt))

Written(t, d, ok) == WriteReport(t, d, ok) \/ WriteAgain(t, d, ok)

ThreadStep(t) == \/ FinishScan(t) \/ Evaluate(t) \/ SendEvaluated(t)
                 \/ \E d \in Diagnostic, ok \in BOOLEAN : Written(t, d, ok)

PollStep == \/ StartPoll \/ Receive \/ Enqueue \/ Enqueued \/ Drained \/ RetryDiagnostic \/ NoRetry
            \/ StartWorker \/ NoWorker \/ StartScan \/ NoScan

Next == PollStep \/ IntervalPasses \/ \E t \in Thread : ThreadStep(t)

Spec == Init /\ [][Next]_vars

\* The TUI ticks, threads end, time passes; every write has a deadline and does
\* not fail for ever.
Fairness == /\ WF_vars(PollStep) /\ WF_vars(IntervalPasses)
            /\ \A t \in Thread : WF_vars(ThreadStep(t))
            /\ \A d \in Diagnostic : SF_vars(\E t \in Thread : Written(t, d, TRUE))
LiveSpec == Spec /\ Fairness

-------------------------------------------------------------------------------
(* Properties *)

TypeOK ==
  /\ poll \in {"idle", "drain", "enqueue", "retry", "start", "scan"}
  /\ queue \in Seq(Attempt) /\ Len(queue) <= MaxQueue
  /\ inflight \subseteq Attempt /\ active \in 0..MaxWorkers
  /\ scanning \in BOOLEAN /\ due \in BOOLEAN
  /\ found \in Seq(Attempt) /\ channel \in Seq(Thread)
  /\ job \in [Thread -> Job]
  /\ order \in Seq(Diagnostic) /\ Len(order) <= MaxQueue
  /\ DOMAIN entry \subseteq Diagnostic
  /\ \A d \in DOMAIN entry : entry[d] \in {"inflight", "pending", "retained"}
  /\ failures \in 0..MaxFailures

Evaluates(j, a) == j.kind \in {"evaluate", "report"} /\ j.attempt = a
Writes(j, d) == j.kind \in {"report", "retry"} /\ j.diagnostic = d

Busy == {t \in Thread : job[t].kind # "none"}
Scanning == {t \in Thread : job[t].kind = "scan"}
Evaluating(a) == {t \in Thread : Evaluates(job[t], a)}
Writing(d) == {t \in Thread : Writes(job[t], d)}

\* Every thread holds one worker's slot until its result is received, so that no
\* slot is lost and none is given back twice: there are never more threads, nor
\* results waiting, than workers.
SlotsAreThreads == active = Cardinality(Busy)

\* No two threads of a TUI evaluate one attempt at the same time, however often
\* scans report it.
OneEvaluationPerAttempt ==
  \A a \in Attempt : IF a \in inflight THEN \E t \in Thread : Evaluating(a) = {t}
                     ELSE Evaluating(a) = {}

\* A scan is only running while the queue is empty, so no candidate waits twice
\* and one is only skipped if a single scan reports more than the queue holds.
ScanFindsEmptyQueue == scanning => queue = <<>>

\* A diagnostic that is marked as being written is written by exactly one
\* thread: it is neither written twice at once nor waits for nobody.
DiagnosticHasOneWriter ==
  \A d \in Diagnostic :
    IF d \in DOMAIN entry /\ entry[d] = "inflight" THEN \E t \in Thread : Writing(d) = {t}
    ELSE Writing(d) = {}

\* Why these hold: the scan that is marked is the one that runs, no scan starts
\* in front of a queue, and the cache lists each of its entries once.
ScanIsMarked == IF scanning THEN \E t \in Thread : Scanning = {t} ELSE Scanning = {}

PollInOrder == /\ poll = "enqueue" => ~scanning
               /\ poll = "scan" => queue = <<>> \/ active >= MaxWorkers

CacheIsListed == /\ Elements(order) = DOMAIN entry
                 /\ \A i, k \in DOMAIN order : order[i] = order[k] => i = k

\* The inductive invariant.
IInv == /\ TypeOK /\ SlotsAreThreads /\ OneEvaluationPerAttempt /\ ScanFindsEmptyQueue
        /\ DiagnosticHasOneWriter /\ ScanIsMarked /\ PollInOrder /\ CacheIsListed

\* Scans go on: no order of results and failures uses up the workers for good.
ScansGoOn == []<>scanning /\ []<>~scanning

\* A reported diagnostic ends up durable unless newer ones push it out.
Unsettled(d) == d \in DOMAIN entry /\ entry[d] # "retained"
DiagnosticIsSettled == \A d \in Diagnostic : Unsettled(d) ~> ~Unsettled(d)
===============================================================================
