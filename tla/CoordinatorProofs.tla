--------------------------- MODULE CoordinatorProofs ---------------------------
(* Proofs about the recovery coordinator of one TUI. *)
EXTENDS RecoveryCoordinator, SequenceTheorems, FiniteSetTheorems, WellFoundedInduction, TLAPS

LEMMA Limits == /\ MaxQueue \in Nat /\ MaxQueue > 0 /\ MaxWorkers \in Nat /\ MaxWorkers > 0
                /\ MaxFailures \in Nat
  BY LimitsAreNumbers, FailuresAreBounded

-------------------------------------------------------------------------------
(* What a thread does *)

LEMMA JobFields ==
  ASSUME NEW j \in Job
  PROVE  /\ j.kind \in {"none", "scan", "evaluate", "report", "retry"}
         /\ j.kind = "none" => j = Idle
         /\ j.kind = "scan" => j.work \in Work
         /\ j.kind \in {"evaluate", "report"} => j.attempt \in Attempt
         /\ j.kind \in {"report", "retry"} => j.diagnostic \in Diagnostic
  BY DEF Job, Idle

LEMMA KindDecides ==
  ASSUME NEW j
  PROVE  /\ Idle.kind = "none"
         /\ j.kind \notin {"evaluate", "report"} => \A a \in Attempt : ~Evaluates(j, a)
         /\ j.kind \notin {"report", "retry"} => \A d \in Diagnostic : ~Writes(j, d)
  BY DEF Idle, Evaluates, Writes

LEMMA WorkIsASequence == Work \subseteq Seq(Attempt) /\ <<>> \in Work
  <1>1. Work \subseteq Seq(Attempt)
    BY Limits, SeqDef DEF Work
  <1>2. <<>> \in [1..0 -> Attempt] /\ 0 \in 0..(MaxQueue + 1)
    BY Limits
  <1> QED
    BY <1>1, <1>2 DEF Work

LEMMA JobsAreTyped ==
  /\ Idle \in Job
  /\ Scan("run", <<>>) \in Job
  /\ \A w \in Work : Scan("sent", w) \in Job
  /\ \A a \in Attempt, at \in {"run", "done", "sent"} : Evaluation(at, a) \in Job
  /\ \A a \in Attempt, d \in Diagnostic : Report(a, d) \in Job
  /\ \A d \in Diagnostic, at \in {"write", "sent"}, ok \in BOOLEAN : Retry(at, d, ok) \in Job
  BY WorkIsASequence DEF Job, Idle, Scan, Evaluation, Report, Retry

LEMMA JobStays ==
  ASSUME job' = job
  PROVE  /\ Busy' = Busy /\ Scanning' = Scanning
         /\ \A a \in Attempt : Evaluating(a)' = Evaluating(a)
         /\ \A d \in Diagnostic : Writing(d)' = Writing(d)
  BY DEF Busy, Scanning, Evaluating, Writing

\* How the groups of threads change when one thread takes another job.
LEMMA JobChanges ==
  ASSUME job \in [Thread -> Job], NEW t \in Thread, NEW j \in Job,
         job' = [job EXCEPT ![t] = j]
  PROVE  /\ job' \in [Thread -> Job]
         /\ Busy' = IF j.kind # "none" THEN Busy \cup {t} ELSE Busy \ {t}
         /\ Scanning' = IF j.kind = "scan" THEN Scanning \cup {t} ELSE Scanning \ {t}
         /\ \A a \in Attempt :
              Evaluating(a)' = IF Evaluates(j, a) THEN Evaluating(a) \cup {t}
                               ELSE Evaluating(a) \ {t}
         /\ \A d \in Diagnostic :
              Writing(d)' = IF Writes(j, d) THEN Writing(d) \cup {t} ELSE Writing(d) \ {t}
  <1>1. job' \in [Thread -> Job] /\ job'[t] = j /\ \A u \in Thread \ {t} : job'[u] = job[u]
    OBVIOUS
  <1>2. Busy' = IF j.kind # "none" THEN Busy \cup {t} ELSE Busy \ {t}
    BY <1>1 DEF Busy
  <1>3. Scanning' = IF j.kind = "scan" THEN Scanning \cup {t} ELSE Scanning \ {t}
    BY <1>1 DEF Scanning
  <1>4. ASSUME NEW a \in Attempt
        PROVE  Evaluating(a)' = IF Evaluates(j, a) THEN Evaluating(a) \cup {t}
                                ELSE Evaluating(a) \ {t}
    <2> DEFINE E(u) == Evaluates(job[u], a)
               F(u) == Evaluates(job'[u], a)
    <2>1. F(t) = Evaluates(j, a) /\ \A u \in Thread \ {t} : F(u) = E(u)
      BY <1>1
    <2>2. Evaluating(a) = {u \in Thread : E(u)} /\ Evaluating(a)' = {u \in Thread : F(u)}
      BY DEF Evaluating, Evaluates
    <2> HIDE DEF E, F
    <2> QED
      BY <2>1, <2>2
  <1>5. ASSUME NEW d \in Diagnostic
        PROVE  Writing(d)' = IF Writes(j, d) THEN Writing(d) \cup {t} ELSE Writing(d) \ {t}
    <2> DEFINE E(u) == Writes(job[u], d)
               F(u) == Writes(job'[u], d)
    <2>1. F(t) = Writes(j, d) /\ \A u \in Thread \ {t} : F(u) = E(u)
      BY <1>1
    <2>2. Writing(d) = {u \in Thread : E(u)} /\ Writing(d)' = {u \in Thread : F(u)}
      BY DEF Writing, Writes
    <2> HIDE DEF E, F
    <2> QED
      BY <2>1, <2>2
  <1> QED
    BY <1>1, <1>2, <1>3, <1>4, <1>5

LEMMA BusyIsFinite == IsFiniteSet(Busy) /\ Cardinality(Busy) \in Nat
  BY ThreadsAreFinite, FS_Subset, FS_CardinalityType DEF Busy

-------------------------------------------------------------------------------
(* Slots: a step takes one, gives one back, or leaves them alone *)

LEMMA SlotTaken ==
  ASSUME job \in [Thread -> Job], SlotsAreThreads, NEW t \in Thread, NEW j \in Job,
         job[t] = Idle, j.kind # "none", job' = [job EXCEPT ![t] = j], active' = active + 1
  PROVE  SlotsAreThreads'
  <1>1. t \notin Busy /\ Busy' = Busy \cup {t}
    BY JobChanges DEF Busy, Idle
  <1>2. Cardinality(Busy \cup {t}) = Cardinality(Busy) + 1
    BY <1>1, BusyIsFinite, FS_AddElement
  <1>3. Cardinality(Busy)' = Cardinality(Busy')
    OBVIOUS
  <1> QED
    BY <1>1, <1>2, <1>3 DEF SlotsAreThreads

LEMMA SlotFreed ==
  ASSUME job \in [Thread -> Job], SlotsAreThreads, NEW t \in Thread,
         job[t].kind # "none", job' = [job EXCEPT ![t] = Idle], active' = active - 1
  PROVE  active \in Nat /\ active > 0 /\ SlotsAreThreads'
  <1>1. t \in Busy /\ Busy' = Busy \ {t}
    BY JobChanges, JobsAreTyped DEF Busy, Idle
  <1>2. Cardinality(Busy \ {t}) = Cardinality(Busy) - 1 /\ IsFiniteSet(Busy \ {t})
    BY <1>1, BusyIsFinite, FS_RemoveElement
  <1>3. Cardinality(Busy \ {t}) \in Nat
    BY <1>2, FS_CardinalityType
  <1> QED
    BY <1>1, <1>2, <1>3, BusyIsFinite DEF SlotsAreThreads

LEMMA SlotKept ==
  ASSUME job \in [Thread -> Job], SlotsAreThreads, NEW t \in Thread, NEW j \in Job,
         job[t].kind # "none", j.kind # "none", job' = [job EXCEPT ![t] = j],
         active' = active
  PROVE  SlotsAreThreads'
  <1>1. Busy' = Busy
    BY JobChanges DEF Busy
  <1> QED
    BY <1>1 DEF SlotsAreThreads

-------------------------------------------------------------------------------
(* Evaluations *)

LEMMA EvaluationsStay ==
  ASSUME job \in [Thread -> Job], OneEvaluationPerAttempt, NEW t \in Thread, NEW j \in Job,
         \A a \in Attempt : Evaluates(j, a) <=> Evaluates(job[t], a),
         job' = [job EXCEPT ![t] = j], inflight' = inflight
  PROVE  OneEvaluationPerAttempt'
  <1>1. \A a \in Attempt : Evaluating(a)' = Evaluating(a)
    BY JobChanges DEF Evaluating
  <1> QED
    BY <1>1 DEF OneEvaluationPerAttempt

LEMMA EvaluationStarts ==
  ASSUME job \in [Thread -> Job], OneEvaluationPerAttempt, NEW t \in Thread,
         NEW b \in Attempt, b \notin inflight,
         job' = [job EXCEPT ![t] = Evaluation("run", b)], job[t] = Idle,
         inflight' = inflight \cup {b}
  PROVE  OneEvaluationPerAttempt'
  <1> DEFINE j == Evaluation("run", b)
  <1>1. j \in Job /\ \A a \in Attempt : Evaluates(j, a) <=> a = b
    BY JobsAreTyped DEF Evaluation, Evaluates
  <1>2. \A a \in Attempt : t \notin Evaluating(a)
    BY DEF Evaluating, Evaluates, Idle
  <1> HIDE DEF j
  <1>3. \A a \in Attempt : Evaluating(a)' = IF Evaluates(j, a) THEN Evaluating(a) \cup {t}
                                             ELSE Evaluating(a) \ {t}
    BY <1>1, JobChanges DEF j
  <1>4. Evaluating(b)' = Evaluating(b) \cup {t}
        /\ \A a \in Attempt \ {b} : Evaluating(a)' = Evaluating(a)
    BY <1>1, <1>2, <1>3
  <1>5. Evaluating(b) = {}
    BY DEF OneEvaluationPerAttempt
  <1> QED
    BY <1>4, <1>5 DEF OneEvaluationPerAttempt

LEMMA EvaluationEnds ==
  ASSUME job \in [Thread -> Job], OneEvaluationPerAttempt, NEW t \in Thread,
         job[t].kind = "evaluate", job' = [job EXCEPT ![t] = Idle],
         inflight' = inflight \ {job[t].attempt}
  PROVE  OneEvaluationPerAttempt'
  <1>1. PICK b \in Attempt : b = job[t].attempt
    BY JobFields
  <1>2. \A a \in Attempt : t \in Evaluating(a) <=> a = b
    BY <1>1 DEF Evaluating, Evaluates
  <1>3. \A a \in Attempt : Evaluating(a)' = Evaluating(a) \ {t}
    BY JobChanges, JobsAreTyped DEF Evaluates, Idle
  <1>4. Evaluating(b) = {t}
    BY <1>2 DEF OneEvaluationPerAttempt
  <1>5. Evaluating(b)' = {}
    BY <1>3, <1>4
  <1>6. \A a \in Attempt \ {b} : Evaluating(a)' = Evaluating(a)
    BY <1>2, <1>3
  <1> QED
    BY <1>1, <1>5, <1>6 DEF OneEvaluationPerAttempt

-------------------------------------------------------------------------------
(* Scans *)

LEMMA ScansStay ==
  ASSUME job \in [Thread -> Job], ScanIsMarked, NEW t \in Thread, NEW j \in Job,
         j.kind = "scan" <=> job[t].kind = "scan",
         job' = [job EXCEPT ![t] = j], scanning' = scanning
  PROVE  ScanIsMarked'
  <1>1. Scanning' = Scanning
    BY JobChanges DEF Scanning
  <1> QED
    BY <1>1 DEF ScanIsMarked

-------------------------------------------------------------------------------
(* Writers of diagnostics *)

LEMMA WritersStay ==
  ASSUME job \in [Thread -> Job], DiagnosticHasOneWriter, NEW t \in Thread, NEW j \in Job,
         \A d \in Diagnostic : Writes(j, d) <=> Writes(job[t], d),
         job' = [job EXCEPT ![t] = j], entry' = entry
  PROVE  DiagnosticHasOneWriter'
  <1>1. \A d \in Diagnostic : Writing(d)' = Writing(d)
    BY JobChanges DEF Writing
  <1> QED
    BY <1>1 DEF DiagnosticHasOneWriter

\* Entries that are not in flight may change or go, and one may be taken up.
LEMMA WriterStarts ==
  ASSUME job \in [Thread -> Job], DiagnosticHasOneWriter, NEW t \in Thread, NEW j \in Job,
         NEW e \in Diagnostic, e \in DOMAIN entry => entry[e] # "inflight",
         \A d \in Diagnostic : ~Writes(job[t], d),
         \A d \in Diagnostic : Writes(j, d) <=> d = e,
         job' = [job EXCEPT ![t] = j],
         e \in DOMAIN entry' /\ entry'[e] = "inflight",
         \A d \in Diagnostic \ {e} :
           (d \in DOMAIN entry' /\ entry'[d] = "inflight") <=>
             (d \in DOMAIN entry /\ entry[d] = "inflight")
  PROVE  DiagnosticHasOneWriter'
  <1>1. \A d \in Diagnostic : t \notin Writing(d)
    BY DEF Writing
  <1>2. \A d \in Diagnostic : Writing(d)' = IF Writes(j, d) THEN Writing(d) \cup {t}
                                            ELSE Writing(d) \ {t}
    BY JobChanges
  <1>3. Writing(e)' = Writing(e) \cup {t}
        /\ \A d \in Diagnostic \ {e} : Writing(d)' = Writing(d)
    BY <1>1, <1>2
  <1>4. Writing(e) = {}
    BY DEF DiagnosticHasOneWriter
  <1> QED
    BY <1>3, <1>4 DEF DiagnosticHasOneWriter

LEMMA WriterEnds ==
  ASSUME job \in [Thread -> Job], DiagnosticHasOneWriter, NEW t \in Thread, NEW j \in Job,
         NEW e \in Diagnostic, NEW ok \in BOOLEAN, Writes(job[t], e),
         \A d \in Diagnostic : ~Writes(j, d),
         job' = [job EXCEPT ![t] = j], Finish(e, ok)
  PROVE  DiagnosticHasOneWriter'
  <1>1. \A d \in Diagnostic : Writes(job[t], d) <=> d = e
    BY DEF Writes
  <1>2. \A d \in Diagnostic : Writing(d)' = Writing(d) \ {t} /\ (t \in Writing(d) <=> d = e)
    BY <1>1, JobChanges DEF Writing
  <1>3. Writing(e) = {t} /\ e \in DOMAIN entry /\ entry[e] = "inflight"
    BY <1>2 DEF DiagnosticHasOneWriter
  <1>4. DOMAIN entry' = DOMAIN entry /\ entry'[e] # "inflight"
        /\ \A d \in DOMAIN entry \ {e} : entry'[d] = entry[d]
    BY <1>3 DEF Finish
  <1>5. \A d \in Diagnostic \ {e} : Writing(d)' = Writing(d)
    BY <1>2
  <1>6. Writing(e)' = {}
    BY <1>2, <1>3
  <1> QED
    BY <1>4, <1>5, <1>6 DEF DiagnosticHasOneWriter

-------------------------------------------------------------------------------
(* The cache *)

LEMMA LeastIsLeast ==
  ASSUME NEW S \in SUBSET Nat, S # {}
  PROVE  Least(S) \in S
  <1> DEFINE R == OpToRel(<, Nat)
  <1>1. IsWellFoundedOn(R, Nat)
    BY NatLessThanWellFounded
  <1>2. PICK x \in S : \A y \in S : ~(<<y, x>> \in R)
    BY <1>1, WFMin
  <1>3. \A y \in S : <<y, x>> \in R <=> y < x
    BY DEF OpToRel
  <1> HIDE DEF R
  <1>4. \A y \in S : ~(y < x)
    BY <1>2, <1>3, Zenon
  <1>5. \A y \in S : x <= y
    BY <1>4
  <1> QED
    BY <1>5 DEF Least

LEMMA WithoutOne ==
  ASSUME NEW S, NEW s \in Seq(S), NEW i \in DOMAIN s,
         \A k, l \in DOMAIN s : s[k] = s[l] => k = l
  PROVE  /\ Without(s, i) \in Seq(S) /\ Len(Without(s, i)) = Len(s) - 1
         /\ Elements(Without(s, i)) = Elements(s) \ {s[i]}
         /\ \A k, l \in DOMAIN Without(s, i) : Without(s, i)[k] = Without(s, i)[l] => k = l
  <1> DEFINE w == Without(s, i)
             n == Len(s)
  <1>1. n \in Nat /\ i \in 1..n /\ DOMAIN s = 1..n /\ \A k \in 1..n : s[k] \in S
    BY LenProperties, ElementOfSeq
  <1>2. w = [k \in 1..(n - 1) |-> IF k < i THEN s[k] ELSE s[k + 1]]
    BY DEF Without
  <1> HIDE DEF n, w
  <1>3. w \in [1..(n - 1) -> S] /\ n - 1 \in Nat
    BY <1>1, <1>2
  <1>4. w \in Seq(S)
    BY <1>3, SeqDef
  <1>5. Len(w) = n - 1 /\ DOMAIN w = 1..(n - 1)
    BY <1>3, <1>4, LenProperties
  <1>6. \A k \in 1..(n - 1) : w[k] = IF k < i THEN s[k] ELSE s[k + 1]
    BY <1>2
  <1>7. ASSUME NEW k \in 1..(n - 1), NEW l \in 1..(n - 1), w[k] = w[l] PROVE k = l
    <2> DEFINE at(m) == IF m < i THEN m ELSE m + 1
    <2>1. at(k) \in 1..n /\ at(l) \in 1..n /\ w[k] = s[at(k)] /\ w[l] = s[at(l)]
      BY <1>1, <1>6
    <2>2. at(k) = at(l) => k = l
      BY <1>1
    <2> HIDE DEF at
    <2>3. at(k) = at(l)
      BY <1>1, <1>7, <2>1
    <2> QED
      BY <2>2, <2>3
  <1>8. ASSUME NEW k \in 1..(n - 1) PROVE w[k] \in Elements(s) \ {s[i]}
    <2> DEFINE j == IF k < i THEN k ELSE k + 1
    <2>1. j \in 1..n /\ j # i
      BY <1>1
    <2>2. w[k] = s[j]
      BY <1>6
    <2> HIDE DEF j
    <2>3. s[j] # s[i]
      BY <1>1, <2>1
    <2>4. s[j] \in Elements(s)
      BY <1>1, <2>1 DEF Elements
    <2> QED
      BY <2>2, <2>3, <2>4
  <1>9. ASSUME NEW k \in 1..n, k # i PROVE \E l \in 1..(n - 1) : w[l] = s[k]
    <2>1. CASE k < i
      <3>1. k \in 1..(n - 1) /\ w[k] = s[k]
        BY <2>1, <1>1, <1>6
      <3> QED
        BY <3>1
    <2>2. CASE k > i
      <3>1. k - 1 \in 1..(n - 1) /\ w[k - 1] = s[k]
        BY <2>2, <1>1, <1>6
      <3> QED
        BY <3>1
    <2> QED
      BY <2>1, <2>2, <1>1, <1>9
  <1>10. Elements(w) = Elements(s) \ {s[i]}
    <2>1. \A e \in Elements(w) : e \in Elements(s) \ {s[i]}
      BY <1>5, <1>8 DEF Elements
    <2>2. \A e \in Elements(s) \ {s[i]} : e \in Elements(w)
      <3>1. Elements(s) = {s[k] : k \in 1..n} /\ Elements(w) = {w[k] : k \in 1..(n - 1)}
        BY <1>1, <1>5 DEF Elements
      <3> QED
        BY <3>1, <1>9
    <2> QED
      BY <2>1, <2>2
  <1> QED
    BY <1>4, <1>5, <1>7, <1>10 DEF w, n

\* Making room drops at most one entry, and none that is being written.
LEMMA EvictionIsSafe ==
  ASSUME TypeOK, CacheIsListed
  PROVE  /\ Evict \in Seq(Diagnostic) /\ Len(Evict) <= MaxQueue
         /\ Elements(Evict) \subseteq DOMAIN entry
         /\ \A d \in DOMAIN entry : entry[d] = "inflight" => d \in Elements(Evict)
         /\ \A k, l \in DOMAIN Evict : Evict[k] = Evict[l] => k = l
  <1>1. order \in Seq(Diagnostic) /\ Len(order) <= MaxQueue /\ Elements(order) = DOMAIN entry
        /\ \A k, l \in DOMAIN order : order[k] = order[l] => k = l
    BY DEF TypeOK, CacheIsListed
  <1>2. CASE Len(order) >= MaxQueue /\ Evictable # {}
    <2>1. Evictable \in SUBSET Nat
      BY <1>1, LenProperties DEF Evictable
    <2>2. PICK i \in Evictable : i = Least(Evictable)
      BY <1>2, <2>1, LeastIsLeast
    <2>3. i \in DOMAIN order /\ entry[order[i]] # "inflight" /\ Evict = Without(order, i)
      BY <1>2, <2>2 DEF Evictable, Evict
    <2>4. /\ Evict \in Seq(Diagnostic) /\ Len(Evict) = Len(order) - 1
          /\ Elements(Evict) = Elements(order) \ {order[i]}
          /\ \A k, l \in DOMAIN Evict : Evict[k] = Evict[l] => k = l
      BY <1>1, <2>3, WithoutOne
    <2>5. Len(order) \in Nat
      BY <1>1, LenProperties
    <2> QED
      BY <1>1, <2>3, <2>4, <2>5, Limits
  <1>3. CASE ~(Len(order) >= MaxQueue /\ Evictable # {})
    BY <1>1, <1>3 DEF Evict
  <1> QED
    BY <1>2, <1>3

CacheTypes ==
  /\ order \in Seq(Diagnostic) /\ Len(order) <= MaxQueue
  /\ DOMAIN entry \subseteq Diagnostic
  /\ \A d \in DOMAIN entry : entry[d] \in {"inflight", "pending", "retained"}

LEMMA FinishKeepsCache ==
  ASSUME TypeOK, CacheIsListed, NEW d, NEW ok \in BOOLEAN, Finish(d, ok)
  PROVE  CacheTypes' /\ CacheIsListed'
  <1>1. order' = order /\ DOMAIN entry' = DOMAIN entry
        /\ \A e \in DOMAIN entry : entry'[e] \in {entry[e], "retained", "pending"}
    BY DEF Finish
  <1> QED
    BY <1>1 DEF CacheTypes, TypeOK, CacheIsListed, Elements

LEMMA ReservationIsSafe ==
  ASSUME TypeOK, CacheIsListed, NEW d \in Diagnostic, ReserveIfNew(d)
  PROVE  /\ CacheTypes' /\ CacheIsListed'
         /\ IsNew(d) => /\ d \notin DOMAIN entry
                        /\ d \in DOMAIN entry' /\ entry'[d] = "inflight"
         /\ \A e \in Diagnostic : ~(IsNew(d) /\ e = d) =>
              ((e \in DOMAIN entry' /\ entry'[e] = "inflight") <=>
                 (e \in DOMAIN entry /\ entry[e] = "inflight"))
  <1>1. CASE d \in DOMAIN entry
    BY <1>1 DEF ReserveIfNew, IsNew, cache, CacheTypes, TypeOK, CacheIsListed, Elements
  <1>2. CASE d \notin DOMAIN entry /\ ~IsNew(d)
    <2>1. order' = Evict /\ entry' = [e \in Elements(order') |-> IF e = d THEN "inflight" ELSE entry[e]]
      BY <1>2 DEF ReserveIfNew, IsNew
    <2>2. d \notin Elements(order')
      BY <1>2, <2>1, EvictionIsSafe
    <2>3. DOMAIN entry' = Elements(order') /\ \A e \in DOMAIN entry' : entry'[e] = entry[e]
      BY <2>1, <2>2
    <2>4. CacheTypes'
      BY <2>1, <2>3, EvictionIsSafe DEF CacheTypes, TypeOK
    <2>5. CacheIsListed'
      BY <2>1, <2>3, EvictionIsSafe DEF CacheIsListed, Elements
    <2> QED
      BY <1>2, <2>1, <2>3, <2>4, <2>5, EvictionIsSafe
  <1>3. CASE d \notin DOMAIN entry /\ IsNew(d)
    <2>1. order' = Append(Evict, d)
          /\ entry' = [e \in Elements(order') |-> IF e = d THEN "inflight" ELSE entry[e]]
      BY <1>3 DEF ReserveIfNew, IsNew
    <2>2. /\ order' \in Seq(Diagnostic) /\ Len(order') = Len(Evict) + 1 /\ order'[Len(Evict) + 1] = d
          /\ \A i \in 1..Len(Evict) : order'[i] = Evict[i]
      BY <2>1, EvictionIsSafe, AppendProperties
    <2>3. Len(Evict) \in Nat /\ DOMAIN Evict = 1..Len(Evict) /\ DOMAIN order' = 1..(Len(Evict) + 1)
      BY <2>2, EvictionIsSafe, LenProperties
    <2>4. Elements(order') = Elements(Evict) \cup {d}
      <3>1. \A i \in DOMAIN order' : i \in DOMAIN Evict \/ i = Len(Evict) + 1
        BY <2>3
      <3>2. \A i \in DOMAIN Evict : i \in DOMAIN order' /\ order'[i] = Evict[i]
        BY <2>2, <2>3
      <3>3. Len(Evict) + 1 \in DOMAIN order' /\ order'[Len(Evict) + 1] = d
        BY <2>2, <2>3
      <3> QED
        BY <3>1, <3>2, <3>3 DEF Elements
    <2>5. DOMAIN entry' = Elements(Evict) \cup {d} /\ entry'[d] = "inflight"
          /\ \A e \in DOMAIN entry' \ {d} : entry'[e] = entry[e]
      BY <2>1, <2>4
    <2>6. d \notin Elements(Evict)
      BY <1>3, EvictionIsSafe
    <2>7. CacheTypes'
      BY <1>3, <2>2, <2>3, <2>5, EvictionIsSafe, Limits DEF CacheTypes, TypeOK, IsNew
    <2>8. \A i, k \in DOMAIN order' : order'[i] = order'[k] => i = k
      <3>1. \A i \in 1..Len(Evict) : order'[i] # d
        BY <2>2, <2>3, <2>6 DEF Elements
      <3> QED
        BY <3>1, <2>2, <2>3, EvictionIsSafe
    <2>9. CacheIsListed'
      BY <2>4, <2>5, <2>8 DEF CacheIsListed, Elements
    <2> QED
      BY <1>3, <2>5, <2>7, <2>9, EvictionIsSafe
  <1> QED
    BY <1>1, <1>2, <1>3 DEF IsNew

-------------------------------------------------------------------------------
(* The poll *)

Threads == SlotsAreThreads /\ OneEvaluationPerAttempt /\ DiagnosticHasOneWriter /\ ScanIsMarked

LEMMA ThreadsStay ==
  ASSUME Threads, job' = job, active' = active, inflight' = inflight,
         scanning' = scanning, entry' = entry
  PROVE  Threads'
  BY JobStays DEF Threads, SlotsAreThreads, OneEvaluationPerAttempt, DiagnosticHasOneWriter,
                  ScanIsMarked

LEMMA QueueFields ==
  ASSUME NEW S, NEW s \in Seq(S)
  PROVE  /\ Len(s) \in Nat
         /\ s # <<>> => /\ Head(s) \in S /\ Tail(s) \in Seq(S)
                        /\ Len(Tail(s)) = Len(s) - 1
         /\ \A x \in S : Append(s, x) \in Seq(S) /\ Len(Append(s, x)) = Len(s) + 1
  BY HeadTailProperties, AppendProperties, LenProperties

LEMMA QuietStep ==
  ASSUME IInv,
         \/ StartPoll \/ Enqueue \/ Enqueued \/ Drained \/ NoRetry \/ NoWorker \/ NoScan
         \/ IntervalPasses
  PROVE  IInv'
  <1>1. UNCHANGED <<job, active, inflight, scanning, order, entry, channel, failures>>
    BY DEF StartPoll, Enqueue, Enqueued, Drained, NoRetry, NoWorker, NoScan, IntervalPasses,
           coordinator, cache
  <1>2. Threads'
    BY <1>1, ThreadsStay DEF IInv, Threads
  <1>3. CacheIsListed'
    BY <1>1 DEF IInv, CacheIsListed, Elements
  <1>4. TypeOK' /\ ScanFindsEmptyQueue' /\ PollInOrder'
    <2> USE <1>1 DEF IInv, TypeOK, ScanFindsEmptyQueue, PollInOrder
    <2>1. CASE Enqueue
      <3>1. /\ found \in Seq(Attempt) /\ found # <<>> /\ queue \in Seq(Attempt)
            /\ found' = Tail(found) /\ poll = "enqueue" /\ poll' = poll /\ due' = due
        BY <2>1 DEF Enqueue
      <3>2. Head(found) \in Attempt /\ Tail(found) \in Seq(Attempt) /\ Len(queue) \in Nat
            /\ Append(queue, Head(found)) \in Seq(Attempt)
            /\ Len(Append(queue, Head(found))) = Len(queue) + 1
        BY <3>1, QueueFields
      <3>3. queue' \in Seq(Attempt) /\ Len(queue') <= MaxQueue
        <4>1. CASE queue' = queue
          BY <4>1
        <4>2. CASE queue' # queue
          <5>1. queue' = Append(queue, Head(found)) /\ ~(Len(queue) >= MaxQueue)
            BY <2>1, <4>2 DEF Enqueue
          <5> QED
            BY <5>1, <3>2, Limits
        <4> QED
          BY <4>1, <4>2
      <3> QED
        BY <3>1, <3>2, <3>3
    <2>2. CASE StartPoll \/ Enqueued \/ Drained \/ NoRetry \/ NoWorker \/ NoScan
      BY <2>2 DEF StartPoll, Enqueued, Drained, NoRetry, NoWorker, NoScan, coordinator
    <2>3. CASE IntervalPasses
      BY <2>3 DEF IntervalPasses
    <2> QED
      BY <2>1, <2>2, <2>3
  <1> QED
    BY <1>2, <1>3, <1>4 DEF IInv, Threads

LEMMA ReceiveStep == ASSUME IInv, Receive PROVE IInv'
  <1>1. PICK t \in Thread :
          /\ t = Head(channel)
          /\ ReceiveScan(job[t]) \/ ReceiveEvaluated(job[t]) \/ ReceiveRetried(job[t])
          /\ job' = [job EXCEPT ![t] = Idle] /\ channel' = Tail(channel) /\ failures' = failures
    BY QueueFields DEF Receive, IInv, TypeOK
  <1>2. channel' \in Seq(Thread) /\ poll = "drain"
    BY <1>1, QueueFields DEF Receive, IInv, TypeOK
  <1>3. job \in [Thread -> Job] /\ Idle \in Job /\ job[t] \in Job /\ job' \in [Thread -> Job]
    BY <1>1, JobsAreTyped DEF IInv, TypeOK
  <1>4. job[t].kind \in {"scan", "evaluate", "retry"} /\ active' = active - 1
    BY <1>1 DEF ReceiveScan, ReceiveEvaluated, ReceiveRetried, Free
  <1>5. SlotsAreThreads' /\ active' \in 0..MaxWorkers
    <2>1. active \in Nat /\ active > 0 /\ SlotsAreThreads'
      BY <1>1, <1>3, <1>4, SlotFreed DEF IInv
    <2>2. active \in 0..MaxWorkers
      BY DEF IInv, TypeOK
    <2> QED
      BY <1>4, <2>1, <2>2, Limits
  <1>6. CASE ReceiveScan(job[t])
    <2>1. job[t].kind = "scan" /\ ~scanning' /\ found' = job[t].work /\ poll' = "enqueue"
          /\ UNCHANGED <<queue, inflight, due, order, entry>>
      BY <1>6 DEF ReceiveScan, cache
    <2>2. OneEvaluationPerAttempt'
      <3>1. \A a \in Attempt : Evaluates(Idle, a) <=> Evaluates(job[t], a)
        BY <2>1 DEF Evaluates, Idle
      <3>2. OneEvaluationPerAttempt
        BY DEF IInv
      <3> QED
        BY <1>1, <1>3, <2>1, <3>1, <3>2, EvaluationsStay
    <2>3. DiagnosticHasOneWriter'
      <3>1. \A d \in Diagnostic : Writes(Idle, d) <=> Writes(job[t], d)
        BY <2>1 DEF Writes, Idle
      <3>2. DiagnosticHasOneWriter
        BY DEF IInv
      <3> QED
        BY <1>1, <1>3, <2>1, <3>1, <3>2, WritersStay
    <2>4. ScanIsMarked'
      <3>1. t \in Scanning /\ Scanning' = Scanning \ {t}
        BY <1>1, <1>3, <2>1, JobChanges DEF Scanning, Idle
      <3>2. Scanning' = {}
        BY <3>1 DEF IInv, ScanIsMarked
      <3> QED
        BY <2>1, <3>2 DEF ScanIsMarked
    <2>5. found' \in Seq(Attempt)
      BY <1>3, <2>1, JobFields, WorkIsASequence
    <2>6. scanning' = FALSE
      BY <1>6 DEF ReceiveScan
    <2> QED
      BY <1>1, <1>2, <1>3, <1>5, <2>1, <2>2, <2>3, <2>4, <2>5, <2>6
         DEF IInv, TypeOK, ScanFindsEmptyQueue, PollInOrder, CacheIsListed, Elements
  <1>7. CASE ReceiveEvaluated(job[t])
    <2>1. job[t].kind = "evaluate" /\ inflight' = inflight \ {job[t].attempt}
          /\ UNCHANGED <<poll, queue, scanning, due, found, order, entry>>
      BY <1>7 DEF ReceiveEvaluated, cache
    <2>2. OneEvaluationPerAttempt'
      BY <1>1, <1>3, <2>1, EvaluationEnds DEF IInv
    <2>3. DiagnosticHasOneWriter'
      <3>1. \A d \in Diagnostic : Writes(Idle, d) <=> Writes(job[t], d)
        BY <2>1 DEF Writes, Idle
      <3>2. DiagnosticHasOneWriter
        BY DEF IInv
      <3> QED
        BY <1>1, <1>3, <2>1, <3>1, <3>2, WritersStay
    <2>4. ScanIsMarked'
      BY <1>1, <1>3, <2>1, ScansStay DEF Idle, IInv
    <2> QED
      BY <1>1, <1>2, <1>3, <1>5, <2>1, <2>2, <2>3, <2>4
         DEF IInv, TypeOK, ScanFindsEmptyQueue, PollInOrder, CacheIsListed, Elements
  <1>8. CASE ReceiveRetried(job[t])
    <2>1. job[t].kind = "retry" /\ Finish(job[t].diagnostic, job[t].ok)
          /\ UNCHANGED <<poll, queue, inflight, scanning, due, found>>
      BY <1>8 DEF ReceiveRetried
    <2>2. PICK e \in Diagnostic : e = job[t].diagnostic
      BY <1>3, <2>1, JobFields
    <2>3. PICK ok \in BOOLEAN : ok = job[t].ok
      BY <1>3, <2>1 DEF Job
    <2>4. OneEvaluationPerAttempt'
      <3>1. \A a \in Attempt : Evaluates(Idle, a) <=> Evaluates(job[t], a)
        BY <2>1 DEF Evaluates, Idle
      <3>2. OneEvaluationPerAttempt
        BY DEF IInv
      <3> QED
        BY <1>1, <1>3, <2>1, <3>1, <3>2, EvaluationsStay
    <2>5. Writes(job[t], e) /\ Finish(e, ok) /\ \A d \in Diagnostic : ~Writes(Idle, d)
      BY <2>1, <2>2, <2>3 DEF Writes, Idle
    <2>6. DiagnosticHasOneWriter'
      BY <1>1, <1>3, <2>5, WriterEnds DEF IInv
    <2>7. ScanIsMarked'
      BY <1>1, <1>3, <2>1, ScansStay DEF Idle, IInv
    <2>8. CacheTypes' /\ CacheIsListed'
      BY <2>5, FinishKeepsCache DEF IInv
    <2> QED
      BY <1>1, <1>2, <1>3, <1>5, <2>1, <2>4, <2>6, <2>7, <2>8
         DEF IInv, TypeOK, CacheTypes, ScanFindsEmptyQueue, PollInOrder
  <1> QED
    BY <1>1, <1>6, <1>7, <1>8

\* A thread that is started takes a slot; one that is not changes nothing.
LEMMA SpawnTakesSlot ==
  ASSUME IInv, NEW j \in Job, j.kind # "none", active < MaxWorkers, Spawn(j)
  PROVE  /\ SlotsAreThreads' /\ active' \in 0..MaxWorkers /\ failures' = failures
         /\ \E t \in Thread : job[t] = Idle /\ job' = [job EXCEPT ![t] = j]
  <1>1. PICK t \in Thread : job[t] = Idle /\ job' = [job EXCEPT ![t] = j]
    BY DEF Spawn
  <1>2. active' = active + 1 /\ failures' = failures /\ active \in 0..MaxWorkers
    BY DEF Spawn, IInv, TypeOK
  <1>3. SlotsAreThreads'
    BY <1>1, <1>2, SlotTaken DEF IInv, TypeOK
  <1>4. active' \in 0..MaxWorkers
    BY <1>2, Limits
  <1> QED
    BY <1>1, <1>2, <1>3, <1>4

LEMMA FailureIsHarmless ==
  ASSUME IInv, SpawnFails
  PROVE  job' = job /\ active' = active /\ failures' \in 0..MaxFailures
  BY Limits DEF IInv, TypeOK, SpawnFails

LEMMA RetryStep == ASSUME IInv, RetryDiagnostic PROVE IInv'
  <1>1. /\ active < MaxWorkers /\ poll' = "start"
        /\ UNCHANGED <<queue, inflight, scanning, due, found, channel, order>>
    BY DEF RetryDiagnostic
  <1>2. Pending \in SUBSET Nat /\ Pending # {}
    BY LenProperties DEF RetryDiagnostic, Pending, IInv, TypeOK
  <1>3. PICK i \in Pending : i = Least(Pending)
    BY <1>2, LeastIsLeast
  <1>4. PICK e \in Diagnostic : e = FirstPending /\ e \in DOMAIN entry /\ entry[e] = "pending"
    BY <1>3, LenProperties, ElementOfSeq DEF Pending, FirstPending, IInv, TypeOK, CacheIsListed, Elements
  <1>5. CASE SpawnFails /\ UNCHANGED entry
    <2>1. Threads'
      BY <1>1, <1>5, FailureIsHarmless, ThreadsStay DEF IInv, Threads
    <2> QED
      BY <1>1, <1>5, <2>1, FailureIsHarmless
         DEF IInv, Threads, TypeOK, ScanFindsEmptyQueue, PollInOrder, CacheIsListed, Elements
  <1>6. CASE Spawn(Retry("write", e, FALSE)) /\ entry' = [entry EXCEPT ![e] = "inflight"]
    <2> DEFINE j == Retry("write", e, FALSE)
    <2>1. j \in Job /\ j.kind = "retry" /\ j.diagnostic = e
      BY JobsAreTyped DEF Retry
    <2> HIDE DEF j
    <2>2. Spawn(j)
      BY <1>6 DEF j
    <2>3. /\ SlotsAreThreads' /\ active' \in 0..MaxWorkers /\ failures' = failures
          /\ \E t \in Thread : job[t] = Idle /\ job' = [job EXCEPT ![t] = j]
      BY <1>1, <2>1, <2>2, SpawnTakesSlot
    <2>4. PICK t \in Thread : job[t] = Idle /\ job' = [job EXCEPT ![t] = j]
      BY <2>3
    <2>5. job \in [Thread -> Job] /\ job' \in [Thread -> Job]
      BY <2>1, <2>4 DEF IInv, TypeOK
    <2>6. OneEvaluationPerAttempt'
      <3>1. \A a \in Attempt : Evaluates(j, a) <=> Evaluates(job[t], a)
        BY <2>1, <2>4, KindDecides
      <3> QED
        BY <1>1, <2>1, <2>4, <2>5, <3>1, EvaluationsStay DEF IInv
    <2>7. ScanIsMarked'
      <3>1. j.kind = "scan" <=> job[t].kind = "scan"
        BY <2>1, <2>4, KindDecides
      <3> QED
        BY <1>1, <2>1, <2>4, <2>5, <3>1, ScansStay DEF IInv
    <2>8. /\ \A d \in Diagnostic : ~Writes(job[t], d) /\ (Writes(j, d) <=> d = e)
      BY <2>1, <2>4 DEF Writes, Idle
    <2>9. DOMAIN entry' = DOMAIN entry /\ entry'[e] = "inflight"
          /\ \A d \in DOMAIN entry \ {e} : entry'[d] = entry[d]
      BY <1>4, <1>6
    <2>10. DiagnosticHasOneWriter'
      BY <1>4, <2>1, <2>4, <2>5, <2>8, <2>9, WriterStarts DEF IInv
    <2>11. \A d \in DOMAIN entry' : entry'[d] \in {"inflight", "pending", "retained"}
      BY <2>9 DEF IInv, TypeOK
    <2> QED
      BY <1>1, <2>3, <2>5, <2>6, <2>7, <2>9, <2>10, <2>11
         DEF IInv, TypeOK, ScanFindsEmptyQueue, PollInOrder, CacheIsListed, Elements
  <1> QED
    BY <1>4, <1>5, <1>6 DEF RetryDiagnostic

LEMMA StartWorkerStep == ASSUME IInv, StartWorker PROVE IInv'
  <1>1. /\ poll = "start" /\ active < MaxWorkers /\ queue # <<>> /\ queue' = Tail(queue)
        /\ UNCHANGED <<poll, scanning, due, found, channel, order, entry>>
    BY DEF StartWorker, cache
  <1>2. PICK b \in Attempt : b = Head(queue)
    BY <1>1, QueueFields DEF IInv, TypeOK
  <1>3. queue' \in Seq(Attempt) /\ Len(queue') <= MaxQueue
    BY <1>1, QueueFields, Limits DEF IInv, TypeOK
  <1>4. ~scanning
    BY <1>1 DEF IInv, ScanFindsEmptyQueue
  <1>5. CASE UNCHANGED <<inflight, active, job>> /\ failures' \in 0..MaxFailures
    <2>1. Threads'
      BY <1>1, <1>5, ThreadsStay DEF IInv, Threads
    <2> QED
      BY <1>1, <1>3, <1>4, <1>5, <2>1
         DEF IInv, Threads, TypeOK, ScanFindsEmptyQueue, PollInOrder, CacheIsListed, Elements
  <1>6. CASE b \notin inflight /\ Spawn(Evaluation("run", b)) /\ inflight' = inflight \cup {b}
    <2>1. Evaluation("run", b) \in Job /\ Evaluation("run", b).kind = "evaluate"
      BY JobsAreTyped DEF Evaluation
    <2>2. /\ SlotsAreThreads' /\ active' \in 0..MaxWorkers /\ failures' = failures
          /\ \E t \in Thread : job[t] = Idle /\ job' = [job EXCEPT ![t] = Evaluation("run", b)]
      BY <1>1, <1>6, <2>1, SpawnTakesSlot
    <2>3. PICK t \in Thread : job[t] = Idle /\ job' = [job EXCEPT ![t] = Evaluation("run", b)]
      BY <2>2
    <2>4. job \in [Thread -> Job] /\ job' \in [Thread -> Job]
      BY <2>1, <2>3 DEF IInv, TypeOK
    <2>5. OneEvaluationPerAttempt'
      BY <1>6, <2>3, <2>4, EvaluationStarts DEF IInv
    <2>6. ScanIsMarked'
      <3>1. Evaluation("run", b).kind = "scan" <=> job[t].kind = "scan"
        BY <2>1, <2>3, KindDecides
      <3> QED
        BY <1>1, <2>1, <2>3, <2>4, <3>1, ScansStay DEF IInv
    <2>7. \A d \in Diagnostic : Writes(Evaluation("run", b), d) <=> Writes(job[t], d)
      BY <2>1, <2>3 DEF Writes, Idle
    <2>8. DiagnosticHasOneWriter'
      BY <1>1, <2>1, <2>3, <2>4, <2>7, WritersStay DEF IInv
    <2> QED
      BY <1>1, <1>3, <1>4, <1>6, <2>2, <2>4, <2>5, <2>6, <2>8
         DEF IInv, TypeOK, ScanFindsEmptyQueue, PollInOrder, CacheIsListed, Elements
  <1>7. CASE b \in inflight /\ UNCHANGED <<inflight, active, job, failures>>
    BY <1>5, <1>7 DEF IInv, TypeOK
  <1>8. CASE SpawnFails /\ UNCHANGED inflight
    BY <1>5, <1>8, FailureIsHarmless
  <1> QED
    BY <1>2, <1>6, <1>7, <1>8 DEF StartWorker

LEMMA StartScanStep == ASSUME IInv, StartScan PROVE IInv'
  <1>1. /\ poll = "scan" /\ ~scanning /\ active < MaxWorkers /\ due' = FALSE /\ poll' = "idle"
        /\ UNCHANGED <<queue, inflight, found, channel, order, entry>>
    BY DEF StartScan, cache
  <1>2. queue = <<>>
    BY <1>1, Limits DEF IInv, PollInOrder, TypeOK
  <1>3. CASE SpawnFails /\ UNCHANGED scanning
    <2>1. Threads'
      BY <1>1, <1>3, FailureIsHarmless, ThreadsStay DEF IInv, Threads
    <2> QED
      BY <1>1, <1>3, <2>1, FailureIsHarmless
         DEF IInv, Threads, TypeOK, ScanFindsEmptyQueue, PollInOrder, CacheIsListed, Elements
  <1>4. CASE Spawn(Scan("run", <<>>)) /\ scanning' = TRUE
    <2> DEFINE j == Scan("run", <<>>)
    <2>1. j \in Job /\ j.kind = "scan"
      BY JobsAreTyped DEF Scan
    <2> HIDE DEF j
    <2>2. Spawn(j)
      BY <1>4 DEF j
    <2>3. /\ SlotsAreThreads' /\ active' \in 0..MaxWorkers /\ failures' = failures
          /\ \E t \in Thread : job[t] = Idle /\ job' = [job EXCEPT ![t] = j]
      BY <1>1, <2>1, <2>2, SpawnTakesSlot
    <2>4. PICK t \in Thread : job[t] = Idle /\ job' = [job EXCEPT ![t] = j]
      BY <2>3
    <2>5. job \in [Thread -> Job] /\ job' \in [Thread -> Job]
      BY <2>1, <2>4 DEF IInv, TypeOK
    <2>6. OneEvaluationPerAttempt'
      <3>1. \A a \in Attempt : Evaluates(j, a) <=> Evaluates(job[t], a)
        BY <2>1, <2>4, KindDecides
      <3> QED
        BY <1>1, <2>1, <2>4, <2>5, <3>1, EvaluationsStay DEF IInv
    <2>7. DiagnosticHasOneWriter'
      <3>1. \A d \in Diagnostic : Writes(j, d) <=> Writes(job[t], d)
        BY <2>1, <2>4, KindDecides
      <3> QED
        BY <1>1, <2>1, <2>4, <2>5, <3>1, WritersStay DEF IInv
    <2>8. ScanIsMarked'
      <3>1. Scanning' = Scanning \cup {t} /\ Scanning = {}
        BY <1>1, <2>1, <2>4, <2>5, JobChanges DEF IInv, ScanIsMarked
      <3>2. Scanning' = {t}
        BY <3>1
      <3> QED
        BY <1>4, <3>2 DEF ScanIsMarked
    <2>9. scanning' \in BOOLEAN /\ due' \in BOOLEAN
      BY <1>1, <1>4
    <2>10. TypeOK'
      BY <1>1, <2>3, <2>5, <2>9 DEF IInv, TypeOK
    <2>11. ScanFindsEmptyQueue' /\ PollInOrder' /\ CacheIsListed'
      BY <1>1, <1>2 DEF IInv, ScanFindsEmptyQueue, PollInOrder, CacheIsListed, Elements
    <2> QED
      BY <2>3, <2>6, <2>7, <2>8, <2>10, <2>11 DEF IInv
  <1> QED
    BY <1>3, <1>4 DEF StartScan

-------------------------------------------------------------------------------
(* The threads *)

\* Only its own job changes when a thread goes on with the same attempt and
\* diagnostic.
SameTask(j, k) ==
  /\ j.kind # "none" /\ k.kind # "none"
  /\ k.kind = "scan" <=> j.kind = "scan"
  /\ \A a \in Attempt : Evaluates(k, a) <=> Evaluates(j, a)

LEMMA TaskGoesOn ==
  ASSUME IInv, NEW t \in Thread, NEW j \in Job, SameTask(job[t], j), Becomes(t, j),
         UNCHANGED coordinator
  PROVE  /\ job \in [Thread -> Job] /\ job' \in [Thread -> Job]
         /\ SlotsAreThreads' /\ OneEvaluationPerAttempt' /\ ScanIsMarked'
  <1>1. /\ job \in [Thread -> Job] /\ job' = [job EXCEPT ![t] = j]
        /\ active' = active /\ inflight' = inflight /\ scanning' = scanning
    BY DEF IInv, TypeOK, Becomes, coordinator
  <1>2. SlotsAreThreads'
    BY <1>1, SlotKept DEF SameTask, IInv
  <1>3. OneEvaluationPerAttempt'
    BY <1>1, EvaluationsStay DEF SameTask, IInv
  <1>4. ScanIsMarked'
    BY <1>1, ScansStay DEF SameTask, IInv
  <1> QED
    BY <1>1, <1>2, <1>3, <1>4

LEMMA SendKeeps ==
  ASSUME IInv, NEW t \in Thread, NEW j \in Job, SameTask(job[t], j), Send(t, j),
         \A d \in Diagnostic : Writes(j, d) <=> Writes(job[t], d)
  PROVE  IInv'
  <1>1. /\ Becomes(t, j) /\ channel' = Append(channel, t)
        /\ UNCHANGED <<poll, queue, inflight, active, scanning, due, found, order, entry, failures>>
    BY DEF Send, coordinator, cache
  <1>2. /\ job \in [Thread -> Job] /\ job' \in [Thread -> Job]
        /\ SlotsAreThreads' /\ OneEvaluationPerAttempt' /\ ScanIsMarked'
    BY <1>1, TaskGoesOn DEF coordinator
  <1>3. DiagnosticHasOneWriter'
    BY <1>1, <1>2, WritersStay DEF Becomes, IInv
  <1>4. channel' \in Seq(Thread)
    BY <1>1, QueueFields DEF IInv, TypeOK
  <1> QED
    BY <1>1, <1>2, <1>3, <1>4
       DEF IInv, TypeOK, ScanFindsEmptyQueue, PollInOrder, CacheIsListed, Elements

LEMMA FinishScanStep == ASSUME IInv, NEW t \in Thread, FinishScan(t) PROVE IInv'
  <1>1. PICK w \in Work : Send(t, Scan("sent", w)) /\ job[t] = Scan("run", <<>>)
    BY DEF FinishScan
  <1> DEFINE j == Scan("sent", w)
  <1>2. j \in Job /\ j.kind = "scan" /\ job[t].kind = "scan"
    BY <1>1, JobsAreTyped DEF Scan
  <1> HIDE DEF j
  <1>3. SameTask(job[t], j)
    BY <1>2, KindDecides DEF SameTask
  <1>4. \A d \in Diagnostic : Writes(j, d) <=> Writes(job[t], d)
    BY <1>2, KindDecides
  <1>5. Send(t, j)
    BY <1>1 DEF j
  <1> QED
    BY <1>2, <1>3, <1>4, <1>5, SendKeeps

LEMMA SendEvaluatedStep == ASSUME IInv, NEW t \in Thread, SendEvaluated(t) PROVE IInv'
  <1>1. job[t] \in Job /\ job[t].kind = "evaluate"
    BY DEF SendEvaluated, IInv, TypeOK
  <1>2. PICK a \in Attempt : a = job[t].attempt
    BY <1>1, JobFields
  <1> DEFINE j == Evaluation("sent", a)
  <1>3. j \in Job /\ j.kind = "evaluate" /\ j.attempt = a
    BY JobsAreTyped DEF Evaluation
  <1>4. Send(t, j)
    BY <1>2 DEF SendEvaluated
  <1> HIDE DEF j
  <1>5. SameTask(job[t], j)
    BY <1>1, <1>2, <1>3 DEF SameTask, Evaluates
  <1>6. \A d \in Diagnostic : Writes(j, d) <=> Writes(job[t], d)
    BY <1>1, <1>3, KindDecides
  <1> QED
    BY <1>3, <1>4, <1>5, <1>6, SendKeeps

LEMMA WriteAgainStep ==
  ASSUME IInv, NEW t \in Thread, NEW d \in Diagnostic, NEW ok \in BOOLEAN, WriteAgain(t, d, ok)
  PROVE  IInv'
  <1> DEFINE j == Retry("sent", d, ok)
  <1>1. j \in Job /\ j.kind = "retry" /\ j.diagnostic = d /\ Send(t, j)
        /\ job[t].kind = "retry" /\ job[t].diagnostic = d
    BY JobsAreTyped DEF Retry, WriteAgain
  <1> HIDE DEF j
  <1>2. SameTask(job[t], j)
    BY <1>1, KindDecides DEF SameTask
  <1>3. \A e \in Diagnostic : Writes(j, e) <=> Writes(job[t], e)
    BY <1>1 DEF Writes
  <1> QED
    BY <1>1, <1>2, <1>3, SendKeeps

LEMMA WriteReportStep ==
  ASSUME IInv, NEW t \in Thread, NEW d \in Diagnostic, NEW ok \in BOOLEAN, WriteReport(t, d, ok)
  PROVE  IInv'
  <1>1. job[t] \in Job /\ job[t].kind = "report" /\ job[t].diagnostic = d /\ Finish(d, ok)
        /\ UNCHANGED <<poll, coordinator, found, channel, failures>>
    BY DEF WriteReport, IInv, TypeOK
  <1>2. PICK a \in Attempt : a = job[t].attempt
    BY <1>1, JobFields
  <1> DEFINE j == Evaluation("done", a)
  <1>3. j \in Job /\ j.kind = "evaluate" /\ j.attempt = a
    BY JobsAreTyped DEF Evaluation
  <1>4. Becomes(t, j)
    BY <1>2 DEF WriteReport
  <1> HIDE DEF j
  <1>5. SameTask(job[t], j)
    BY <1>1, <1>2, <1>3 DEF SameTask, Evaluates
  <1>6. /\ job \in [Thread -> Job] /\ job' \in [Thread -> Job]
        /\ SlotsAreThreads' /\ OneEvaluationPerAttempt' /\ ScanIsMarked'
    BY <1>1, <1>3, <1>4, <1>5, TaskGoesOn
  <1>7. Writes(job[t], d) /\ \A e \in Diagnostic : ~Writes(j, e)
    BY <1>1, <1>3, KindDecides DEF Writes
  <1>8. DiagnosticHasOneWriter'
    BY <1>1, <1>3, <1>4, <1>6, <1>7, WriterEnds DEF Becomes, IInv
  <1>9. CacheTypes' /\ CacheIsListed'
    BY <1>1, FinishKeepsCache DEF IInv
  <1> QED
    BY <1>1, <1>6, <1>8, <1>9
       DEF IInv, TypeOK, CacheTypes, ScanFindsEmptyQueue, PollInOrder, coordinator

LEMMA EvaluateStep == ASSUME IInv, NEW t \in Thread, Evaluate(t) PROVE IInv'
  <1>1. /\ job[t] \in Job /\ job[t].kind = "evaluate"
        /\ UNCHANGED <<poll, coordinator, found, channel, failures>>
    BY DEF Evaluate, IInv, TypeOK
  <1>2. PICK a \in Attempt : a = job[t].attempt
    BY <1>1, JobFields
  <1>3. PICK j \in {Evaluation("done", a)} \cup {Report(a, d) : d \in Diagnostic} : Becomes(t, j)
    BY <1>2 DEF Evaluate
  <1>4. j \in Job /\ j.kind \in {"evaluate", "report"} /\ j.attempt = a
    <2>1. CASE j = Evaluation("done", a)
      BY <2>1, JobsAreTyped DEF Evaluation
    <2>2. ASSUME NEW d \in Diagnostic, j = Report(a, d)
          PROVE  j \in Job /\ j.kind = "report" /\ j.attempt = a
      BY <2>2, JobsAreTyped DEF Report
    <2> QED
      BY <1>3, <2>1, <2>2
  <1>5. SameTask(job[t], j)
    BY <1>1, <1>2, <1>4 DEF SameTask, Evaluates
  <1>6. /\ job \in [Thread -> Job] /\ job' \in [Thread -> Job]
        /\ SlotsAreThreads' /\ OneEvaluationPerAttempt' /\ ScanIsMarked'
    BY <1>1, <1>3, <1>4, <1>5, TaskGoesOn
  <1>7. \A e \in Diagnostic : ~Writes(job[t], e)
    BY <1>1, KindDecides
  <1>8. CASE Becomes(t, Evaluation("done", a)) /\ UNCHANGED cache
    <2>1. Evaluation("done", a) \in Job /\ \A e \in Diagnostic : ~Writes(Evaluation("done", a), e)
      BY JobsAreTyped DEF Evaluation, Writes
    <2>2. DiagnosticHasOneWriter'
      BY <1>6, <1>7, <1>8, <2>1, WritersStay DEF Becomes, IInv, cache
    <2> QED
      BY <1>1, <1>6, <1>8, <2>2
         DEF IInv, TypeOK, ScanFindsEmptyQueue, PollInOrder, CacheIsListed, Elements, coordinator, cache
  <1>9. ASSUME NEW d \in Diagnostic, ReserveIfNew(d),
               Becomes(t, IF IsNew(d) THEN Report(a, d) ELSE Evaluation("done", a))
        PROVE  IInv'
    <2>1. /\ CacheTypes' /\ CacheIsListed'
          /\ IsNew(d) => /\ d \notin DOMAIN entry
                         /\ d \in DOMAIN entry' /\ entry'[d] = "inflight"
          /\ \A e \in Diagnostic : ~(IsNew(d) /\ e = d) =>
               ((e \in DOMAIN entry' /\ entry'[e] = "inflight") <=>
                  (e \in DOMAIN entry /\ entry[e] = "inflight"))
      BY <1>9, ReservationIsSafe DEF IInv
    <2>2. DiagnosticHasOneWriter'
      <3>1. CASE IsNew(d)
        <4>1. Report(a, d) \in Job /\ \A e \in Diagnostic : Writes(Report(a, d), e) <=> e = d
          BY JobsAreTyped DEF Report, Writes
        <4>2. job' = [job EXCEPT ![t] = Report(a, d)]
          BY <1>9, <3>1 DEF Becomes
        <4> QED
          BY <1>6, <1>7, <2>1, <3>1, <4>1, <4>2, WriterStarts DEF IInv
      <3>2. CASE ~IsNew(d)
        <4>1. Evaluation("done", a) \in Job
              /\ \A e \in Diagnostic : ~Writes(Evaluation("done", a), e)
          BY JobsAreTyped DEF Evaluation, Writes
        <4>2. job' = [job EXCEPT ![t] = Evaluation("done", a)]
          BY <1>9, <3>2 DEF Becomes
        <4>3. \A e \in Diagnostic : Writing(e)' = Writing(e)
          BY <1>6, <1>7, <4>1, <4>2, JobChanges DEF Writing
        <4> QED
          BY <2>1, <3>2, <4>3 DEF IInv, DiagnosticHasOneWriter
      <3> QED
        BY <3>1, <3>2
    <2> QED
      BY <1>1, <1>6, <2>1, <2>2
         DEF IInv, TypeOK, CacheTypes, ScanFindsEmptyQueue, PollInOrder, coordinator
  <1> QED
    BY <1>2, <1>8, <1>9 DEF Evaluate

-------------------------------------------------------------------------------
(* The invariant *)

LEMMA InitInvariant == Init => IInv
  <1> SUFFICES ASSUME Init PROVE IInv
    OBVIOUS
  <1>1. \A S : <<>> \in Seq(S) /\ Len(<<>>) = 0
    BY EmptySeq
  <1>2. job \in [Thread -> Job] /\ \A t \in Thread : job[t] = Idle
    BY JobsAreTyped DEF Init
  <1>3. /\ Busy = {} /\ Scanning = {} /\ \A a \in Attempt : Evaluating(a) = {}
        /\ \A d \in Diagnostic : Writing(d) = {}
    BY <1>2 DEF Busy, Scanning, Evaluating, Writing, Evaluates, Writes, Idle
  <1>4. order = <<>> /\ DOMAIN entry = {} /\ Elements(order) = {} /\ DOMAIN order = {}
    BY DEF Init, Elements
  <1>5. TypeOK
    <2>1. 0 \in 0..MaxWorkers /\ 0 \in 0..MaxFailures /\ 0 <= MaxQueue
      BY Limits
    <2>2. scanning \in BOOLEAN /\ due \in BOOLEAN
      BY DEF Init
    <2>3. /\ queue \in Seq(Attempt) /\ Len(queue) = 0 /\ found \in Seq(Attempt)
          /\ channel \in Seq(Thread) /\ order \in Seq(Diagnostic) /\ Len(order) = 0
      BY <1>1 DEF Init
    <2> QED
      BY <1>2, <1>4, <2>1, <2>2, <2>3 DEF Init, TypeOK
  <1>6. SlotsAreThreads
    BY <1>3, FS_EmptySet DEF Init, SlotsAreThreads
  <1>7. CacheIsListed
    BY <1>4 DEF CacheIsListed
  <1> QED
    BY <1>3, <1>4, <1>5, <1>6, <1>7
       DEF Init, IInv, OneEvaluationPerAttempt, ScanFindsEmptyQueue, DiagnosticHasOneWriter,
           ScanIsMarked, PollInOrder

LEMMA StepInvariant == IInv /\ [Next]_vars => IInv'
  <1> SUFFICES ASSUME IInv, [Next]_vars PROVE IInv'
    OBVIOUS
  <1>1. CASE PollStep
    BY <1>1, QuietStep, ReceiveStep, RetryStep, StartWorkerStep, StartScanStep DEF PollStep
  <1>2. CASE IntervalPasses
    BY <1>2, QuietStep
  <1>3. ASSUME NEW t \in Thread, ThreadStep(t) PROVE IInv'
    BY <1>3, FinishScanStep, EvaluateStep, SendEvaluatedStep, WriteReportStep, WriteAgainStep
       DEF ThreadStep, Written
  <1>4. CASE UNCHANGED vars
    <2>1. UNCHANGED <<poll, queue, inflight, active, scanning, due, found, channel, job,
                      order, entry, failures>>
      BY <1>4 DEF vars, coordinator, cache
    <2>2. Threads'
      BY <2>1, ThreadsStay DEF IInv, Threads
    <2> QED
      BY <2>1, <2>2 DEF IInv, Threads, TypeOK, ScanFindsEmptyQueue, PollInOrder, CacheIsListed, Elements
  <1> QED
    BY <1>1, <1>2, <1>3, <1>4 DEF Next

\* The coordinator's invariant, for any attempts, diagnostics, threads and limits.
THEOREM Invariance == Spec => []IInv
  BY InitInvariant, StepInvariant, PTL DEF Spec

\* The workers that are counted are the threads that run or whose result waits.
THEOREM NoSlotIsLost == Spec => []SlotsAreThreads
  <1>1. IInv => SlotsAreThreads
    BY DEF IInv
  <1> QED
    BY <1>1, Invariance, PTL

\* One TUI evaluates an attempt in one thread at a time.
THEOREM EvaluatedOnceAtATime == Spec => []OneEvaluationPerAttempt
  <1>1. IInv => OneEvaluationPerAttempt
    BY DEF IInv
  <1> QED
    BY <1>1, Invariance, PTL

\* A scan runs on an empty queue only.
THEOREM ScanMeetsEmptyQueue == Spec => []ScanFindsEmptyQueue
  <1>1. IInv => ScanFindsEmptyQueue
    BY DEF IInv
  <1> QED
    BY <1>1, Invariance, PTL

\* No diagnostic is written by two threads, and none in flight has no writer.
THEOREM OneWriterPerDiagnostic == Spec => []DiagnosticHasOneWriter
  <1>1. IInv => DiagnosticHasOneWriter
    BY DEF IInv
  <1> QED
    BY <1>1, Invariance, PTL
===============================================================================
