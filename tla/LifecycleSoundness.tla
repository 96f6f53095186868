-------------------------- MODULE LifecycleSoundness --------------------------
(***************************************************************************)
(* What the stored lifecycle is, whatever the providers report and in      *)
(* whatever order: a forest one level deep, whose linked sessions run in   *)
(* the turn they are held for and whose agents have one holder each        *)
(* (Sound).  Every event the reducer accepts and every reproof keep it so. *)
(*                                                                         *)
(* From that follows that the writer's validation refuses nothing the      *)
(* reducer makes but what KnownRefusal names, that a linked event finds    *)
(* its edge, that evidence read late revives no turn a child has left, and *)
(* that the store implements LifecycleLog.                                 *)
(*                                                                         *)
(* Descends, Subtree and Acyclic recurse over the number of sessions.      *)
(* What they compute is proved by induction over the naturals, stated with *)
(* sets: the first section has the two lemmas every such proof rests on.   *)
(***************************************************************************)
EXTENDS LifecycleRefinement, LifecycleProofs, FiniteSetTheorems, TLAPS

------------------------------------------------------------------------------
(* Induction over the naturals, stated with sets, and what recursion over    *)
(* them defines.                                                             *)

\* A set of naturals has a least element.
LEMMA Least ==
  ASSUME NEW T, T \subseteq Nat, T # {}
  PROVE  \E x \in T : \A y \in T : x <= y
<1>1. PICK x \in T : \A y \in T : ~ (<<y, x>> \in OpToRel(<, Nat))
  BY NatLessThanWellFounded, WFMin
<1>2. ASSUME NEW y \in T PROVE x <= y
  <2>1. <<y, x>> \in Nat \X Nat
    OBVIOUS
  <2>2. ~(y < x)
    BY <1>1, <2>1 DEF OpToRel
  <2> QED BY <2>2
<1> QED BY <1>2

\* A set that has 0 and every successor of its members has every natural.
LEMMA SetInduction ==
  ASSUME NEW T, 0 \in T, \A n \in Nat : n \in T => n + 1 \in T
  PROVE  Nat \subseteq T
<1> SUFFICES ASSUME Nat \ T # {} PROVE FALSE
  OBVIOUS
<1>1. PICK x \in Nat \ T : \A y \in Nat \ T : x <= y
  <2>1. Nat \ T \subseteq Nat
    OBVIOUS
  <2> QED BY <2>1, Least
<1>2. x # 0
  OBVIOUS
<1>3. x - 1 \in Nat /\ x - 1 \in T
  <2>1. x - 1 \in Nat
    BY <1>2
  <2>2. CASE x - 1 \notin T
    BY <1>1, <2>1, <2>2
  <2> QED BY <2>1, <2>2
<1>4. (x - 1) + 1 \in T
  BY <1>3
<1> QED BY <1>4

\* From every start, a function can be iterated.
Iterates(D, F, a, f) == /\ f \in [Nat -> D] /\ f[0] = a
                        /\ \A n \in Nat : f[n + 1] = F[f[n]]

\* What is iterated is defined by recursion over the naturals.
LEMMA Iteration ==
  \A D : \A F \in [D -> D] : \A a \in D : \E f : Iterates(D, F, a, f)
<1> SUFFICES ASSUME NEW D, NEW F \in [D -> D], NEW a \in D
             PROVE  \E f : Iterates(D, F, a, f)
  OBVIOUS
<1> DEFINE Part(n, g) == /\ g \in [0..n -> D] /\ g[0] = a
                         /\ \A k \in 0..(n - 1) : g[k + 1] = F[g[k]]
           T == {n \in Nat : \E g : Part(n, g)}
<1>1. 0 \in T
  <2>1. Part(0, [k \in 0..0 |-> a])
    OBVIOUS
  <2> HIDE DEF Part
  <2> QED BY <2>1
<1>2. ASSUME NEW n \in Nat, n \in T PROVE n + 1 \in T
  <2>1. PICK g : Part(n, g)
    BY <1>2
  <2> DEFINE h == [k \in 0..(n + 1) |-> IF k = n + 1 THEN F[g[n]] ELSE g[k]]
  <2>2. Part(n + 1, h)
    <3>1. h \in [0..(n + 1) -> D] /\ h[0] = a
      BY <2>1
    <3>2. ASSUME NEW k \in 0..n PROVE h[k + 1] = F[h[k]]
      <4>1. CASE k = n
        BY <2>1, <4>1
      <4>2. CASE k # n
        BY <2>1, <4>2
      <4> QED BY <4>1, <4>2
    <3> QED BY <3>1, <3>2
  <2> HIDE DEF Part, h
  <2> QED BY <2>2
<1>3. Nat \subseteq T
  <2> HIDE DEF T
  <2> QED BY <1>1, <1>2, SetInduction
<1> DEFINE G(n) == CHOOSE g : Part(n, g)
<1>4. \A n \in Nat : Part(n, G(n))
  <2>1. ASSUME NEW n \in Nat PROVE Part(n, G(n))
    <3>1. \E g : Part(n, g)
      BY <1>3
    <3> HIDE DEF Part
    <3> QED BY <3>1
  <2> HIDE DEF Part, G
  <2> QED BY <2>1
<1>5. ASSUME NEW n \in Nat PROVE \A k \in 0..n : G(n)[k] = G(n + 1)[k]
  <2> DEFINE U == {k \in Nat : k <= n => G(n)[k] = G(n + 1)[k]}
  <2> HIDE DEF G
  <2>0. Part(n, G(n)) /\ Part(n + 1, G(n + 1))
    <3> HIDE DEF Part
    <3>1. n + 1 \in Nat
      OBVIOUS
    <3> QED BY <1>4, <3>1
  <2>1. 0 \in U
    BY <2>0
  <2>2. ASSUME NEW k \in Nat, k \in U PROVE k + 1 \in U
    <3> SUFFICES ASSUME k + 1 <= n PROVE G(n)[k + 1] = G(n + 1)[k + 1]
      OBVIOUS
    <3>1. k \in 0..(n - 1) /\ k \in 0..n /\ G(n)[k] = G(n + 1)[k]
      BY <2>2
    <3> QED BY <2>0, <3>1
  <2>3. Nat \subseteq U
    <3> HIDE DEF U
    <3> QED BY <2>1, <2>2, SetInduction
  <2> QED BY <2>3
<1> DEFINE f == [n \in Nat |-> G(n)[n]]
<1>6. f \in [Nat -> D] /\ f[0] = a
  <2> HIDE DEF G
  <2> QED BY <1>4
<1>7. ASSUME NEW n \in Nat PROVE f[n + 1] = F[f[n]]
  <2> HIDE DEF G
  <2>1. f[n] = G(n + 1)[n] /\ f[n + 1] = G(n + 1)[n + 1]
    BY <1>5
  <2>2. Part(n + 1, G(n + 1))
    <3> HIDE DEF Part
    <3>1. n + 1 \in Nat
      OBVIOUS
    <3> QED BY <1>4, <3>1
  <2> QED BY <2>1, <2>2
<1> HIDE DEF f
<1> QED BY <1>6, <1>7 DEF Iterates

------------------------------------------------------------------------------
(* Topology. *)

\* What Subtree and the chains of links and owners are built from.
Below(ss, T) == T \cup {s \in DOMAIN ss : ss[s].parent \in T}
                  \cup UNION {DOMAIN ss[s].active : s \in T \cap Codex \cap DOMAIN ss}

\* The rounds of Subtree.
LEMMA SubtreeGrows ==
  ASSUME NEW ss, NEW root
  PROVE  \E g : /\ g[0] = {root}
                /\ \A n \in Nat : g[n + 1] = Below(ss, g[n])
                /\ Subtree(ss, root) = g[Cardinality(DOMAIN ss) + 1]
<1> DEFINE grow[n \in Nat] ==
        IF n = 0 THEN {root}
        ELSE LET S == grow[n - 1]
             IN  S \cup {s \in DOMAIN ss : ss[s].parent \in S}
                   \cup UNION {DOMAIN ss[s].active : s \in S \cap Codex \cap DOMAIN ss}
<1> DEFINE D == SUBSET (DOMAIN ss \cup {root} \cup UNION {DOMAIN ss[s].active : s \in DOMAIN ss})
           F == [T \in D |-> Below(ss, T)]
<1>1. PICK f : Iterates(D, F, {root}, f)
  <2>1. F \in [D -> D] /\ {root} \in D
    BY DEF Below
  <2> HIDE DEF D, F, grow
  <2> QED BY <2>1, Iteration
<1>2. f \in [Nat -> D] /\ f[0] = {root} /\ \A n \in Nat : f[n + 1] = F[f[n]]
  BY <1>1 DEF Iterates
<1> DEFINE Grows(g) ==
      g = [n \in Nat |->
             IF n = 0 THEN {root}
             ELSE LET S == g[n - 1]
                  IN  S \cup {s \in DOMAIN ss : ss[s].parent \in S}
                        \cup UNION {DOMAIN ss[s].active : s \in S \cap Codex \cap DOMAIN ss}]
<1>3. Grows(f)
  <2>1. ASSUME NEW n \in Nat, n # 0 PROVE f[n] = Below(ss, f[n - 1])
    <3>1. n - 1 \in Nat /\ (n - 1) + 1 = n
      BY <2>1
    <3>2. f[n] = F[f[n - 1]] /\ f[n - 1] \in D
      BY <1>2, <3>1
    <3> QED BY <3>2
  <2>2. f = [n \in Nat |-> f[n]]
    BY <1>2
  <2> QED BY <1>2, <2>1, <2>2 DEF Below
<1>4. Grows(grow)
  BY <1>3
<1>5. Subtree(ss, root) = grow[Cardinality(DOMAIN ss) + 1]
  BY DEF Subtree
<1> HIDE DEF grow
<1>6. ASSUME NEW n \in Nat PROVE grow[n + 1] = Below(ss, grow[n])
  BY <1>4 DEF Below
<1>7. grow[0] = {root}
  BY <1>4
<1> QED BY <1>5, <1>6, <1>7

\* A set of known sessions that grows with every round outgrows the sessions.
LEMMA RoundsEnd ==
  ASSUME NEW g, NEW K, IsFiniteSet(K),
         \A n \in Nat : g[n] \subseteq g[n + 1]
  PROVE  \E n \in 0..Cardinality(K) : g[n + 1] \cap K = g[n] \cap K
<1> SUFFICES ASSUME \A n \in 0..Cardinality(K) : g[n + 1] \cap K # g[n] \cap K PROVE FALSE
  OBVIOUS
<1> DEFINE N == Cardinality(K)
<1>1. N \in Nat
  BY FS_CardinalityType
<1>2. \A n \in Nat : /\ IsFiniteSet(g[n] \cap K)
                     /\ Cardinality(g[n] \cap K) \in Nat
                     /\ Cardinality(g[n] \cap K) <= N
  <2> TAKE n \in Nat
  <2>1. g[n] \cap K \in SUBSET K
    OBVIOUS
  <2> QED BY <2>1, FS_Subset, FS_CardinalityType
<1> DEFINE T == {n \in Nat : n <= N + 1 => n <= Cardinality(g[n] \cap K)}
<1>3. 0 \in T
  BY <1>1, <1>2
<1>4. ASSUME NEW n \in Nat, n \in T PROVE n + 1 \in T
  <2> SUFFICES ASSUME n + 1 <= N + 1 PROVE n + 1 <= Cardinality(g[n + 1] \cap K)
    OBVIOUS
  <2>1. n \in 0..N /\ n <= Cardinality(g[n] \cap K)
    BY <1>1, <1>4
  <2> DEFINE small == g[n] \cap K
             large == g[n + 1] \cap K
  <2>2. small \in SUBSET large /\ large # small
    BY <2>1
  <2>3. n + 1 \in Nat
    OBVIOUS
  <2>4. /\ IsFiniteSet(large) /\ Cardinality(large) \in Nat /\ Cardinality(small) \in Nat
    BY <1>2, <2>3
  <2> HIDE DEF small, large
  <2>5. Cardinality(small) <= Cardinality(large) /\ Cardinality(small) # Cardinality(large)
    BY <2>2, <2>4, FS_Subset
  <2>6. n <= Cardinality(small)
    BY <2>1 DEF small
  <2>7. n + 1 <= Cardinality(large)
    BY <2>4, <2>5, <2>6
  <2> QED BY <2>7 DEF large
<1>5. Nat \subseteq T
  <2> HIDE DEF T
  <2> QED BY <1>3, <1>4, SetInduction
<1>6. N + 1 \in Nat
  BY <1>1
<1>7. N + 1 <= Cardinality(g[N + 1] \cap K)
  BY <1>5, <1>6
<1>8. Cardinality(g[N + 1] \cap K) <= N /\ Cardinality(g[N + 1] \cap K) \in Nat
  BY <1>2, <1>6
<1> QED BY <1>1, <1>7, <1>8

\* The subtree of root is the least set that has root and is closed under links
\* and active agents (linked_subtree iterates until nothing is added).
LEMMA SubtreeIsLeast ==
  ASSUME NEW ss, NEW root \in Session, IsFiniteSet(DOMAIN ss),
         \A x \in DOMAIN ss : /\ ss[x].parent \in DOMAIN ss \cup {None}
                              /\ DOMAIN ss[x].active \subseteq Session,
         DOMAIN ss \subseteq Session
  PROVE  /\ root \in Subtree(ss, root)
         /\ Below(ss, Subtree(ss, root)) = Subtree(ss, root)
         /\ \A C : root \in C /\ Below(ss, C) \subseteq C => Subtree(ss, root) \subseteq C
<1>1. PICK g : /\ g[0] = {root}
               /\ \A n \in Nat : g[n + 1] = Below(ss, g[n])
               /\ Subtree(ss, root) = g[Cardinality(DOMAIN ss) + 1]
  BY SubtreeGrows
<1> DEFINE K == DOMAIN ss
           N == Cardinality(K)
<1>2. N \in Nat /\ N + 1 \in Nat
  BY FS_CardinalityType
<1>3. \A n \in Nat : g[n] \subseteq g[n + 1]
  BY <1>1 DEF Below
<1>4. Nat \subseteq {n \in Nat : root \in g[n] /\ g[n] \subseteq Session}
  <2> DEFINE T == {n \in Nat : root \in g[n] /\ g[n] \subseteq Session}
  <2>1. 0 \in T
    BY <1>1
  <2>2. ASSUME NEW n \in Nat, n \in T PROVE n + 1 \in T
    BY <1>1, <2>2 DEF Below
  <2>3. Nat \subseteq T
    <3> HIDE DEF T
    <3> QED BY <2>1, <2>2, SetInduction
  <2> QED BY <2>3
<1>5. PICK m \in 0..N : g[m + 1] \cap K = g[m] \cap K
  BY <1>3, RoundsEnd
<1>6. Below(ss, g[m + 1]) = g[m + 1]
  <2>1. m \in Nat /\ m + 1 \in Nat
    BY <1>2, <1>5
  <2>2. g[m + 1] = Below(ss, g[m]) /\ None \notin g[m + 1]
    BY <1>1, <1>4, <2>1, ProviderAssumption
  <2>3. ASSUME NEW s \in K, ss[s].parent \in g[m + 1] PROVE s \in g[m + 1]
    <3>1. ss[s].parent \in g[m]
      BY <1>5, <2>2, <2>3
    <3> QED BY <2>2, <3>1 DEF Below
  <2>4. ASSUME NEW s \in g[m + 1] \cap Codex \cap K PROVE DOMAIN ss[s].active \subseteq g[m + 1]
    <3>1. s \in g[m]
      BY <1>5, <2>4
    <3> QED BY <2>2, <2>4, <3>1 DEF Below
  <2> QED BY <2>3, <2>4 DEF Below
<1>7. Nat \subseteq {n \in Nat : g[m + 1 + n] = g[m + 1]}
  <2> DEFINE T == {n \in Nat : g[m + 1 + n] = g[m + 1]}
  <2>1. 0 \in T
    BY <1>2, <1>5
  <2>2. ASSUME NEW n \in Nat, n \in T PROVE n + 1 \in T
    <3>1. m + 1 + n \in Nat /\ m + 1 + (n + 1) = (m + 1 + n) + 1
      BY <1>2, <1>5
    <3>2. g[(m + 1 + n) + 1] = Below(ss, g[m + 1 + n])
      BY <1>1, <3>1
    <3> QED BY <1>6, <2>2, <3>1, <3>2
  <2>3. Nat \subseteq T
    <3> HIDE DEF T
    <3> QED BY <2>1, <2>2, SetInduction
  <2> QED BY <2>3
<1>8. Subtree(ss, root) = g[m + 1]
  <2>1. N - m \in Nat /\ m + 1 + (N - m) = N + 1
    BY <1>2, <1>5
  <2>2. g[m + 1 + (N - m)] = g[m + 1]
    BY <1>7, <2>1
  <2> QED BY <1>1, <2>1, <2>2
<1>9. ASSUME NEW C, root \in C, Below(ss, C) \subseteq C PROVE Subtree(ss, root) \subseteq C
  <2> DEFINE T == {n \in Nat : g[n] \subseteq C}
  <2>1. 0 \in T
    BY <1>1, <1>9
  <2>2. ASSUME NEW n \in Nat, n \in T PROVE n + 1 \in T
    <3>1. g[n] \subseteq C /\ g[n + 1] = Below(ss, g[n])
      BY <1>1, <2>2
    <3>2. Below(ss, g[n]) \subseteq Below(ss, C)
      BY <3>1 DEF Below
    <3> QED BY <1>9, <3>1, <3>2
  <2>3. Nat \subseteq T
    <3> HIDE DEF T
    <3> QED BY <2>1, <2>2, SetInduction
  <2> QED BY <1>1, <1>2, <2>3
<1>10. root \in g[m + 1]
  BY <1>2, <1>4, <1>5
<1> QED BY <1>6, <1>8, <1>9, <1>10

\* A session without a parent, or nobody knows, descends from itself only.
LEMMA DescendsFromItself ==
  ASSUME NEW ss, NEW s, NEW p, IsFiniteSet(DOMAIN ss), None \notin DOMAIN ss,
         s \in DOMAIN ss => ss[s].parent = None
  PROVE  Descends(ss, s, p) <=> p \in DOMAIN ss /\ s = p
<1> DEFINE up[n \in Nat] ==
        IF n = 0 THEN {s} ELSE {ss[x].parent : x \in up[n - 1] \cap DOMAIN ss}
<1> DEFINE D == SUBSET ({s} \cup {ss[x].parent : x \in DOMAIN ss})
           F == [T \in D |-> {ss[x].parent : x \in T \cap DOMAIN ss}]
<1>1. PICK f : Iterates(D, F, {s}, f)
  <2>1. F \in [D -> D] /\ {s} \in D
    OBVIOUS
  <2> HIDE DEF D, F, up
  <2> QED BY <2>1, Iteration
<1>2. f \in [Nat -> D] /\ f[0] = {s} /\ \A n \in Nat : f[n + 1] = F[f[n]]
  BY <1>1 DEF Iterates
<1> DEFINE Climbs(g) ==
      g = [n \in Nat |->
             IF n = 0 THEN {s} ELSE {ss[x].parent : x \in g[n - 1] \cap DOMAIN ss}]
<1>3. Climbs(f)
  <2>1. ASSUME NEW n \in Nat, n # 0 PROVE f[n] = {ss[x].parent : x \in f[n - 1] \cap DOMAIN ss}
    <3>1. n - 1 \in Nat /\ (n - 1) + 1 = n
      BY <2>1
    <3>2. f[n] = F[f[n - 1]] /\ f[n - 1] \in D
      BY <1>2, <3>1
    <3> QED BY <3>2
  <2>2. f = [n \in Nat |-> f[n]]
    BY <1>2
  <2> QED BY <1>2, <2>1, <2>2
<1>4. Climbs(up)
  BY <1>3
<1>5. Descends(ss, s, p) <=> p \in DOMAIN ss /\ \E n \in 0..Cardinality(DOMAIN ss) : p \in up[n]
  BY DEF Descends
<1> HIDE DEF up
<1>6. up[0] = {s}
  BY <1>4
<1>7. \A n \in Nat : up[n + 1] = {ss[x].parent : x \in up[n] \cap DOMAIN ss}
  BY <1>4
<1>8. Nat \subseteq {n \in Nat : up[n] \subseteq {s, None}}
  <2> DEFINE T == {n \in Nat : up[n] \subseteq {s, None}}
  <2>1. 0 \in T
    BY <1>6
  <2>2. ASSUME NEW n \in Nat, n \in T PROVE n + 1 \in T
    BY <1>7, <2>2
  <2>3. Nat \subseteq T
    <3> HIDE DEF T
    <3> QED BY <2>1, <2>2, SetInduction
  <2> QED BY <2>3
<1>9. Cardinality(DOMAIN ss) \in Nat
  BY FS_CardinalityType
<1> QED BY <1>5, <1>6, <1>8, <1>9

NoRepeats(r) == \A i, j \in 1..Len(r) : r[i] = r[j] => i = j

\* A sequence has no repetitions if it has as many elements as entries.
LEMMA CountingRepeats ==
  ASSUME NEW S, NEW r \in Seq(S)
  PROVE  Cardinality({r[i] : i \in DOMAIN r}) = Len(r) <=> NoRepeats(r)
<1> DEFINE T == {r[i] : i \in 1..Len(r)}
<1>1. Len(r) \in Nat /\ DOMAIN r = 1..Len(r)
  OBVIOUS
<1>2. IsFiniteSet(1..Len(r)) /\ Cardinality(1..Len(r)) = Len(r)
  BY <1>1, FS_Interval
<1>3. r \in Surjection(1..Len(r), T)
  BY <1>1 DEF Surjection
<1>4. Cardinality(T) = Cardinality(1..Len(r)) <=> r \in Injection(1..Len(r), T)
  BY <1>2, <1>3, FS_Surjection
<1>5. r \in Injection(1..Len(r), T) <=> NoRepeats(r)
  BY <1>1 DEF Injection, NoRepeats, IsInjective
<1>6. T = {r[i] : i \in DOMAIN r}
  BY <1>1
<1> HIDE DEF T
<1> QED BY <1>2, <1>4, <1>5, <1>6

\* A remembered turn is among the recent ones once, with others that were, and
\* no more than MAX_RECENT_TURNS.
LEMMA RememberKeeps ==
  ASSUME NEW r \in Seq(Turn), NEW t \in Turn, NoRepeats(r)
  PROVE  /\ Remember(r, t) \in Seq(Turn)
         /\ NoRepeats(Remember(r, t))
         /\ Len(Remember(r, t)) <= MaxRecent
         /\ \A i \in DOMAIN Remember(r, t) :
              Remember(r, t)[i] = t \/ \E j \in DOMAIN r : Remember(r, t)[i] = r[j]
<1> DEFINE at == CHOOSE i \in DOMAIN r : r[i] = t
           others == IF \E i \in DOMAIN r : r[i] = t
                     THEN [i \in 1..(Len(r) - 1) |-> r[IF i < at THEN i ELSE i + 1]]
                     ELSE r
           all == Append(others, t)
<1>1. /\ others \in Seq(Turn) /\ NoRepeats(others)
      /\ \A i \in 1..Len(others) : others[i] # t /\ \E j \in DOMAIN r : others[i] = r[j]
  <2>1. CASE \E i \in DOMAIN r : r[i] = t
    <3>1. at \in 1..Len(r) /\ r[at] = t
      BY <2>1
    <3> HIDE DEF at
    <3>2. others = [i \in 1..(Len(r) - 1) |-> r[IF i < at THEN i ELSE i + 1]]
      BY <2>1
    <3>3. Len(r) \in Nat /\ Len(r) >= 1
      BY <3>1
    <3>4. others \in Seq(Turn) /\ Len(others) = Len(r) - 1
      <4>1. \A i \in 1..(Len(r) - 1) : r[IF i < at THEN i ELSE i + 1] \in Turn
        BY <3>1, <3>3
      <4> QED BY <3>2, <3>3, <4>1
    <3> HIDE DEF others
    <3>5. ASSUME NEW i \in 1..Len(others), NEW j \in 1..Len(others), others[i] = others[j]
          PROVE  i = j
      <4> DEFINE a == IF i < at THEN i ELSE i + 1
                 b == IF j < at THEN j ELSE j + 1
      <4>1. a \in 1..Len(r) /\ b \in 1..Len(r) /\ r[a] = r[b]
        BY <3>1, <3>2, <3>3, <3>4, <3>5
      <4>2. a = b
        BY <4>1 DEF NoRepeats
      <4> QED BY <3>1, <3>4, <4>2
    <3>6. ASSUME NEW i \in 1..Len(others)
          PROVE  others[i] # t /\ \E j \in DOMAIN r : others[i] = r[j]
      <4> DEFINE a == IF i < at THEN i ELSE i + 1
      <4>1. a \in 1..Len(r) /\ others[i] = r[a] /\ a # at
        BY <3>1, <3>2, <3>3, <3>4
      <4>2. r[a] # t
        BY <3>1, <4>1 DEF NoRepeats
      <4> HIDE DEF a
      <4> QED BY <4>1, <4>2
    <3> QED BY <3>4, <3>5, <3>6 DEF NoRepeats
  <2>2. CASE ~\E i \in DOMAIN r : r[i] = t
    <3>1. others = r
      BY <2>2
    <3> HIDE DEF others
    <3> QED BY <2>2, <3>1
  <2> QED BY <2>1, <2>2
<1> HIDE DEF others
<1>2. /\ all \in Seq(Turn) /\ Len(all) = Len(others) + 1
      /\ \A i \in 1..Len(others) : all[i] = others[i]
      /\ all[Len(others) + 1] = t
  BY <1>1
<1>3. NoRepeats(all)
  BY <1>1, <1>2 DEF NoRepeats
<1>4. \A i \in 1..Len(all) : all[i] = t \/ \E j \in DOMAIN r : all[i] = r[j]
  BY <1>1, <1>2
<1>5. Remember(r, t) = IF Len(all) > MaxRecent
                       THEN SubSeq(all, Len(all) - MaxRecent + 1, Len(all)) ELSE all
  BY DEF Remember, others
<1>6. MaxRecent \in Nat /\ MaxRecent > 0
  BY LimitAssumption
<1> HIDE DEF all
<1>7. CASE Len(all) > MaxRecent
  <2> DEFINE k == Len(all) - MaxRecent
             tail == SubSeq(all, k + 1, Len(all))
  <2>1. k \in Nat /\ Len(all) \in Nat /\ k + 1 \in 1..Len(all)
    BY <1>2, <1>6, <1>7
  <2>2. /\ tail \in Seq(Turn) /\ Len(tail) = MaxRecent
        /\ \A i \in 1..MaxRecent : tail[i] = all[k + i] /\ k + i \in 1..Len(all)
    BY <1>2, <1>6, <1>7, <2>1
  <2>3. Remember(r, t) = tail
    BY <1>5, <1>7, <2>1
  <2> HIDE DEF tail
  <2>4. NoRepeats(tail)
    <3> SUFFICES ASSUME NEW i \in 1..MaxRecent, NEW j \in 1..MaxRecent, tail[i] = tail[j]
                 PROVE  i = j
      BY <2>2 DEF NoRepeats
    <3>1. k + i \in 1..Len(all) /\ k + j \in 1..Len(all) /\ all[k + i] = all[k + j]
      BY <2>2
    <3>2. k + i = k + j
      BY <1>3, <3>1 DEF NoRepeats
    <3> HIDE DEF k
    <3> QED BY <1>6, <2>1, <3>2
  <2>5. ASSUME NEW i \in DOMAIN tail
        PROVE  tail[i] = t \/ \E j \in DOMAIN r : tail[i] = r[j]
    <3>1. i \in 1..MaxRecent
      BY <2>2
    <3>2. k + i \in 1..Len(all) /\ tail[i] = all[k + i]
      BY <2>2, <3>1
    <3> QED BY <1>4, <3>2
  <2>6. Len(tail) <= MaxRecent
    BY <1>6, <2>2
  <2> QED BY <2>2, <2>3, <2>4, <2>5, <2>6
<1>8. CASE ~(Len(all) > MaxRecent)
  BY <1>2, <1>3, <1>4, <1>5, <1>6, <1>8
<1> QED BY <1>7, <1>8

------------------------------------------------------------------------------
(* The turns of one session. *)

\* The turns session s is in and remembers, as the writer wants them stored,
\* with the open turn not among the remembered ones.
Turnwise(s, st) ==
  /\ st.turn \in Turn \cup {None} /\ st.open \in BOOLEAN
  /\ st.recent \in Seq(Turn) /\ NoRepeats(st.recent) /\ Len(st.recent) <= MaxRecent
  /\ st.open => st.turn # None /\ st.turn \notin Recent(st)
  /\ IsFiniteSet(DOMAIN st.steps) /\ ValidInvocation(s, st)

\* They depend on five fields only.
LEMMA SameTurns ==
  ASSUME NEW s, NEW st, NEW r, Turnwise(s, st),
         r.turn = st.turn, r.open = st.open, r.recent = st.recent,
         r.floor = st.floor, r.steps = st.steps
  PROVE  Turnwise(s, r)
BY DEF Turnwise, ValidInvocation, Recent

\* A session nobody has heard of is in no turn.
LEMMA NewTurns ==
  ASSUME NEW e PROVE \A s : Turnwise(s, NewSession(e))
<1> TAKE s
<1> DEFINE st == NewSession(e)
<1> DEFINE no == <<>>
<1>1. /\ st.turn = None /\ st.open = FALSE /\ st.recent = no /\ st.floor = None
      /\ st.steps = Empty
  BY DEF NewSession
<1>2. no \in Seq(Turn) /\ Len(no) = 0 /\ NoRepeats(no)
  BY DEF NoRepeats
<1> HIDE DEF no
<1>3. DOMAIN Empty = {} /\ IsFiniteSet({})
  BY FS_EmptySet DEF Empty
<1>4. MaxRecent \in Nat
  BY LimitAssumption
<1> HIDE DEF st
<1>5. ValidInvocation(s, st)
  BY <1>1 DEF ValidInvocation
<1>6. IsFiniteSet(DOMAIN st.steps)
  BY <1>1, <1>3
<1>7. /\ st.turn \in Turn \cup {None} /\ st.open \in BOOLEAN /\ st.recent \in Seq(Turn)
      /\ NoRepeats(st.recent) /\ ~st.open
  BY <1>1, <1>2
<1>8. Len(st.recent) <= MaxRecent
  BY <1>1, <1>2, <1>4
<1>9. Turnwise(s, st)
  BY <1>5, <1>6, <1>7, <1>8 DEF Turnwise
<1> QED BY <1>9 DEF st

\* A cleared session is in no turn.
LEMMA ClearedTurns ==
  ASSUME NEW s, NEW st, DOMAIN st = Fields, Turnwise(s, st)
  PROVE  Turnwise(s, ClearTransient(st))
<1> DEFINE r == ClearTransient(st)
<1>1. /\ r.turn = None /\ r.open = FALSE /\ r.floor = None /\ r.steps = Empty
      /\ r.recent = IF st.turn = None THEN st.recent ELSE Remember(st.recent, st.turn)
  BY DEF ClearTransient, Fields
<1>2. DOMAIN Empty = {} /\ IsFiniteSet({})
  BY FS_EmptySet DEF Empty
<1>3. /\ r.recent \in Seq(Turn) /\ NoRepeats(r.recent) /\ Len(r.recent) <= MaxRecent
  BY <1>1, RememberKeeps DEF Turnwise
<1> HIDE DEF r
<1>4. Turnwise(s, r)
  BY <1>1, <1>2, <1>3 DEF Turnwise, ValidInvocation
<1> QED BY <1>4 DEF r

\* What becomes of a session state st whose turn event e is accepted.
Done(st, e, n) ==
  Accept(Effect([EnterTurn(st, e) EXCEPT !.open = TRUE, !.source = None], e, n), e, n)

Entered(st, e) == ~IsStep(e) /\ st.open /\ st.turn # e.turn

Before(st, e) == IF Entered(st, e) THEN Remember(st.recent, st.turn) ELSE st.recent

\* Its fields.
HasHeard(r, st, e, n) ==
  /\ DOMAIN r = Fields /\ r.parent = st.parent /\ r.seq = n
  /\ r.signature = SignatureOf(e) /\ r.source = None
  /\ r.turn = IF IsStep(e) \/ (Entered(st, e) /\ EndsExecution(st, e))
              THEN st.turn ELSE e.turn
  /\ r.open = (e.kind # "Stop")
  /\ r.recent = IF e.kind = "Stop" THEN Remember(Before(st, e), e.turn) ELSE Before(st, e)
  /\ r.floor = IF e.kind = "Stop" THEN None
                 ELSE IF e.kind = "UserPromptSubmit" THEN
                      (IF e.session \in Antigravity THEN e.floor ELSE None)
                 ELSE st.floor
  /\ r.steps = IF e.kind \in {"Stop", "UserPromptSubmit"} THEN Empty
                 ELSE IF IsStep(e) THEN Put(st.steps, e.turn, Bits(st, e.turn) \cup {e.kind})
                 ELSE st.steps
  /\ r.active = IF e.kind = "Stop" THEN Empty
                  ELSE IF e.kind = "SubagentStart" THEN
                       Put(st.active, e.agent, [turn |-> e.turn, seq |-> n, at |-> n])
                  ELSE IF e.kind = "SubagentStop" THEN Without(st.active, {e.agent})
                  ELSE st.active
  /\ r.stopped = IF e.kind = "Stop" THEN Empty
                   ELSE IF e.kind = "SubagentStart" THEN Without(st.stopped, {e.agent})
                   ELSE st.stopped

\* What an event of a turn leaves of its session, field by field.
LEMMA DoneIs ==
  ASSUME NEW st, DOMAIN st = Fields, NEW e, e.kind \in Kind \ {"SessionStart"}, NEW n
  PROVE  HasHeard(Done(st, e, n), st, e, n)
<1> DEFINE entered == EnterTurn(st, e)
           opened == [entered EXCEPT !.open = TRUE, !.source = None]
           effect == Effect(opened, e, n)
           r == Accept(effect, e, n)
<1>1. /\ DOMAIN entered = Fields /\ entered.parent = st.parent
      /\ entered.turn = IF IsStep(e) \/ (Entered(st, e) /\ EndsExecution(st, e))
                        THEN st.turn ELSE e.turn
      /\ entered.recent = Before(st, e)
      /\ entered.steps = IF IsStep(e) THEN Put(st.steps, e.turn, Bits(st, e.turn) \cup {e.kind})
                         ELSE st.steps
      /\ entered.floor = st.floor
      /\ entered.active = st.active /\ entered.stopped = st.stopped
  <2>1. CASE IsStep(e)
    BY <2>1 DEF EnterTurn, Entered, Before, Fields
  <2>2. CASE Entered(st, e)
    BY <2>2 DEF EnterTurn, Entered, Before, Fields
  <2>3. CASE ~IsStep(e) /\ ~Entered(st, e)
    BY <2>3 DEF EnterTurn, Entered, Before, Fields
  <2> QED BY <2>1, <2>2, <2>3 DEF Entered
<1> HIDE DEF entered
<1>2. /\ DOMAIN opened = Fields /\ opened.parent = entered.parent
      /\ opened.turn = entered.turn /\ opened.recent = entered.recent
      /\ opened.steps = entered.steps /\ opened.floor = entered.floor
      /\ opened.active = entered.active /\ opened.stopped = entered.stopped
      /\ opened.open = TRUE /\ opened.source = None
  BY <1>1 DEF Fields
<1> HIDE DEF opened
<1>3. /\ DOMAIN effect = Fields /\ effect.parent = opened.parent
      /\ effect.turn = opened.turn /\ effect.source = None
      /\ effect.open = (e.kind # "Stop")
      /\ effect.recent = IF e.kind = "Stop" THEN Remember(opened.recent, e.turn)
                         ELSE opened.recent
      /\ effect.floor = IF e.kind = "Stop" THEN None
                          ELSE IF e.kind = "UserPromptSubmit" THEN
                               (IF e.session \in Antigravity THEN e.floor ELSE None)
                          ELSE opened.floor
      /\ effect.steps = IF e.kind \in {"Stop", "UserPromptSubmit"} THEN Empty
                        ELSE opened.steps
      /\ effect.active = IF e.kind = "Stop" THEN Empty
                           ELSE IF e.kind = "SubagentStart" THEN
                                Put(opened.active, e.agent, [turn |-> e.turn, seq |-> n, at |-> n])
                           ELSE IF e.kind = "SubagentStop" THEN Without(opened.active, {e.agent})
                           ELSE opened.active
      /\ effect.stopped = IF e.kind = "Stop" THEN Empty
                            ELSE IF e.kind = "SubagentStart" THEN Without(opened.stopped, {e.agent})
                            ELSE opened.stopped
  <2>1. CASE e.kind = "UserPromptSubmit"
    BY <1>2, <2>1 DEF Effect, Tool, Fields
  <2>2. CASE e.kind \in Tool
    BY <1>2, <2>2 DEF Effect, Tool, Fields
  <2>3. CASE e.kind = "SubagentStart"
    BY <1>2, <2>3 DEF Effect, Tool, Fields
  <2>4. CASE e.kind = "SubagentStop"
    BY <1>2, <2>4 DEF Effect, Tool, Fields
  <2>5. CASE e.kind = "Stop"
    BY <1>2, <2>5 DEF Effect, Tool, Fields
  <2> QED BY <2>1, <2>2, <2>3, <2>4, <2>5 DEF Kind
<1> HIDE DEF effect
<1>4. /\ DOMAIN r = Fields /\ r.parent = effect.parent /\ r.seq = n
      /\ r.signature = SignatureOf(e) /\ r.source = effect.source
      /\ r.turn = effect.turn /\ r.open = effect.open /\ r.recent = effect.recent
      /\ r.floor = effect.floor /\ r.steps = effect.steps
      /\ r.active = effect.active /\ r.stopped = effect.stopped
  BY <1>3 DEF Accept, Fields
<1>5. IsStep(e) => e.kind \in Tool
  BY DEF IsStep
<1>6. r = Done(st, e, n)
  BY DEF Done, effect, opened, entered
<1> HIDE DEF r
<1>7. HasHeard(r, st, e, n)
  BY <1>1, <1>2, <1>3, <1>4, <1>5 DEF Tool, HasHeard
<1> QED BY <1>6, <1>7

\* What every reported event has.
Told(e) ==
  /\ e.kind \in Kind /\ e.session \in Session /\ SignatureOf(e) \in Signature
  /\ e.parent # None => /\ {e.session, e.parent} \subseteq Codex /\ e.parent # e.session
                        /\ e.kind \in {"SessionStart", "PreToolUse", "Stop"}
  /\ e.kind = "SessionStart" => e.source \in Source /\ e.session \notin Antigravity
  /\ e.kind # "SessionStart" => e.turn \in Turn
  /\ e.kind \in {"SubagentStart", "SubagentStop"} =>
       /\ e.agent \in Kin(e.session) /\ (e.session \in Codex => e.agent # e.session)
       /\ e.session \notin Antigravity
  /\ e.session \in Antigravity =>
       \/ e.kind = "UserPromptSubmit" /\ e.turn \in Invocation
       \/ e.kind \in Tool /\ e.turn \in Step
       \/ e.kind = "Stop" /\ e.turn \in Execution

\* Another step of an invocation: the writer's bounds hold.
LEMMA StepCounted ==
  ASSUME NEW f, NEW t, NEW b, IsFiniteSet(DOMAIN f),
         t \in DOMAIN f \/ Cardinality(DOMAIN f) < MaxSteps,
         Cardinality(DOMAIN f) <= MaxSteps
  PROVE  /\ IsFiniteSet(DOMAIN Put(f, t, b))
         /\ Cardinality(DOMAIN Put(f, t, b)) <= MaxSteps
<1>1. DOMAIN Put(f, t, b) = DOMAIN f \cup {t}
  BY DEF Put
<1>2. Cardinality(DOMAIN f) \in Nat /\ MaxSteps \in Nat
  BY FS_CardinalityType, LimitAssumption
<1>3. CASE t \in DOMAIN f
  <2>1. DOMAIN f \cup {t} = DOMAIN f
    BY <1>3
  <2> QED BY <1>1, <2>1
<1>4. CASE t \notin DOMAIN f
  <2>1. /\ IsFiniteSet(DOMAIN f \cup {t})
        /\ Cardinality(DOMAIN f \cup {t}) = Cardinality(DOMAIN f) + 1
    BY <1>4, FS_AddElement
  <2> QED BY <1>1, <1>2, <1>4, <2>1
<1> QED BY <1>3, <1>4

\* An accepted turn event leaves its session in a state the writer stores, with
\* the open turn not among the remembered ones.
LEMMA DoneTurns ==
  ASSUME NEW e, Told(e), e.kind # "SessionStart", NEW st, DOMAIN st = Fields,
         Turnwise(e.session, st), NotRecent(st, e),
         IF IsStep(e) THEN AcceptsStep(st, e) ELSE AcceptsTurn(st, e), NEW n
  PROVE  Turnwise(e.session, Done(st, e, n))
<1> DEFINE r == Done(st, e, n)
           s == e.session
           before == Before(st, e)
<1>0. e.kind \in Kind \ {"SessionStart"} /\ e.turn \in Turn
  BY DEF Told
<1>01. HasHeard(r, st, e, n)
  BY <1>0, DoneIs
<1> HIDE DEF r
<1>1. /\ r.turn = IF IsStep(e) \/ (Entered(st, e) /\ EndsExecution(st, e))
                  THEN st.turn ELSE e.turn
      /\ r.open = (e.kind # "Stop")
      /\ r.recent = IF e.kind = "Stop" THEN Remember(before, e.turn) ELSE before
      /\ r.floor = IF e.kind = "Stop" THEN None
                   ELSE IF e.kind = "UserPromptSubmit"
                   THEN (IF e.session \in Antigravity THEN e.floor ELSE None)
                   ELSE st.floor
      /\ r.steps = IF e.kind \in {"Stop", "UserPromptSubmit"} THEN Empty
                   ELSE IF IsStep(e)
                   THEN Put(st.steps, e.turn, Bits(st, e.turn) \cup {e.kind})
                   ELSE st.steps
  BY <1>01 DEF HasHeard
<1>2. IsStep(e) => /\ e.kind \in Tool /\ st.open /\ st.turn \in Invocation /\ e.turn \in Step
                   /\ s \in Antigravity /\ ~Entered(st, e)
  BY DEF IsStep, AcceptsStep, StepOfOpenTurn, Entered
<1>3. EndsExecution(st, e) => e.kind = "Stop"
  BY DEF EndsExecution
<1>4. /\ st.turn \in Turn \cup {None} /\ st.open \in BOOLEAN
      /\ st.recent \in Seq(Turn) /\ NoRepeats(st.recent) /\ Len(st.recent) <= MaxRecent
      /\ st.open => st.turn # None /\ st.turn \notin Recent(st)
      /\ IsFiniteSet(DOMAIN st.steps) /\ ValidInvocation(s, st)
  BY DEF Turnwise
<1>5. /\ before \in Seq(Turn) /\ NoRepeats(before) /\ Len(before) <= MaxRecent
      /\ \A i \in DOMAIN before :
           (Entered(st, e) /\ before[i] = st.turn) \/ before[i] \in Recent(st)
  <2>1. CASE Entered(st, e)
    <3>1. st.turn \in Turn
      BY <1>4, <2>1 DEF Entered
    <3>2. before = Remember(st.recent, st.turn)
      BY <2>1 DEF Before
    <3> HIDE DEF before
    <3> QED BY <1>4, <2>1, <3>1, <3>2, RememberKeeps DEF Recent
  <2>2. CASE ~Entered(st, e)
    BY <1>4, <2>2 DEF Recent, Before
  <2> QED BY <2>1, <2>2
<1> HIDE DEF before
<1>6. r.recent \in Seq(Turn) /\ NoRepeats(r.recent) /\ Len(r.recent) <= MaxRecent
  BY <1>0, <1>1, <1>5, RememberKeeps
<1>7. r.turn \in Turn \cup {None} /\ r.open \in BOOLEAN
  BY <1>0, <1>1, <1>4
<1>8. r.open => r.turn # None /\ r.turn \notin Recent(r)
  <2> SUFFICES ASSUME e.kind # "Stop" PROVE r.turn # None /\ r.turn \notin Recent(r)
    BY <1>1
  <2>1. r.recent = before
    BY <1>1
  <2>2. CASE IsStep(e)
    <3>1. r.turn = st.turn
      BY <1>1, <2>2
    <3> QED BY <1>2, <1>4, <1>5, <2>1, <2>2, <3>1 DEF Recent
  <2>3. CASE ~IsStep(e)
    <3>1. r.turn = e.turn
      BY <1>1, <1>3, <2>3
    <3>2. e.turn # None
      BY <1>0, ProviderAssumption
    <3>3. e.turn \notin Recent(st)
      BY DEF NotRecent
    <3>4. Entered(st, e) => st.turn # e.turn
      BY DEF Entered
    <3> QED BY <1>5, <2>1, <3>1, <3>2, <3>3, <3>4 DEF Recent
  <2> QED BY <2>2, <2>3
<1>9. DOMAIN Empty = {} /\ IsFiniteSet({}) /\ Cardinality({}) = 0 /\ MaxSteps \in Nat
  BY FS_EmptySet, LimitAssumption DEF Empty
<1>10. IsFiniteSet(DOMAIN r.steps) /\ ValidInvocation(s, r)
  <2>1. CASE e.kind = "Stop"
    <3>1. r.floor = None /\ r.steps = Empty
      BY <1>1, <2>1
    <3> QED BY <1>9, <3>1 DEF ValidInvocation
  <2>2. CASE e.kind = "UserPromptSubmit"
    <3>1. r.steps = Empty /\ (s \notin Antigravity => r.floor = None)
      BY <1>1, <2>2
    <3>2. r.open /\ r.turn = e.turn
      BY <1>1, <1>2, <1>3, <2>2 DEF Tool
    <3>3. s \in Antigravity => e.turn \in Invocation
      BY <2>2 DEF Told, Tool
    <3>4. IsFiniteSet(DOMAIN r.steps)
      BY <1>9, <3>1
    <3>5. CASE r.floor = None
      BY <3>1, <3>4, <3>5 DEF ValidInvocation
    <3>6. CASE r.floor # None
      <4>1. s \in Antigravity /\ r.open /\ r.turn \in Invocation
        BY <3>1, <3>2, <3>3, <3>6
      <4>2. Cardinality(DOMAIN r.steps) <= MaxSteps
        BY <1>9, <3>1
      <4> QED BY <1>9, <3>1, <3>6, <4>1, <4>2 DEF ValidInvocation
    <3> QED BY <3>4, <3>5, <3>6
  <2>3. CASE IsStep(e)
    <3> DEFINE bits == Bits(st, e.turn) \cup {e.kind}
    <3>1. /\ r.steps = Put(st.steps, e.turn, bits) /\ r.floor = st.floor
          /\ r.open /\ r.turn = st.turn
      BY <1>1, <1>2, <2>3 DEF Tool
    <3>2. /\ st.floor # None /\ StepIndex[e.turn] >= st.floor
          /\ e.turn \in DOMAIN st.steps \/ Cardinality(DOMAIN st.steps) < MaxSteps
      BY <2>3 DEF AcceptsStep, StepOfOpenTurn
    <3>3. /\ Cardinality(DOMAIN st.steps) <= MaxSteps
          /\ \A t \in DOMAIN st.steps : StepIndex[t] >= st.floor /\ st.steps[t] # {}
      BY <1>4, <3>2 DEF ValidInvocation
    <3>4. bits # {}
      OBVIOUS
    <3> HIDE DEF bits
    <3>5. /\ IsFiniteSet(DOMAIN Put(st.steps, e.turn, bits))
          /\ Cardinality(DOMAIN Put(st.steps, e.turn, bits)) <= MaxSteps
      BY <1>4, <3>2, <3>3, StepCounted
    <3>6. \A t \in DOMAIN Put(st.steps, e.turn, bits) :
            /\ StepIndex[t] >= st.floor
            /\ Put(st.steps, e.turn, bits)[t] # {}
      BY <3>2, <3>3, <3>4 DEF Put
    <3> QED BY <1>2, <2>3, <3>1, <3>2, <3>5, <3>6 DEF ValidInvocation
  <2>4. CASE e.kind \notin {"Stop", "UserPromptSubmit"} /\ ~IsStep(e)
    <3>1. r.floor = st.floor /\ r.steps = st.steps
      BY <1>1, <2>4
    <3>2. s \notin Antigravity
      BY <2>4 DEF Told, IsStep
    <3> QED BY <1>4, <3>1, <3>2 DEF ValidInvocation
  <2> QED BY <2>1, <2>2, <2>3, <2>4
<1>11. Turnwise(s, r)
  BY <1>6, <1>7, <1>8, <1>10 DEF Turnwise
<1> QED BY <1>11 DEF r

------------------------------------------------------------------------------
(* The agents of one session. *)

Edge == [turn : Turn, seq : Nat, at : Nat]
Held(st) == DOMAIN st.active \cup DOMAIN st.stopped

\* A set of edges the writer has room for, by agent.
Edges(f) == /\ f \in [DOMAIN f -> Edge]
            /\ IsFiniteSet(DOMAIN f) /\ Cardinality(DOMAIN f) <= MaxActive

\* The agents session s holds, as the writer wants them stored.
Holding(s, st) ==
  /\ Edges(st.active) /\ Edges(st.stopped)
  /\ DOMAIN st.active \cap DOMAIN st.stopped = {}
  /\ Held(st) \subseteq Kin(s) /\ (s \in Codex => s \notin Held(st))
  /\ DOMAIN st.stopped # {} => s \in Codex
  /\ \A a \in DOMAIN st.active : st.active[a].seq \in 1..st.seq
  /\ \A a \in DOMAIN st.stopped : st.stopped[a].seq \in 1..st.seq

Whole(s, st) == DOMAIN st = Fields /\ st.seq \in Nat /\ Turnwise(s, st) /\ Holding(s, st)

\* Edge g is f, refreshed at n or not.
Later(f, g, n) == g \in Edge /\ g.turn = f.turn /\ g.seq = f.seq /\ g.at \in {f.at, n}

\* Session state r is st without the agents in A and the tombstones in B.
Cut(st, r, A, B, n) ==
  /\ DOMAIN r = Fields
  /\ r.parent = st.parent /\ r.turn = st.turn /\ r.open = st.open /\ r.recent = st.recent
  /\ r.signature = st.signature /\ r.seq = st.seq /\ r.status = st.status
  /\ r.source = st.source /\ r.floor = st.floor /\ r.steps = st.steps
  /\ r.active \in [DOMAIN st.active \ A -> Edge]
  /\ \A a \in DOMAIN st.active \ A : Later(st.active[a], r.active[a], n)
  /\ r.stopped = Without(st.stopped, B)

\* A part of a set is as finite, and no larger.
LEMMA PartCounted ==
  ASSUME NEW S, NEW T, IsFiniteSet(S), T \subseteq S, NEW k \in Nat, Cardinality(S) <= k
  PROVE  IsFiniteSet(T) /\ Cardinality(T) <= k
<1>1. /\ IsFiniteSet(T) /\ Cardinality(T) <= Cardinality(S)
  BY FS_Subset
<1>2. Cardinality(T) \in Nat /\ Cardinality(S) \in Nat
  BY <1>1, FS_CardinalityType
<1> QED BY <1>1, <1>2

\* What is left of a cut session state is as good as it was.
LEMMA WholeCut ==
  ASSUME NEW s, NEW st, NEW r, NEW A, NEW B, NEW n, Whole(s, st), Cut(st, r, A, B, n)
  PROVE  /\ Whole(s, r)
         /\ DOMAIN r.active = DOMAIN st.active \ A /\ DOMAIN r.stopped = DOMAIN st.stopped \ B
         /\ \A a \in DOMAIN r.stopped : r.stopped[a] = st.stopped[a]
<1>1. DOMAIN r.active = DOMAIN st.active \ A /\ DOMAIN r.stopped = DOMAIN st.stopped \ B
  BY DEF Cut, Without
<1>2. /\ \A a \in DOMAIN r.stopped : r.stopped[a] = st.stopped[a]
      /\ r.stopped \in [DOMAIN r.stopped -> Edge]
  <2>1. r.stopped = [a \in DOMAIN st.stopped \ B |-> st.stopped[a]]
    BY DEF Cut, Without
  <2>2. st.stopped \in [DOMAIN st.stopped -> Edge]
    BY DEF Whole, Holding, Edges
  <2> QED BY <1>1, <2>1, <2>2
<1>3. /\ IsFiniteSet(DOMAIN r.active) /\ Cardinality(DOMAIN r.active) <= MaxActive
      /\ IsFiniteSet(DOMAIN r.stopped) /\ Cardinality(DOMAIN r.stopped) <= MaxActive
  <2>1. MaxActive \in Nat
    BY LimitAssumption
  <2> QED BY <1>1, <2>1, PartCounted DEF Whole, Holding, Edges
<1>4. Held(r) \subseteq Held(st)
  BY <1>1 DEF Held
<1>5. \A a \in DOMAIN r.active : r.active[a].seq = st.active[a].seq /\ a \in DOMAIN st.active
  BY <1>1 DEF Cut, Later
<1>6. r.active \in [DOMAIN r.active -> Edge]
  BY <1>1 DEF Cut
<1>7. r.seq = st.seq /\ DOMAIN r = Fields
  BY DEF Cut
<1>8. Holding(s, r)
  BY <1>1, <1>2, <1>3, <1>4, <1>5, <1>6, <1>7 DEF Whole, Holding, Edges
<1>9. Turnwise(s, r)
  BY SameTurns DEF Cut, Whole
<1> QED BY <1>1, <1>2, <1>7, <1>8, <1>9 DEF Whole

\* Refreshing cuts nothing.
LEMMA RefreshCuts ==
  ASSUME NEW ss, NEW e, NEW n \in Nat, \A x \in DOMAIN ss : Whole(x, ss[x])
  PROVE  /\ DOMAIN RefreshLinked(ss, e, n) = DOMAIN ss
         /\ \A x \in DOMAIN ss : Cut(ss[x], RefreshLinked(ss, e, n)[x], {}, {}, n)
<1> DEFINE r == RefreshLinked(ss, e, n)
<1>1. DOMAIN r = DOMAIN ss
  BY DEF RefreshLinked
<1>2. ASSUME NEW x \in DOMAIN ss PROVE Cut(ss[x], r[x], {}, {}, n)
  <2>0. /\ DOMAIN ss[x] = Fields
        /\ ss[x].active \in [DOMAIN ss[x].active -> Edge]
        /\ ss[x].stopped \in [DOMAIN ss[x].stopped -> Edge]
    BY DEF Whole, Holding, Edges
  <2>1. ss[x].stopped = Without(ss[x].stopped, {})
    BY <2>0 DEF Without
  <2>2. CASE r[x] = ss[x]
    <3>1. \A a \in DOMAIN ss[x].active : Later(ss[x].active[a], ss[x].active[a], n)
      BY <2>0 DEF Later
    <3> HIDE DEF r
    <3> QED BY <2>0, <2>1, <2>2, <3>1 DEF Cut
  <2>3. CASE /\ e.session \in DOMAIN ss[x].active
             /\ r[x] = [ss[x] EXCEPT !.active[e.session].at = n]
    <3> DEFINE old == ss[x].active
               new == [old EXCEPT ![e.session].at = n]
    <3>1. /\ r[x].active = new /\ r[x].stopped = ss[x].stopped /\ DOMAIN r[x] = Fields
          /\ r[x].parent = ss[x].parent /\ r[x].turn = ss[x].turn /\ r[x].open = ss[x].open
          /\ r[x].recent = ss[x].recent /\ r[x].signature = ss[x].signature
          /\ r[x].seq = ss[x].seq /\ r[x].status = ss[x].status
          /\ r[x].source = ss[x].source /\ r[x].floor = ss[x].floor
          /\ r[x].steps = ss[x].steps
      BY <2>0, <2>3 DEF Fields
    <3>2. ASSUME NEW a \in DOMAIN old PROVE Later(old[a], new[a], n)
      <4>1. old[a] \in Edge
        BY <2>0
      <4>2. CASE a = e.session
        <5>1. new[a] = [old[a] EXCEPT !.at = n]
          BY <4>2
        <5> HIDE DEF new, old
        <5> QED BY <4>1, <5>1 DEF Later, Edge
      <4>3. CASE a # e.session
        <5>1. new[a] = old[a]
          BY <4>3
        <5> QED BY <4>1, <5>1 DEF Later
      <4> QED BY <4>2, <4>3
    <3>3. new \in [DOMAIN old \ {} -> Edge]
      <4>1. DOMAIN new = DOMAIN old /\ new = [a \in DOMAIN old |-> new[a]]
        BY <2>3
      <4>2. \A a \in DOMAIN old : new[a] \in Edge
        BY <3>2 DEF Later
      <4> HIDE DEF new
      <4> QED BY <4>1, <4>2
    <3> HIDE DEF r, new
    <3> QED BY <2>1, <3>1, <3>2, <3>3 DEF Cut
  <2>4. r[x] = ss[x] \/ (/\ e.session \in DOMAIN ss[x].active
                         /\ r[x] = [ss[x] EXCEPT !.active[e.session].at = n])
    BY DEF RefreshLinked, ProvenOwners, ActiveOwners
  <2> QED BY <2>2, <2>3, <2>4
<1> QED BY <1>1, <1>2

\* Removing a subtree cuts it off everywhere.
LEMMA RemoveCuts ==
  ASSUME NEW ss, \A x \in DOMAIN ss : Whole(x, ss[x]), NEW S, NEW holder, NEW keep, NEW n
  PROVE  LET r == RemoveSubtree(ss, S, holder, keep) IN
         /\ DOMAIN r = DOMAIN ss \ S
         /\ \A x \in DOMAIN ss \ S :
              Cut(ss[x], r[x], S, IF x = holder THEN S \ {keep} ELSE S, n)
<1> DEFINE r == RemoveSubtree(ss, S, holder, keep)
<1>1. DOMAIN r = DOMAIN ss \ S
  BY DEF RemoveSubtree
<1>2. ASSUME NEW x \in DOMAIN ss \ S
      PROVE  Cut(ss[x], r[x], S, IF x = holder THEN S \ {keep} ELSE S, n)
  <2> DEFINE gone == IF x = holder THEN S \ {keep} ELSE S
  <2>0. DOMAIN ss[x] = Fields /\ ss[x].active \in [DOMAIN ss[x].active -> Edge]
    BY DEF Whole, Holding, Edges
  <2>1. r[x] = [ss[x] EXCEPT !.active = Without(@, S), !.stopped = Without(@, gone)]
    BY DEF RemoveSubtree
  <2> HIDE DEF r, gone
  <2>2. /\ r[x].active = Without(ss[x].active, S) /\ r[x].stopped = Without(ss[x].stopped, gone)
        /\ DOMAIN r[x] = Fields
        /\ r[x].parent = ss[x].parent /\ r[x].turn = ss[x].turn /\ r[x].open = ss[x].open
        /\ r[x].recent = ss[x].recent /\ r[x].signature = ss[x].signature
        /\ r[x].seq = ss[x].seq /\ r[x].status = ss[x].status
        /\ r[x].source = ss[x].source /\ r[x].floor = ss[x].floor
        /\ r[x].steps = ss[x].steps
    BY <2>0, <2>1 DEF Fields
  <2>3. /\ Without(ss[x].active, S) \in [DOMAIN ss[x].active \ S -> Edge]
        /\ \A a \in DOMAIN ss[x].active \ S :
             Later(ss[x].active[a], Without(ss[x].active, S)[a], n)
    BY <2>0 DEF Without, Later
  <2> QED BY <2>2, <2>3 DEF Cut, gone
<1> QED BY <1>1, <1>2

\* Cutting nothing after or before a cut changes nothing.
LEMMA CutTwice ==
  ASSUME NEW a, NEW b, NEW c, NEW A, NEW B, NEW C, NEW D, NEW n,
         Cut(a, b, A, B, n), Cut(b, c, C, D, n)
  PROVE  Cut(a, c, A \cup C, B \cup D, n)
<1>1. DOMAIN b.active = DOMAIN a.active \ A
  BY DEF Cut
<1>2. c.active \in [DOMAIN a.active \ (A \cup C) -> Edge]
  <2>1. DOMAIN b.active \ C = DOMAIN a.active \ (A \cup C)
    BY <1>1
  <2> QED BY <2>1 DEF Cut
<1>3. \A x \in DOMAIN a.active \ (A \cup C) : Later(a.active[x], c.active[x], n)
  BY <1>1 DEF Cut, Later
<1>4. c.stopped = Without(a.stopped, B \cup D)
  <2>1. b.stopped = [x \in DOMAIN a.stopped \ B |-> a.stopped[x]]
    BY DEF Cut, Without
  <2>2. c.stopped = [x \in DOMAIN b.stopped \ D |-> b.stopped[x]]
    BY DEF Cut, Without
  <2>3. DOMAIN b.stopped \ D = DOMAIN a.stopped \ (B \cup D)
    BY <2>1
  <2>4. c.stopped = [x \in DOMAIN a.stopped \ (B \cup D) |-> a.stopped[x]]
    BY <2>1, <2>2, <2>3
  <2> QED BY <2>4 DEF Without
<1> QED BY <1>2, <1>3, <1>4 DEF Cut

\* Edge g is one that turn t gave, at n.
EdgeOf(g, t, n) == g.turn = t /\ g.at = n

\* Session state w is what event e, of number n, leaves of its session's state
\* st: an edge it holds was there, refreshed or not, or is the event's.
Renewed(s, st, w, e, n) ==
  /\ Whole(s, w)
  /\ w.parent = st.parent /\ w.seq = n /\ w.signature = SignatureOf(e)
  /\ \/ w.source = IF e.kind = "SessionStart" THEN e.source ELSE None
     \/ s \in Codex /\ e.kind = "SubagentStop" /\ w.source = st.source
  /\ w.turn \in {None, st.turn, e.turn}
  /\ \A a \in DOMAIN w.active :
       \/ a \in DOMAIN st.active /\ Later(st.active[a], w.active[a], n)
       \/ e.kind = "SubagentStart" /\ a = e.agent /\ EdgeOf(w.active[a], e.turn, n)
  /\ \A a \in DOMAIN w.stopped :
       \/ a \in DOMAIN st.stopped /\ w.stopped[a] = st.stopped[a]
       \/ e.kind = "SubagentStop" /\ a = e.agent /\ a \in Held(st) /\ w.stopped[a].at = n

\* An edge that finds room.
LEMMA AddEdge ==
  ASSUME NEW f, NEW a, NEW g, Edges(f), g \in Edge,
         a \in DOMAIN f \/ Cardinality(DOMAIN f) < MaxActive
  PROVE  Edges(Put(f, a, g))
<1>1. Put(f, a, g) \in [DOMAIN f \cup {a} -> Edge]
  BY DEF Put, Edges
<1>2. Cardinality(DOMAIN f) \in Nat /\ MaxActive \in Nat
  BY FS_CardinalityType, LimitAssumption DEF Edges
<1>3. IsFiniteSet(DOMAIN f \cup {a}) /\ Cardinality(DOMAIN f \cup {a}) <= MaxActive
  <2>1. CASE a \in DOMAIN f
    <3>1. DOMAIN f \cup {a} = DOMAIN f
      BY <2>1
    <3> QED BY <3>1 DEF Edges
  <2>2. CASE a \notin DOMAIN f
    <3>1. /\ IsFiniteSet(DOMAIN f \cup {a})
          /\ Cardinality(DOMAIN f \cup {a}) = Cardinality(DOMAIN f) + 1
      BY <2>2, FS_AddElement DEF Edges
    <3> QED BY <1>2, <2>2, <3>1
  <2> QED BY <2>1, <2>2
<1>4. DOMAIN Put(f, a, g) = DOMAIN f \cup {a}
  BY <1>1
<1> QED BY <1>1, <1>3, <1>4 DEF Edges

\* Taking edges away.
LEMMA DropEdges ==
  ASSUME NEW f, NEW S, Edges(f)
  PROVE  Edges(Without(f, S))
<1>1. MaxActive \in Nat /\ DOMAIN f \ S \subseteq DOMAIN f
  BY LimitAssumption
<1>2. IsFiniteSet(DOMAIN f \ S) /\ Cardinality(DOMAIN f \ S) <= MaxActive
  BY <1>1, PartCounted DEF Edges
<1> QED BY <1>2 DEF Without, Edges

\* The oldest tombstone makes room for another one.
LEMMA EvictMakesRoom ==
  ASSUME NEW f, NEW a, Edges(f)
  PROVE  /\ Edges(Evict(f, a)) /\ DOMAIN Evict(f, a) \subseteq DOMAIN f
         /\ \A x \in DOMAIN Evict(f, a) : Evict(f, a)[x] = f[x]
         /\ a \in DOMAIN Evict(f, a) \/ Cardinality(DOMAIN Evict(f, a)) < MaxActive
<1>1. CASE a \in DOMAIN f \/ Cardinality(DOMAIN f) < MaxActive
  <2>1. Evict(f, a) = f
    BY <1>1 DEF Evict
  <2> QED BY <1>1, <2>1
<1>2. CASE ~(a \in DOMAIN f \/ Cardinality(DOMAIN f) < MaxActive)
  <2> DEFINE o == CHOOSE o \in DOMAIN f : \A x \in DOMAIN f : f[o].seq <= f[x].seq
  <2>1. Cardinality(DOMAIN f) \in Nat /\ MaxActive \in Nat \ {0}
    BY FS_CardinalityType, LimitAssumption DEF Edges
  <2>2. DOMAIN f # {}
    BY <1>2, <2>1, FS_EmptySet
  <2>3. \E y \in DOMAIN f : \A x \in DOMAIN f : f[y].seq <= f[x].seq
    <3> DEFINE T == {f[x].seq : x \in DOMAIN f}
    <3>1. T \subseteq Nat /\ T # {}
      BY <2>2 DEF Edge, Edges
    <3>2. \E k \in T : \A m \in T : k <= m
      <4> HIDE DEF T
      <4> QED BY <3>1, Least
    <3> QED BY <3>2
  <2>4. o \in DOMAIN f
    BY <2>3
  <2>5. Evict(f, a) = Without(f, {o})
    BY <1>2 DEF Evict
  <2> HIDE DEF o
  <2>6. /\ Edges(Without(f, {o})) /\ DOMAIN Without(f, {o}) = DOMAIN f \ {o}
        /\ \A x \in DOMAIN f \ {o} : Without(f, {o})[x] = f[x]
    <3>1. Edges(Without(f, {o}))
      BY DropEdges
    <3> QED BY <3>1 DEF Without
  <2>7. Cardinality(DOMAIN f \ {o}) = Cardinality(DOMAIN f) - 1
    BY <2>4, FS_RemoveElement DEF Edges
  <2>8. Cardinality(DOMAIN f) <= MaxActive
    BY DEF Edges
  <2>9. Cardinality(DOMAIN f \ {o}) < MaxActive
    BY <2>1, <2>7, <2>8
  <2> QED BY <2>5, <2>6, <2>9
<1> QED BY <1>1, <1>2

\* What is cut from a renewed session state leaves it renewed.
LEMMA RenewedCut ==
  ASSUME NEW s, NEW st, NEW q, NEW e, NEW n, Renewed(s, st, q, e, n),
         NEW w, NEW A, NEW B, Cut(q, w, A, B, n)
  PROVE  /\ Renewed(s, st, w, e, n)
         /\ DOMAIN w.active = DOMAIN q.active \ A /\ DOMAIN w.stopped = DOMAIN q.stopped \ B
<1>1. /\ Whole(s, w)
      /\ DOMAIN w.active = DOMAIN q.active \ A /\ DOMAIN w.stopped = DOMAIN q.stopped \ B
      /\ \A a \in DOMAIN w.stopped : w.stopped[a] = q.stopped[a]
  BY WholeCut DEF Renewed
<1>2. /\ w.parent = st.parent /\ w.seq = n /\ w.signature = SignatureOf(e)
      /\ w.source = q.source /\ w.turn = q.turn
  BY DEF Renewed, Cut
<1>3. \A a \in DOMAIN w.active : Later(q.active[a], w.active[a], n)
  BY <1>1 DEF Cut
<1>4. ASSUME NEW a \in DOMAIN w.active
      PROVE  \/ a \in DOMAIN st.active /\ Later(st.active[a], w.active[a], n)
             \/ e.kind = "SubagentStart" /\ a = e.agent /\ EdgeOf(w.active[a], e.turn, n)
  <2>1. Later(q.active[a], w.active[a], n) /\ a \in DOMAIN q.active
    BY <1>1, <1>3
  <2>2. \/ a \in DOMAIN st.active /\ Later(st.active[a], q.active[a], n)
        \/ e.kind = "SubagentStart" /\ a = e.agent /\ EdgeOf(q.active[a], e.turn, n)
    BY <2>1 DEF Renewed
  <2> QED BY <2>1, <2>2 DEF Later, EdgeOf
<1>5. ASSUME NEW a \in DOMAIN w.stopped
      PROVE  \/ a \in DOMAIN st.stopped /\ w.stopped[a] = st.stopped[a]
             \/ e.kind = "SubagentStop" /\ a = e.agent /\ a \in Held(st) /\ w.stopped[a].at = n
  BY <1>1 DEF Renewed
<1> QED BY <1>1, <1>2, <1>4, <1>5 DEF Renewed

------------------------------------------------------------------------------
(* Every kind of event renews the state of its session. *)

\* Session s holds what it held, or nothing.
LEMMA HeldOn ==
  ASSUME NEW s, NEW st, NEW r, NEW n \in Nat, st.seq \in Nat, st.seq < n, r.seq = n,
         Holding(s, st),
         \/ r.active = st.active /\ r.stopped = st.stopped
         \/ r.active = Empty /\ r.stopped = Empty
  PROVE  Holding(s, r)
<1>1. CASE r.active = st.active /\ r.stopped = st.stopped
  <2>1. \A k \in 1..st.seq : k \in 1..n
    OBVIOUS
  <2>2. /\ \A a \in DOMAIN r.active : r.active[a].seq \in 1..r.seq
        /\ \A a \in DOMAIN r.stopped : r.stopped[a].seq \in 1..r.seq
    BY <1>1, <2>1 DEF Holding
  <2>3. Held(r) = Held(st)
    BY <1>1 DEF Held
  <2> QED BY <1>1, <2>2, <2>3 DEF Holding
<1>2. CASE r.active = Empty /\ r.stopped = Empty
  <2>1. DOMAIN Empty = {} /\ Empty \in [{} -> Edge]
    BY DEF Empty
  <2>2. IsFiniteSet({}) /\ Cardinality({}) <= MaxActive
    BY FS_EmptySet, LimitAssumption
  <2>3. Held(r) = {}
    BY <1>2, <2>1 DEF Held
  <2> QED BY <1>2, <2>1, <2>2, <2>3 DEF Holding, Edges
<1> QED BY <1>1, <1>2

\* What event e does to the known or new state of its session, SessionStart.
Started(st, e, n) ==
  Accept([(IF e.source # "compact" THEN ClearTransient(st) ELSE st)
            EXCEPT !.source = e.source], e, n)

\* A session start renews the state of its session.
LEMMA StartRenews ==
  ASSUME NEW e, Told(e), e.kind = "SessionStart", NEW s, s = e.session,
         NEW st, NEW n \in Nat, Whole(s, st), st.seq < n
  PROVE  /\ Renewed(s, st, Started(st, e, n), e, n)
         /\ IF e.source # "compact" THEN Held(Started(st, e, n)) = {}
            ELSE /\ Started(st, e, n).active = st.active
                 /\ Started(st, e, n).stopped = st.stopped
<1> DEFINE cleared == IF e.source # "compact" THEN ClearTransient(st) ELSE st
           sourced == [cleared EXCEPT !.source = e.source]
           q == Accept(sourced, e, n)
<1>0. DOMAIN st = Fields /\ Turnwise(s, st) /\ Holding(s, st) /\ st.seq \in Nat
  BY DEF Whole
<1>1. DOMAIN Empty = {}
  BY DEF Empty
<1>2. /\ DOMAIN cleared = Fields /\ Turnwise(s, cleared) /\ cleared.parent = st.parent
      /\ cleared.turn \in {None, st.turn}
      /\ IF e.source # "compact" THEN cleared.active = Empty /\ cleared.stopped = Empty
         ELSE cleared.active = st.active /\ cleared.stopped = st.stopped
  <2>1. CASE e.source # "compact"
    <3>1. /\ DOMAIN ClearTransient(st) = Fields /\ ClearTransient(st).parent = st.parent
          /\ ClearTransient(st).turn = None
          /\ ClearTransient(st).active = Empty /\ ClearTransient(st).stopped = Empty
      BY <1>0 DEF ClearTransient, Fields
    <3>2. Turnwise(s, ClearTransient(st))
      BY <1>0, ClearedTurns
    <3> QED BY <2>1, <3>1, <3>2
  <2>2. CASE ~(e.source # "compact")
    BY <1>0, <2>2
  <2> QED BY <2>1, <2>2
<1> HIDE DEF cleared
<1>3. /\ DOMAIN q = Fields /\ q.parent = st.parent /\ q.seq = n
      /\ q.signature = SignatureOf(e) /\ q.source = e.source
      /\ q.turn = cleared.turn /\ q.open = cleared.open /\ q.recent = cleared.recent
      /\ q.floor = cleared.floor /\ q.steps = cleared.steps
      /\ q.active = cleared.active /\ q.stopped = cleared.stopped
  BY <1>2 DEF Accept, Fields
<1>4. Started(st, e, n) = q
  BY DEF Started, cleared
<1> HIDE DEF q
<1>5. Turnwise(s, q)
  BY <1>2, <1>3, SameTurns
<1>6. Holding(s, q)
  BY <1>0, <1>2, <1>3, HeldOn
<1>7. /\ \A a \in DOMAIN q.active : a \in DOMAIN st.active /\ Later(st.active[a], q.active[a], n)
      /\ \A a \in DOMAIN q.stopped : a \in DOMAIN st.stopped /\ q.stopped[a] = st.stopped[a]
  <2>1. \A a \in DOMAIN st.active : Later(st.active[a], st.active[a], n)
    BY <1>0 DEF Holding, Edges, Later
  <2> QED BY <1>1, <1>2, <1>3, <2>1
<1>8. Renewed(s, st, q, e, n)
  BY <1>2, <1>3, <1>5, <1>6, <1>7 DEF Renewed, Whole
<1> QED BY <1>1, <1>2, <1>3, <1>4, <1>8 DEF Held

\* SubagentStart, Codex.
Begins(st, e, n) ==
  Accept([[st EXCEPT !.stopped = Without(@, {e.agent})]
            EXCEPT !.source = None, !.status = "Processing",
                   !.active = Put(@, e.agent, [turn |-> e.turn, seq |-> n, at |-> n])], e, n)

\* So does the start of a Codex agent.
LEMMA BeginRenews ==
  ASSUME NEW e, Told(e), e.kind = "SubagentStart", NEW s, s = e.session, s \in Codex,
         NEW st, NEW n \in Nat, Whole(s, st), st.seq < n,
         e.agent \notin DOMAIN st.active, Cardinality(DOMAIN st.active) < MaxActive
  PROVE  /\ Renewed(s, st, Begins(st, e, n), e, n)
         /\ DOMAIN Begins(st, e, n).active = DOMAIN st.active \cup {e.agent}
         /\ DOMAIN Begins(st, e, n).stopped = DOMAIN st.stopped \ {e.agent}
<1> DEFINE edge == [turn |-> e.turn, seq |-> n, at |-> n]
           buried == [st EXCEPT !.stopped = Without(@, {e.agent})]
           running == [buried EXCEPT !.source = None, !.status = "Processing",
                                     !.active = Put(@, e.agent, edge)]
           q == Accept(running, e, n)
<1>0. DOMAIN st = Fields /\ Turnwise(s, st) /\ Holding(s, st) /\ st.seq \in Nat
  BY DEF Whole
<1>1. edge \in Edge /\ edge.at = n /\ edge.seq = n /\ EdgeOf(edge, e.turn, n)
  BY DEF Told, Edge, EdgeOf
<1> HIDE DEF edge
<1>2. /\ DOMAIN q = Fields /\ q.parent = st.parent /\ q.seq = n
      /\ q.signature = SignatureOf(e) /\ q.source = None
      /\ q.turn = st.turn /\ q.open = st.open /\ q.recent = st.recent
      /\ q.floor = st.floor /\ q.steps = st.steps
      /\ q.active = Put(st.active, e.agent, edge)
      /\ q.stopped = Without(st.stopped, {e.agent})
  BY <1>0 DEF Accept, Fields
<1>3. Begins(st, e, n) = q
  BY DEF Begins, edge
<1> HIDE DEF q
<1>4. /\ Edges(q.active) /\ DOMAIN q.active = DOMAIN st.active \cup {e.agent}
      /\ q.active[e.agent] = edge
      /\ \A x \in DOMAIN st.active \ {e.agent} : q.active[x] = st.active[x]
  <2>1. Edges(st.active)
    BY <1>0 DEF Holding
  <2> DEFINE f == st.active
             g == Put(f, e.agent, edge)
  <2>2. Edges(f) /\ (e.agent \in DOMAIN f \/ Cardinality(DOMAIN f) < MaxActive)
    BY <2>1
  <2> HIDE DEF f
  <2>3. /\ Edges(g) /\ DOMAIN g = DOMAIN f \cup {e.agent}
        /\ g[e.agent] = edge /\ \A x \in DOMAIN f \ {e.agent} : g[x] = f[x]
    <3>1. Edges(g)
      BY <1>1, <2>2, AddEdge
    <3> QED BY <3>1 DEF Put
  <2>4. q.active = g
    BY <1>2 DEF f
  <2> HIDE DEF g
  <2> QED BY <2>3, <2>4 DEF f
<1>5. /\ Edges(q.stopped) /\ DOMAIN q.stopped = DOMAIN st.stopped \ {e.agent}
      /\ \A x \in DOMAIN st.stopped \ {e.agent} : q.stopped[x] = st.stopped[x]
  <2>1. Edges(st.stopped)
    BY <1>0 DEF Holding
  <2> DEFINE f == st.stopped
             g == Without(f, {e.agent})
  <2>2. Edges(f)
    BY <2>1
  <2> HIDE DEF f
  <2>3. /\ Edges(g) /\ DOMAIN g = DOMAIN f \ {e.agent}
        /\ \A x \in DOMAIN f \ {e.agent} : g[x] = f[x]
    <3>1. Edges(g)
      BY <2>2, DropEdges
    <3> QED BY <3>1 DEF Without
  <2>4. q.stopped = g
    BY <1>2 DEF f
  <2> HIDE DEF g
  <2> QED BY <2>3, <2>4 DEF f
<1>7. Turnwise(s, q)
  BY <1>0, <1>2, SameTurns
<1>8. e.agent \in Kin(s) /\ e.agent # s
  BY DEF Told
<1>9. Holding(s, q)
  <2>1. \A k \in 1..st.seq : k \in 1..n
    BY <1>0
  <2>2. n \in 1..n
    BY <1>0
  <2>3. \A a \in DOMAIN q.active : q.active[a].seq \in 1..q.seq
    BY <1>0, <1>1, <1>2, <1>4, <2>1, <2>2 DEF Holding
  <2>4. \A a \in DOMAIN q.stopped : q.stopped[a].seq \in 1..q.seq
    BY <1>0, <1>2, <1>5, <2>1 DEF Holding
  <2>5. /\ Held(q) \subseteq Kin(s) /\ s \notin Held(q)
        /\ DOMAIN q.active \cap DOMAIN q.stopped = {}
    BY <1>0, <1>4, <1>5, <1>8 DEF Holding, Held
  <2> QED BY <1>4, <1>5, <2>3, <2>4, <2>5 DEF Holding
<1>10. /\ \A a \in DOMAIN q.active :
            \/ a \in DOMAIN st.active /\ Later(st.active[a], q.active[a], n)
            \/ a = e.agent /\ EdgeOf(q.active[a], e.turn, n)
       /\ \A a \in DOMAIN q.stopped : a \in DOMAIN st.stopped /\ q.stopped[a] = st.stopped[a]
  <2>1. \A a \in DOMAIN st.active : Later(st.active[a], st.active[a], n)
    BY <1>0 DEF Holding, Edges, Later
  <2> QED BY <1>1, <1>4, <1>5, <2>1
<1>11. Renewed(s, st, q, e, n)
  BY <1>0, <1>2, <1>7, <1>9, <1>10 DEF Renewed, Whole
<1> QED BY <1>3, <1>4, <1>5, <1>11

\* SubagentStop, Codex.
Ends(st, e, n) ==
  Accept([st EXCEPT !.active = Without(@, {e.agent}),
                    !.stopped = Put(Evict(@, e.agent), e.agent,
                                    [turn |-> e.turn, seq |-> n, at |-> n])], e, n)

\* And its stop.
LEMMA EndRenews ==
  ASSUME NEW e, Told(e), e.kind = "SubagentStop", NEW s, s = e.session, s \in Codex,
         NEW st, NEW n \in Nat, Whole(s, st), st.seq < n, e.agent \in Held(st)
  PROVE  /\ Renewed(s, st, Ends(st, e, n), e, n)
         /\ DOMAIN Ends(st, e, n).active = DOMAIN st.active \ {e.agent}
         /\ Ends(st, e, n).source = st.source
<1> DEFINE edge == [turn |-> e.turn, seq |-> n, at |-> n]
           room == Evict(st.stopped, e.agent)
           halted == [st EXCEPT !.active = Without(@, {e.agent}),
                                !.stopped = Put(Evict(@, e.agent), e.agent, edge)]
           q == Accept(halted, e, n)
<1>0. DOMAIN st = Fields /\ Turnwise(s, st) /\ Holding(s, st) /\ st.seq \in Nat
  BY DEF Whole
<1>1. edge \in Edge /\ edge.at = n /\ edge.seq = n
  BY DEF Told, Edge
<1> HIDE DEF edge
<1>2. /\ DOMAIN q = Fields /\ q.parent = st.parent /\ q.seq = n
      /\ q.signature = SignatureOf(e) /\ q.source = st.source
      /\ q.turn = st.turn /\ q.open = st.open /\ q.recent = st.recent
      /\ q.floor = st.floor /\ q.steps = st.steps
      /\ q.active = Without(st.active, {e.agent})
      /\ q.stopped = Put(room, e.agent, edge)
  BY <1>0 DEF Accept, Fields
<1>3. Ends(st, e, n) = q
  BY DEF Ends, edge
<1> HIDE DEF q
<1>4. /\ Edges(room) /\ DOMAIN room \subseteq DOMAIN st.stopped
      /\ \A x \in DOMAIN room : room[x] = st.stopped[x]
      /\ e.agent \in DOMAIN room \/ Cardinality(DOMAIN room) < MaxActive
  <2>1. Edges(st.stopped)
    BY <1>0 DEF Holding
  <2> QED BY <2>1, EvictMakesRoom
<1> HIDE DEF room
<1>5. /\ Edges(q.stopped) /\ DOMAIN q.stopped = DOMAIN room \cup {e.agent}
      /\ q.stopped[e.agent] = edge
      /\ \A x \in DOMAIN room \ {e.agent} : q.stopped[x] = room[x]
  <2> DEFINE g == Put(room, e.agent, edge)
  <2>1. /\ Edges(g) /\ DOMAIN g = DOMAIN room \cup {e.agent}
        /\ g[e.agent] = edge /\ \A x \in DOMAIN room \ {e.agent} : g[x] = room[x]
    <3>1. Edges(g)
      BY <1>1, <1>4, AddEdge
    <3> QED BY <3>1 DEF Put
  <2>2. q.stopped = g
    BY <1>2
  <2> HIDE DEF g
  <2> QED BY <2>1, <2>2
<1>6. /\ Edges(q.active) /\ DOMAIN q.active = DOMAIN st.active \ {e.agent}
      /\ \A x \in DOMAIN st.active \ {e.agent} : q.active[x] = st.active[x]
  <2>1. Edges(st.active)
    BY <1>0 DEF Holding
  <2> DEFINE f == st.active
             g == Without(f, {e.agent})
  <2>2. Edges(f)
    BY <2>1
  <2> HIDE DEF f
  <2>3. /\ Edges(g) /\ DOMAIN g = DOMAIN f \ {e.agent}
        /\ \A x \in DOMAIN f \ {e.agent} : g[x] = f[x]
    <3>1. Edges(g)
      BY <2>2, DropEdges
    <3> QED BY <3>1 DEF Without
  <2>4. q.active = g
    BY <1>2 DEF f
  <2> HIDE DEF g
  <2> QED BY <2>3, <2>4 DEF f
<1>8. Turnwise(s, q)
  BY <1>0, <1>2, SameTurns
<1>9. Holding(s, q)
  <2>1. \A k \in 1..st.seq : k \in 1..n
    BY <1>0
  <2>2. n \in 1..n
    BY <1>0
  <2>3. \A a \in DOMAIN q.stopped : q.stopped[a].seq \in 1..q.seq
    BY <1>0, <1>1, <1>2, <1>4, <1>5, <2>1, <2>2 DEF Holding
  <2>4. \A a \in DOMAIN q.active : q.active[a].seq \in 1..q.seq
    BY <1>0, <1>2, <1>6, <2>1 DEF Holding
  <2>5. /\ Held(q) \subseteq Held(st) /\ DOMAIN q.active \cap DOMAIN q.stopped = {}
    BY <1>0, <1>4, <1>5, <1>6 DEF Holding, Held
  <2> QED BY <1>0, <1>5, <1>6, <2>3, <2>4, <2>5 DEF Holding
<1>10. /\ \A a \in DOMAIN q.stopped :
            \/ a \in DOMAIN st.stopped /\ q.stopped[a] = st.stopped[a]
            \/ a = e.agent /\ a \in Held(st) /\ q.stopped[a].at = n
       /\ \A a \in DOMAIN q.active : a \in DOMAIN st.active /\ Later(st.active[a], q.active[a], n)
  <2>1. \A a \in DOMAIN st.active : Later(st.active[a], st.active[a], n)
    BY <1>0 DEF Holding, Edges, Later
  <2> QED BY <1>1, <1>4, <1>5, <1>6, <2>1
<1>11. Renewed(s, st, q, e, n)
  BY <1>0, <1>2, <1>8, <1>9, <1>10 DEF Renewed, Whole
<1> QED BY <1>2, <1>3, <1>6, <1>11

\* Every other event.
LEMMA TurnRenews ==
  ASSUME NEW e, Told(e), e.kind # "SessionStart", NEW s, s = e.session,
         s \in Codex => e.kind \notin {"SubagentStart", "SubagentStop"},
         NEW st, NEW n \in Nat, Whole(s, st), st.seq < n,
         NotRecent(st, e), IF IsStep(e) THEN AcceptsStep(st, e) ELSE AcceptsTurn(st, e),
         e.kind = "SubagentStart" => /\ e.agent \notin DOMAIN st.active
                                     /\ Cardinality(DOMAIN st.active) < MaxActive
  PROVE  /\ Renewed(s, st, Done(st, e, n), e, n)
         /\ e.kind = "Stop" => Held(Done(st, e, n)) = {}
         /\ s \in Codex /\ e.kind # "Stop" => DOMAIN Done(st, e, n).active = DOMAIN st.active
<1> DEFINE q == Done(st, e, n)
           edge == [turn |-> e.turn, seq |-> n, at |-> n]
<1>0. /\ DOMAIN st = Fields /\ Turnwise(s, st) /\ Holding(s, st) /\ st.seq \in Nat
      /\ Edges(st.active) /\ Edges(st.stopped)
  BY DEF Whole, Holding
<1>1. edge \in Edge /\ edge.at = n /\ edge.seq = n /\ EdgeOf(edge, e.turn, n)
  BY DEF Told, Edge, EdgeOf
<1> HIDE DEF edge
<1>2. Turnwise(s, q)
  BY <1>0, DoneTurns
<1>3. e.kind \in Kind \ {"SessionStart"}
  BY DEF Told
<1>4. HasHeard(q, st, e, n)
  BY <1>0, <1>3, DoneIs
<1> HIDE DEF q
<1>5. /\ DOMAIN q = Fields /\ q.parent = st.parent /\ q.seq = n
      /\ q.signature = SignatureOf(e) /\ q.source = None /\ q.turn \in {st.turn, e.turn}
  BY <1>4 DEF HasHeard
<1>6. DOMAIN Empty = {}
  BY DEF Empty
<1>7. \A k \in 1..st.seq : k \in 1..n
  BY <1>0
<1>8. \A a \in DOMAIN st.active : Later(st.active[a], st.active[a], n)
  BY <1>0 DEF Edges, Later
<1>9. e.agent \in Kin(s) \/ e.kind \notin {"SubagentStart", "SubagentStop"}
  BY DEF Told
<1> DEFINE Renews == /\ Holding(s, q)
                     /\ \A a \in DOMAIN q.active :
                          \/ a \in DOMAIN st.active /\ Later(st.active[a], q.active[a], n)
                          \/ e.kind = "SubagentStart" /\ a = e.agent /\ EdgeOf(q.active[a], e.turn, n)
                     /\ \A a \in DOMAIN q.stopped :
                          a \in DOMAIN st.stopped /\ q.stopped[a] = st.stopped[a]
<1>10. CASE e.kind = "Stop"
  <2>1. q.active = Empty /\ q.stopped = Empty
    BY <1>4, <1>10 DEF HasHeard
  <2>2. Held(q) = {}
    BY <1>6, <2>1 DEF Held
  <2>3. Holding(s, q)
    BY <1>0, <1>5, <2>1, HeldOn
  <2>4. Renews
    BY <1>6, <2>1, <2>3
  <2> QED BY <1>2, <1>5, <1>10, <2>2, <2>4 DEF Renewed, Whole, q
<1>11. CASE e.kind = "SubagentStart"
  <2>1. s \notin Codex
    BY <1>11
  <2>2. q.active = Put(st.active, e.agent, edge) /\ q.stopped = Without(st.stopped, {e.agent})
    BY <1>4, <1>11 DEF HasHeard, edge
  <2>3. Edges(q.active)
    BY <1>0, <1>1, <1>11, <2>2, AddEdge
  <2>4. Edges(q.stopped)
    BY <1>0, <2>2, DropEdges
  <2>5. /\ DOMAIN q.active = DOMAIN st.active \cup {e.agent} /\ q.active[e.agent] = edge
        /\ \A a \in DOMAIN st.active \ {e.agent} : q.active[a] = st.active[a]
        /\ DOMAIN q.stopped = DOMAIN st.stopped \ {e.agent}
        /\ \A a \in DOMAIN q.stopped : q.stopped[a] = st.stopped[a]
    BY <2>2 DEF Put, Without
  <2>6. n \in 1..n
    BY <1>0
  <2>7. /\ \A a \in DOMAIN q.active : q.active[a].seq \in 1..q.seq
        /\ \A a \in DOMAIN q.stopped : q.stopped[a].seq \in 1..q.seq
    BY <1>0, <1>1, <1>5, <1>7, <2>5, <2>6 DEF Holding
  <2>8. Held(q) \subseteq Kin(s) /\ DOMAIN q.active \cap DOMAIN q.stopped = {}
    BY <1>0, <1>9, <1>11, <2>5 DEF Holding, Held
  <2>9. DOMAIN q.stopped = {}
    BY <1>0, <2>1, <2>5 DEF Holding
  <2>10. Holding(s, q)
    BY <2>1, <2>3, <2>4, <2>7, <2>8, <2>9 DEF Holding
  <2>11. Renews
    BY <1>1, <1>8, <1>11, <2>5, <2>10
  <2> QED BY <1>2, <1>5, <1>11, <2>1, <2>11 DEF Renewed, Whole, q
<1>12. CASE e.kind = "SubagentStop"
  <2>1. s \notin Codex
    BY <1>12
  <2>2. q.active = Without(st.active, {e.agent}) /\ q.stopped = st.stopped
    BY <1>4, <1>12 DEF HasHeard
  <2>3. Edges(q.active)
    BY <1>0, <2>2, DropEdges
  <2>5. /\ DOMAIN q.active = DOMAIN st.active \ {e.agent}
        /\ \A a \in DOMAIN q.active : q.active[a] = st.active[a]
    BY <2>2 DEF Without
  <2>7. /\ \A a \in DOMAIN q.active : q.active[a].seq \in 1..q.seq
        /\ \A a \in DOMAIN q.stopped : q.stopped[a].seq \in 1..q.seq
    BY <1>0, <1>5, <1>7, <2>2, <2>5 DEF Holding
  <2>8. Held(q) \subseteq Kin(s) /\ DOMAIN q.active \cap DOMAIN q.stopped = {}
    BY <1>0, <2>2, <2>5 DEF Holding, Held
  <2>10. Holding(s, q)
    BY <1>0, <2>1, <2>2, <2>3, <2>7, <2>8 DEF Holding
  <2>11. Renews
    BY <1>8, <2>2, <2>5, <2>10
  <2> QED BY <1>2, <1>5, <1>12, <2>1, <2>11 DEF Renewed, Whole, q
<1>13. CASE e.kind \notin {"Stop", "SubagentStart", "SubagentStop"}
  <2>1. q.active = st.active /\ q.stopped = st.stopped
    BY <1>4, <1>13 DEF HasHeard
  <2>2. Holding(s, q)
    BY <1>0, <1>5, <2>1, HeldOn
  <2>3. Renews
    BY <1>8, <2>1, <2>2
  <2> QED BY <1>2, <1>5, <1>13, <2>1, <2>3, <1>3 DEF Renewed, Whole, q
<1> QED BY <1>10, <1>11, <1>12, <1>13

------------------------------------------------------------------------------
(* The sessions together. *)

\* A linked session runs below the provider session that holds it, in the turn
\* it is held for, and holds nothing itself: links and agents are one level.
Linkage(ss) ==
  \A x \in DOMAIN ss : ss[x].parent # None =>
    LET p == ss[x].parent
    IN  /\ {x, p} \subseteq Codex /\ p \in DOMAIN ss /\ ss[p].parent = None
        /\ x \in DOMAIN ss[p].active /\ ss[x].turn \in {None, ss[p].active[x].turn}
        /\ Held(ss[x]) = {}

\* No two sessions hold the same agent.
Apart(ss) == \A x, y \in DOMAIN ss : x # y => Held(ss[x]) \cap Held(ss[y]) = {}

\* Codex sessions rank below the agents they hold: nobody is below itself.
RanksOf(ss, rank) == \A x \in DOMAIN ss \cap Codex : \A y \in Held(ss[x]) : rank[x] < rank[y]
Ranked(ss) == \E rank \in [Session -> Nat] : RanksOf(ss, rank)

Sound(sn) ==
  /\ sn.next \in Nat \ {0}
  /\ IsFiniteSet(DOMAIN sn.sessions) /\ DOMAIN sn.sessions \subseteq Session
  /\ \A x \in DOMAIN sn.sessions : Whole(x, sn.sessions[x]) /\ sn.sessions[x].seq < sn.next
  /\ Linkage(sn.sessions) /\ Apart(sn.sessions) /\ Ranked(sn.sessions)

\* The state of the event's session is whole, whether or not it is known.
LEMMA StateWhole ==
  ASSUME NEW sn, Sound(sn), NEW e
  PROVE  /\ Whole(e.session, State(sn, e)) /\ State(sn, e).seq < sn.next
         /\ e.session \notin DOMAIN sn.sessions =>
              /\ Held(State(sn, e)) = {} /\ State(sn, e).parent = e.parent
              /\ State(sn, e).turn = None /\ State(sn, e).source = None
<1>1. CASE e.session \in DOMAIN sn.sessions
  BY <1>1 DEF Sound, State
<1>2. CASE e.session \notin DOMAIN sn.sessions
  <2> DEFINE st == NewSession(e)
             s == e.session
  <2>1. State(sn, e) = st
    BY <1>2 DEF State
  <2>2. Turnwise(s, st)
    BY NewTurns
  <2>3. /\ DOMAIN st = Fields /\ st.seq = 0 /\ st.parent = e.parent
        /\ st.active = Empty /\ st.stopped = Empty /\ st.turn = None /\ st.source = None
    BY DEF NewSession, Fields
  <2> HIDE DEF st, s
  <2>4. DOMAIN Empty = {} /\ Empty \in [{} -> Edge]
    BY DEF Empty
  <2>5. IsFiniteSet({}) /\ Cardinality({}) <= MaxActive
    BY FS_EmptySet, LimitAssumption
  <2>6. Held(st) = {}
    BY <2>3, <2>4 DEF Held
  <2>7. Edges(Empty)
    BY <2>4, <2>5 DEF Edges
  <2>8. Holding(s, st)
    BY <2>3, <2>4, <2>6, <2>7 DEF Holding
  <2>9. Whole(s, st)
    BY <2>2, <2>3, <2>8 DEF Whole
  <2>10. st.seq < sn.next
    BY <2>3 DEF Sound
  <2> QED BY <2>1, <2>3, <2>6, <2>9, <2>10 DEF s
<1> QED BY <1>1, <1>2

\* A session that holds something descends from itself only.
LEMMA HolderIsTop ==
  ASSUME NEW sn, Sound(sn), NEW o \in DOMAIN sn.sessions, NEW p,
         Held(sn.sessions[o]) # {} \/ sn.sessions[o].parent = None
  PROVE  /\ sn.sessions[o].parent = None
         /\ Descends(sn.sessions, o, p) => o = p
         /\ o = p => Descends(sn.sessions, o, p)
<1> DEFINE ss == sn.sessions
<1>1. ss[o].parent = None
  BY DEF Sound, Linkage
<1>2. None \notin DOMAIN ss /\ IsFiniteSet(DOMAIN ss)
  BY ProviderAssumption DEF Sound
<1> HIDE DEF ss
<1>3. o \in DOMAIN ss
  BY DEF ss
<1>4. Descends(ss, o, p) <=> p \in DOMAIN ss /\ o = p
  BY <1>1, <1>2, DescendsFromItself
<1> QED BY <1>1, <1>3, <1>4 DEF ss

\* The owner that proves a linked event is the provider session it names.
LEMMA LinkedOwner ==
  ASSUME NEW sn, Sound(sn), NEW e, Told(e), Linked(sn, e), e.parent # None
  PROVE  LET ss == sn.sessions  p == e.parent IN
         /\ e.session \in Codex /\ p \in DOMAIN ss \cap Codex /\ ss[p].parent = None
         /\ p # e.session
         /\ e.session \in DOMAIN ss[p].active /\ ss[p].active[e.session].turn = e.turn
         /\ State(sn, e).parent = p /\ Held(State(sn, e)) = {}
         /\ State(sn, e).turn \in {None, e.turn}
<1> DEFINE ss == sn.sessions
           p == e.parent
<1>1. e.session \in Codex /\ p \in Codex /\ p # e.session
  BY DEF Told
<1>2. PICK o \in ProvenOwners(ss, p, e.session) : ss[o].active[e.session].turn = e.turn
  BY <1>1 DEF Linked
<1>3. /\ o \in DOMAIN ss /\ e.session \in DOMAIN ss[o].active
      /\ p \in DOMAIN ss /\ ss[p].parent = None /\ Descends(ss, o, p)
  BY <1>2 DEF ProvenOwners, ActiveOwners, TopologyContains
<1>4. o = p
  <2>1. Held(ss[o]) # {}
    BY <1>3 DEF Held
  <2>2. Descends(ss, o, p) => o = p
    BY <1>3, <2>1, HolderIsTop
  <2> QED BY <1>3, <2>2
<1>5. /\ State(sn, e).parent = p /\ Held(State(sn, e)) = {}
      /\ State(sn, e).turn \in {None, e.turn}
  <2>1. CASE e.session \in DOMAIN ss
    <3>1. State(sn, e) = ss[e.session] /\ ss[e.session].parent = p
      BY <1>1, <2>1 DEF State, Linked
    <3>2. Held(ss[e.session]) = {} /\ ss[e.session].turn \in {None, ss[p].active[e.session].turn}
      BY <2>1, <3>1 DEF Sound, Linkage
    <3> QED BY <1>2, <1>4, <3>1, <3>2
  <2>2. CASE e.session \notin DOMAIN ss
    BY <2>2, StateWhole
  <2> QED BY <2>1, <2>2
<1> QED BY <1>1, <1>2, <1>3, <1>4, <1>5

\* A Codex agent that starts has no session: whoever has one is active already.
LEMMA StartsUnknown ==
  ASSUME NEW sn, Sound(sn), NEW e, Told(e), e.session \in Codex, e.kind = "SubagentStart",
         AcceptsCodexStart(sn, e)
  PROVE  e.agent \notin DOMAIN sn.sessions
<1> DEFINE ss == sn.sessions
<1> SUFFICES ASSUME e.agent \in DOMAIN ss PROVE FALSE
  OBVIOUS
<1> DEFINE p == ss[e.agent].parent
<1>1. p # None
  BY DEF AcceptsCodexStart, ClaimsAgent
<1>2. p \in DOMAIN ss /\ p \in Codex /\ e.agent \in Codex /\ e.agent \in DOMAIN ss[p].active
  BY <1>1 DEF Sound, Linkage
<1>3. p \in ActiveOwners(ss, e.agent)
  BY <1>2 DEF ActiveOwners, Kin
<1>4. p = e.session
  BY <1>3 DEF AcceptsCodexStart, ActiveElsewhere
<1>5. e.agent \in DOMAIN State(sn, e).active
  BY <1>2, <1>4 DEF State
<1> QED BY <1>5 DEF AcceptsCodexStart

\* Snapshot sessions r are what event e leaves: the sessions in R go, the
\* others are cut, that of the event is renewed and keeps whom it links.
Hearing(sn, r, e, R) ==
  /\ R \subseteq Session \ {e.session}
  /\ DOMAIN r = (DOMAIN sn.sessions \cup {e.session}) \ R
  /\ \A x \in DOMAIN r \ {e.session} :
       \E B : /\ Cut(sn.sessions[x], r[x], R, B, sn.next)
              /\ {e.session, x} \subseteq Codex /\ e.kind = "SubagentStart" => e.agent \in B
  /\ Renewed(e.session, State(sn, e), r[e.session], e, sn.next)
  /\ \A x \in DOMAIN sn.sessions \ (R \cup {e.session}) :
       sn.sessions[x].parent # None =>
         /\ sn.sessions[x].parent \notin R
         /\ sn.sessions[x].parent = e.session => x \in DOMAIN r[e.session].active
  /\ e.parent # None => R = {}

\* An agent somebody starts is nobody's.
LEMMA StartsFree ==
  ASSUME NEW sn, Sound(sn), NEW e, Told(e), Accepts(sn, e), e.kind = "SubagentStart",
         NEW r, NEW R, Hearing(sn, r, e, R), NEW x \in DOMAIN r \ {e.session}
  PROVE  e.agent \notin Held(r[x])
<1> DEFINE ss == sn.sessions
<1>1. PICK B : /\ Cut(ss[x], r[x], R, B, sn.next)
               /\ {e.session, x} \subseteq Codex => e.agent \in B
  BY DEF Hearing
<1>2. x \in DOMAIN ss /\ Whole(x, ss[x]) /\ x \in Session
  BY DEF Hearing, Sound
<1>3. DOMAIN r[x].active \subseteq DOMAIN ss[x].active /\ DOMAIN r[x].stopped = DOMAIN ss[x].stopped \ B
  BY <1>1, <1>2, WholeCut
<1> SUFFICES ASSUME e.agent \in Held(r[x]) PROVE FALSE
  OBVIOUS
<1>4. e.agent \in Kin(x) /\ e.agent \in Kin(e.session)
  BY <1>2, <1>3 DEF Held, Whole, Holding, Told
<1>5. x \in Kin(e.session) /\ (x \in Codex <=> e.session \in Codex)
  BY <1>2, <1>4, ProviderAssumption DEF Kin
<1>6. ~ActiveElsewhere(sn, e)
  BY DEF Accepts, AcceptsCodexStart, AcceptsTurnEvent, AcceptsAgent
<1>7. e.agent \notin DOMAIN ss[x].active
  <2>1. Kin(e.agent) = Kin(e.session)
    BY <1>4, ProviderAssumption DEF Kin
  <2> QED BY <1>2, <1>5, <1>6, <2>1 DEF ActiveElsewhere, ActiveOwners
<1>8. e.agent \in DOMAIN ss[x].stopped /\ e.agent \notin B
  BY <1>3, <1>7 DEF Held
<1>9. x \in Codex
  BY <1>2, <1>8 DEF Whole, Holding
<1> QED BY <1>1, <1>5, <1>8, <1>9

\* What the sessions hold after the event.
LEMMA HeldAfter ==
  ASSUME NEW sn, Sound(sn), NEW e, NEW r, NEW R, Hearing(sn, r, e, R)
  PROVE  /\ \A x \in DOMAIN r \ {e.session} :
              /\ x \in DOMAIN sn.sessions /\ Whole(x, r[x])
              /\ r[x].seq = sn.sessions[x].seq /\ r[x].parent = sn.sessions[x].parent
              /\ r[x].turn = sn.sessions[x].turn
              /\ DOMAIN r[x].active = DOMAIN sn.sessions[x].active \ R
              /\ Held(r[x]) \subseteq Held(sn.sessions[x])
              /\ \A a \in DOMAIN r[x].active :
                   Later(sn.sessions[x].active[a], r[x].active[a], sn.next)
              /\ \A a \in DOMAIN r[x].stopped :
                   /\ a \in DOMAIN sn.sessions[x].stopped
                   /\ r[x].stopped[a] = sn.sessions[x].stopped[a]
         /\ Held(r[e.session]) \subseteq
              Held(State(sn, e)) \cup (IF e.kind = "SubagentStart" THEN {e.agent} ELSE {})
<1>1. ASSUME NEW x \in DOMAIN r \ {e.session}
      PROVE  /\ x \in DOMAIN sn.sessions /\ Whole(x, r[x])
             /\ r[x].seq = sn.sessions[x].seq /\ r[x].parent = sn.sessions[x].parent
             /\ r[x].turn = sn.sessions[x].turn
             /\ DOMAIN r[x].active = DOMAIN sn.sessions[x].active \ R
             /\ Held(r[x]) \subseteq Held(sn.sessions[x])
             /\ \A a \in DOMAIN r[x].active :
                  Later(sn.sessions[x].active[a], r[x].active[a], sn.next)
             /\ \A a \in DOMAIN r[x].stopped :
                  /\ a \in DOMAIN sn.sessions[x].stopped
                  /\ r[x].stopped[a] = sn.sessions[x].stopped[a]
  <2>1. PICK B : Cut(sn.sessions[x], r[x], R, B, sn.next)
    BY DEF Hearing
  <2>2. x \in DOMAIN sn.sessions /\ Whole(x, sn.sessions[x])
    BY DEF Hearing, Sound
  <2>3. /\ Whole(x, r[x])
        /\ DOMAIN r[x].active = DOMAIN sn.sessions[x].active \ R
        /\ DOMAIN r[x].stopped = DOMAIN sn.sessions[x].stopped \ B
        /\ \A a \in DOMAIN r[x].stopped : r[x].stopped[a] = sn.sessions[x].stopped[a]
    BY <2>1, <2>2, WholeCut
  <2>4. Held(r[x]) \subseteq Held(sn.sessions[x])
    BY <2>3 DEF Held
  <2>5. /\ r[x].seq = sn.sessions[x].seq /\ r[x].parent = sn.sessions[x].parent
        /\ r[x].turn = sn.sessions[x].turn
        /\ \A a \in DOMAIN r[x].active :
             Later(sn.sessions[x].active[a], r[x].active[a], sn.next)
    BY <2>1, <2>3 DEF Cut
  <2> QED BY <2>2, <2>3, <2>4, <2>5
<1>2. Held(r[e.session]) \subseteq
        Held(State(sn, e)) \cup (IF e.kind = "SubagentStart" THEN {e.agent} ELSE {})
  <2>1. Renewed(e.session, State(sn, e), r[e.session], e, sn.next)
    BY DEF Hearing
  <2> QED BY <2>1 DEF Renewed, Held
<1> QED BY <1>1, <1>2

\* What the event leaves is linked as it should be.
LEMMA LinkageKept ==
  ASSUME NEW sn, Sound(sn), NEW e, Told(e), Accepts(sn, e), NEW r, NEW R,
         Hearing(sn, r, e, R)
  PROVE  /\ Linkage(r)
         /\ e.parent # None => e.parent \in DOMAIN r /\ e.session \in DOMAIN r[e.parent].active
<1> DEFINE ss == sn.sessions
           s == e.session
           st == State(sn, e)
           w == r[s]
<1>0. /\ DOMAIN r = (DOMAIN ss \cup {s}) \ R /\ s \in DOMAIN r
      /\ Renewed(s, st, w, e, sn.next) /\ Linked(sn, e)
  BY DEF Hearing, Accepts
<1>1. \A x \in DOMAIN ss : s \in DOMAIN ss => st = ss[s]
  BY DEF State
<1>2. w.parent = st.parent /\ w.turn \in {None, st.turn, e.turn}
  BY <1>0 DEF Renewed
<1>3. \A a \in DOMAIN w.active :
        a \in DOMAIN ss[s].active /\ s \in DOMAIN ss /\ e.kind # "SubagentStart"
          => w.active[a].turn = ss[s].active[a].turn
  BY <1>0, <1>1 DEF Renewed, Later
<1>4. ASSUME e.parent # None
      PROVE  /\ e.parent \in DOMAIN r /\ s \in DOMAIN r[e.parent].active
             /\ {s, e.parent} \subseteq Codex /\ r[e.parent].parent = None
             /\ w.parent = e.parent /\ w.turn \in {None, r[e.parent].active[s].turn}
             /\ Held(w) = {}
  <2> DEFINE p == e.parent
  <2>1. /\ s \in Codex /\ p \in DOMAIN ss \cap Codex /\ ss[p].parent = None /\ p # s
        /\ s \in DOMAIN ss[p].active /\ ss[p].active[s].turn = e.turn
        /\ st.parent = p /\ Held(st) = {} /\ st.turn \in {None, e.turn}
    BY <1>0, <1>4, LinkedOwner
  <2>2. R = {} /\ p \in DOMAIN r \ {s}
    BY <1>0, <1>4, <2>1 DEF Hearing
  <2>3. /\ r[p].parent = None /\ s \in DOMAIN r[p].active
        /\ r[p].active[s].turn = e.turn
    BY <2>1, <2>2, HeldAfter DEF Later
  <2>4. Held(w) = {}
    <3>1. e.kind # "SubagentStart"
      BY <1>4 DEF Told
    <3> QED BY <2>1, <3>1, HeldAfter
  <2> QED BY <1>2, <2>1, <2>2, <2>3, <2>4
<1>5. ASSUME NEW x \in DOMAIN r, r[x].parent # None
      PROVE  LET p == r[x].parent
             IN  /\ {x, p} \subseteq Codex /\ p \in DOMAIN r /\ r[p].parent = None
                 /\ x \in DOMAIN r[p].active /\ r[x].turn \in {None, r[p].active[x].turn}
                 /\ Held(r[x]) = {}
  <2>1. CASE x = s
    <3>1. e.parent # None
      <4>1. CASE s \in DOMAIN ss
        <5>1. s \in Codex
          BY <1>1, <1>2, <1>5, <2>1, <4>1 DEF Sound, Linkage
        <5> QED BY <1>0, <1>1, <1>2, <1>5, <2>1, <4>1, <5>1 DEF Linked
      <4>2. CASE s \notin DOMAIN ss
        BY <1>2, <1>5, <2>1, <4>2, StateWhole
      <4> QED BY <4>1, <4>2
    <3> QED BY <1>4, <2>1, <3>1
  <2>2. CASE x # s
    <3> DEFINE p == r[x].parent
    <3>1. /\ x \in DOMAIN ss /\ r[x].parent = ss[x].parent /\ r[x].turn = ss[x].turn
          /\ Held(r[x]) \subseteq Held(ss[x]) /\ x \notin R
      BY <1>0, <2>2, HeldAfter
    <3>2. /\ {x, p} \subseteq Codex /\ p \in DOMAIN ss /\ ss[p].parent = None
          /\ x \in DOMAIN ss[p].active /\ ss[x].turn \in {None, ss[p].active[x].turn}
          /\ Held(ss[x]) = {}
      BY <1>5, <3>1 DEF Sound, Linkage
    <3>3. p \notin R /\ (p = s => x \in DOMAIN w.active)
      BY <1>5, <2>2, <3>1 DEF Hearing
    <3>4. CASE p = s
      <4>1. st = ss[s] /\ s \in DOMAIN ss /\ w.parent = None
        BY <1>1, <1>2, <3>2, <3>4
      <4>2. x \in DOMAIN w.active
        BY <3>3, <3>4
      <4>3. w.active[x].turn = ss[p].active[x].turn
        <5>1. CASE Later(st.active[x], w.active[x], sn.next)
          BY <3>4, <4>1, <5>1 DEF Later
        <5>2. CASE ~Later(st.active[x], w.active[x], sn.next)
          <6>1. e.kind = "SubagentStart" /\ x = e.agent
            BY <1>0, <4>2, <5>2 DEF Renewed
          <6>2. s \in Codex
            BY <3>2, <3>4
          <6>3. AcceptsCodexStart(sn, e)
            BY <3>4, <6>1, <6>2 DEF Accepts
          <6> QED BY <3>1, <3>4, <6>1, <6>2, <6>3, StartsUnknown
        <5> QED BY <5>1, <5>2
      <4> QED BY <1>0, <3>1, <3>2, <3>4, <4>1, <4>2, <4>3
    <3>5. CASE p # s
      <4>1. p \in DOMAIN r \ {s}
        BY <1>0, <3>2, <3>3, <3>5
      <4>2. /\ r[p].parent = ss[p].parent /\ DOMAIN r[p].active = DOMAIN ss[p].active \ R
            /\ \A a \in DOMAIN r[p].active : Later(ss[p].active[a], r[p].active[a], sn.next)
        BY <4>1, HeldAfter
      <4>3. x \in DOMAIN r[p].active /\ r[p].active[x].turn = ss[p].active[x].turn
        BY <3>1, <3>2, <4>2 DEF Later
      <4> QED BY <3>1, <3>2, <4>1, <4>2, <4>3
    <3> QED BY <3>4, <3>5
  <2> QED BY <2>1, <2>2
<1> QED BY <1>4, <1>5 DEF Linkage

\* No agent is shared after the event.
LEMMA ApartKept ==
  ASSUME NEW sn, Sound(sn), NEW e, Told(e), Accepts(sn, e), NEW r, NEW R,
         Hearing(sn, r, e, R)
  PROVE  Apart(r)
<1> DEFINE ss == sn.sessions
           s == e.session
<1>1. \A x \in DOMAIN r \ {s} : x \in DOMAIN ss /\ Held(r[x]) \subseteq Held(ss[x])
  BY HeldAfter
<1>2. \A x \in DOMAIN r \ {s} : Held(r[s]) \cap Held(r[x]) = {}
  <2> SUFFICES ASSUME NEW x \in DOMAIN r \ {s}, NEW a \in Held(r[s]) \cap Held(r[x])
               PROVE  FALSE
    OBVIOUS
  <2>1. Held(r[s]) \subseteq
          Held(State(sn, e)) \cup (IF e.kind = "SubagentStart" THEN {e.agent} ELSE {})
    BY HeldAfter
  <2>2. CASE a \in Held(State(sn, e))
    <3>1. s \in DOMAIN ss /\ State(sn, e) = ss[s]
      BY <2>2, StateWhole DEF State
    <3>2. a \in Held(ss[x]) /\ x \in DOMAIN ss /\ x # s
      BY <1>1
    <3> QED BY <2>2, <3>1, <3>2 DEF Sound, Apart
  <2>3. CASE a \notin Held(State(sn, e))
    <3>1. e.kind = "SubagentStart" /\ a = e.agent
      BY <2>1, <2>3
    <3> QED BY <3>1, StartsFree
  <2> QED BY <2>2, <2>3
<1>3. ASSUME NEW x \in DOMAIN r, NEW y \in DOMAIN r, x # y
      PROVE  Held(r[x]) \cap Held(r[y]) = {}
  <2>1. CASE x # s /\ y # s
    BY <1>1, <1>3, <2>1 DEF Sound, Apart
  <2>2. CASE x = s \/ y = s
    BY <1>2, <1>3, <2>2
  <2> QED BY <2>1, <2>2
<1> QED BY <1>3 DEF Apart

\* Nobody is below itself after the event.
LEMMA RankKept ==
  ASSUME NEW sn, Sound(sn), NEW e, Told(e), Accepts(sn, e), NEW r, NEW R,
         Hearing(sn, r, e, R)
  PROVE  Ranked(r)
<1> DEFINE ss == sn.sessions
           s == e.session
<1>0. DOMAIN r \subseteq DOMAIN ss \cup {s} /\ DOMAIN ss \subseteq Session /\ s \in Session
  BY DEF Hearing, Sound, Told
<1>1. \A x \in DOMAIN r \ {s} : x \in DOMAIN ss /\ Held(r[x]) \subseteq Held(ss[x])
  BY HeldAfter
<1>2. PICK rank \in [Session -> Nat] : RanksOf(ss, rank)
  BY DEF Sound, Ranked
<1>3. \A y \in Held(State(sn, e)) : s \in DOMAIN ss /\ y \in Held(ss[s])
  BY StateWhole DEF State
<1>4. \A x \in DOMAIN ss : Held(ss[x]) \subseteq Session
  BY ProviderAssumption DEF Sound, Whole, Holding, Kin
<1>5. CASE s \in Codex /\ e.kind = "SubagentStart"
  <2> DEFINE a == e.agent
             higher == IF rank[a] > rank[s] THEN rank[a] ELSE rank[s] + 1
             new == [rank EXCEPT ![a] = higher]
  <2>1. a \in Session /\ a # s
    BY <1>5, ProviderAssumption DEF Told, Kin
  <2>2. AcceptsCodexStart(sn, e)
    BY <1>5 DEF Accepts
  <2>3. a \notin DOMAIN ss
    BY <1>5, <2>2, StartsUnknown
  <2>4. rank[a] \in Nat /\ rank[s] \in Nat
    BY <1>0, <2>1
  <2>5. higher \in Nat /\ higher >= rank[a] /\ higher > rank[s]
    BY <2>4
  <2> HIDE DEF higher
  <2>6. new \in [Session -> Nat] /\ new[s] = rank[s] /\ new[a] = higher
    BY <1>0, <2>1, <2>5
  <2>7. \A y \in Session : new[y] \in Nat /\ rank[y] \in Nat /\ new[y] >= rank[y]
    BY <2>1, <2>5
  <2>8. \A x \in DOMAIN r : new[x] = rank[x]
    BY <1>0, <2>1, <2>3
  <2> HIDE DEF new
  <2>9. ASSUME NEW x \in DOMAIN r \cap Codex, NEW y \in Held(r[x])
        PROVE  new[x] < new[y]
    <3>1. CASE x \in DOMAIN ss /\ y \in Held(ss[x])
      <4>1. rank[x] < rank[y] /\ y \in Session /\ x \in Session
        BY <1>0, <1>2, <1>4, <2>9, <3>1 DEF RanksOf
      <4> QED BY <2>7, <2>8, <4>1
    <3>2. CASE ~(x \in DOMAIN ss /\ y \in Held(ss[x]))
      <4>1. x = s
        BY <1>1, <2>9, <3>2
      <4>2. y \in Held(State(sn, e)) \cup {a}
        BY <1>5, <4>1, HeldAfter
      <4>3. y = a
        BY <1>3, <3>2, <4>1, <4>2
      <4> QED BY <2>4, <2>5, <2>6, <4>1, <4>3
    <3> QED BY <3>1, <3>2
  <2> QED BY <2>6, <2>9 DEF Ranked, RanksOf
<1>6. CASE ~(s \in Codex /\ e.kind = "SubagentStart")
  <2>1. ASSUME NEW x \in DOMAIN r \cap Codex, NEW y \in Held(r[x])
        PROVE  rank[x] < rank[y]
    <3>1. x \in DOMAIN ss /\ y \in Held(ss[x])
      <4>1. CASE x = s
        <5>1. y \in Held(State(sn, e))
          BY <1>6, <2>1, <4>1, HeldAfter
        <5> QED BY <1>3, <4>1, <5>1
      <4>2. CASE x # s
        BY <1>1, <2>1, <4>2
      <4> QED BY <4>1, <4>2
    <3> QED BY <1>2, <2>1, <3>1 DEF RanksOf
  <2> QED BY <1>2, <2>1 DEF Ranked, RanksOf
<1> QED BY <1>5, <1>6

\* The snapshot an accepted event leaves is sound.
LEMMA SoundKept ==
  ASSUME NEW sn, Sound(sn), NEW e, Told(e), Accepts(sn, e), NEW r, NEW R,
         Hearing(sn, r, e, R)
  PROVE  Sound([next |-> sn.next + 1, sessions |-> r])
<1> DEFINE ss == sn.sessions
           s == e.session
           n == sn.next
<1>1. n \in Nat \ {0} /\ n + 1 \in Nat \ {0}
  BY DEF Sound
<1>2. IsFiniteSet(DOMAIN r) /\ DOMAIN r \subseteq Session
  <2>1. IsFiniteSet(DOMAIN ss \cup {s}) /\ DOMAIN r \subseteq DOMAIN ss \cup {s}
    BY FS_AddElement DEF Sound, Hearing
  <2>2. IsFiniteSet(DOMAIN r)
    BY <2>1, FS_Subset
  <2> QED BY <2>1, <2>2 DEF Sound, Told
<1>3. ASSUME NEW x \in DOMAIN r PROVE Whole(x, r[x]) /\ r[x].seq < n + 1
  <2>1. CASE x = s
    <3>1. Renewed(s, State(sn, e), r[s], e, n)
      BY DEF Hearing
    <3> QED BY <1>1, <2>1, <3>1 DEF Renewed
  <2>2. CASE x # s
    <3>1. x \in DOMAIN ss /\ Whole(x, r[x]) /\ r[x].seq = ss[x].seq
      BY <2>2, HeldAfter
    <3>2. ss[x].seq < n /\ ss[x].seq \in Nat
      BY <3>1 DEF Sound, Whole
    <3> QED BY <1>1, <3>1, <3>2
  <2> QED BY <2>1, <2>2
<1>4. Linkage(r) /\ Apart(r) /\ Ranked(r)
  BY LinkageKept, ApartKept, RankKept
<1> DEFINE new == [next |-> n + 1, sessions |-> r]
<1>5. new.next = n + 1 /\ new.sessions = r
  OBVIOUS
<1> HIDE DEF new
<1>6. Sound(new)
  BY <1>1, <1>2, <1>3, <1>4, <1>5 DEF Sound
<1> QED BY <1>6 DEF new

\* Sessions r are ss without S, cut.
Trimmed(ss, r, S, n) == /\ DOMAIN r = DOMAIN ss \ S
                        /\ \A x \in DOMAIN ss \ S : \E D : Cut(ss[x], r[x], S, D, n)

\* Removing and refreshing, in either order, cuts.
LEMMA RemoveRefreshCuts ==
  ASSUME NEW ss, NEW S, NEW holder, NEW keep, NEW e, NEW n \in Nat,
         \A x \in DOMAIN ss : Whole(x, ss[x])
  PROVE  /\ Trimmed(ss, RefreshLinked(RemoveSubtree(ss, S, holder, keep), e, n), S, n)
         /\ Trimmed(ss, RemoveSubtree(RefreshLinked(ss, e, n), S, holder, keep), S, n)
         /\ S = {} => Trimmed(ss, RefreshLinked(ss, e, n), S, n)
<1> DEFINE B(x) == IF x = holder THEN S \ {keep} ELSE S
<1>1. Trimmed(ss, RefreshLinked(RemoveSubtree(ss, S, holder, keep), e, n), S, n)
  <2> DEFINE r == RefreshLinked(RemoveSubtree(ss, S, holder, keep), e, n)
             m == RemoveSubtree(ss, S, holder, keep)
  <2>1. /\ DOMAIN m = DOMAIN ss \ S
        /\ \A x \in DOMAIN ss \ S : Cut(ss[x], m[x], S, B(x), n)
    BY RemoveCuts
  <2> HIDE DEF m, B
  <2>2. \A x \in DOMAIN m : Whole(x, m[x])
    BY <2>1, WholeCut
  <2>3. DOMAIN r = DOMAIN m /\ \A x \in DOMAIN m : Cut(m[x], r[x], {}, {}, n)
    BY <2>2, RefreshCuts DEF m
  <2>4. \A x \in DOMAIN ss \ S : Cut(ss[x], r[x], S \cup {}, B(x) \cup {}, n)
    BY <2>1, <2>3, CutTwice
  <2>5. S \cup {} = S
    OBVIOUS
  <2> HIDE DEF r
  <2>6. Trimmed(ss, r, S, n)
    BY <2>1, <2>3, <2>4, <2>5 DEF Trimmed
  <2> QED BY <2>6 DEF r
<1>2. Trimmed(ss, RemoveSubtree(RefreshLinked(ss, e, n), S, holder, keep), S, n)
  <2> DEFINE r == RemoveSubtree(RefreshLinked(ss, e, n), S, holder, keep)
             m == RefreshLinked(ss, e, n)
  <2>1. DOMAIN m = DOMAIN ss /\ \A x \in DOMAIN ss : Cut(ss[x], m[x], {}, {}, n)
    BY RefreshCuts
  <2> HIDE DEF m, B
  <2>2. \A x \in DOMAIN m : Whole(x, m[x])
    BY <2>1, WholeCut
  <2>3. DOMAIN r = DOMAIN m \ S /\ \A x \in DOMAIN m \ S : Cut(m[x], r[x], S, B(x), n)
    BY <2>2, RemoveCuts DEF m, B
  <2>4. \A x \in DOMAIN ss \ S : Cut(ss[x], r[x], {} \cup S, {} \cup B(x), n)
    BY <2>1, <2>3, CutTwice
  <2>5. {} \cup S = S
    OBVIOUS
  <2> HIDE DEF r
  <2>6. Trimmed(ss, r, S, n)
    BY <2>1, <2>3, <2>4, <2>5 DEF Trimmed
  <2> QED BY <2>6 DEF r
<1>3. ASSUME S = {} PROVE Trimmed(ss, RefreshLinked(ss, e, n), S, n)
  <2> DEFINE r == RefreshLinked(ss, e, n)
  <2>1. DOMAIN r = DOMAIN ss /\ \A x \in DOMAIN ss : Cut(ss[x], r[x], {}, {}, n)
    BY RefreshCuts
  <2> HIDE DEF r
  <2>2. Trimmed(ss, r, S, n)
    BY <1>3, <2>1 DEF Trimmed
  <2> QED BY <2>2 DEF r
<1> QED BY <1>1, <1>2, <1>3

\* A whole session state, not cut at all.
LEMMA Uncut ==
  ASSUME NEW s, NEW st, Whole(s, st), NEW n PROVE Cut(st, st, {}, {}, n)
<1>1. st.stopped = Without(st.stopped, {})
  BY DEF Whole, Holding, Edges, Without
<1>2. st.active \in [DOMAIN st.active \ {} -> Edge] /\ DOMAIN st = Fields
  BY DEF Whole, Holding, Edges
<1>3. \A a \in DOMAIN st.active : Later(st.active[a], st.active[a], n)
  BY DEF Whole, Holding, Edges, Later
<1> QED BY <1>1, <1>2, <1>3 DEF Cut

\* An event that renews its session and removes S is heard, if the links stay.
LEMMA HearingOf ==
  ASSUME NEW sn, Sound(sn), NEW e, NEW base, NEW q, NEW S, NEW r,
         S \subseteq Session \ {e.session},
         DOMAIN base = DOMAIN sn.sessions,
         \A x \in DOMAIN base :
           \E B : /\ Cut(sn.sessions[x], base[x], {}, B, sn.next)
                  /\ {e.session, x} \subseteq Codex /\ e.kind = "SubagentStart" => e.agent \in B,
         Renewed(e.session, State(sn, e), q, e, sn.next),
         DOMAIN r = (DOMAIN sn.sessions \cup {e.session}) \ S,
         \A x \in DOMAIN r :
           \E D : Cut(Put(base, e.session, q)[x], r[x], S, D, sn.next),
         \A x \in DOMAIN sn.sessions \ (S \cup {e.session}) :
           sn.sessions[x].parent # None =>
             /\ sn.sessions[x].parent \notin S
             /\ sn.sessions[x].parent = e.session => x \in DOMAIN q.active,
         e.parent # None => S = {}
  PROVE  Hearing(sn, r, e, S)
<1> DEFINE ss == sn.sessions
           s == e.session
           mid == Put(base, s, q)
<1>1. mid[s] = q /\ \A x \in DOMAIN base \ {s} : mid[x] = base[x]
  BY DEF Put
<1> HIDE DEF mid
<1>2. /\ Renewed(s, State(sn, e), r[s], e, sn.next)
      /\ DOMAIN r[s].active = DOMAIN q.active \ S
  <2>1. s \in DOMAIN r
    OBVIOUS
  <2>2. PICK D : Cut(mid[s], r[s], S, D, sn.next)
    BY <2>1 DEF mid
  <2> QED BY <1>1, <2>2, RenewedCut
<1>3. ASSUME NEW x \in DOMAIN r \ {s}
      PROVE  \E B : /\ Cut(ss[x], r[x], S, B, sn.next)
                    /\ {s, x} \subseteq Codex /\ e.kind = "SubagentStart" => e.agent \in B
  <2>1. x \in DOMAIN base \ {s}
    OBVIOUS
  <2>2. PICK B : /\ Cut(ss[x], base[x], {}, B, sn.next)
                 /\ {s, x} \subseteq Codex /\ e.kind = "SubagentStart" => e.agent \in B
    BY <2>1
  <2>3. PICK D : Cut(mid[x], r[x], S, D, sn.next)
    BY DEF mid
  <2>4. Cut(ss[x], r[x], {} \cup S, B \cup D, sn.next)
    BY <1>1, <2>1, <2>2, <2>3, CutTwice
  <2>5. {} \cup S = S
    OBVIOUS
  <2> QED BY <2>2, <2>4, <2>5
<1>4. \A x \in DOMAIN ss \ (S \cup {s}) :
        ss[x].parent # None =>
          ss[x].parent \notin S /\ (ss[x].parent = s => x \in DOMAIN r[s].active)
  BY <1>2
<1> QED BY <1>2, <1>3, <1>4 DEF Hearing

\* The same, for what the reducer builds.
LEMMA HearingBuilt ==
  ASSUME NEW sn, Sound(sn), NEW e, NEW base, NEW q, NEW S, NEW holder, NEW keep, NEW r,
         S \subseteq Session \ {e.session},
         DOMAIN base = DOMAIN sn.sessions,
         \A x \in DOMAIN base :
           \E B : /\ Cut(sn.sessions[x], base[x], {}, B, sn.next)
                  /\ {e.session, x} \subseteq Codex /\ e.kind = "SubagentStart" => e.agent \in B,
         Renewed(e.session, State(sn, e), q, e, sn.next),
         \/ r = RefreshLinked(RemoveSubtree(Put(base, e.session, q), S, holder, keep), e, sn.next)
         \/ r = RemoveSubtree(RefreshLinked(Put(base, e.session, q), e, sn.next), S, holder, keep)
         \/ S = {} /\ r = RefreshLinked(Put(base, e.session, q), e, sn.next),
         \A x \in DOMAIN sn.sessions \ (S \cup {e.session}) :
           sn.sessions[x].parent # None =>
             /\ sn.sessions[x].parent \notin S
             /\ sn.sessions[x].parent = e.session => x \in DOMAIN q.active,
         e.parent # None => S = {}
  PROVE  Hearing(sn, r, e, S)
<1> DEFINE ss == sn.sessions
           s == e.session
           n == sn.next
           mid == Put(base, s, q)
<1>0. n \in Nat
  BY DEF Sound
<1>1. /\ DOMAIN mid = DOMAIN ss \cup {s}
      /\ mid[s] = q /\ \A x \in DOMAIN base \ {s} : mid[x] = base[x]
  BY DEF Put
<1> HIDE DEF mid
<1>2. ASSUME NEW x \in DOMAIN mid PROVE Whole(x, mid[x])
  <2>1. CASE x = s
    BY <1>1, <2>1 DEF Renewed
  <2>2. CASE x # s
    <3>1. x \in DOMAIN base /\ Whole(x, ss[x])
      BY <1>1, <2>2 DEF Sound
    <3>2. PICK B : Cut(ss[x], base[x], {}, B, n)
      BY <3>1
    <3> QED BY <1>1, <2>2, <3>1, <3>2, WholeCut
  <2> QED BY <2>1, <2>2
<1>3. Trimmed(mid, r, S, n)
  BY <1>0, <1>2, RemoveRefreshCuts DEF mid
<1>4. \A x \in DOMAIN r : \E D : Cut(mid[x], r[x], S, D, n)
  BY <1>3 DEF Trimmed
<1>5. DOMAIN r = (DOMAIN ss \cup {s}) \ S
  BY <1>1, <1>3 DEF Trimmed
<1> QED BY <1>4, <1>5, HearingOf DEF mid

\* Where an event removes nothing, links stay if the agents do.
LEMMA LinksStay ==
  ASSUME NEW sn, Sound(sn), NEW e, NEW q,
         e.session \in Codex => DOMAIN State(sn, e).active \subseteq DOMAIN q.active
  PROVE  \A x \in DOMAIN sn.sessions \ ({} \cup {e.session}) :
           sn.sessions[x].parent # None =>
             /\ sn.sessions[x].parent \notin {}
             /\ sn.sessions[x].parent = e.session => x \in DOMAIN q.active
<1> SUFFICES ASSUME NEW x \in DOMAIN sn.sessions, sn.sessions[x].parent = e.session,
                    sn.sessions[x].parent # None
             PROVE  x \in DOMAIN q.active
  OBVIOUS
<1>1. /\ e.session \in Codex /\ e.session \in DOMAIN sn.sessions
      /\ x \in DOMAIN sn.sessions[e.session].active
  BY DEF Sound, Linkage
<1> QED BY <1>1 DEF State

\* The parents and agents of a sound snapshot are sessions.
LEMMA SoundTopology ==
  ASSUME NEW sn, Sound(sn)
  PROVE  /\ IsFiniteSet(DOMAIN sn.sessions) /\ DOMAIN sn.sessions \subseteq Session
         /\ \A x \in DOMAIN sn.sessions :
              /\ sn.sessions[x].parent \in DOMAIN sn.sessions \cup {None}
              /\ DOMAIN sn.sessions[x].active \subseteq Session
              /\ Held(sn.sessions[x]) \subseteq Session
<1>1. \A x \in DOMAIN sn.sessions : Held(sn.sessions[x]) \subseteq Session
  BY ProviderAssumption DEF Sound, Whole, Holding, Kin
<1> QED BY <1>1 DEF Sound, Linkage, Held

\* What is below a session is removed with everything linked to it, and a
\* linked session has nothing below it.
LEMMA BelowGoes ==
  ASSUME NEW sn, Sound(sn), NEW e, Told(e), Linked(sn, e)
  PROVE  LET S == Subtree(sn.sessions, e.session) \ {e.session} IN
         /\ S \subseteq Session \ {e.session}
         /\ \A q : \A x \in DOMAIN sn.sessions \ (S \cup {e.session}) :
              sn.sessions[x].parent # None =>
                /\ sn.sessions[x].parent \notin S
                /\ sn.sessions[x].parent = e.session => x \in DOMAIN q.active
         /\ e.parent # None => S = {}
<1> DEFINE ss == sn.sessions
           s == e.session
           all == Subtree(ss, s)
<1>1. s \in Session
  BY DEF Told
<1>2. /\ IsFiniteSet(DOMAIN ss) /\ DOMAIN ss \subseteq Session
      /\ \A x \in DOMAIN ss : /\ ss[x].parent \in DOMAIN ss \cup {None}
                              /\ DOMAIN ss[x].active \subseteq Session
  BY SoundTopology
<1>3. /\ s \in all /\ Below(ss, all) = all
      /\ \A C : s \in C /\ Below(ss, C) \subseteq C => all \subseteq C
  <2> HIDE DEF ss, s
  <2> QED BY <1>1, <1>2, SubtreeIsLeast DEF all
<1> HIDE DEF all
<1>4. all \subseteq Session
  <2>1. Below(ss, Session) \subseteq Session
    BY <1>2 DEF Below
  <2> QED BY <1>1, <1>3, <2>1
<1>5. ASSUME NEW x \in DOMAIN ss \ all, ss[x].parent # None PROVE ss[x].parent \notin all
  BY <1>3, <1>5 DEF Below
<1>6. ASSUME e.parent # None PROVE all = {s}
  <2>1. Held(State(sn, e)) = {}
    BY <1>6, LinkedOwner
  <2>2. Below(ss, {s}) \subseteq {s}
    <3>1. s \in DOMAIN ss => Held(ss[s]) = {}
      BY <2>1 DEF State
    <3>2. ASSUME NEW x \in DOMAIN ss, ss[x].parent = s PROVE FALSE
      <4>1. s # None
        BY <1>1, ProviderAssumption
      <4>2. s \in DOMAIN ss /\ x \in DOMAIN ss[s].active
        BY <3>2, <4>1 DEF Sound, Linkage
      <4> QED BY <3>1, <4>2 DEF Held
    <3>3. s \in DOMAIN ss => DOMAIN ss[s].active = {}
      BY <3>1 DEF Held
    <3> QED BY <3>2, <3>3 DEF Below
  <2> QED BY <1>3, <2>2
<1>7. all \ {s} \subseteq Session \ {s}
  BY <1>4
<1>8. e.parent # None => all \ {s} = {}
  BY <1>6
<1>9. ASSUME NEW x \in DOMAIN ss \ ((all \ {s}) \cup {s}), ss[x].parent # None
      PROVE  ss[x].parent \notin all \ {s} /\ ss[x].parent # s
  BY <1>3, <1>5, <1>9
<1> QED BY <1>7, <1>8, <1>9 DEF all

------------------------------------------------------------------------------
(* Every accepted event is heard. *)

\* No session but that of the event is touched before the removal.
LEMMA SameBase ==
  ASSUME NEW sn, Sound(sn), NEW e, e.kind # "SubagentStart" \/ e.session \notin Codex
  PROVE  \A x \in DOMAIN sn.sessions :
           \E B : /\ Cut(sn.sessions[x], sn.sessions[x], {}, B, sn.next)
                  /\ {e.session, x} \subseteq Codex /\ e.kind = "SubagentStart" => e.agent \in B
<1> SUFFICES ASSUME NEW x \in DOMAIN sn.sessions
             PROVE  Cut(sn.sessions[x], sn.sessions[x], {}, {}, sn.next)
  OBVIOUS
<1>1. Whole(x, sn.sessions[x])
  BY DEF Sound
<1> QED BY <1>1, Uncut

\* A session starts.
LEMMA SessionStartHeard ==
  ASSUME NEW sn, Sound(sn), NEW e, Told(e), Linked(sn, e), e.kind = "SessionStart"
  PROVE  \E R : Hearing(sn, AfterSessionStart(sn, e).sessions, e, R)
<1> DEFINE s == e.session
           st == State(sn, e)
           n == sn.next
           q == Started(st, e, n)
           below == IF e.source # "compact" /\ s \in Codex THEN Subtree(sn.sessions, s) \ {s}
                    ELSE {}
           r == AfterSessionStart(sn, e).sessions
<1>0. n \in Nat
  BY DEF Sound
<1>1. Whole(s, st) /\ st.seq < n
  BY StateWhole
<1>2. r = RefreshLinked(RemoveSubtree(Put(sn.sessions, s, q), below, None, None), e, n)
  BY DEF AfterSessionStart, Started
<1> HIDE DEF r, n, s, st
<1>3. /\ Renewed(s, st, q, e, n)
      /\ e.source = "compact" => q.active = st.active
  <2>1. s = e.session
    BY DEF s
  <2> QED BY <1>0, <1>1, <2>1, StartRenews
<1> HIDE DEF q
<1>4. \A x \in DOMAIN sn.sessions :
        \E B : /\ Cut(sn.sessions[x], sn.sessions[x], {}, B, sn.next)
               /\ {e.session, x} \subseteq Codex /\ e.kind = "SubagentStart" => e.agent \in B
  BY SameBase
<1>5. /\ below \subseteq Session \ {e.session}
      /\ \A x \in DOMAIN sn.sessions \ (below \cup {e.session}) :
           sn.sessions[x].parent # None =>
             /\ sn.sessions[x].parent \notin below
             /\ sn.sessions[x].parent = e.session => x \in DOMAIN q.active
      /\ e.parent # None => below = {}
  <2>1. CASE e.source # "compact" /\ s \in Codex
    <3>1. below = Subtree(sn.sessions, e.session) \ {e.session}
      BY <2>1 DEF s
    <3> HIDE DEF below
    <3> QED BY <3>1, BelowGoes
  <2>2. CASE ~(e.source # "compact" /\ s \in Codex)
    <3>1. below = {}
      BY <2>2
    <3>2. e.session \in Codex => DOMAIN State(sn, e).active \subseteq DOMAIN q.active
      BY <1>3, <2>2 DEF s, st
    <3> HIDE DEF below
    <3> QED BY <3>1, <3>2, LinksStay
  <2> QED BY <2>1, <2>2
<1> HIDE DEF below
<1>6. Hearing(sn, r, e, below)
  BY <1>2, <1>3, <1>4, <1>5, HearingBuilt DEF s, st, n
<1> QED BY <1>6 DEF r

\* A Codex agent starts.
LEMMA CodexStartHeard ==
  ASSUME NEW sn, Sound(sn), NEW e, Told(e), Linked(sn, e), e.kind = "SubagentStart",
         e.session \in Codex, AcceptsCodexStart(sn, e)
  PROVE  \E R : Hearing(sn, AfterCodexStart(sn, e).sessions, e, R)
<1> DEFINE s == e.session
           st == State(sn, e)
           ss == sn.sessions
           n == sn.next
           q == Begins(st, e, n)
           Bury(y) == [y EXCEPT !.stopped = Without(@, {e.agent})]
           base == [x \in DOMAIN ss |-> IF x \in Codex THEN Bury(ss[x]) ELSE ss[x]]
           r == AfterCodexStart(sn, e).sessions
<1>0. n \in Nat
  BY DEF Sound
<1>1. Whole(s, st) /\ st.seq < n
  BY StateWhole
<1>2. r = RefreshLinked(Put(base, s, q), e, n)
  BY DEF AfterCodexStart, Begins
<1> HIDE DEF r
<1>3. Renewed(s, st, q, e, n) /\ DOMAIN q.active = DOMAIN st.active \cup {e.agent}
  <2>1. e.agent \notin DOMAIN st.active /\ Cardinality(DOMAIN st.active) < MaxActive
    BY DEF AcceptsCodexStart
  <2> HIDE DEF st, n
  <2> QED BY <1>0, <1>1, <2>1, BeginRenews
<1> HIDE DEF q
<1>4. ASSUME NEW x \in DOMAIN base
      PROVE  \E B : /\ Cut(ss[x], base[x], {}, B, n)
                    /\ {e.session, x} \subseteq Codex /\ e.kind = "SubagentStart" => e.agent \in B
  <2>1. Whole(x, ss[x])
    BY DEF Sound
  <2>2. CASE x \in Codex
    <3>1. base[x] = Bury(ss[x])
      BY <2>2
    <3>2. DOMAIN ss[x] = Fields /\ Cut(ss[x], ss[x], {}, {}, n)
      BY <2>1, Uncut DEF Whole
    <3> HIDE DEF base
    <3>3. Cut(ss[x], base[x], {}, {e.agent}, n)
      <4>1. /\ DOMAIN base[x] = Fields /\ base[x].stopped = Without(ss[x].stopped, {e.agent})
            /\ base[x].parent = ss[x].parent /\ base[x].turn = ss[x].turn
            /\ base[x].open = ss[x].open /\ base[x].recent = ss[x].recent
            /\ base[x].signature = ss[x].signature /\ base[x].seq = ss[x].seq
            /\ base[x].status = ss[x].status /\ base[x].source = ss[x].source
            /\ base[x].floor = ss[x].floor /\ base[x].steps = ss[x].steps
            /\ base[x].active = ss[x].active
        BY <3>1, <3>2 DEF Fields
      <4> QED BY <3>2, <4>1 DEF Cut
    <3> QED BY <3>3
  <2>3. CASE x \notin Codex
    <3>1. base[x] = ss[x] /\ Cut(ss[x], ss[x], {}, {}, n)
      BY <2>1, <2>3, Uncut
    <3> QED BY <2>3, <3>1
  <2> QED BY <2>2, <2>3
<1>5. DOMAIN base = DOMAIN ss
  OBVIOUS
<1> HIDE DEF base
<1>6. e.parent = None
  BY DEF Told
<1>7. \A x \in DOMAIN sn.sessions \ ({} \cup {e.session}) :
        sn.sessions[x].parent # None =>
          /\ sn.sessions[x].parent \notin {}
          /\ sn.sessions[x].parent = e.session => x \in DOMAIN q.active
  BY <1>3, LinksStay
<1> DEFINE none == {}
<1>8. none \subseteq Session \ {e.session}
  OBVIOUS
<1>9. Hearing(sn, r, e, {})
  BY <1>2, <1>3, <1>4, <1>5, <1>6, <1>7, <1>8, HearingBuilt
<1> QED BY <1>9 DEF r

\* What is below an agent goes with it, but not the session that holds it.
LEMMA BelowAgentGoes ==
  ASSUME NEW sn, Sound(sn), NEW s \in DOMAIN sn.sessions \cap Codex,
         NEW a \in Held(sn.sessions[s]),
         NEW q, q.parent = sn.sessions[s].parent, Held(q) \subseteq Held(sn.sessions[s]),
         DOMAIN sn.sessions[s].active \ {a} \subseteq DOMAIN q.active
  PROVE  LET S == Subtree(Put(sn.sessions, s, q), a) IN
         /\ S \subseteq Session \ {s}
         /\ \A x \in DOMAIN sn.sessions \ (S \cup {s}) :
              sn.sessions[x].parent # None =>
                /\ sn.sessions[x].parent \notin S
                /\ sn.sessions[x].parent = s => x \in DOMAIN q.active
<1> DEFINE ss == sn.sessions
           mk == Put(ss, s, q)
           all == Subtree(mk, a)
<1>1. /\ IsFiniteSet(DOMAIN ss) /\ DOMAIN ss \subseteq Session
      /\ \A x \in DOMAIN ss : /\ ss[x].parent \in DOMAIN ss \cup {None}
                              /\ Held(ss[x]) \subseteq Session
  BY SoundTopology
<1>2. /\ DOMAIN mk = DOMAIN ss
      /\ \A x \in DOMAIN mk : /\ mk[x].parent = ss[x].parent
                              /\ Held(mk[x]) \subseteq Held(ss[x])
  BY DEF Put
<1>3. \A x \in DOMAIN mk : DOMAIN mk[x].active \subseteq Held(ss[x])
  BY <1>2 DEF Held
<1> HIDE DEF mk
<1>4. a \in Session /\ s \in Session
  BY <1>1
<1>5. /\ a \in all /\ Below(mk, all) = all
      /\ \A C : a \in C /\ Below(mk, C) \subseteq C => all \subseteq C
  <2>1. /\ IsFiniteSet(DOMAIN mk) /\ DOMAIN mk \subseteq Session
        /\ \A x \in DOMAIN mk : /\ mk[x].parent \in DOMAIN mk \cup {None}
                                /\ DOMAIN mk[x].active \subseteq Session
    BY <1>1, <1>2, <1>3
  <2> QED BY <1>4, <2>1, SubtreeIsLeast DEF all
<1> HIDE DEF all
<1>6. PICK rank \in [Session -> Nat] : RanksOf(ss, rank)
  BY DEF Sound, Ranked
<1>7. all \subseteq {y \in Session : y = a \/ rank[y] > rank[a]}
  <2> DEFINE C == {y \in Session : y = a \/ rank[y] > rank[a]}
  <2>1. ASSUME NEW x \in DOMAIN mk, mk[x].parent \in C PROVE x \in C
    <3> DEFINE p == ss[x].parent
    <3>1. p \in C /\ p # None
      BY <1>2, <2>1, ProviderAssumption
    <3>2. p \in DOMAIN ss \cap Codex /\ x \in DOMAIN ss[p].active
      BY <1>2, <3>1 DEF Sound, Linkage
    <3>3. rank[p] < rank[x] /\ x \in Session
      BY <1>1, <1>6, <3>2 DEF RanksOf, Held
    <3> QED BY <1>4, <3>1, <3>3
  <2>2. ASSUME NEW x \in C \cap Codex \cap DOMAIN mk, NEW y \in DOMAIN mk[x].active PROVE y \in C
    <3>1. y \in Held(ss[x]) /\ x \in DOMAIN ss
      BY <1>2, <1>3
    <3>2. rank[x] < rank[y] /\ y \in Session
      BY <1>1, <1>6, <3>1 DEF RanksOf
    <3> QED BY <1>4, <3>2
  <2>3. Below(mk, C) \subseteq C /\ a \in C
    <3> HIDE DEF C
    <3>1. a \in C
      BY <1>4 DEF C
    <3> QED BY <2>1, <2>2, <3>1 DEF Below
  <2> QED BY <1>5, <2>3
<1>8. s \notin all
  <2>1. rank[s] < rank[a] /\ rank[s] \in Nat /\ rank[a] \in Nat
    BY <1>4, <1>6 DEF RanksOf
  <2> QED BY <1>7, <2>1
<1>9. ASSUME NEW x \in DOMAIN ss \ (all \cup {s}), ss[x].parent # None
      PROVE  ss[x].parent \notin all /\ (ss[x].parent = s => x \in DOMAIN q.active)
  <2>1. ss[x].parent \notin all
    BY <1>2, <1>5, <1>9 DEF Below
  <2>2. ss[x].parent = s => x \in DOMAIN ss[s].active /\ x # a
    BY <1>5, <1>9 DEF Sound, Linkage
  <2> QED BY <2>1, <2>2
<1>10. all \subseteq Session \ {s}
  BY <1>7, <1>8
<1> QED BY <1>9, <1>10 DEF all, mk

\* A Codex agent stops.
LEMMA CodexStopHeard ==
  ASSUME NEW sn, Sound(sn), NEW e, Told(e), e.kind = "SubagentStop",
         e.session \in Codex, AcceptsCodexStop(sn, e)
  PROVE  \E R : Hearing(sn, AfterCodexStop(sn, e).sessions, e, R)
<1> DEFINE s == e.session
           st == State(sn, e)
           ss == sn.sessions
           n == sn.next
           q == Ends(st, e, n)
           S == Subtree(Put(ss, s, q), e.agent)
           r == AfterCodexStop(sn, e).sessions
<1>0. n \in Nat
  BY DEF Sound
<1>1. Whole(s, st) /\ st.seq < n
  BY StateWhole
<1>2. r = RefreshLinked(RemoveSubtree(Put(ss, s, q), S, s, e.agent), e, n)
  BY DEF AfterCodexStop, Ends
<1> HIDE DEF r
<1>3. /\ s \in DOMAIN ss \cap Codex /\ st = ss[s] /\ e.agent \in Held(ss[s])
  BY DEF AcceptsCodexStop, State, Held
<1>4. Renewed(s, st, q, e, n) /\ DOMAIN q.active = DOMAIN st.active \ {e.agent}
  <2> HIDE DEF st, n
  <2> QED BY <1>0, <1>1, <1>3, EndRenews
<1> HIDE DEF q
<1>5. q.parent = ss[s].parent /\ Held(q) \subseteq Held(ss[s])
  BY <1>3, <1>4 DEF Renewed, Held
<1>6. /\ S \subseteq Session \ {s}
      /\ \A x \in DOMAIN ss \ (S \cup {s}) :
           ss[x].parent # None =>
             ss[x].parent \notin S /\ (ss[x].parent = s => x \in DOMAIN q.active)
  BY <1>3, <1>4, <1>5, BelowAgentGoes
<1> HIDE DEF S
<1>7. e.parent = None
  BY DEF Told
<1>8. \A x \in DOMAIN sn.sessions :
        \E B : /\ Cut(sn.sessions[x], sn.sessions[x], {}, B, sn.next)
               /\ {e.session, x} \subseteq Codex /\ e.kind = "SubagentStart" => e.agent \in B
  BY SameBase
<1>9. Hearing(sn, r, e, S)
  BY <1>2, <1>4, <1>6, <1>7, <1>8, HearingBuilt
<1> QED BY <1>9 DEF r

\* Every other event.
LEMMA TurnHeard ==
  ASSUME NEW sn, Sound(sn), NEW e, Told(e), Linked(sn, e), e.kind # "SessionStart",
         e.session \in Codex => e.kind \notin {"SubagentStart", "SubagentStop"},
         AcceptsTurnEvent(sn, e)
  PROVE  \E R : Hearing(sn, AfterTurnEvent(sn, e).sessions, e, R)
<1> DEFINE s == e.session
           st == State(sn, e)
           n == sn.next
           q == Done(st, e, n)
           below == IF s \in Codex /\ e.kind = "Stop" THEN Subtree(sn.sessions, s) \ {s} ELSE {}
           r == AfterTurnEvent(sn, e).sessions
<1>0. n \in Nat
  BY DEF Sound
<1>1. Whole(s, st) /\ st.seq < n
  BY StateWhole
<1>2. r = RemoveSubtree(RefreshLinked(Put(sn.sessions, s, q), e, n), below, None, None)
  BY DEF AfterTurnEvent, Done
<1>3. /\ NotRecent(st, e) /\ IF IsStep(e) THEN AcceptsStep(st, e) ELSE AcceptsTurn(st, e)
      /\ e.kind = "SubagentStart" => /\ e.agent \notin DOMAIN st.active
                                     /\ Cardinality(DOMAIN st.active) < MaxActive
  BY DEF AcceptsTurnEvent, AcceptsAgent
<1> HIDE DEF r, n, st
<1>4. /\ Renewed(s, st, q, e, n)
      /\ s \in Codex /\ e.kind # "Stop" => DOMAIN q.active = DOMAIN st.active
  BY <1>0, <1>1, <1>3, TurnRenews
<1> HIDE DEF q, s
<1>5. \A x \in DOMAIN sn.sessions :
        \E B : /\ Cut(sn.sessions[x], sn.sessions[x], {}, B, sn.next)
               /\ {e.session, x} \subseteq Codex /\ e.kind = "SubagentStart" => e.agent \in B
  BY SameBase
<1>6. /\ below \subseteq Session \ {e.session}
      /\ \A x \in DOMAIN sn.sessions \ (below \cup {e.session}) :
           sn.sessions[x].parent # None =>
             /\ sn.sessions[x].parent \notin below
             /\ sn.sessions[x].parent = e.session => x \in DOMAIN q.active
      /\ e.parent # None => below = {}
  <2>1. CASE s \in Codex /\ e.kind = "Stop"
    <3>1. below = Subtree(sn.sessions, e.session) \ {e.session}
      BY <2>1 DEF s
    <3> HIDE DEF below
    <3> QED BY <3>1, BelowGoes
  <2>2. CASE ~(s \in Codex /\ e.kind = "Stop")
    <3>1. below = {}
      BY <2>2
    <3>2. e.session \in Codex => DOMAIN State(sn, e).active \subseteq DOMAIN q.active
      BY <1>4, <2>2 DEF s, st
    <3> HIDE DEF below
    <3> QED BY <3>1, <3>2, LinksStay
  <2> QED BY <2>1, <2>2
<1> HIDE DEF below
<1>7. Hearing(sn, r, e, below)
  BY <1>2, <1>4, <1>5, <1>6, HearingBuilt DEF s, st, n
<1> QED BY <1>7 DEF r

\* Every accepted event is heard, under the next number.
LEMMA AcceptedHeard ==
  ASSUME NEW sn, Sound(sn), NEW e, Told(e), Accepts(sn, e)
  PROVE  /\ \E R : Hearing(sn, After(sn, e).sessions, e, R)
         /\ After(sn, e) = [next |-> sn.next + 1, sessions |-> After(sn, e).sessions]
<1>0. Linked(sn, e)
  BY DEF Accepts
<1>1. CASE e.kind = "SessionStart"
  <2>1. After(sn, e) = AfterSessionStart(sn, e)
    BY <1>1 DEF After
  <2>2. \E R : Hearing(sn, AfterSessionStart(sn, e).sessions, e, R)
    BY <1>0, <1>1, SessionStartHeard
  <2>3. AfterSessionStart(sn, e) = [next |-> sn.next + 1, sessions |-> AfterSessionStart(sn, e).sessions]
    BY DEF AfterSessionStart
  <2> QED BY <2>1, <2>2, <2>3
<1>2. CASE e.kind = "SubagentStart" /\ e.session \in Codex
  <2>1. After(sn, e) = AfterCodexStart(sn, e) /\ AcceptsCodexStart(sn, e)
    BY <1>2 DEF After, Accepts
  <2>2. \E R : Hearing(sn, AfterCodexStart(sn, e).sessions, e, R)
    BY <1>0, <1>2, <2>1, CodexStartHeard
  <2>3. AfterCodexStart(sn, e) = [next |-> sn.next + 1, sessions |-> AfterCodexStart(sn, e).sessions]
    BY DEF AfterCodexStart
  <2> QED BY <2>1, <2>2, <2>3
<1>3. CASE e.kind = "SubagentStop" /\ e.session \in Codex
  <2>1. After(sn, e) = AfterCodexStop(sn, e) /\ AcceptsCodexStop(sn, e)
    BY <1>3 DEF After, Accepts
  <2>2. \E R : Hearing(sn, AfterCodexStop(sn, e).sessions, e, R)
    BY <1>3, <2>1, CodexStopHeard
  <2>3. AfterCodexStop(sn, e) = [next |-> sn.next + 1, sessions |-> AfterCodexStop(sn, e).sessions]
    BY DEF AfterCodexStop
  <2> QED BY <2>1, <2>2, <2>3
<1>4. CASE /\ e.kind # "SessionStart"
           /\ ~(e.kind = "SubagentStart" /\ e.session \in Codex)
           /\ ~(e.kind = "SubagentStop" /\ e.session \in Codex)
  <2>1. After(sn, e) = AfterTurnEvent(sn, e) /\ AcceptsTurnEvent(sn, e)
    BY <1>4 DEF After, Accepts
  <2>2. \E R : Hearing(sn, AfterTurnEvent(sn, e).sessions, e, R)
    BY <1>0, <1>4, <2>1, TurnHeard
  <2>3. AfterTurnEvent(sn, e) = [next |-> sn.next + 1, sessions |-> AfterTurnEvent(sn, e).sessions]
    BY DEF AfterTurnEvent
  <2> QED BY <2>1, <2>2, <2>3
<1> QED BY <1>1, <1>2, <1>3, <1>4

\* So the snapshot it leaves is sound, and linked as it should be.
LEMMA AcceptedSound ==
  ASSUME NEW sn, Sound(sn), NEW e, Told(e), Accepts(sn, e)
  PROVE  Sound(After(sn, e))
<1>1. PICK R : Hearing(sn, After(sn, e).sessions, e, R)
  BY AcceptedHeard
<1>2. Sound([next |-> sn.next + 1, sessions |-> After(sn, e).sessions])
  BY <1>1, SoundKept
<1> QED BY <1>2, AcceptedHeard

------------------------------------------------------------------------------
(* What the providers report. *)

\* Event e has these fields.
IsEvent(e, s, p, t, k, x, a) ==
  /\ e.session = s /\ e.parent = p /\ e.turn = t /\ e.kind = k /\ e.source = x /\ e.agent = a

\* Events are told if their fields fit.
LEMMA ToldIf ==
  ASSUME NEW e, NEW s \in Session, NEW p, NEW t \in Turn \cup {None}, NEW k \in Kind,
         NEW x \in Source \cup {None}, NEW a \in Session \cup {None}, IsEvent(e, s, p, t, k, x, a),
         p # None => /\ {s, p} \subseteq Codex /\ p # s
                     /\ k \in {"SessionStart", "PreToolUse", "Stop"},
         k = "SessionStart" => x \in Source /\ s \notin Antigravity,
         k # "SessionStart" => t \in Turn,
         k \in {"SubagentStart", "SubagentStop"} =>
           a \in Kin(s) /\ (s \in Codex => a # s) /\ s \notin Antigravity,
         s \in Antigravity => \/ k = "UserPromptSubmit" /\ t \in Invocation
                              \/ k \in Tool /\ t \in Step
                              \/ k = "Stop" /\ t \in Execution
  PROVE  Told(e)
<1>1. SignatureOf(e) \in Signature
  BY DEF SignatureOf, Signature, IsEvent
<1> QED BY <1>1 DEF Told, IsEvent

\* The fields of the events the providers report.
LEMMA PlainEvent ==
  ASSUME NEW s, NEW p, NEW t, NEW k
  PROVE  /\ IsEvent(Event(s, p, t, k), s, p, t, k, None, None)
         /\ \A f : IsEvent([Event(s, p, t, k) EXCEPT !.floor = f], s, p, t, k, None, None)
         /\ \A x : IsEvent([Event(s, p, t, k) EXCEPT !.source = x], s, p, t, k, x, None)
         /\ \A a : IsEvent([Event(s, p, t, k) EXCEPT !.agent = a], s, p, t, k, None, a)
BY DEF Event, IsEvent

\* A session starts.
LEMMA ToldStarts == \A e \in SessionStarts : Told(e) /\ e.kind = "SessionStart"
<1> SUFFICES ASSUME NEW e \in SessionStarts PROVE Told(e) /\ e.kind = "SessionStart"
  OBVIOUS
<1>1. PICK s \in Root \ Antigravity, x \in Source :
        e = [Event(s, None, None, "SessionStart") EXCEPT !.source = x]
  BY DEF SessionStarts
<1>2. IsEvent(e, s, None, None, "SessionStart", x, None)
  BY <1>1, PlainEvent
<1>3. Told(e)
  <2>1. s \in Session /\ "SessionStart" \in Kind
    BY SessionAssumption DEF Kind
  <2> QED BY <1>1, <1>2, <2>1, ToldIf
<1> QED BY <1>2, <1>3 DEF IsEvent

\* A root's turn.
LEMMA ToldRoots ==
  \A s \in Root : \A e \in RootTurnEvents(s) :
    Told(e) /\ e.kind \notin {"SubagentStart", "SubagentStop"}
<1> SUFFICES ASSUME NEW s \in Root, NEW e \in RootTurnEvents(s)
             PROVE  Told(e) /\ e.kind \notin {"SubagentStart", "SubagentStop"}
  OBVIOUS
<1>0. /\ s \in Session /\ Tool \subseteq Kind /\ {"UserPromptSubmit", "Stop", "PreToolUse"} \subseteq Kind
      /\ Invocation \cup Step \cup Execution \subseteq Turn /\ None \notin Session
  BY SessionAssumption, ProviderAssumption, TurnAssumption DEF Kind, Tool
<1>1. CASE s \in Antigravity
  <2> DEFINE Prompt(t, f) == [Event(s, None, t, "UserPromptSubmit") EXCEPT !.floor = StepIndex[f]]
  <2>1. \/ e \in {Prompt(t, f) : t \in Invocation, f \in Step}
        \/ e \in {Event(s, None, t, k) : t \in Step, k \in Tool}
        \/ e \in {Event(s, None, t, "Stop") : t \in Execution}
    BY <1>1 DEF RootTurnEvents
  <2>2. \A t, f : IsEvent(Prompt(t, f), s, None, t, "UserPromptSubmit", None, None)
    BY PlainEvent
  <2> HIDE DEF Prompt
  <2>3. CASE e \in {Prompt(t, f) : t \in Invocation, f \in Step}
    <3>1. PICK t \in Invocation, f \in Step : e = Prompt(t, f)
      BY <2>3
    <3>2. IsEvent(e, s, None, t, "UserPromptSubmit", None, None)
      BY <2>2, <3>1
    <3>3. Told(e)
      BY <1>0, <1>1, <3>2, ToldIf
    <3> QED BY <3>2, <3>3 DEF IsEvent
  <2>4. CASE e \in {Event(s, None, t, k) : t \in Step, k \in Tool}
    <3>1. PICK t \in Step, k \in Tool : e = Event(s, None, t, k)
      BY <2>4
    <3>2. IsEvent(e, s, None, t, k, None, None)
      BY <3>1, PlainEvent
    <3>3. k \in {"PreToolUse", "PostToolUse"}
      BY DEF Tool
    <3>4. Told(e)
      BY <1>0, <1>1, <3>2, <3>3, ToldIf
    <3> QED BY <3>2, <3>3, <3>4 DEF IsEvent
  <2>5. CASE e \in {Event(s, None, t, "Stop") : t \in Execution}
    <3>1. PICK t \in Execution : e = Event(s, None, t, "Stop")
      BY <2>5
    <3>2. IsEvent(e, s, None, t, "Stop", None, None)
      BY <3>1, PlainEvent
    <3>3. Told(e)
      BY <1>0, <1>1, <3>2, ToldIf
    <3> QED BY <3>2, <3>3 DEF IsEvent
  <2> QED BY <2>1, <2>3, <2>4, <2>5
<1>2. CASE s \notin Antigravity
  <2>1. PICK t \in PlainTurn, k \in {"UserPromptSubmit", "PreToolUse", "Stop"} :
          e = Event(s, None, t, k)
    BY <1>2 DEF RootTurnEvents
  <2>2. IsEvent(e, s, None, t, k, None, None) /\ t \in Turn
    BY <2>1, PlainEvent DEF PlainTurn
  <2>3. Told(e)
    BY <1>0, <1>2, <2>1, <2>2, ToldIf
  <2> QED BY <2>1, <2>2, <2>3 DEF IsEvent
<1> QED BY <1>1, <1>2

\* The agents of a session.
LEMMA ToldAgents ==
  ASSUME NEW s \in Root, NEW a \in Kin(s), s \in Codex => a # s, s \notin Antigravity,
         NEW t \in Turn,
         NEW e \in AgentEvents(s, a, t)
  PROVE  Told(e) /\ e.agent = a /\ e.turn = t
<1>1. PICK k \in {"SubagentStart", "SubagentStop"} : e = [Event(s, None, t, k) EXCEPT !.agent = a]
  BY DEF AgentEvents
<1>2. IsEvent(e, s, None, t, k, None, a)
  BY <1>1, PlainEvent
<1>3. s \in Session /\ a \in Session /\ k \in Kind
  BY SessionAssumption, ProviderAssumption DEF Kin, Kind
<1>4. Told(e)
  BY <1>1, <1>2, <1>3, ToldIf
<1> QED BY <1>2, <1>4 DEF IsEvent

\* A Codex child's own events.
LEMMA ToldChildren ==
  ASSUME NEW a \in Child \cap Codex, NEW t \in Turn,
         NEW e \in ChildStarts(a, t) \cup ChildTurnEvents(a, t)
  PROVE  Told(e) /\ e.kind \notin {"SubagentStart", "SubagentStop"}
<1>0. a \in Session /\ a \notin Antigravity /\ Root \cap Codex \subseteq Codex /\ None \notin Session
  BY SessionAssumption, ProviderAssumption
<1>1. CASE e \in ChildStarts(a, t)
  <2>1. PICK p \in (Root \cap Codex) \ {a}, x \in Source :
          e = [Event(a, p, t, "SessionStart") EXCEPT !.source = x]
    BY <1>1 DEF ChildStarts
  <2>2. IsEvent(e, a, p, t, "SessionStart", x, None) /\ "SessionStart" \in Kind
    BY <2>1, PlainEvent DEF Kind
  <2>3. Told(e)
    BY <1>0, <2>2, ToldIf
  <2> QED BY <2>2, <2>3 DEF IsEvent
<1>2. CASE e \in ChildTurnEvents(a, t)
  <2>1. PICK p \in (Root \cap Codex) \ {a}, k \in {"PreToolUse", "Stop"} : e = Event(a, p, t, k)
    BY <1>2 DEF ChildTurnEvents
  <2>2. IsEvent(e, a, p, t, k, None, None) /\ k \in Kind
    BY <2>1, PlainEvent DEF Kind, Tool
  <2>3. Told(e)
    BY <1>0, <2>1, <2>2, ToldIf
  <2> QED BY <2>1, <2>2, <2>3 DEF IsEvent
<1> QED BY <1>1, <1>2

\* Whatever can be reported is told as it should be, an agent being another
\* session's than Codex's or in a turn it has begun.
LEMMA ToldReports ==
  ASSUME NEW e \in Reportable
  PROVE  Told(e)
<1>1. CASE e \in SessionStarts
  BY <1>1, ToldStarts
<1>2. CASE e \in RootReports
  <2>1. PICK s \in Root : e \in RootTurnEvents(s)
    BY <1>2 DEF RootReports
  <2> QED BY <2>1, ToldRoots
<1>3. CASE e \in AgentReports
  <2>1. PICK s \in Root \ (Codex \cup Antigravity), a \in Child \ (Codex \cup Antigravity),
             t \in PlainTurn : e \in AgentEvents(s, a, t)
    BY <1>3 DEF AgentReports
  <2> QED BY <2>1, ToldAgents, SessionAssumption DEF Kin, PlainTurn
<1>4. CASE e \in ChildReports
  <2>1. PICK a \in Child \cap Codex :
          e \in UNION {ChildStarts(a, t) \cup ChildTurnEvents(a, t) : t \in Begun(a)}
    BY <1>4 DEF ChildReports
  <2>2. PICK t \in Begun(a) : e \in ChildStarts(a, t) \cup ChildTurnEvents(a, t)
    BY <2>1
  <2> QED BY <2>1, <2>2, ToldChildren DEF Begun
<1>5. CASE e \in CodexAgentReports
  <2>1. PICK a \in Child \cap Codex :
          e \in UNION {AgentEvents(s, a, t) : s \in (Root \cap Codex) \ {a}, t \in Begun(a)}
    BY <1>5 DEF CodexAgentReports
  <2>2. PICK s \in (Root \cap Codex) \ {a}, t \in Begun(a) : e \in AgentEvents(s, a, t)
    BY <2>1
  <2>3. s \in Root /\ s \notin Antigravity /\ a \in Kin(s) /\ a # s /\ t \in Turn
    BY <2>1, <2>2, ProviderAssumption DEF Kin, Begun
  <2> QED BY <2>2, <2>3, ToldAgents
<1>6. Reportable = SessionStarts \cup RootReports \cup AgentReports
                    \cup ChildReports \cup CodexAgentReports
  BY DEF Reportable
<1> QED BY <1>1, <1>2, <1>3, <1>4, <1>5, <1>6

------------------------------------------------------------------------------
(* Reproof. *)

IsAFcn(f) == f = [x \in DOMAIN f |-> f[x]]

\* Session state w is k, with agent a running in turn t again.
Revived(k, w, a, t, n) ==
  /\ DOMAIN w = Fields
  /\ w.parent = k.parent /\ w.turn = k.turn /\ w.open = k.open /\ w.recent = k.recent
  /\ w.signature = k.signature /\ w.status = k.status
  /\ w.source = k.source /\ w.floor = k.floor /\ w.steps = k.steps
  /\ w.seq = n
  /\ w.active = Put(k.active, a, [turn |-> t, seq |-> n, at |-> n])
  /\ w.stopped = Without(k.stopped, {a})

\* Sessions r are what evidence of agent a, held by o, leaves: S goes.
Reproof(sn, r, a, t, o, S) ==
  /\ S \subseteq Session \ {o} /\ o \in DOMAIN sn.sessions \cap Codex
  /\ DOMAIN r = DOMAIN sn.sessions \ S
  /\ \A x \in DOMAIN r \ {o} : Cut(sn.sessions[x], r[x], S, S, sn.next)
  /\ \E k : Cut(sn.sessions[o], k, S, S, sn.next) /\ Revived(k, r[o], a, t, sn.next)
  /\ a \in Held(sn.sessions[o])
  /\ \/ a \in S /\ a \in DOMAIN sn.sessions[o].active
     \/ /\ S = {} /\ Cardinality(DOMAIN sn.sessions[o].active) < MaxActive
        /\ \A x \in DOMAIN sn.sessions \cap Codex : a \notin DOMAIN sn.sessions[x].active
  /\ \A x \in DOMAIN sn.sessions \ S :
       sn.sessions[x].parent # None => sn.sessions[x].parent \notin S

\* What a reproof does.
LEMMA ReproofIs ==
  ASSUME NEW sn, Sound(sn), IsAFcn(sn.sessions), NEW ev, ev.agent \in Codex, NEW o,
         ReprovesActive(sn, ev, o) \/ ReprovesStopped(sn, ev, o)
  PROVE  \E S : Reproof(sn, AfterReproof(sn, ev, o).sessions, ev.agent, ev.turn, o, S)
<1> DEFINE ss == sn.sessions
           a == ev.agent
           n == sn.next
           edge == [turn |-> ev.turn, seq |-> n, at |-> n]
           active == ActiveOwners(ss, a) # {}
           S == IF active THEN Subtree(ss, a) ELSE {}
           kept == IF active THEN RemoveSubtree(ss, Subtree(ss, a), None, None) ELSE ss
           r == AfterReproof(sn, ev, o).sessions
<1>1. /\ o \in DOMAIN ss \cap Codex /\ a \in Held(ss[o])
      /\ \/ active /\ a \in DOMAIN ss[o].active
         \/ ~active /\ Cardinality(DOMAIN ss[o].active) < MaxActive
  <2>1. CASE ReprovesActive(sn, ev, o)
    BY <2>1 DEF ReprovesActive, ActiveOwners, Kin, Held
  <2>2. CASE ReprovesStopped(sn, ev, o)
    BY <2>2 DEF ReprovesStopped, StoppedOwners, Held
  <2> QED BY <2>1, <2>2
<1>2. r = [kept EXCEPT ![o].stopped = Without(@, {a}), ![o].active = Put(@, a, edge),
                       ![o].seq = n]
  BY DEF AfterReproof
<1> HIDE DEF r
<1>3. \A x \in DOMAIN ss : Whole(x, ss[x]) /\ DOMAIN ss[x] = Fields
  BY DEF Sound, Whole
<1>4. /\ S \subseteq Session \ {o}
      /\ active => a \in S
      /\ \A x \in DOMAIN ss \ S : ss[x].parent # None => ss[x].parent \notin S
  <2>1. CASE active
    <3>1. Put(ss, o, ss[o]) = ss
      <4>1. o \in DOMAIN ss
        BY <1>1
      <4>2. Put(ss, o, ss[o]) = [x \in DOMAIN ss |-> ss[x]]
        BY <4>1 DEF Put
      <4> HIDE DEF ss
      <4> QED BY <4>2 DEF IsAFcn, ss
    <3>2. S = Subtree(Put(ss, o, ss[o]), a)
      BY <2>1, <3>1
    <3> HIDE DEF S
    <3>3. /\ S \subseteq Session \ {o}
          /\ \A x \in DOMAIN ss \ (S \cup {o}) : ss[x].parent # None => ss[x].parent \notin S
      BY <1>1, <3>2, BelowAgentGoes
    <3>4. ss[o].parent = None
      BY <1>1, HolderIsTop
    <3>5. a \in S
      <4>1. a \in Session
        BY ProviderAssumption
      <4>2. a \in Subtree(ss, a)
        BY <4>1, SoundTopology, SubtreeIsLeast
      <4> QED BY <3>1, <3>2, <4>2
    <3> QED BY <3>3, <3>4, <3>5
  <2>2. CASE ~active
    BY <2>2
  <2> QED BY <2>1, <2>2
<1>5. DOMAIN kept = DOMAIN ss \ S /\ \A x \in DOMAIN kept : Cut(ss[x], kept[x], S, S, n)
  <2>1. CASE active
    <3>1. kept = RemoveSubtree(ss, S, None, None)
      BY <2>1
    <3>2. None \notin DOMAIN ss
      BY ProviderAssumption DEF Sound
    <3>3. /\ DOMAIN RemoveSubtree(ss, S, None, None) = DOMAIN ss \ S
          /\ \A x \in DOMAIN ss \ S :
               Cut(ss[x], RemoveSubtree(ss, S, None, None)[x], S,
                   IF x = None THEN S \ {None} ELSE S, n)
      <4> HIDE DEF S
      <4> QED BY <1>3, RemoveCuts
    <3> HIDE DEF kept, S
    <3>4. ASSUME NEW x \in DOMAIN ss \ S PROVE Cut(ss[x], kept[x], S, S, n)
      <4>1. (IF x = None THEN S \ {None} ELSE S) = S
        BY <3>2
      <4> QED BY <3>1, <3>3, <4>1
    <3> QED BY <3>1, <3>3, <3>4
  <2>2. CASE ~active
    <3>1. kept = ss /\ S = {}
      BY <2>2
    <3>2. \A x \in DOMAIN ss : Cut(ss[x], ss[x], {}, {}, n)
      BY <1>3, Uncut
    <3> HIDE DEF kept, S
    <3> QED BY <3>1, <3>2
  <2> QED BY <2>1, <2>2
<1>6. \A x \in DOMAIN ss \cap Codex : ~active => a \notin DOMAIN ss[x].active
  BY DEF ActiveOwners, Kin
<1>7. ~active => S = {}
  OBVIOUS
<1> HIDE DEF kept, S, active
<1>8. o \in DOMAIN kept
  BY <1>1, <1>4, <1>5
<1>9. DOMAIN r = DOMAIN kept /\ \A x \in DOMAIN kept \ {o} : r[x] = kept[x]
  BY <1>2
<1>10. Revived(kept[o], r[o], a, ev.turn, n)
  <2> DEFINE k == kept[o]
  <2>1. DOMAIN k = Fields
    BY <1>5, <1>8 DEF Cut
  <2>2. r[o] = [k EXCEPT !.stopped = Without(@, {a}), !.active = Put(@, a, edge), !.seq = n]
    BY <1>2, <1>8
  <2> HIDE DEF k
  <2>3. Revived(k, r[o], a, ev.turn, n)
    BY <2>1, <2>2 DEF Revived, Fields
  <2> QED BY <2>3 DEF k
<1>11. Reproof(sn, r, a, ev.turn, o, S)
  BY <1>1, <1>4, <1>5, <1>6, <1>7, <1>8, <1>9, <1>10 DEF Reproof
<1> QED BY <1>11 DEF r

\* The revived session state is as good as the cut one.
LEMMA RevivedWhole ==
  ASSUME NEW s \in Codex, NEW k, NEW w, NEW a \in Codex, a # s, NEW t \in Turn, NEW n \in Nat,
         Whole(s, k), k.seq < n, Revived(k, w, a, t, n), Cardinality(DOMAIN k.active) < MaxActive
  PROVE  Whole(s, w)
<1> DEFINE edge == [turn |-> t, seq |-> n, at |-> n]
<1>0. /\ edge \in Edge /\ edge.seq = n /\ edge.at = n /\ edge.turn = t
  BY DEF Edge
<1> HIDE DEF edge
<1>1. /\ w.active = Put(k.active, a, edge) /\ w.stopped = Without(k.stopped, {a})
      /\ w.seq = n /\ DOMAIN w = Fields
  BY DEF Revived, edge
<1>2. Edges(k.active) /\ Edges(k.stopped) /\ Holding(s, k) /\ Turnwise(s, k) /\ k.seq \in Nat
  BY DEF Whole, Holding
<1>3. Edges(w.active) /\ Edges(w.stopped)
  BY <1>0, <1>1, <1>2, AddEdge, DropEdges
<1>4. /\ DOMAIN w.active = DOMAIN k.active \cup {a} /\ w.active[a] = edge
      /\ \A x \in DOMAIN k.active \ {a} : w.active[x] = k.active[x]
      /\ DOMAIN w.stopped = DOMAIN k.stopped \ {a}
      /\ \A x \in DOMAIN w.stopped : w.stopped[x] = k.stopped[x]
  BY <1>1 DEF Put, Without
<1>5. Turnwise(s, w)
  BY <1>2, SameTurns DEF Revived
<1>6. n \in 1..n /\ \A i \in 1..k.seq : i \in 1..n
  BY <1>2
<1>7. /\ \A x \in DOMAIN w.active : w.active[x].seq \in 1..w.seq
      /\ \A x \in DOMAIN w.stopped : w.stopped[x].seq \in 1..w.seq
  BY <1>0, <1>1, <1>2, <1>4, <1>6 DEF Holding
<1>8. /\ DOMAIN w.active \cap DOMAIN w.stopped = {}
      /\ Held(w) \subseteq Kin(s) /\ s \notin Held(w)
  BY <1>2, <1>4 DEF Holding, Held, Kin
<1>9. Holding(s, w)
  BY <1>3, <1>7, <1>8 DEF Holding
<1> QED BY <1>0, <1>1, <1>4, <1>5, <1>9 DEF Whole

\* What the sessions hold after a reproof.
LEMMA HeldAfterReproof ==
  ASSUME NEW sn, Sound(sn), NEW a \in Codex, NEW t \in Turn, NEW o, NEW S, NEW r,
         Reproof(sn, r, a, t, o, S)
  PROVE  /\ \A x \in DOMAIN r :
              /\ x \in DOMAIN sn.sessions /\ Whole(x, r[x])
              /\ r[x].seq = IF x = o THEN sn.next ELSE sn.sessions[x].seq
              /\ r[x].parent = sn.sessions[x].parent /\ r[x].turn = sn.sessions[x].turn
              /\ Held(r[x]) \subseteq Held(sn.sessions[x])
              /\ DOMAIN sn.sessions[x].active \ S \subseteq DOMAIN r[x].active
              /\ \A y \in DOMAIN r[x].active :
                   IF x = o /\ y = a THEN r[x].active[y].at = sn.next
                   ELSE y \in DOMAIN sn.sessions[x].active
                        /\ Later(sn.sessions[x].active[y], r[x].active[y], sn.next)
              /\ \A y \in DOMAIN r[x].stopped :
                   y \in DOMAIN sn.sessions[x].stopped
                   /\ r[x].stopped[y] = sn.sessions[x].stopped[y]
         /\ o \in DOMAIN r
<1> DEFINE ss == sn.sessions
           n == sn.next
<1>0. n \in Nat /\ o \in DOMAIN r /\ o \in DOMAIN ss \cap Codex
  BY DEF Sound, Reproof
<1>1. PICK k : Cut(ss[o], k, S, S, n) /\ Revived(k, r[o], a, t, n)
  BY DEF Reproof
<1>2. /\ Whole(o, ss[o]) /\ ss[o].seq < n /\ a \in Held(ss[o]) /\ a # o
  BY <1>0 DEF Sound, Reproof, Whole, Holding
<1>3. /\ Whole(o, k) /\ DOMAIN k.active = DOMAIN ss[o].active \ S
      /\ DOMAIN k.stopped = DOMAIN ss[o].stopped \ S
      /\ \A x \in DOMAIN k.stopped : k.stopped[x] = ss[o].stopped[x]
  BY <1>1, <1>2, WholeCut
<1>4. k.seq = ss[o].seq /\ k.parent = ss[o].parent /\ k.turn = ss[o].turn
  BY <1>1 DEF Cut
<1>5. Cardinality(DOMAIN k.active) < MaxActive
  <2>0. /\ IsFiniteSet(DOMAIN ss[o].active) /\ Cardinality(DOMAIN ss[o].active) <= MaxActive
        /\ MaxActive \in Nat /\ Cardinality(DOMAIN ss[o].active) \in Nat
    BY <1>2, LimitAssumption, FS_CardinalityType DEF Whole, Holding, Edges
  <2>1. CASE a \in S /\ a \in DOMAIN ss[o].active
    <3>1. /\ IsFiniteSet(DOMAIN ss[o].active \ {a})
          /\ Cardinality(DOMAIN ss[o].active \ {a}) = Cardinality(DOMAIN ss[o].active) - 1
      BY <2>0, <2>1, FS_RemoveElement
    <3>2. DOMAIN k.active \subseteq DOMAIN ss[o].active \ {a}
      BY <1>3, <2>1
    <3>3. Cardinality(DOMAIN k.active) <= Cardinality(DOMAIN ss[o].active \ {a})
          /\ Cardinality(DOMAIN k.active) \in Nat
      BY <3>1, <3>2, FS_Subset, FS_CardinalityType
    <3> QED BY <2>0, <3>1, <3>3
  <2>2. CASE S = {} /\ Cardinality(DOMAIN ss[o].active) < MaxActive
    <3>1. DOMAIN k.active = DOMAIN ss[o].active
      BY <1>3, <2>2
    <3> QED BY <2>2, <3>1
  <2> QED BY <2>1, <2>2 DEF Reproof
<1>6. /\ Whole(o, r[o])
      /\ DOMAIN r[o].active = DOMAIN k.active \cup {a} /\ DOMAIN r[o].stopped = DOMAIN k.stopped \ {a}
      /\ r[o].active[a].at = n /\ r[o].active[a].turn = t
      /\ \A x \in DOMAIN k.active \ {a} : r[o].active[x] = k.active[x]
      /\ \A x \in DOMAIN r[o].stopped : r[o].stopped[x] = k.stopped[x]
  <2>1. Whole(o, r[o])
    BY <1>0, <1>1, <1>2, <1>3, <1>4, <1>5, RevivedWhole
  <2> QED BY <1>1, <2>1 DEF Revived, Put, Without
<1>7. /\ r[o].seq = n /\ r[o].parent = ss[o].parent /\ r[o].turn = ss[o].turn
  BY <1>1, <1>4 DEF Revived
<1>8. \A x \in DOMAIN k.active : Later(ss[o].active[x], k.active[x], n)
  BY <1>1, <1>3 DEF Cut
<1>9. Held(r[o]) \subseteq Held(ss[o])
  BY <1>2, <1>3, <1>6 DEF Held
<1>10. ASSUME NEW x \in DOMAIN r \ {o}
       PROVE  /\ x \in DOMAIN ss /\ Whole(x, r[x])
              /\ r[x].seq = ss[x].seq /\ r[x].parent = ss[x].parent /\ r[x].turn = ss[x].turn
              /\ Held(r[x]) \subseteq Held(ss[x])
              /\ DOMAIN r[x].active = DOMAIN ss[x].active \ S
              /\ \A y \in DOMAIN r[x].active : Later(ss[x].active[y], r[x].active[y], n)
              /\ \A y \in DOMAIN r[x].stopped :
                   y \in DOMAIN ss[x].stopped /\ r[x].stopped[y] = ss[x].stopped[y]
  <2>1. Cut(ss[x], r[x], S, S, n) /\ x \in DOMAIN ss
    BY DEF Reproof
  <2>2. Whole(x, ss[x])
    BY <2>1 DEF Sound
  <2>3. /\ Whole(x, r[x])
        /\ DOMAIN r[x].active = DOMAIN ss[x].active \ S
        /\ DOMAIN r[x].stopped = DOMAIN ss[x].stopped \ S
        /\ \A y \in DOMAIN r[x].stopped : r[x].stopped[y] = ss[x].stopped[y]
    BY <2>1, <2>2, WholeCut
  <2>4. /\ r[x].seq = ss[x].seq /\ r[x].parent = ss[x].parent /\ r[x].turn = ss[x].turn
        /\ \A y \in DOMAIN r[x].active : Later(ss[x].active[y], r[x].active[y], n)
    BY <2>1, <2>3 DEF Cut
  <2>5. Held(r[x]) \subseteq Held(ss[x])
    BY <2>3 DEF Held
  <2> QED BY <2>1, <2>3, <2>4, <2>5
<1>11. \A y \in DOMAIN r[o].active :
         IF y = a THEN r[o].active[y].at = n
         ELSE y \in DOMAIN ss[o].active /\ Later(ss[o].active[y], r[o].active[y], n)
  BY <1>3, <1>6, <1>8
<1>12. \A y \in DOMAIN r[o].stopped :
         y \in DOMAIN ss[o].stopped /\ r[o].stopped[y] = ss[o].stopped[y]
  BY <1>3, <1>6
<1>13. DOMAIN ss[o].active \ S \subseteq DOMAIN r[o].active
  BY <1>3, <1>6
<1> QED BY <1>0, <1>6, <1>7, <1>9, <1>10, <1>11, <1>12, <1>13

\* The snapshot a reproof leaves is sound.
LEMMA ReproofSound ==
  ASSUME NEW sn, Sound(sn), NEW a \in Codex, NEW t \in Turn, NEW o, NEW S, NEW r,
         Reproof(sn, r, a, t, o, S)
  PROVE  Sound([next |-> sn.next + 1, sessions |-> r])
<1> DEFINE ss == sn.sessions
           n == sn.next
<1>1. n \in Nat \ {0} /\ n + 1 \in Nat \ {0}
  BY DEF Sound
<1>2. /\ DOMAIN r = DOMAIN ss \ S /\ o \in DOMAIN r /\ o \in DOMAIN ss \cap Codex
      /\ a \in Held(ss[o])
      /\ \A x \in DOMAIN ss \ S : ss[x].parent # None => ss[x].parent \notin S
  BY DEF Reproof
<1>3. IsFiniteSet(DOMAIN r) /\ DOMAIN r \subseteq Session
  <2>1. IsFiniteSet(DOMAIN ss) /\ DOMAIN r \subseteq DOMAIN ss
    BY <1>2 DEF Sound
  <2>2. IsFiniteSet(DOMAIN r)
    BY <2>1, FS_Subset
  <2> QED BY <2>1, <2>2 DEF Sound
<1>4. \A x \in DOMAIN r : /\ x \in DOMAIN ss /\ Whole(x, r[x])
                          /\ Held(r[x]) \subseteq Held(ss[x])
                          /\ r[x].parent = ss[x].parent /\ r[x].turn = ss[x].turn
                          /\ DOMAIN ss[x].active \ S \subseteq DOMAIN r[x].active
  BY HeldAfterReproof
<1>5. \A x \in DOMAIN r : r[x].seq < n + 1
  <2>1. \A x \in DOMAIN r : r[x].seq = IF x = o THEN n ELSE ss[x].seq
    BY HeldAfterReproof
  <2>2. \A x \in DOMAIN r : ss[x].seq \in Nat /\ ss[x].seq < n
    BY <1>4 DEF Sound, Whole
  <2> QED BY <1>1, <2>1, <2>2
<1>6. ASSUME NEW x \in DOMAIN r, r[x].parent # None
      PROVE  LET p == r[x].parent
             IN  /\ {x, p} \subseteq Codex /\ p \in DOMAIN r /\ r[p].parent = None
                 /\ x \in DOMAIN r[p].active /\ r[x].turn \in {None, r[p].active[x].turn}
                 /\ Held(r[x]) = {}
  <2> DEFINE p == ss[x].parent
  <2>1. /\ {x, p} \subseteq Codex /\ p \in DOMAIN ss /\ ss[p].parent = None
        /\ x \in DOMAIN ss[p].active /\ ss[x].turn \in {None, ss[p].active[x].turn}
        /\ Held(ss[x]) = {} /\ r[x].parent = p
    BY <1>4, <1>6 DEF Sound, Linkage
  <2>2. p \in DOMAIN r /\ x \notin S
    BY <1>2, <1>4, <1>6, <2>1
  <2>3. r[p].parent = None /\ x \in DOMAIN r[p].active
    BY <1>4, <2>1, <2>2
  <2>4. x # a
    BY <2>1, <2>2 DEF Reproof
  <2>5. Later(ss[p].active[x], r[p].active[x], n)
    BY <2>2, <2>3, <2>4, HeldAfterReproof
  <2>6. r[p].active[x].turn = ss[p].active[x].turn /\ r[x].turn = ss[x].turn
    BY <1>4, <2>5 DEF Later
  <2>7. Held(r[x]) = {}
    BY <1>4, <2>1
  <2> QED BY <2>1, <2>2, <2>3, <2>6, <2>7
<1>7. Linkage(r)
  BY <1>6 DEF Linkage
<1>8. Apart(r)
  BY <1>4 DEF Apart, Sound
<1>9. Ranked(r)
  <2>1. PICK rank \in [Session -> Nat] : RanksOf(ss, rank)
    BY DEF Sound, Ranked
  <2>2. RanksOf(r, rank)
    BY <1>4, <2>1 DEF RanksOf
  <2> QED BY <2>1, <2>2 DEF Ranked
<1> DEFINE new == [next |-> n + 1, sessions |-> r]
<1>10. new.next = n + 1 /\ new.sessions = r
  OBVIOUS
<1> HIDE DEF new
<1>11. Sound(new)
  BY <1>1, <1>3, <1>4, <1>5, <1>7, <1>8, <1>9, <1>10 DEF Sound
<1> QED BY <1>11 DEF new

------------------------------------------------------------------------------
(* What the writer's validation accepts. *)

\* Nobody is below itself: through owners ranks fall, through links one gets
\* to the provider session at once.
LEMMA SoundIsAcyclic ==
  ASSUME NEW sn, Sound(sn) PROVE Acyclic(sn)
<1> DEFINE ss == sn.sessions
<1> SUFFICES ASSUME NEW s \in DOMAIN ss
             PROVE  LET Holds(x) == DOMAIN ss[x].active \cup DOMAIN ss[x].stopped
                        owned[n \in Nat] ==
                          IF n = 0 THEN {s}
                          ELSE {x \in DOMAIN ss \cap Codex : Holds(x) \cap owned[n - 1] # {}}
                        linked[n \in Nat] ==
                          IF n = 0 THEN {s} ELSE {ss[x].parent : x \in linked[n - 1] \ {None}}
                    IN  \A n \in 1..Cardinality(DOMAIN ss) : s \notin owned[n] \cup linked[n]
  BY DEF Acyclic
<1> DEFINE Holds(x) == DOMAIN ss[x].active \cup DOMAIN ss[x].stopped
           owned[n \in Nat] ==
             IF n = 0 THEN {s}
             ELSE {x \in DOMAIN ss \cap Codex : Holds(x) \cap owned[n - 1] # {}}
           linked[n \in Nat] ==
             IF n = 0 THEN {s} ELSE {ss[x].parent : x \in linked[n - 1] \ {None}}
<1>0. /\ DOMAIN ss \subseteq Session /\ None \notin Session
      /\ \A x \in DOMAIN ss : Held(ss[x]) \subseteq Session
  BY SoundTopology, ProviderAssumption
<1>1. \A n \in Nat \ {0} : s \notin owned[n]
  <2> DEFINE D == SUBSET (DOMAIN ss \cup {s})
             F == [T \in D |-> {x \in DOMAIN ss \cap Codex : Holds(x) \cap T # {}}]
             Climbs(g) == g = [n \in Nat |->
                IF n = 0 THEN {s}
                ELSE {x \in DOMAIN ss \cap Codex : Holds(x) \cap g[n - 1] # {}}]
  <2>1. PICK f : Iterates(D, F, {s}, f)
    <3>1. F \in [D -> D] /\ {s} \in D
      OBVIOUS
    <3> HIDE DEF D, F, owned
    <3> QED BY <3>1, Iteration
  <2>2. f \in [Nat -> D] /\ f[0] = {s} /\ \A n \in Nat : f[n + 1] = F[f[n]]
    BY <2>1 DEF Iterates
  <2>3. Climbs(f)
    <3>1. ASSUME NEW n \in Nat, n # 0
          PROVE  f[n] = {x \in DOMAIN ss \cap Codex : Holds(x) \cap f[n - 1] # {}}
      <4>1. n - 1 \in Nat /\ (n - 1) + 1 = n
        BY <3>1
      <4>2. f[n] = F[f[n - 1]] /\ f[n - 1] \in D
        BY <2>2, <4>1
      <4> QED BY <4>2
    <3>2. f = [n \in Nat |-> f[n]]
      BY <2>2
    <3> QED BY <2>2, <3>1, <3>2
  <2>4. Climbs(owned)
    <3> HIDE DEF Holds
    <3> QED BY <2>3
  <2> HIDE DEF owned
  <2>5. /\ owned[0] = {s}
        /\ \A n \in Nat : owned[n + 1] =
             {x \in DOMAIN ss \cap Codex : Held(ss[x]) \cap owned[n] # {}}
    BY <2>4 DEF Held
  <2>6. PICK rank \in [Session -> Nat] : RanksOf(ss, rank)
    BY DEF Sound, Ranked
  <2> DEFINE above == {x \in Session : rank[x] < rank[s]}
             T == {n \in Nat : owned[n + 1] \subseteq above}
  <2>7. 0 \in T
    <3>1. owned[0 + 1] = {x \in DOMAIN ss \cap Codex : Held(ss[x]) \cap owned[0] # {}}
      BY <2>5
    <3>2. ASSUME NEW x \in owned[0 + 1] PROVE x \in above
      <4>1. x \in DOMAIN ss \cap Codex /\ s \in Held(ss[x])
        BY <2>5, <3>1, <3>2
      <4> QED BY <1>0, <2>6, <4>1 DEF RanksOf
    <3> QED BY <3>2
  <2>8. ASSUME NEW n \in Nat, n \in T PROVE n + 1 \in T
    <3>1. owned[(n + 1) + 1] = {x \in DOMAIN ss \cap Codex : Held(ss[x]) \cap owned[n + 1] # {}}
      BY <2>5
    <3>2. ASSUME NEW x \in owned[(n + 1) + 1] PROVE x \in above
      <4>1. PICK y \in owned[n + 1] : x \in DOMAIN ss \cap Codex /\ y \in Held(ss[x])
        BY <3>1, <3>2
      <4>2. rank[x] < rank[y] /\ rank[y] < rank[s] /\ y \in Session /\ x \in Session
        BY <1>0, <2>6, <2>8, <4>1 DEF RanksOf
      <4>3. rank[x] \in Nat /\ rank[y] \in Nat /\ rank[s] \in Nat
        BY <1>0, <4>2
      <4> QED BY <4>2, <4>3
    <3> QED BY <3>2
  <2>9. Nat \subseteq T
    <3> HIDE DEF T
    <3> QED BY <2>7, <2>8, SetInduction
  <2>10. ASSUME NEW n \in Nat \ {0} PROVE s \notin owned[n]
    <3>1. n - 1 \in T /\ (n - 1) + 1 = n
      BY <2>9
    <3>2. owned[n] \subseteq above
      BY <3>1
    <3>3. rank[s] \in Nat
      BY <1>0
    <3> QED BY <3>2, <3>3
  <2> QED BY <2>10
<1>2. \A n \in Nat \ {0} : s \notin linked[n]
  <2> DEFINE p == ss[s].parent
             E == {s, p, None}
             D == SUBSET E
             F == [T \in D |-> {ss[x].parent : x \in T \ {None}}]
             Climbs(g) == g = [n \in Nat |->
                IF n = 0 THEN {s} ELSE {ss[x].parent : x \in g[n - 1] \ {None}}]
  <2>0. /\ s # None /\ p # s
        /\ \A x \in E \ {None} : ss[x].parent \in {p, None}
        /\ p # None => ss[p].parent = None
    BY <1>0 DEF Sound, Linkage
  <2>1. PICK f : Iterates(D, F, {s}, f)
    <3>1. F \in [D -> D] /\ {s} \in D
      BY <2>0
    <3> HIDE DEF D, F, linked
    <3> QED BY <3>1, Iteration
  <2>2. f \in [Nat -> D] /\ f[0] = {s} /\ \A n \in Nat : f[n + 1] = F[f[n]]
    BY <2>1 DEF Iterates
  <2>3. Climbs(f)
    <3>1. ASSUME NEW n \in Nat, n # 0
          PROVE  f[n] = {ss[x].parent : x \in f[n - 1] \ {None}}
      <4>1. n - 1 \in Nat /\ (n - 1) + 1 = n
        BY <3>1
      <4>2. f[n] = F[f[n - 1]] /\ f[n - 1] \in D
        BY <2>2, <4>1
      <4> QED BY <4>2
    <3>2. f = [n \in Nat |-> f[n]]
      BY <2>2
    <3> QED BY <2>2, <3>1, <3>2
  <2>4. Climbs(linked)
    BY <2>3
  <2> HIDE DEF linked
  <2>5. /\ linked[0] = {s}
        /\ \A n \in Nat : linked[n + 1] = {ss[x].parent : x \in linked[n] \ {None}}
    BY <2>4
  <2> DEFINE T == {n \in Nat : linked[n + 1] \subseteq {p, None}}
  <2>6. 0 \in T
    <3>1. linked[0 + 1] = {ss[x].parent : x \in {s} \ {None}}
      BY <2>5
    <3> QED BY <3>1
  <2>7. ASSUME NEW n \in Nat, n \in T PROVE n + 1 \in T
    <3>1. linked[(n + 1) + 1] = {ss[x].parent : x \in linked[n + 1] \ {None}}
      BY <2>5
    <3> QED BY <2>0, <2>7, <3>1
  <2>8. Nat \subseteq T
    <3> HIDE DEF T
    <3> QED BY <2>6, <2>7, SetInduction
  <2>9. ASSUME NEW n \in Nat \ {0} PROVE s \notin linked[n]
    <3>1. n - 1 \in T /\ (n - 1) + 1 = n
      BY <2>8
    <3>2. linked[n] \subseteq {p, None}
      BY <3>1
    <3> QED BY <2>0, <3>2
  <2> QED BY <2>9
<1>3. \A n \in 1..Cardinality(DOMAIN ss) : n \in Nat \ {0}
  BY FS_CardinalityType DEF Sound
<1>4. \A n \in 1..Cardinality(DOMAIN ss) : s \notin owned[n] \cup linked[n]
  <2> HIDE DEF owned, linked
  <2> QED BY <1>1, <1>2, <1>3
<1> QED BY <1>4

\* A linked session's owner is its parent.
LEMMA SoundIsLinked ==
  ASSUME NEW sn, Sound(sn), NEW s \in DOMAIN sn.sessions PROVE ValidLink(sn, s)
<1> DEFINE ss == sn.sessions
           p == ss[s].parent
<1> SUFFICES ASSUME p # None
             PROVE  /\ p \in DOMAIN ss \ {s}
                    /\ \E o \in ActiveOwners(ss, s) :
                         ss[s].turn \in {None, ss[o].active[s].turn} /\ Descends(ss, o, p)
  BY DEF ValidLink
<1>1. /\ {s, p} \subseteq Codex /\ p \in DOMAIN ss /\ ss[p].parent = None
      /\ s \in DOMAIN ss[p].active /\ ss[s].turn \in {None, ss[p].active[s].turn}
  BY DEF Sound, Linkage
<1>2. p \in ActiveOwners(ss, s)
  BY <1>1 DEF ActiveOwners, Kin
<1>3. Descends(ss, p, p)
  BY <1>1, HolderIsTop
<1> QED BY <1>1, <1>2, <1>3

\* The edges of a sound snapshot.
LEMMA SoundHasEdges ==
  ASSUME NEW sn, Sound(sn), NEW s \in DOMAIN sn.sessions PROVE ValidEdges(sn, s)
<1> DEFINE ss == sn.sessions
           st == ss[s]
<1>1. Holding(s, st) /\ s \in Session
  BY DEF Sound, Whole
<1>2. st.stopped # Empty => s \in Codex
  <2>1. DOMAIN st.stopped = {} => st.stopped = Empty
    BY <1>1 DEF Holding, Edges, Empty
  <2> QED BY <1>1, <2>1 DEF Holding
<1>3. ASSUME NEW a \in DOMAIN st.active \cup DOMAIN st.stopped
      PROVE  /\ s \in Codex => a # s
             /\ {x \in DOMAIN ss \cap Kin(s) :
                   a \in DOMAIN ss[x].active \cup DOMAIN ss[x].stopped} = {s}
  <2>1. s \in Kin(s)
    BY <1>1, ProviderAssumption DEF Kin
  <2>2. \A x \in DOMAIN ss : x # s => a \notin Held(ss[x])
    BY <1>3 DEF Sound, Apart, Held
  <2>3. s \in Codex => a # s
    BY <1>1, <1>3 DEF Holding, Held
  <2> QED BY <2>1, <2>2, <2>3 DEF Held
<1>4. /\ DOMAIN st.active \cap DOMAIN st.stopped = {}
      /\ Cardinality(DOMAIN st.active) <= MaxActive
      /\ Cardinality(DOMAIN st.stopped) <= MaxActive
      /\ \A a \in DOMAIN st.active : st.active[a].seq \in 1..st.seq
      /\ \A a \in DOMAIN st.stopped : st.stopped[a].seq \in 1..st.seq
  BY <1>1 DEF Holding, Edges
<1> QED BY <1>2, <1>3, <1>4 DEF ValidEdges

\* What the writer wants of one session and Sound does not say.
Marked(st) == st.seq # 0 /\ ValidSignature(st)

\* A sound snapshot within the writer's limits is valid.
LEMMA SoundIsValid ==
  ASSUME NEW sn, Sound(sn), sn.next <= MaxSequence,
         Cardinality(DOMAIN sn.sessions) <= MaxSessions,
         \A s \in DOMAIN sn.sessions : Marked(sn.sessions[s])
  PROVE  Valid(sn)
<1>1. ASSUME NEW s \in DOMAIN sn.sessions PROVE ValidSession(sn, s)
  <2> DEFINE st == sn.sessions[s]
  <2>1. Whole(s, st) /\ st.seq < sn.next /\ Marked(st) /\ sn.next \in Nat
    BY DEF Sound
  <2>2. st.seq \in 1..(sn.next - 1)
    BY <2>1 DEF Whole, Marked
  <2>3. /\ Turnwise(s, st) /\ Len(st.recent) <= MaxRecent /\ ValidInvocation(s, st)
    BY <2>1 DEF Whole, Turnwise
  <2>4. ValidTurns(st)
    <3>1. st.recent \in Seq(Turn) /\ NoRepeats(st.recent) /\ (st.open => st.turn # None)
      BY <2>3 DEF Turnwise
    <3> HIDE DEF st
    <3>2. Cardinality({st.recent[i] : i \in DOMAIN st.recent}) = Len(st.recent)
      BY <3>1, CountingRepeats
    <3> QED BY <3>1, <3>2 DEF ValidTurns, Recent
  <2>5. ValidEdges(sn, s)
    BY SoundHasEdges
  <2> QED BY <2>1, <2>2, <2>3, <2>4, <2>5 DEF ValidSession, Marked
<1>2. \A s \in DOMAIN sn.sessions : ValidLink(sn, s)
  BY SoundIsLinked
<1> QED BY <1>1, <1>2, SoundIsAcyclic DEF Valid

\* What an accepted event leaves is valid, unless the writer has no room for
\* its session or its number, or the agent of a compacted session stops.
LEMMA AcceptedValid ==
  ASSUME NEW sn, Sound(sn), Valid(sn), NEW e, Told(e), Accepts(sn, e),
         sn.next # MaxSequence,
         e.session \notin DOMAIN sn.sessions => Cardinality(DOMAIN sn.sessions) # MaxSessions,
         e.session \in Codex /\ e.kind = "SubagentStop" => sn.sessions[e.session].source = None
  PROVE  Valid(After(sn, e))
<1> DEFINE ss == sn.sessions
           s == e.session
           n == sn.next
           r == After(sn, e).sessions
           new == After(sn, e)
<1>1. PICK R : Hearing(sn, r, e, R)
  BY AcceptedHeard
<1>2. /\ Sound(new) /\ new = [next |-> n + 1, sessions |-> r]
  BY AcceptedSound, AcceptedHeard
<1> HIDE DEF r, new
<1>3. new.next = n + 1 /\ new.sessions = r
  BY <1>2
<1>4. n + 1 <= MaxSequence
  BY LimitAssumption DEF Sound, Valid
<1>5. Cardinality(DOMAIN r) <= MaxSessions
  <2>1. /\ IsFiniteSet(DOMAIN ss) /\ Cardinality(DOMAIN ss) \in Nat
        /\ Cardinality(DOMAIN ss) <= MaxSessions /\ MaxSessions \in Nat
    BY FS_CardinalityType, LimitAssumption DEF Sound, Valid
  <2>2. IsFiniteSet(DOMAIN ss \cup {s}) /\ Cardinality(DOMAIN ss \cup {s}) <= MaxSessions
    <3>1. CASE s \in DOMAIN ss
      <4>1. DOMAIN ss \cup {s} = DOMAIN ss
        BY <3>1
      <4> QED BY <2>1, <4>1
    <3>2. CASE s \notin DOMAIN ss
      <4>1. /\ IsFiniteSet(DOMAIN ss \cup {s})
            /\ Cardinality(DOMAIN ss \cup {s}) = Cardinality(DOMAIN ss) + 1
        BY <2>1, <3>2, FS_AddElement
      <4>2. Cardinality(DOMAIN ss) # MaxSessions
        BY <3>2
      <4> QED BY <2>1, <4>1, <4>2
    <3> QED BY <3>1, <3>2
  <2>3. DOMAIN r \subseteq DOMAIN ss \cup {s}
    BY <1>1 DEF Hearing
  <2> QED BY <2>1, <2>2, <2>3, PartCounted
<1>6. ASSUME NEW x \in DOMAIN r PROVE Marked(r[x])
  <2>1. CASE x = s
    <3> DEFINE w == r[s]
    <3>1. Renewed(s, State(sn, e), w, e, n)
      BY <1>1 DEF Hearing
    <3>2. w.seq = n /\ n # 0 /\ w.signature = SignatureOf(e)
      BY <3>1 DEF Renewed, Sound
    <3>3. w.signature # None /\ w.signature.kind = e.kind /\ w.signature.source = e.source
      BY <3>2, NoneAssumption DEF Told, SignatureOf
    <3>4. w.source = IF e.kind = "SessionStart" THEN e.source ELSE None
      <4>1. CASE s \in Codex /\ e.kind = "SubagentStop" /\ w.source = State(sn, e).source
        <5>1. AcceptsCodexStop(sn, e)
          BY <4>1 DEF Accepts
        <5>2. State(sn, e).source = None
          BY <4>1, <5>1 DEF AcceptsCodexStop, State
        <5> QED BY <4>1, <5>2
      <4>2. CASE w.source = IF e.kind = "SessionStart" THEN e.source ELSE None
        BY <4>2
      <4> QED BY <3>1, <4>1, <4>2 DEF Renewed
    <3> HIDE DEF w
    <3>5. Marked(w)
      BY <3>2, <3>3, <3>4 DEF Marked, ValidSignature
    <3> QED BY <2>1, <3>5 DEF w
  <2>2. CASE x # s
    <3>1. PICK B : Cut(ss[x], r[x], R, B, n)
      BY <1>1, <2>2 DEF Hearing
    <3>2. x \in DOMAIN ss
      BY <1>1, <2>2 DEF Hearing
    <3>3. ss[x].seq \in 1..(n - 1) /\ ValidSignature(ss[x])
      BY <3>2 DEF Valid, ValidSession
    <3>4. r[x].seq = ss[x].seq /\ r[x].signature = ss[x].signature /\ r[x].source = ss[x].source
      BY <3>1 DEF Cut
    <3> QED BY <3>3, <3>4 DEF Marked, ValidSignature
  <2> QED BY <2>1, <2>2
<1>7. Valid(new)
  BY <1>2, <1>3, <1>4, <1>5, <1>6, SoundIsValid
<1> QED BY <1>7 DEF new

------------------------------------------------------------------------------
(* The invariant of the stored snapshot. *)

SInv == IInv /\ Sound(db) /\ Valid(db) /\ IsAFcn(db) /\ IsAFcn(db.sessions)

\* The reducer builds functions.
LEMMA AfterIsAFcn ==
  ASSUME NEW sn, NEW e
  PROVE  IsAFcn(After(sn, e)) /\ IsAFcn(After(sn, e).sessions)
<1>1. \A ss, x, y : IsAFcn(Put(ss, x, y))
  BY DEF IsAFcn, Put
<1>2. \A ss, S, h, k : IsAFcn(RemoveSubtree(ss, S, h, k))
  BY DEF IsAFcn, RemoveSubtree
<1>3. \A ss, n : IsAFcn(ss) => IsAFcn(RefreshLinked(ss, e, n))
  BY DEF IsAFcn, RefreshLinked
<1>4. \A n, r : IsAFcn([next |-> n, sessions |-> r]) /\ [next |-> n, sessions |-> r].sessions = r
  BY DEF IsAFcn
<1> DEFINE Good(z) == IsAFcn(z) /\ IsAFcn(z.sessions)
<1>5. Good(AfterSessionStart(sn, e))
  BY <1>2, <1>3, <1>4 DEF AfterSessionStart
<1>6. Good(AfterCodexStart(sn, e))
  BY <1>1, <1>3, <1>4 DEF AfterCodexStart
<1>7. Good(AfterCodexStop(sn, e))
  BY <1>2, <1>3, <1>4 DEF AfterCodexStop
<1>8. Good(AfterTurnEvent(sn, e))
  BY <1>2, <1>4 DEF AfterTurnEvent
<1>9. Good(After(sn, e))
  <2> HIDE DEF Good
  <2> QED BY <1>5, <1>6, <1>7, <1>8 DEF After
<1> QED BY <1>9

\* An ignored event of a known session, or no step, changes nothing.
LEMMA IgnoredIsNothing ==
  ASSUME SInv, NEW e, ~Accepts(db, e), e.session \in DOMAIN db.sessions \/ ~IsStep(e)
  PROVE  Apply(db, e) = db
<1>1. CASE ~IsStep(e)
  BY <1>1 DEF Apply
<1>2. CASE IsStep(e)
  <2> DEFINE s == e.session
             ss == db.sessions
  <2>1. s \in DOMAIN ss /\ State(db, e) = ss[s]
    BY <1>2 DEF State
  <2>2. Put(ss, s, ss[s]) = [x \in DOMAIN ss |-> ss[x]]
    BY <2>1 DEF Put
  <2>3. Put(ss, s, ss[s]) = ss
    BY <2>2 DEF SInv, IsAFcn
  <2>4. [db EXCEPT !.sessions = ss] = [x \in DOMAIN db |-> db[x]]
    BY DEF SInv, IInv
  <2>5. [db EXCEPT !.sessions = ss] = db
    BY <2>4 DEF SInv, IsAFcn
  <2> QED BY <1>2, <2>1, <2>3, <2>5 DEF Apply
<1> QED BY <1>1, <1>2

\* An ignored step of a session nobody has heard of is refused.
LEMMA UnheardIsRefused ==
  ASSUME SInv, NEW e, ~Accepts(db, e), IsStep(e), Valid(Apply(db, e))
  PROVE  e.session \in DOMAIN db.sessions
<1> DEFINE s == e.session
           st == State(db, e)
           r == Put(db.sessions, s, st)
           new == [db EXCEPT !.sessions = r]
<1>1. Apply(db, e) = new
  BY DEF Apply
<1>2. s \in DOMAIN r /\ r[s] = st
  BY DEF Put
<1> HIDE DEF r
<1>3. new.sessions = r
  BY DEF SInv, IInv
<1> HIDE DEF new
<1>4. ValidSession(new, s)
  BY <1>1, <1>2, <1>3 DEF Valid
<1>5. st.signature # None
  BY <1>2, <1>3, <1>4 DEF ValidSession, ValidSignature
<1> QED BY <1>5 DEF State, NewSession

\* No order of events wedges the store.
LEMMA ReportsAreStored ==
  ASSUME SInv PROVE ReducerSatisfiesWriter
<1> SUFFICES ASSUME NEW e \in Reportable, ~KnownRefusal(e) PROVE Valid(Apply(db, e))
  BY DEF ReducerSatisfiesWriter
<1>1. Told(e)
  BY ToldReports
<1>2. CASE Accepts(db, e)
  <2>1. Apply(db, e) = After(db, e)
    BY <1>2 DEF Apply
  <2>2. Valid(After(db, e))
    BY <1>1, <1>2, AcceptedValid DEF SInv, KnownRefusal, Known
  <2> QED BY <2>1, <2>2
<1>3. CASE ~Accepts(db, e)
  <2>1. e.session \in DOMAIN db.sessions \/ ~IsStep(e)
    BY DEF KnownRefusal, Known
  <2> QED BY <1>3, <2>1, IgnoredIsNothing DEF SInv
<1> QED BY <1>2, <1>3

\* Recording a told event keeps the snapshot sound.
LEMMA RecordKeepsSound ==
  ASSUME SInv, NEW e, Told(e), Record(e)
  PROVE  /\ Sound(db') /\ Valid(db') /\ IsAFcn(db') /\ IsAFcn(db'.sessions)
         /\ db' # db => Accepts(db, e) /\ db' = After(db, e)
<1>1. db' = Apply(db, e) /\ Valid(Apply(db, e))
  BY DEF Record, Persist
<1>2. CASE Accepts(db, e)
  <2>1. db' = After(db, e)
    BY <1>1, <1>2 DEF Apply
  <2>2. Sound(After(db, e))
    BY <1>2, AcceptedSound DEF SInv
  <2> QED BY <1>1, <1>2, <2>1, <2>2, AfterIsAFcn
<1>3. CASE ~Accepts(db, e)
  <2>1. db' = db
    BY <1>1, <1>3, UnheardIsRefused, IgnoredIsNothing
  <2> QED BY <2>1 DEF SInv
<1> QED BY <1>2, <1>3

\* A reproof that is stored.
StoredReproof ==
  \E a \in Child \cap Codex : \E p \in (Root \cap Codex) \ {a}, t \in Begun(a) :
    \E o, S : /\ Reproof(db, db'.sessions, a, t, o, S)
              /\ Persist([next |-> db.next + 1, sessions |-> db'.sessions])
              /\ db' = [next |-> db.next + 1, sessions |-> db'.sessions]
              /\ IsAFcn(db'.sessions)
              /\ begun[a][t] > (IF a \in DOMAIN db.sessions[o].active
                                THEN db.sessions[o].active[a].at
                                ELSE db.sessions[o].stopped[a].at)

\* Every reproof of the store is such a step.
LEMMA ReproveIs ==
  ASSUME SInv, Reprove PROVE StoredReproof /\ begun' = begun
<1>0. PICK a \in Child \cap Codex : \E p \in (Root \cap Codex) \ {a}, t \in Begun(a) :
        /\ \E o \in DOMAIN db.sessions :
             /\ \/ ReprovesActive(db, Evidence(a, p, t), o)
                \/ ReprovesStopped(db, Evidence(a, p, t), o)
             /\ Persist(AfterReproof(db, Evidence(a, p, t), o))
        /\ begun' = begun
  BY DEF Reprove
<1>1. PICK p \in (Root \cap Codex) \ {a}, t \in Begun(a), o \in DOMAIN db.sessions :
        /\ \/ ReprovesActive(db, Evidence(a, p, t), o)
           \/ ReprovesStopped(db, Evidence(a, p, t), o)
        /\ Persist(AfterReproof(db, Evidence(a, p, t), o))
        /\ begun' = begun
  BY <1>0
<1> DEFINE ev == Evidence(a, p, t)
           new == AfterReproof(db, ev, o)
<1>2. ev.agent = a /\ ev.turn = t /\ ev.at = begun[a][t]
  BY DEF Evidence
<1> HIDE DEF ev
<1>3. PICK S : Reproof(db, new.sessions, a, t, o, S)
  BY <1>1, <1>2, ReproofIs DEF SInv, ev
<1>4. new = [next |-> db.next + 1, sessions |-> new.sessions] /\ IsAFcn(new.sessions)
  <2>1. new = [next |-> db.next + 1, sessions |-> new.sessions]
    BY DEF AfterReproof
  <2>2. IsAFcn(new.sessions)
    <3>1. \E k, f, g, n : new.sessions = [k EXCEPT ![o].stopped = f, ![o].active = g, ![o].seq = n]
      BY DEF AfterReproof
    <3> HIDE DEF new
    <3>2. PICK k, f, g, n :
            new.sessions = [k EXCEPT ![o].stopped = f, ![o].active = g, ![o].seq = n]
      BY <3>1
    <3> QED BY <3>2 DEF IsAFcn
  <2> QED BY <2>1, <2>2
<1>5. begun[a][t] > (IF a \in DOMAIN db.sessions[o].active THEN db.sessions[o].active[a].at
                     ELSE db.sessions[o].stopped[a].at)
  <2>1. CASE ReprovesActive(db, ev, o)
    BY <1>2, <2>1 DEF ReprovesActive, ActiveOwners, Fresher
  <2>2. CASE ReprovesStopped(db, ev, o)
    <3>1. a \notin DOMAIN db.sessions[o].active
      <4>1. o \in DOMAIN db.sessions \cap Codex
        BY <2>2 DEF ReprovesStopped, StoppedOwners
      <4> QED BY <1>2, <2>2, <4>1 DEF ReprovesStopped, ActiveOwners, Kin
    <3> QED BY <1>2, <2>2, <3>1 DEF ReprovesStopped, Fresher
  <2> QED BY <1>1, <2>1, <2>2 DEF ev
<1>6. db' = new /\ Persist(new)
  BY <1>1 DEF Persist, ev
<1> HIDE DEF new
<1>7. Persist([next |-> db.next + 1, sessions |-> db'.sessions])
  BY <1>4, <1>6
<1>8. db' = [next |-> db.next + 1, sessions |-> db'.sessions] /\ IsAFcn(db'.sessions)
  BY <1>4, <1>6
<1>9. Reproof(db, db'.sessions, a, t, o, S)
  BY <1>3, <1>6
<1> QED BY <1>1, <1>5, <1>7, <1>8, <1>9 DEF StoredReproof

\* A start of a Codex agent names a turn the agent has begun.
Named(e) == e.kind = "SubagentStart" /\ e.agent \in Codex =>
              RecordCodexAgent /\ e.turn \in Begun(e.agent)

\* The step is the record of a told event, not a reproof, or leaves the store
\* alone.
LEMMA StepIs ==
  ASSUME SInv, [Next]_vars
  PROVE  \/ \E e : Told(e) /\ Record(e) /\ Named(e)
         \/ StoredReproof /\ begun' = begun
         \/ UNCHANGED <<db, past>>
<1>1. CASE RecordSessionStart
  <2>1. PICK e \in SessionStarts : Record(e)
    BY <1>1 DEF RecordSessionStart
  <2>2. Told(e) /\ e.kind = "SessionStart"
    BY ToldStarts
  <2> QED BY <2>1, <2>2 DEF Named
<1>2. CASE RecordTurnEvent
  <2>1. PICK s \in Root : \E e \in RootTurnEvents(s) : Record(e)
    BY <1>2 DEF RecordTurnEvent
  <2>2. PICK e \in RootTurnEvents(s) : Record(e)
    BY <2>1
  <2>3. Told(e) /\ e.kind \notin {"SubagentStart", "SubagentStop"}
    BY ToldRoots
  <2> QED BY <2>2, <2>3 DEF Named
<1>3. CASE RecordCodexAgent
  <2>1. PICK a \in Child \cap Codex : \E s \in (Root \cap Codex) \ {a}, t \in Begun(a) :
          \E e \in AgentEvents(s, a, t) : Record(e)
    BY <1>3 DEF RecordCodexAgent
  <2>2. PICK s \in (Root \cap Codex) \ {a}, t \in Begun(a) : \E e \in AgentEvents(s, a, t) : Record(e)
    BY <2>1
  <2>3. PICK e \in AgentEvents(s, a, t) : Record(e)
    BY <2>2
  <2>4. s \in Root /\ s \notin Antigravity /\ a \in Kin(s) /\ a # s /\ t \in Turn
    BY <2>1, <2>2, ProviderAssumption DEF Kin, Begun
  <2>5. Told(e) /\ e.agent = a /\ e.turn = t
    BY <2>3, <2>4, ToldAgents
  <2> QED BY <1>3, <2>2, <2>3, <2>5 DEF Named
<1>4. CASE RecordAgent
  <2>1. PICK s \in Root \ (Codex \cup Antigravity), a \in Child \ (Codex \cup Antigravity) :
          \E t \in PlainTurn : \E e \in AgentEvents(s, a, t) : Record(e)
    BY <1>4 DEF RecordAgent
  <2>2. PICK t \in PlainTurn : \E e \in AgentEvents(s, a, t) : Record(e)
    BY <2>1
  <2>3. PICK e \in AgentEvents(s, a, t) : Record(e)
    BY <2>2
  <2>4. s \in Root /\ s \notin Antigravity /\ s \notin Codex /\ a \in Kin(s) /\ t \in Turn
    BY <2>1, <2>2, SessionAssumption DEF Kin, PlainTurn
  <2>5. Told(e) /\ e.agent = a
    BY <2>3, <2>4, ToldAgents
  <2> QED BY <2>1, <2>3, <2>5 DEF Named
<1>5. CASE RecordChildEvent
  <2>1. PICK a \in Child \cap Codex : \E t \in Begun(a) :
          \E e \in ChildStarts(a, t) \cup ChildTurnEvents(a, t) : Record(e)
    BY <1>5 DEF RecordChildEvent
  <2>2. PICK t \in Begun(a) : \E e \in ChildStarts(a, t) \cup ChildTurnEvents(a, t) : Record(e)
    BY <2>1
  <2>3. PICK e \in ChildStarts(a, t) \cup ChildTurnEvents(a, t) : Record(e)
    BY <2>2
  <2>4. Told(e) /\ e.kind \notin {"SubagentStart", "SubagentStop"}
    BY <2>3, ToldChildren DEF Begun
  <2> QED BY <2>3, <2>4 DEF Named
<1>6. CASE Reprove
  BY <1>6, ReproveIs
<1>7. CASE BeginTurn \/ UNCHANGED vars
  BY <1>7 DEF BeginTurn, vars
<1> QED BY <1>1, <1>2, <1>3, <1>4, <1>5, <1>6, <1>7 DEF Next

\* Every step keeps the snapshot sound and valid.
LEMMA SoundStep ==
  ASSUME SInv, [Next]_vars
  PROVE  Sound(db') /\ Valid(db') /\ IsAFcn(db') /\ IsAFcn(db'.sessions)
<1>1. ASSUME NEW e, Told(e), Record(e)
      PROVE  Sound(db') /\ Valid(db') /\ IsAFcn(db') /\ IsAFcn(db'.sessions)
  BY <1>1, RecordKeepsSound
<1>2. CASE StoredReproof
  <2>1. PICK a \in Child \cap Codex : \E p \in (Root \cap Codex) \ {a}, t \in Begun(a) :
          \E o, S : /\ Reproof(db, db'.sessions, a, t, o, S)
                    /\ Persist([next |-> db.next + 1, sessions |-> db'.sessions])
                    /\ db' = [next |-> db.next + 1, sessions |-> db'.sessions]
                    /\ IsAFcn(db'.sessions)
    BY <1>2 DEF StoredReproof
  <2>2. PICK t, o, S :
          /\ t \in Begun(a)
          /\ Reproof(db, db'.sessions, a, t, o, S)
          /\ Persist([next |-> db.next + 1, sessions |-> db'.sessions])
          /\ db' = [next |-> db.next + 1, sessions |-> db'.sessions]
          /\ IsAFcn(db'.sessions)
    BY <2>1
  <2>3. Valid(db')
    BY <2>2 DEF Persist
  <2>4. Sound([next |-> db.next + 1, sessions |-> db'.sessions])
    BY <2>2, ReproofSound DEF SInv, Begun
  <2>5. \A n, r : IsAFcn([next |-> n, sessions |-> r])
    BY DEF IsAFcn
  <2>6. IsAFcn(db')
    BY <2>2, <2>5
  <2> QED BY <2>2, <2>3, <2>4, <2>6
<1>3. CASE db' = db
  BY <1>3 DEF SInv
<1> QED BY <1>1, <1>2, <1>3, StepIs

\* The empty store is sound.
LEMMA InitiallySound == Init => SInv
<1> SUFFICES ASSUME Init PROVE SInv
  OBVIOUS
<1>0. db = [sessions |-> Empty, next |-> 1] /\ DOMAIN Empty = {}
  BY DEF Init, Empty
<1>1. /\ DOMAIN db.sessions = {} /\ db.next = 1
      /\ IsAFcn(db) /\ IsAFcn(db.sessions)
  <2>1. IsAFcn(Empty)
    BY DEF IsAFcn, Empty
  <2>2. \A r, n : IsAFcn([sessions |-> r, next |-> n])
    BY DEF IsAFcn
  <2>3. IsAFcn(db)
    BY <1>0, <2>2
  <2> QED BY <1>0, <2>1, <2>3
<1>2. IsFiniteSet({}) /\ Cardinality({}) = 0
  BY FS_EmptySet
<1>3. Ranked(db.sessions)
  <2>1. [s \in Session |-> 0] \in [Session -> Nat]
    OBVIOUS
  <2> QED BY <1>1, <2>1 DEF Ranked, RanksOf
<1>4. Sound(db)
  BY <1>1, <1>2, <1>3 DEF Sound, Linkage, Apart
<1>5. Valid(db)
  BY <1>1, <1>2, <1>4, LimitAssumption, SoundIsValid
<1> QED BY <1>1, <1>4, <1>5, Initially DEF SInv

\* Soundness is inductive.
LEMMA SoundInductive == SInv /\ [Next]_vars => SInv'
<1> SUFFICES ASSUME SInv, [Next]_vars PROVE SInv'
  OBVIOUS
<1>1. IInv'
  <2>1. IInv
    BY DEF SInv
  <2> QED BY <2>1, EveryStep, StoreStepKeeps, HistoryTypes DEF IInv, TypeOK
<1> QED BY <1>1, SoundStep DEF SInv

\* The stored snapshot is sound in every reachable state.
THEOREM StoreIsSound == Spec => []SInv
BY InitiallySound, SoundInductive, PTL DEF Spec

\* Whatever a provider reports, in whatever order, the reducer's result passes
\* the writer's validation (validate_snapshot, storage/lifecycle.rs), but for
\* the refusals KnownRefusal names: no order of events wedges the store.
THEOREM NoEventIsWedged == Spec => []ReducerSatisfiesWriter
<1>1. SInv => ReducerSatisfiesWriter
  BY ReportsAreStored
<1> QED BY StoreIsSound, <1>1, PTL

\* The turn a session is in is not among those it remembers as ended
\* (remember_recent, lifecycle/projection.rs).
THEOREM OpenTurnIsNew == Spec => []OpenTurnIsNotRecent
<1>1. SInv => OpenTurnIsNotRecent
  BY DEF SInv, Sound, Whole, Turnwise, OpenTurnIsNotRecent, Known
<1> QED BY StoreIsSound, <1>1, PTL

\* Wherever refresh_linked_provider (lifecycle/projection.rs) looks for the
\* edge a linked event came through, the event has left it there.
THEOREM LinkedEdgeIsKept == Spec => []LinkedEventKeepsEdge
<1>1. SInv => LinkedEventKeepsEdge
  <2> SUFFICES ASSUME SInv, NEW e \in Reportable, e.session \in Codex, e.parent # None,
                      Accepts(db, e)
               PROVE  ProvenOwners(After(db, e).sessions, e.parent, e.session) # {}
    BY DEF LinkedEventKeepsEdge
  <2> DEFINE sn == After(db, e)
             r == sn.sessions
             p == e.parent
  <2>1. Told(e) /\ Sound(db)
    BY ToldReports DEF SInv
  <2>2. PICK R : Hearing(db, r, e, R)
    BY <2>1, AcceptedHeard
  <2>3. p \in DOMAIN r /\ e.session \in DOMAIN r[p].active
    BY <2>1, <2>2, LinkageKept
  <2>4. Sound(sn)
    BY <2>1, AcceptedSound
  <2> HIDE DEF sn
  <2>5. r[p].parent = None /\ Descends(r, p, p)
    <3>1. Held(r[p]) # {}
      BY <2>3 DEF Held
    <3> QED BY <2>3, <2>4, <3>1, HolderIsTop
  <2>6. p \in Kin(e.session)
    BY <2>1 DEF Told, Kin
  <2>7. p \in ProvenOwners(r, p, e.session)
    BY <2>3, <2>5, <2>6 DEF ProvenOwners, ActiveOwners, TopologyContains
  <2> QED BY <2>7 DEF sn
<1> QED BY StoreIsSound, <1>1, PTL

------------------------------------------------------------------------------
(* Refinement of the log. *)

\* What hearing an event does to the rows.
LEMMA HearingIsLogged ==
  ASSUME SInv, NEW e, Told(e), NEW R, Hearing(db, db'.sessions, e, R),
         db'.next = db.next + 1, db'.next <= MaxSequence
  PROVE  Log!Hear(e.session, e.kind = "Stop", R)
<1> DEFINE ss == db.sessions
           r == db'.sessions
           s == e.session
           n == db.next
           Row(m, x) == IF x \in DOMAIN m
                        THEN [seq |-> m[x].seq, stop |-> m[x].signature.kind = "Stop"]
                        ELSE [seq |-> 0, stop |-> FALSE]
<1>1. n < MaxSequence
  BY LimitAssumption DEF SInv, Sound
<1>2. /\ LatestEvent = [x \in Session |-> Row(ss, x)]
      /\ LatestEvent' = [x \in Session |-> Row(r, x)]
  BY DEF LatestEvent
<1>3. ASSUME NEW x \in Session
      PROVE  Row(r, x) = CASE x = s -> [seq |-> n, stop |-> e.kind = "Stop"]
                           [] x \in R \ {s} -> Log!Absent
                           [] OTHER -> Row(ss, x)
  <2>1. DOMAIN r = (DOMAIN ss \cup {s}) \ R /\ s \notin R
    BY DEF Hearing
  <2>2. CASE x = s
    <3>1. Renewed(s, State(db, e), r[s], e, n)
      BY DEF Hearing
    <3>2. r[s].seq = n /\ r[s].signature.kind = e.kind
      BY <3>1 DEF Renewed, SignatureOf
    <3> QED BY <2>1, <2>2, <3>2
  <2>3. CASE x # s /\ x \in R
    BY <2>1, <2>3 DEF Log!Absent
  <2>4. CASE x # s /\ x \notin R
    <3>1. CASE x \in DOMAIN ss
      <4>1. PICK B : Cut(ss[x], r[x], R, B, n)
        BY <2>1, <2>4, <3>1 DEF Hearing
      <4>2. r[x].seq = ss[x].seq /\ r[x].signature = ss[x].signature
        BY <4>1 DEF Cut
      <4> QED BY <2>1, <2>4, <3>1, <4>2
    <3>2. CASE x \notin DOMAIN ss
      BY <2>1, <2>4, <3>2
    <3> QED BY <3>1, <3>2
  <2> QED BY <2>2, <2>3, <2>4
<1> HIDE DEF Row
<1> QED BY <1>1, <1>2, <1>3 DEF Log!Hear

\* What a reproof does to the rows: the session that holds the agent gets the
\* next number, whatever its latest event was.
LEMMA ReproofIsLogged ==
  ASSUME SInv, NEW a \in Codex, NEW t \in Turn, NEW o, NEW S,
         Reproof(db, db'.sessions, a, t, o, S),
         db'.next = db.next + 1, db'.next <= MaxSequence
  PROVE  Log!Hear(o, db.sessions[o].signature.kind = "Stop", S)
<1> DEFINE ss == db.sessions
           r == db'.sessions
           n == db.next
           Row(m, x) == IF x \in DOMAIN m
                        THEN [seq |-> m[x].seq, stop |-> m[x].signature.kind = "Stop"]
                        ELSE [seq |-> 0, stop |-> FALSE]
<1>1. n < MaxSequence
  BY LimitAssumption DEF SInv, Sound
<1>2. /\ LatestEvent = [x \in Session |-> Row(ss, x)]
      /\ LatestEvent' = [x \in Session |-> Row(r, x)]
  BY DEF LatestEvent
<1>3. ASSUME NEW x \in Session
      PROVE  Row(r, x) = CASE x = o -> [seq |-> n, stop |-> ss[o].signature.kind = "Stop"]
                           [] x \in S \ {o} -> Log!Absent
                           [] OTHER -> Row(ss, x)
  <2>1. DOMAIN r = DOMAIN ss \ S /\ o \notin S /\ o \in DOMAIN ss
    BY DEF Reproof
  <2>2. CASE x = o
    <3>1. PICK k : Cut(ss[o], k, S, S, n) /\ Revived(k, r[o], a, t, n)
      BY DEF Reproof
    <3>2. r[o].seq = n /\ r[o].signature = ss[o].signature
      BY <3>1 DEF Revived, Cut
    <3> QED BY <2>1, <2>2, <3>2
  <2>3. CASE x # o /\ x \in S
    BY <2>1, <2>3 DEF Log!Absent
  <2>4. CASE x # o /\ x \notin S
    <3>1. CASE x \in DOMAIN ss
      <4>1. Cut(ss[x], r[x], S, S, n)
        BY <2>1, <2>4, <3>1 DEF Reproof
      <4>2. r[x].seq = ss[x].seq /\ r[x].signature = ss[x].signature
        BY <4>1 DEF Cut
      <4> QED BY <2>1, <2>4, <3>1, <4>2
    <3>2. CASE x \notin DOMAIN ss
      BY <2>1, <2>4, <3>2
    <3> QED BY <3>1, <3>2
  <2> QED BY <2>2, <2>3, <2>4
<1> HIDE DEF Row
<1> QED BY <1>1, <1>2, <1>3 DEF Log!Hear

\* A step that changes the stored snapshot is one event of the log.
LEMMA StepIsLogged ==
  ASSUME SInv, [Next]_vars
  PROVE  Log!LogNext \/ UNCHANGED <<LatestEvent, db.next>>
<1>1. ASSUME NEW e, Told(e), Record(e), db' # db PROVE Log!LogNext
  <2>1. Accepts(db, e) /\ db' = After(db, e) /\ Valid(db')
    BY <1>1, RecordKeepsSound
  <2>2. PICK R : /\ Hearing(db, After(db, e).sessions, e, R)
                 /\ After(db, e) = [next |-> db.next + 1, sessions |-> After(db, e).sessions]
    BY <1>1, <2>1, AcceptedHeard DEF SInv
  <2>3. Hearing(db, db'.sessions, e, R) /\ db'.next = db.next + 1
    BY <2>1, <2>2
  <2>4. db'.next <= MaxSequence
    BY <2>1 DEF Valid
  <2>5. Log!Hear(e.session, e.kind = "Stop", R)
    BY <1>1, <2>3, <2>4, HearingIsLogged
  <2>6. R \in SUBSET Session /\ e.session \in Session /\ (e.kind = "Stop") \in BOOLEAN
    BY <1>1, <2>3 DEF Hearing, Told
  <2> QED BY <2>5, <2>6 DEF Log!LogNext
<1>2. CASE StoredReproof
  <2>1. PICK a \in Child \cap Codex : \E p \in (Root \cap Codex) \ {a}, t \in Begun(a) :
          \E o, S : /\ Reproof(db, db'.sessions, a, t, o, S)
                    /\ Persist([next |-> db.next + 1, sessions |-> db'.sessions])
                    /\ db' = [next |-> db.next + 1, sessions |-> db'.sessions]
    BY <1>2 DEF StoredReproof
  <2>2. PICK t, o, S :
          /\ t \in Begun(a)
          /\ Reproof(db, db'.sessions, a, t, o, S)
          /\ Persist([next |-> db.next + 1, sessions |-> db'.sessions])
          /\ db' = [next |-> db.next + 1, sessions |-> db'.sessions]
    BY <2>1
  <2>3. db'.next = db.next + 1 /\ db'.next <= MaxSequence
    BY <2>2 DEF Persist, Valid
  <2>4. Log!Hear(o, db.sessions[o].signature.kind = "Stop", S)
    BY <2>2, <2>3, ReproofIsLogged DEF Begun
  <2>5. S \in SUBSET Session /\ o \in Session
        /\ (db.sessions[o].signature.kind = "Stop") \in BOOLEAN
    BY <2>2, ProviderAssumption DEF Reproof
  <2> QED BY <2>4, <2>5 DEF Log!LogNext
<1>3. CASE db' = db
  BY <1>3 DEF LatestEvent
<1> QED BY <1>1, <1>2, <1>3, StepIs

\* The stored lifecycle implements the log that recovery reads: every event and
\* every reproof takes a number no row ever had, and touches no row but its
\* session's and those it removes.
THEOREM StoreImplementsLog == Spec => ImplementsLog
<1>1. Init => Log!LogInit
  <2> SUFFICES ASSUME Init PROVE Log!LogInit
    OBVIOUS
  <2>1. db = [sessions |-> Empty, next |-> 1] /\ DOMAIN Empty = {}
    BY DEF Init, Empty
  <2>2. DOMAIN db.sessions = {} /\ db.next = 1
    BY <2>1
  <2> QED BY <2>2 DEF LatestEvent, Log!LogInit, Log!Absent
<1>2. SInv /\ [Next]_vars => [Log!LogNext]_<<LatestEvent, db.next>>
  BY StepIsLogged
<1> QED BY StoreIsSound, <1>1, <1>2, PTL DEF Spec, ImplementsLog, Log!LogSpec

------------------------------------------------------------------------------
(* Turns a child was proven for. *)

\* Sessions r come from ss at n: an edge is older than n only if it was there,
\* in the same turn and on the same side.
Aged(ss, r, n) ==
  \A x \in DOMAIN r :
    /\ \A a \in DOMAIN r[x].active :
         \/ r[x].active[a].at = n
         \/ /\ x \in DOMAIN ss /\ a \in DOMAIN ss[x].active
            /\ r[x].active[a].at = ss[x].active[a].at
            /\ r[x].active[a].turn = ss[x].active[a].turn
    /\ \A a \in DOMAIN r[x].stopped :
         \/ r[x].stopped[a].at = n
         \/ /\ x \in DOMAIN ss /\ a \in DOMAIN ss[x].stopped
            /\ r[x].stopped[a].at = ss[x].stopped[a].at

\* In sessions r an agent is active in the turn it was active in before, under
\* the same session, or it is the named one in the named turn.
SameTurnBut(ss, r, a, t) ==
  \A x \in DOMAIN r : \A y \in DOMAIN r[x].active :
    \/ /\ x \in DOMAIN ss /\ y \in DOMAIN ss[x].active
       /\ r[x].active[y].turn = ss[x].active[y].turn
    \/ y = a /\ r[x].active[y].turn = t

\* What an accepted event does to the edges.
LEMMA HearingAges ==
  ASSUME NEW sn, Sound(sn), NEW e, Told(e), NEW r, NEW R, Hearing(sn, r, e, R)
  PROVE  /\ Aged(sn.sessions, r, sn.next)
         /\ SameTurnBut(sn.sessions, r,
                        IF e.kind = "SubagentStart" THEN e.agent ELSE None, e.turn)
<1> DEFINE ss == sn.sessions
           n == sn.next
           s == e.session
           g == IF e.kind = "SubagentStart" THEN e.agent ELSE None
<1>1. ASSUME NEW x \in DOMAIN r
      PROVE  /\ \A a \in DOMAIN r[x].active :
                  \/ x \in DOMAIN ss /\ a \in DOMAIN ss[x].active
                     /\ Later(ss[x].active[a], r[x].active[a], n)
                  \/ a = g /\ EdgeOf(r[x].active[a], e.turn, n)
             /\ \A a \in DOMAIN r[x].stopped :
                  \/ r[x].stopped[a].at = n
                  \/ /\ x \in DOMAIN ss /\ a \in DOMAIN ss[x].stopped
                     /\ r[x].stopped[a].at = ss[x].stopped[a].at
  <2>1. CASE x = s
    <3>1. Renewed(s, State(sn, e), r[s], e, n)
      BY DEF Hearing
    <3>2. CASE s \in DOMAIN ss
      <4>1. State(sn, e) = ss[s]
        BY <3>2 DEF State
      <4> QED BY <2>1, <3>1, <3>2, <4>1 DEF Renewed
    <3>3. CASE s \notin DOMAIN ss
      <4>1. Held(State(sn, e)) = {}
        BY <3>3, StateWhole
      <4> QED BY <2>1, <3>1, <4>1 DEF Renewed, Held
    <3> QED BY <3>2, <3>3
  <2>2. CASE x # s
    <3>1. x \in DOMAIN ss
      BY <2>2 DEF Hearing
    <3>2. PICK B : Cut(ss[x], r[x], R, B, n)
      BY <2>2 DEF Hearing
    <3>3. Whole(x, ss[x])
      BY <3>1 DEF Sound
    <3>4. /\ DOMAIN r[x].active = DOMAIN ss[x].active \ R
          /\ DOMAIN r[x].stopped = DOMAIN ss[x].stopped \ B
          /\ \A a \in DOMAIN r[x].stopped : r[x].stopped[a] = ss[x].stopped[a]
      BY <3>2, <3>3, WholeCut
    <3>5. \A a \in DOMAIN r[x].active : Later(ss[x].active[a], r[x].active[a], n)
      BY <3>2, <3>4 DEF Cut
    <3> QED BY <3>1, <3>4, <3>5
  <2> QED BY <2>1, <2>2
<1>2. Aged(ss, r, n)
  BY <1>1 DEF Aged, Later, EdgeOf
<1>3. SameTurnBut(ss, r, g, e.turn)
  BY <1>1 DEF SameTurnBut, Later, EdgeOf
<1> QED BY <1>2, <1>3

\* What a reproof does to them.
LEMMA ReproofAges ==
  ASSUME NEW sn, Sound(sn), NEW a \in Codex, NEW t \in Turn, NEW o, NEW S, NEW r,
         Reproof(sn, r, a, t, o, S)
  PROVE  /\ Aged(sn.sessions, r, sn.next)
         /\ SameTurnBut(sn.sessions, r, a, t)
         /\ \A x \in DOMAIN r : Proven(r, x, a, t) => x = o \/ Proven(sn.sessions, x, a, t)
<1> DEFINE ss == sn.sessions
           n == sn.next
<1>1. \A x \in DOMAIN r :
        /\ x \in DOMAIN ss
        /\ \A y \in DOMAIN r[x].active :
             IF x = o /\ y = a THEN r[x].active[y].at = n
             ELSE y \in DOMAIN ss[x].active /\ Later(ss[x].active[y], r[x].active[y], n)
        /\ \A y \in DOMAIN r[x].stopped :
             y \in DOMAIN ss[x].stopped /\ r[x].stopped[y] = ss[x].stopped[y]
  BY HeldAfterReproof
<1>2. a \in DOMAIN r[o].active /\ r[o].active[a].turn = t
  BY DEF Reproof, Revived, Put
<1>3. Aged(ss, r, n)
  BY <1>1 DEF Aged, Later
<1>4. SameTurnBut(ss, r, a, t)
  BY <1>1, <1>2 DEF SameTurnBut, Later
<1>5. \A x \in DOMAIN r : Proven(r, x, a, t) => x = o \/ Proven(ss, x, a, t)
  BY <1>1 DEF Proven, Later
<1> QED BY <1>3, <1>4, <1>5

\* Every turn a child is or was proven for is one it has begun, and no edge to
\* it is older than a turn it was proven for and is no longer.
Remembered ==
  /\ \A a \in Child, t \in Turn : begun[a][t] <= db.next
  /\ \A a \in Child \cap Codex : past[a] \cup ProvenTurns(db.sessions, a) \subseteq Begun(a)
  /\ \A a \in Child \cap Codex : \A t \in past[a], x \in DOMAIN db.sessions :
       /\ a \in DOMAIN db.sessions[x].active => begun[a][t] <= db.sessions[x].active[a].at
       /\ a \in DOMAIN db.sessions[x].stopped => begun[a][t] <= db.sessions[x].stopped[a].at

HInv == SInv /\ Remembered

\* A transaction that keeps the edges' ages keeps what is remembered.
LEMMA StoringRemembers ==
  ASSUME HInv, NEW b, NEW u, b \in Codex => u \in Begun(b),
         Aged(db.sessions, db'.sessions, db.next),
         SameTurnBut(db.sessions, db'.sessions, b, u),
         db'.next = db.next + 1, begun' = begun,
         past' = [a \in Child |-> past[a] \cup (ProvenTurns(db.sessions, a)
                                                  \ ProvenTurns(db'.sessions, a))],
         db.next \in Nat
  PROVE  Remembered'
<1> DEFINE ss == db.sessions
           r == db'.sessions
           n == db.next
<1>0. begun \in [Child -> [Turn -> Nat]] /\ past \in [Child -> SUBSET Turn]
  <2>1. begun \in [Child -> [Turn -> 0..MaxSequence]] /\ 0..MaxSequence \subseteq Nat
    BY LimitAssumption DEF HInv, SInv, IInv, TypeOK
  <2> QED BY <2>1 DEF HInv, SInv, IInv, TypeOK
<1>1. \A a \in Child, t \in Turn : begun'[a][t] <= db'.next
  <2> SUFFICES ASSUME NEW a \in Child, NEW t \in Turn PROVE begun[a][t] <= n + 1
    OBVIOUS
  <2>1. begun[a][t] \in Nat /\ begun[a][t] <= n
    BY <1>0 DEF HInv, Remembered
  <2> QED BY <2>1
<1>2. ASSUME NEW a \in Child \cap Codex
      PROVE  past'[a] \cup ProvenTurns(r, a) \subseteq Begun(a)
  <2>1. past'[a] \subseteq past[a] \cup ProvenTurns(ss, a)
    OBVIOUS
  <2>2. past[a] \cup ProvenTurns(ss, a) \subseteq Begun(a)
    BY DEF HInv, Remembered
  <2>3. ASSUME NEW t \in ProvenTurns(r, a) PROVE t \in Begun(a)
    <3>1. t \in Turn /\ \E x \in DOMAIN r : Proven(r, x, a, t)
      BY <2>3 DEF ProvenTurns
    <3>2. PICK x \in DOMAIN r : a \in DOMAIN r[x].active /\ r[x].active[a].turn = t
      BY <3>1 DEF Proven
    <3>3. CASE x \in DOMAIN ss /\ a \in DOMAIN ss[x].active /\ ss[x].active[a].turn = t
      <4>1. t \in ProvenTurns(ss, a)
        BY <3>1, <3>3 DEF ProvenTurns, Proven
      <4> QED BY <2>2, <4>1
    <3>4. CASE a = b /\ t = u
      BY <3>4
    <3> QED BY <3>2, <3>3, <3>4 DEF SameTurnBut
  <2> QED BY <2>1, <2>2, <2>3
<1>3. ASSUME NEW a \in Child \cap Codex, NEW t \in past'[a], NEW x \in DOMAIN r
      PROVE  /\ a \in DOMAIN r[x].active => begun[a][t] <= r[x].active[a].at
             /\ a \in DOMAIN r[x].stopped => begun[a][t] <= r[x].stopped[a].at
  <2>1. t \in Turn /\ begun[a][t] <= n
    <3>1. t \in past[a] \cup ProvenTurns(ss, a)
      OBVIOUS
    <3>2. t \in Turn
      BY <1>0, <3>1 DEF ProvenTurns
    <3> QED BY <3>2 DEF HInv, Remembered
  <2>2. CASE t \in past[a]
    <3>1. \A y \in DOMAIN ss :
            /\ a \in DOMAIN ss[y].active => begun[a][t] <= ss[y].active[a].at
            /\ a \in DOMAIN ss[y].stopped => begun[a][t] <= ss[y].stopped[a].at
      BY <2>2 DEF HInv, Remembered
    <3> QED BY <2>1, <3>1 DEF Aged
  <2>3. CASE t \notin past[a]
    <3>1. t \in ProvenTurns(ss, a) /\ t \notin ProvenTurns(r, a)
      BY <2>3
    <3>2. PICK y \in DOMAIN ss : a \in DOMAIN ss[y].active /\ ss[y].active[a].turn = t
      BY <3>1 DEF ProvenTurns, Proven
    <3>3. \A z \in DOMAIN ss : a \in Held(ss[z]) => z = y
      BY <3>2 DEF HInv, SInv, Sound, Apart, Held
    <3>4. a \notin DOMAIN ss[y].stopped
      BY <3>2 DEF HInv, SInv, Sound, Whole, Holding
    <3>5. a \in DOMAIN r[x].active => r[x].active[a].at = n
      <4> SUFFICES ASSUME a \in DOMAIN r[x].active, r[x].active[a].at # n PROVE FALSE
        OBVIOUS
      <4>1. /\ x \in DOMAIN ss /\ a \in DOMAIN ss[x].active
            /\ r[x].active[a].turn = ss[x].active[a].turn
        BY DEF Aged
      <4>2. x = y
        BY <3>3, <4>1 DEF Held
      <4>3. t \in ProvenTurns(r, a)
        BY <2>1, <3>2, <4>1, <4>2 DEF ProvenTurns, Proven
      <4> QED BY <3>1, <4>3
    <3>6. a \in DOMAIN r[x].stopped => r[x].stopped[a].at = n
      BY <3>3, <3>4 DEF Aged, Held
    <3> QED BY <2>1, <3>5, <3>6
  <2> QED BY <2>2, <2>3
<1>4. \A a : Begun(a)' = Begun(a)
  BY DEF Begun
<1> QED BY <1>1, <1>2, <1>3, <1>4 DEF Remembered

\* A child that begins a turn was never proven for it.
LEMMA BeginningRemembers ==
  ASSUME HInv, BeginTurn PROVE Remembered'
<1>1. PICK a \in Child \cap Codex, t \in Turn :
        /\ begun[a][t] = 0
        /\ begun' = [begun EXCEPT ![a][t] = db.next]
        /\ UNCHANGED <<db, past>>
  BY DEF BeginTurn
<1>2. begun \in [Child -> [Turn -> Nat]] /\ db.next \in Nat \ {0}
  <2>1. begun \in [Child -> [Turn -> 0..MaxSequence]] /\ 0..MaxSequence \subseteq Nat
    BY LimitAssumption DEF HInv, SInv, IInv, TypeOK
  <2> QED BY <2>1 DEF HInv, SInv, Sound
<1>3. \A x \in Child, u \in Turn :
        begun'[x][u] = IF x = a /\ u = t THEN db.next ELSE begun[x][u]
  BY <1>1, <1>2
<1>4. \A x \in Child : Begun(x) \subseteq Begun(x)'
  BY <1>2, <1>3 DEF Begun
<1>5. \A x \in Child, u \in Turn : begun'[x][u] <= db'.next
  BY <1>1, <1>2, <1>3 DEF HInv, Remembered
<1>6. \A x \in Child \cap Codex : past'[x] \cup ProvenTurns(db'.sessions, x) \subseteq Begun(x)'
  BY <1>1, <1>4 DEF HInv, Remembered
<1>7. \A x \in Child \cap Codex, u \in Turn : u \in past[x] => begun'[x][u] = begun[x][u]
  <2> SUFFICES ASSUME NEW x \in Child \cap Codex, NEW u \in Turn, u \in past[x]
               PROVE  begun'[x][u] = begun[x][u]
    OBVIOUS
  <2>1. begun[x][u] # 0
    BY DEF HInv, Remembered, Begun
  <2> QED BY <1>1, <1>3, <2>1
<1>8. \A x \in Child : past[x] \subseteq Turn
  BY DEF HInv, SInv, IInv, TypeOK
<1> QED BY <1>1, <1>5, <1>6, <1>7, <1>8 DEF Remembered, HInv

\* A step begins a turn, or leaves the turns begun alone; the history follows
\* from what is stored.
LEMMA HistoryIs ==
  ASSUME [Next]_vars, past \in [Child -> SUBSET Turn]
  PROVE  /\ BeginTurn \/ begun' = begun
         /\ db' = db => past' = past
<1>1. ASSUME NEW sn, Persist(sn) PROVE db' = db => past' = past
  BY <1>1 DEF Persist
<1>2. CASE RecordSessionStart \/ RecordTurnEvent \/ RecordCodexAgent \/ RecordAgent
           \/ RecordChildEvent
  <2>1. \E e : Record(e)
    BY <1>2 DEF RecordSessionStart, RecordTurnEvent, RecordCodexAgent, RecordAgent,
       RecordChildEvent
  <2> QED BY <1>1, <2>1 DEF Record
<1>3. CASE Reprove
  BY <1>1, <1>3 DEF Reprove
<1>4. CASE BeginTurn \/ UNCHANGED vars
  BY <1>4 DEF BeginTurn, vars
<1> QED BY <1>2, <1>3, <1>4 DEF Next

\* Every step keeps what is remembered, and proves a child for a turn it was
\* proven for before only by a reported start.
LEMMA RememberingStep ==
  ASSUME HInv, [Next]_vars
  PROVE  /\ Remembered'
         /\ \A a \in Child \cap Codex : \A t \in past[a] : \A x \in DOMAIN db'.sessions :
              Proven(db'.sessions, x, a, t) /\ ~Proven(db.sessions, x, a, t)
              => RecordCodexAgent
<1> DEFINE ss == db.sessions
           r == db'.sessions
           n == db.next
           OnlyStarts == \A a \in Child \cap Codex : \A t \in past[a] : \A x \in DOMAIN r :
              Proven(r, x, a, t) /\ ~Proven(ss, x, a, t) => RecordCodexAgent
<1>0. SInv /\ Sound(db) /\ n \in Nat /\ \A a \in Child : past[a] \subseteq Turn
  BY DEF HInv, SInv, Sound, IInv, TypeOK
<1>1. ASSUME NEW e, Told(e), Record(e), Named(e), db' # db
      PROVE  Remembered' /\ OnlyStarts
  <2> DEFINE b == IF e.kind = "SubagentStart" THEN e.agent ELSE None
  <2>1. Accepts(db, e) /\ db' = After(db, e)
    BY <1>0, <1>1, RecordKeepsSound
  <2>2. PICK R : /\ Hearing(db, After(db, e).sessions, e, R)
                 /\ After(db, e) = [next |-> n + 1, sessions |-> After(db, e).sessions]
    BY <1>0, <1>1, <2>1, AcceptedHeard
  <2>3. Hearing(db, r, e, R) /\ db'.next = n + 1
    BY <2>1, <2>2
  <2>4. Aged(ss, r, n) /\ SameTurnBut(ss, r, b, e.turn)
    BY <1>0, <1>1, <2>3, HearingAges
  <2>5. /\ begun' = begun
        /\ past' = [a \in Child |-> past[a] \cup (ProvenTurns(ss, a) \ ProvenTurns(r, a))]
    BY <1>1 DEF Record, Persist
  <2>6. b \in Codex => RecordCodexAgent /\ e.turn \in Begun(b)
    BY <1>1, ProviderAssumption DEF Named
  <2>7. Remembered'
    <3> HIDE DEF b
    <3> QED BY <1>0, <2>3, <2>4, <2>5, <2>6, StoringRemembers
  <2>8. OnlyStarts
    <3> SUFFICES ASSUME NEW a \in Child \cap Codex, NEW t \in past[a], NEW x \in DOMAIN r,
                        Proven(r, x, a, t), ~Proven(ss, x, a, t)
                 PROVE  RecordCodexAgent
      OBVIOUS
    <3>1. a = b
      BY <2>4 DEF SameTurnBut, Proven
    <3> QED BY <2>6, <3>1
  <2> QED BY <2>7, <2>8
<1>2. CASE StoredReproof /\ begun' = begun
  <2>1. PICK a \in Child \cap Codex : \E p \in (Root \cap Codex) \ {a}, t \in Begun(a) :
          \E o, S : /\ Reproof(db, db'.sessions, a, t, o, S)
                    /\ Persist([next |-> db.next + 1, sessions |-> db'.sessions])
                    /\ begun[a][t] > (IF a \in DOMAIN db.sessions[o].active
                                      THEN db.sessions[o].active[a].at
                                      ELSE db.sessions[o].stopped[a].at)
    BY <1>2 DEF StoredReproof
  <2>2. PICK t, o, S :
          /\ t \in Begun(a)
          /\ Reproof(db, db'.sessions, a, t, o, S)
          /\ Persist([next |-> db.next + 1, sessions |-> db'.sessions])
          /\ begun[a][t] > (IF a \in DOMAIN db.sessions[o].active
                            THEN db.sessions[o].active[a].at
                            ELSE db.sessions[o].stopped[a].at)
    BY <2>1
  <2>3. t \in Turn /\ t \in Begun(a)
    BY <2>2 DEF Begun
  <2>4. /\ Aged(ss, r, n) /\ SameTurnBut(ss, r, a, t)
        /\ \A x \in DOMAIN r : Proven(r, x, a, t) => x = o \/ Proven(ss, x, a, t)
    BY <1>0, <2>2, <2>3, ReproofAges
  <2>5. /\ db'.next = n + 1
        /\ past' = [x \in Child |-> past[x] \cup (ProvenTurns(ss, x) \ ProvenTurns(r, x))]
    BY <2>2 DEF Persist
  <2>6. Remembered'
    BY <1>0, <1>2, <2>3, <2>4, <2>5, StoringRemembers
  <2>7. t \notin past[a]
    <3> SUFFICES ASSUME t \in past[a] PROVE FALSE
      OBVIOUS
    <3>1. o \in DOMAIN ss /\ a \in Held(ss[o])
      BY <2>2 DEF Reproof
    <3>2. /\ a \in DOMAIN ss[o].active => begun[a][t] <= ss[o].active[a].at
          /\ a \in DOMAIN ss[o].stopped => begun[a][t] <= ss[o].stopped[a].at
      BY <3>1 DEF HInv, Remembered
    <3>3. begun[a][t] \in Nat
      BY <2>3, LimitAssumption DEF HInv, SInv, IInv, TypeOK
    <3>4. /\ a \in DOMAIN ss[o].active => ss[o].active[a].at \in Nat
          /\ a \in DOMAIN ss[o].stopped => ss[o].stopped[a].at \in Nat
      BY <1>0, <3>1 DEF Sound, Whole, Holding, Edges, Edge
    <3> QED BY <2>2, <3>1, <3>2, <3>3, <3>4 DEF Held
  <2>8. OnlyStarts
    <3> SUFFICES ASSUME NEW c \in Child \cap Codex, NEW u \in past[c], NEW x \in DOMAIN r,
                        Proven(r, x, c, u), ~Proven(ss, x, c, u)
                 PROVE  FALSE
      OBVIOUS
    <3>1. c = a /\ u = t
      BY <2>4 DEF SameTurnBut, Proven
    <3> QED BY <2>7, <3>1
  <2> QED BY <2>6, <2>8
<1>3. CASE db' = db
  <2>0. past \in [Child -> SUBSET Turn]
    BY DEF HInv, SInv, IInv, TypeOK
  <2>1. past' = past
    BY <1>3, <2>0, HistoryIs
  <2>2. Remembered'
    <3>1. CASE begun' = begun
      BY <1>3, <2>1, <3>1 DEF HInv, Remembered, Begun
    <3>2. CASE BeginTurn
      BY <3>2, BeginningRemembers
    <3> QED BY <2>0, <3>1, <3>2, HistoryIs
  <2> QED BY <1>3, <2>2
<1> QED BY <1>0, <1>1, <1>2, <1>3, StepIs

\* Only a reported start brings a Codex child back to a turn it was proven for
\* before (reprove_codex_subagent_at, lifecycle/projection.rs): evidence read
\* late never does, and neither does a late event.
THEOREM RevivalIsReported == Spec => OnlyStartsRevive
<1> DEFINE A == \A a \in Child \cap Codex : \A t \in past[a] :
                  (\E s \in DOMAIN db'.sessions :
                      Proven(db'.sessions, s, a, t) /\ ~Proven(db.sessions, s, a, t))
                  => RecordCodexAgent
<1>1. Init => HInv
  <2> SUFFICES ASSUME Init PROVE HInv
    OBVIOUS
  <2>1. SInv
    BY InitiallySound
  <2>2. db = [sessions |-> Empty, next |-> 1] /\ DOMAIN Empty = {}
    BY DEF Init, Empty
  <2>3. DOMAIN db.sessions = {} /\ db.next = 1
    BY <2>2
  <2> QED BY <2>1, <2>3 DEF Init, HInv, Remembered, ProvenTurns
<1>2. HInv /\ [Next]_vars => HInv' /\ A
  <2>1. SInv /\ [Next]_vars => SInv'
    BY SoundInductive
  <2> QED BY <2>1, RememberingStep DEF HInv
<1>3. HInv /\ [Next]_vars => HInv' /\ [A]_vars
  BY <1>2
<1>4. Spec => [][A]_vars
  BY <1>1, <1>3, PTL DEF Spec
<1> QED BY <1>4 DEF OnlyStartsRevive
==============================================================================
