------------------------------ MODULE HookProofs ------------------------------
(* Proof about the lifecycle hook and the project cache, for any number of     *)
(* hooks, sessions, directories, cached rows and writes: an identity that is   *)
(* taken from the cache is the one a reading of the files would have given     *)
(* when the lookup compared them; an outcome in the journal belongs to a       *)
(* decision that allowed a call, to that of its own call where that can be     *)
(* told, and no decision has two unless the end of its call was reported twice.*)
(*                                                                             *)
(* The first argument follows what a hook knows from step to step (At).  A row *)
(* is good when its project is what its evidence stands for.  While a project  *)
(* is read the files change, but a file never returns to a version it had: if  *)
(* the evidence is the same before and after the reading, it was also what was *)
(* read.  The same makes the comparison of a row valid though the files are    *)
(* looked at one after the other.                                              *)
(*                                                                             *)
(* The second argument is about rows (RowFits): an outcome is backed by a row  *)
(* before it that allows the decision, and which call that row belongs to      *)
(* depends only on the rows before, so it stays true as the journal grows      *)
(* (Grown) between the moment a hook reads it and the moment it appends.       *)
EXTENDS LifecycleHook, SequenceTheorems, FiniteSetTheorems, TLAPS, WellFoundedInduction

LookFields == {"root", "row", "pre", "project", "may", "wants", "was"}

\* Evidence that was collected so far.
Known == [Part -> 0..clock]

\* The project of a row is the one its evidence stands for.
Sound(r, row) ==
  IF row.by = "manifest"
  THEN row.evidence.manifest # 0 => row.project = <<"manifest", r, row.evidence.manifest>>
  ELSE /\ row.by = "remote" /\ row.evidence.manifest = 0
       /\ row.evidence.config # 0 => row.project = <<"remote", r, row.evidence.config>>

Good(r, row) ==
  /\ r \in Root
  /\ DOMAIN row = {"by", "evidence", "project", "order"}
  /\ row.evidence \in Known
  /\ Sound(r, row)

\* What was read is what the evidence of before stands for, unless that changed since.
ReadAManifest(l) ==
  /\ l.project[1] = "manifest"
  /\ l.pre.manifest # 0 /\ world[l.root].manifest = l.pre.manifest =>
       l.project = <<"manifest", l.root, l.pre.manifest>>
ReadARemote(l) ==
  /\ l.project[1] = "remote"
  /\ /\ l.pre.git # 0 /\ world[l.root].git = l.pre.git
     /\ l.pre.config # 0 /\ world[l.root].config = l.pre.config
     => l.project = <<"remote", l.root, l.pre.config>>
ManifestGone(l) == l.pre.manifest # 0 => world[l.root].manifest # l.pre.manifest

\* The comparison holds if the configuration is still the recorded one.
HalfCompared(l) ==
  /\ l.row.by = "remote"
  /\ l.row.evidence.config # 0 /\ world[l.root].config = l.row.evidence.config =>
       l.was = <<"remote", l.root, l.row.evidence.config>>

\* What holds of l at point p of a hook.
At(p, l) ==
  /\ DOMAIN l = LookFields
  /\ p \in {"evidence", "manifest", "remote", "again"} => l.root \in Root
  /\ p \in {"compare", "compareConfig", "hit"} => Good(l.root, l.row)
  /\ p = "compareConfig" => HalfCompared(l)
  /\ p = "hit" => Hollow(l.row) \/ l.row.project = l.was
  /\ p \in {"manifest", "remote", "again"} => l.pre \in Known
  /\ p = "remote" => ManifestGone(l)
  /\ p = "again" => ReadAManifest(l) \/ (ReadARemote(l) /\ ManifestGone(l))
  /\ p \in {"confirm", "record", "read", "append", "refresh", "initialise", "upsert"} =>
       l.wants = NoRow \/ Good(l.wants[1], l.wants[2])
  /\ p \in {"refresh", "initialise", "upsert"} => l.wants # NoRow

CacheOK ==
  /\ DOMAIN cache = {"state", "rows"}
  /\ \A r \in DOMAIN cache.rows : Good(r, cache.rows[r])

FilesOK == clock \in Nat /\ world \in [Root -> Known]

IInv ==
  /\ FilesOK
  /\ CacheOK
  /\ DOMAIN pc = Hook /\ DOMAIN look = Hook
  /\ \A h \in Hook : At(pc[h], look[h])

--------------------------------------------------------------------------------
(* Helpers. *)

\* A non-empty set of directories has a deepest one.
LEMMA DeepestIs ==
  ASSUME NEW n \in Nat, NEW S, S \subseteq 1..n, S # {}
  PROVE  Deepest(S) \in S /\ \A q \in S : q <= Deepest(S)
<1> DEFINE T == {n - q : q \in S}
<1>1. T \subseteq Nat /\ T # {}
  OBVIOUS
<1>2. IsWellFoundedOn(OpToRel(<, Nat), Nat)
  BY NatLessThanWellFounded
<1>3. PICK x \in T : \A y \in T : <<y, x>> \notin OpToRel(<, Nat)
  <2> HIDE DEF T
  <2> QED BY <1>1, <1>2, WFMin
<1>4. \A y \in T : ~(y < x)
  BY <1>1, <1>3 DEF OpToRel
<1>5. PICK r \in S : x = n - r
  BY <1>3
<1>6. ASSUME NEW q \in S PROVE q <= r
  <2>1. ~(n - q < n - r)
    BY <1>4, <1>5
  <2>2. q \in 1..n /\ r \in 1..n
    BY <1>5
  <2> HIDE DEF T
  <2> QED BY <2>1, <2>2
<1>7. \E z \in S : \A q \in S : q <= z
  BY <1>6
<1> QED BY <1>7 DEF Deepest

\* A directory that holds a repository is the root git finds from it.
LEMMA OwnRoot ==
  ASSUME FilesOK, NEW r \in Root, world[r].git # 0 PROVE GitRoot(world, r) = r
<1> DEFINE S == {q \in 1..r : world[q].git # 0}
<1>1. r \in S /\ r \in Nat
  BY BoundsArePositive DEF Root
<1>2. Deepest(S) \in S /\ r <= Deepest(S)
  <2>1. S \subseteq 1..r /\ S # {}
    BY <1>1
  <2> HIDE DEF S
  <2> QED BY <1>1, <2>1, DeepestIs
<1>3. Deepest(S) = r
  BY <1>1, <1>2
<1> QED BY <1>1, <1>3 DEF GitRoot

\* What holds of a hook depends on the files only.
LEMMA AtStays ==
  ASSUME NEW p, NEW l, At(p, l), UNCHANGED surroundings PROVE At(p, l)'
BY DEF At, Good, Known, Sound, HalfCompared, ReadAManifest, ReadARemote, ManifestGone,
       surroundings, Hollow, SourceOf

LEMMA CacheStays == ASSUME CacheOK, UNCHANGED <<surroundings, cache>> PROVE CacheOK'
BY DEF CacheOK, Good, Known, Sound, surroundings

\* A step of one hook, that may write the cache.
LEMMA WriteStep ==
  ASSUME IInv, NEW h \in Hook, NEW p, NEW l, Go(h, p, l), At(p, l),
         UNCHANGED surroundings, CacheOK'
  PROVE  IInv'
<1>1. FilesOK'
  BY DEF IInv, FilesOK, Known, surroundings
<1>2. DOMAIN pc' = Hook /\ DOMAIN look' = Hook
  BY DEF IInv, Go
<1>3. ASSUME NEW k \in Hook PROVE At(pc[k], look[k])'
  <2>1. CASE k = h
    <3>1. pc'[k] = p /\ look'[k] = l
      BY <2>1 DEF IInv, Go
    <3>2. At(p, l)'
      BY AtStays
    <3> QED BY <3>1, <3>2 DEF At, Good, Known, Sound, HalfCompared, ReadAManifest,
                               ReadARemote, ManifestGone, Hollow, SourceOf
  <2>2. CASE k # h
    <3>1. pc'[k] = pc[k] /\ look'[k] = look[k]
      BY <2>2 DEF IInv, Go
    <3>2. At(pc[k], look[k])
      BY DEF IInv
    <3> QED BY <3>1, <3>2 DEF At, Good, Known, Sound, HalfCompared, ReadAManifest,
                               ReadARemote, ManifestGone, Hollow, SourceOf, surroundings
  <2> QED BY <2>1, <2>2
<1> QED BY <1>1, <1>2, <1>3 DEF IInv

\* A step of one hook that leaves files and cache alone.
LEMMA ReadStep ==
  ASSUME IInv, NEW h \in Hook, NEW p, NEW l, Go(h, p, l), At(p, l), ReadsOnly PROVE IInv'
BY CacheStays, WriteStep DEF IInv, ReadsOnly
--------------------------------------------------------------------------------
(* The user and git write files.  A file that changes gets a version nobody has seen. *)

LEMMA EditIsNew ==
  ASSUME FilesOK, NEW r \in Root, NEW part \in Part, Edit(r, part)
  PROVE  /\ FilesOK'
         /\ Known \subseteq Known'
         /\ \A q \in Root, x \in Part, v \in 0..clock :
              v # 0 /\ world'[q][x] = v => world[q][x] = v
<1>1. PICK v \in {0, clock + 1} : world' = [world EXCEPT ![r][part] = v]
  BY DEF Edit
<1>2. clock' = clock + 1 /\ clock \in Nat
  BY DEF Edit, FilesOK
<1>3. Known \subseteq Known'
  BY <1>2 DEF Known
<1>4. world' \in [Root -> Known']
  <2>1. ASSUME NEW q \in Root PROVE world'[q] \in Known'
    <3>1. world[q] \in Known'
      BY <1>3 DEF FilesOK
    <3>2. v \in 0..clock'
      BY <1>2
    <3>3. world'[q] = IF q = r THEN [world[q] EXCEPT ![part] = v] ELSE world[q]
      BY <1>1 DEF FilesOK
    <3> QED BY <3>1, <3>2, <3>3 DEF Known
  <2>2. world' = [q \in Root |-> world'[q]]
    BY <1>1 DEF FilesOK
  <2> QED BY <2>1, <2>2
<1>5. ASSUME NEW q \in Root, NEW x \in Part, NEW u \in 0..clock, u # 0, world'[q][x] = u
      PROVE  world[q][x] = u
  <2>1. world'[q][x] = IF q = r /\ x = part THEN v ELSE world[q][x]
    BY <1>1 DEF FilesOK, Known
  <2> QED BY <1>2, <1>5, <2>1
<1> QED BY <1>2, <1>3, <1>4, <1>5 DEF FilesOK

LEMMA EditKeeps ==
  ASSUME IInv, NEW r \in Root, NEW part \in Part, Edit(r, part) PROVE IInv'
<1>1. /\ FilesOK' /\ Known \subseteq Known'
      /\ \A q \in Root, x \in Part, v \in 0..clock :
           v # 0 /\ world'[q][x] = v => world[q][x] = v
  BY EditIsNew DEF IInv
<1>2. UNCHANGED <<cache, pc, look>>
  BY DEF Edit
<1>3. ASSUME NEW q, NEW row, Good(q, row) PROVE Good(q, row)'
  BY <1>1, <1>3 DEF Good, Sound
<1>4. CacheOK'
  BY <1>2, <1>3 DEF IInv, CacheOK, Good, Sound
<1>5. ASSUME NEW h \in Hook PROVE At(pc[h], look[h])'
  <2> DEFINE p == pc[h]
  <2> DEFINE l == look[h]
  <2>1. At(p, l) /\ p' = p /\ l' = l
    BY <1>2 DEF IInv
  <2>2. p = "remote" => ManifestGone(l)'
    <3> SUFFICES ASSUME p = "remote" PROVE ManifestGone(l)'
      OBVIOUS
    <3>1. l.pre \in Known /\ l.root \in Root /\ ManifestGone(l)
      BY <2>1 DEF At
    <3> QED BY <1>1, <2>1, <3>1 DEF Known, Part, ManifestGone
  <2>3. p = "again" => ReadAManifest(l)' \/ (ReadARemote(l)' /\ ManifestGone(l)')
    <3> SUFFICES ASSUME p = "again"
                 PROVE  ReadAManifest(l)' \/ (ReadARemote(l)' /\ ManifestGone(l)')
      OBVIOUS
    <3>1. l.pre \in Known /\ l.root \in Root
      BY <2>1 DEF At
    <3>2. l.pre.manifest \in 0..clock /\ l.pre.git \in 0..clock /\ l.pre.config \in 0..clock
      BY <3>1 DEF Known, Part
    <3>3. CASE ReadAManifest(l)
      BY <1>1, <2>1, <3>1, <3>2, <3>3 DEF Part, ReadAManifest
    <3>4. CASE ReadARemote(l) /\ ManifestGone(l)
      BY <1>1, <2>1, <3>1, <3>2, <3>4 DEF Part, ReadARemote, ManifestGone
    <3> QED BY <2>1, <3>3, <3>4 DEF At
  <2>4. p = "compareConfig" => HalfCompared(l)'
    <3> SUFFICES ASSUME p = "compareConfig" PROVE HalfCompared(l)'
      OBVIOUS
    <3>1. Good(l.root, l.row) /\ HalfCompared(l)
      BY <2>1 DEF At
    <3>2. l.root \in Root /\ l.row.evidence.config \in 0..clock
      BY <3>1 DEF Good, Known, Part
    <3> QED BY <1>1, <2>1, <3>1, <3>2 DEF Part, HalfCompared
  <2>5. l.pre \in Known => l.pre \in Known'
    BY <1>1
  <2>6. \A q, row : Good(q, row) => Good(q, row)'
    BY <1>3
  <2>7. At(p, l)'
    BY <2>1, <2>2, <2>3, <2>4, <2>5, <2>6 DEF At
  <2> QED BY <2>1, <2>7
<1> QED BY <1>1, <1>2, <1>4, <1>5 DEF IInv
--------------------------------------------------------------------------------
(* The steps of a lookup. *)

\* Points of a hook that ask nothing of what it knows.
LEMMA Anywhere ==
  ASSUME NEW p \in {"waiting", "open", "select", "load", "discover", "over"}, NEW l,
         DOMAIN l = LookFields
  PROVE  At(p, l)
BY DEF At

LEMMA NothingIs == DOMAIN Nothing = LookFields /\ Nothing.wants = NoRow
BY DEF Nothing, LookFields

LEMMA InferredKeeps ==
  ASSUME IInv, NEW h \in Hook, ReadsOnly, Inferred(h) PROVE IInv'
<1> DEFINE l == [Nothing EXCEPT !.project = Temporary, !.wants = NoRow]
<1>1. Go(h, "record", l)
  BY DEF Inferred, Resolved
<1>2. At("record", l)
  BY DEF Nothing, At, LookFields
<1> QED BY <1>1, <1>2, ReadStep

LEMMA DiscoverKeeps ==
  ASSUME IInv, NEW h \in Hook, ReadsOnly, NEW may, Discover(h, may) PROVE IInv'
<1> DEFINE l == [Nothing EXCEPT !.may = may]
<1>1. Go(h, "discover", l)
  BY DEF Discover
<1>2. At("discover", l)
  BY Anywhere DEF Nothing, LookFields
<1> QED BY <1>1, <1>2, ReadStep

LEMMA OpenCacheKeeps == ASSUME IInv, NEW h \in Hook, OpenCache(h) PROVE IInv'
<1>1. ReadsOnly
  BY DEF OpenCache
<1>2. CASE Discover(h, TRUE) \/ Discover(h, FALSE)
  BY <1>1, <1>2, DiscoverKeeps
<1>3. CASE Go(h, "select", Nothing)
  <2>1. At("select", Nothing)
    BY Anywhere, NothingIs
  <2> QED BY <1>1, <1>3, <2>1, ReadStep
<1> QED BY <1>2, <1>3 DEF OpenCache

LEMMA SelectRootKeeps == ASSUME IInv, NEW h \in Hook, SelectRoot(h) PROVE IInv'
<1> DEFINE l == [Nothing EXCEPT !.root = Deepest(DOMAIN cache.rows)]
<1>1. ReadsOnly
  BY DEF SelectRoot
<1>2. Discover(h, TRUE) \/ Go(h, "load", l)
  BY DEF SelectRoot
<1>3. At("load", l)
  BY Anywhere DEF Nothing, LookFields
<1> QED BY <1>1, <1>2, <1>3, DiscoverKeeps, ReadStep

LEMMA LoadRowKeeps == ASSUME IInv, NEW h \in Hook, LoadRow(h) PROVE IInv'
<1> DEFINE r == look[h].root
<1> DEFINE l == [look[h] EXCEPT !.row = cache.rows[r]]
<1>1. ReadsOnly
  BY DEF LoadRow
<1>2. CASE r \in DOMAIN cache.rows
  <2>1. Go(h, "compare", l)
    BY <1>2 DEF LoadRow
  <2>2. Good(r, cache.rows[r])
    BY <1>2 DEF IInv, CacheOK
  <2>3. DOMAIN look[h] = LookFields
    BY DEF IInv, At
  <2>4. l.root = r /\ l.row = cache.rows[r] /\ DOMAIN l = LookFields
    BY <2>3 DEF LookFields
  <2>5. At("compare", l)
    BY <2>2, <2>4 DEF At
  <2> QED BY <1>1, <2>1, <2>5, ReadStep
<1>3. CASE r \notin DOMAIN cache.rows
  BY <1>1, <1>3, DiscoverKeeps DEF LoadRow
<1> QED BY <1>2, <1>3

\* A fresh row read from a manifest is current, one read from a remote is if its
\* configuration is.
LEMMA CompareFirstKeeps == ASSUME IInv, NEW h \in Hook, CompareFirst(h) PROVE IInv'
<1> DEFINE r == look[h].root
<1> DEFINE l == [look[h] EXCEPT !.was = Project(world, r)]
<1>1. ReadsOnly /\ pc[h] = "compare"
  BY DEF CompareFirst
<1>2. DOMAIN look[h] = LookFields /\ Good(r, look[h].row)
  BY <1>1 DEF IInv, At
<1>3. /\ l.root = r /\ l.row = look[h].row /\ l.was = Project(world, r)
      /\ DOMAIN l = LookFields
  BY <1>2 DEF LookFields
<1>4. CASE ~Fresh(world, r, l.row)
  BY <1>1, <1>4, DiscoverKeeps DEF CompareFirst
<1>5. CASE Fresh(world, r, l.row) /\ l.row.by = "manifest"
  <2>1. Go(h, "hit", l)
    BY <1>5 DEF CompareFirst, Hit
  <2>2. Hollow(l.row) \/ l.row.project = l.was
    BY <1>2, <1>3, <1>5 DEF Good, Sound, Fresh, Hollow, SourceOf, Project
  <2>3. At("hit", l)
    BY <1>2, <1>3, <2>2 DEF At
  <2> QED BY <1>1, <2>1, <2>3, ReadStep
<1>6. CASE Fresh(world, r, l.row) /\ l.row.by # "manifest"
  <2>1. Go(h, "compareConfig", l)
    BY <1>6 DEF CompareFirst
  <2>2. HalfCompared(l)
    BY <1>2, <1>3, <1>6 DEF Good, Sound, Fresh, HalfCompared, Project
  <2>3. At("compareConfig", l)
    BY <1>2, <1>3, <2>2 DEF At
  <2> QED BY <1>1, <2>1, <2>3, ReadStep
<1> QED BY <1>4, <1>5, <1>6

LEMMA CompareConfigKeeps == ASSUME IInv, NEW h \in Hook, CompareConfig(h) PROVE IInv'
<1> DEFINE l == look[h]
<1>1. ReadsOnly /\ pc[h] = "compareConfig"
  BY DEF CompareConfig
<1>2. DOMAIN l = LookFields /\ Good(l.root, l.row) /\ HalfCompared(l)
  BY <1>1 DEF IInv, At
<1>3. CASE l.row.evidence.config = world[l.root].config
  <2>1. Go(h, "hit", l)
    BY <1>3 DEF CompareConfig, Hit
  <2>2. Hollow(l.row) \/ l.row.project = l.was
    BY <1>2, <1>3 DEF Good, Sound, HalfCompared, Hollow, SourceOf
  <2>3. At("hit", l)
    BY <1>2, <2>2 DEF At
  <2> QED BY <1>1, <2>1, <2>3, ReadStep
<1>4. CASE l.row.evidence.config # world[l.root].config
  BY <1>1, <1>4, DiscoverKeeps DEF CompareConfig
<1> QED BY <1>3, <1>4

LEMMA TakeHitKeeps == ASSUME IInv, NEW h \in Hook, TakeHit(h) PROVE IInv'
<1> DEFINE l == [Nothing EXCEPT !.project = look[h].row.project, !.wants = NoRow]
<1>1. Go(h, "record", l) /\ ReadsOnly
  BY DEF TakeHit, Resolved
<1>2. At("record", l)
  BY DEF Nothing, At, LookFields
<1> QED BY <1>1, <1>2, ReadStep
--------------------------------------------------------------------------------
(* The steps of a discovery. *)

LEMMA DiscoverRootKeeps == ASSUME IInv, NEW h \in Hook, DiscoverRoot(h) PROVE IInv'
<1> DEFINE r == GitRoot(world, Depth)
<1> DEFINE l == [look[h] EXCEPT !.root = r]
<1>1. ReadsOnly
  BY DEF DiscoverRoot
<1>2. CASE r = 0
  BY <1>1, <1>2, InferredKeeps DEF DiscoverRoot
<1>3. CASE r # 0
  <2>1. Go(h, "evidence", l)
    BY <1>3 DEF DiscoverRoot
  <2>2. r \in Root
    <3> DEFINE S == {q \in 1..Depth : world[q].git # 0}
    <3>1. S # {} /\ r = Deepest(S)
      BY <1>3 DEF GitRoot
    <3>2. S \subseteq 1..Depth /\ Depth \in Nat
      BY BoundsArePositive
    <3> HIDE DEF S
    <3> QED BY <3>1, <3>2, DeepestIs DEF Root
  <2>3. DOMAIN look[h] = LookFields
    BY DEF IInv, At
  <2>4. l.root = r /\ DOMAIN l = LookFields
    BY <2>3 DEF LookFields
  <2>5. At("evidence", l)
    BY <2>2, <2>4 DEF At
  <2> QED BY <1>1, <2>1, <2>5, ReadStep
<1> QED BY <1>2, <1>3

LEMMA CollectEvidenceKeeps == ASSUME IInv, NEW h \in Hook, CollectEvidence(h) PROVE IInv'
<1> DEFINE r == look[h].root
<1> DEFINE l == [look[h] EXCEPT !.pre = world[r]]
<1>1. ReadsOnly /\ pc[h] = "evidence" /\ Go(h, "manifest", l)
  BY DEF CollectEvidence
<1>2. DOMAIN look[h] = LookFields /\ r \in Root
  BY <1>1 DEF IInv, At
<1>3. l.root = r /\ l.pre = world[r] /\ DOMAIN l = LookFields
  BY <1>2 DEF LookFields
<1>4. world[r] \in Known
  BY <1>2 DEF IInv, FilesOK
<1>5. At("manifest", l)
  BY <1>2, <1>3, <1>4 DEF At
<1> QED BY <1>1, <1>5, ReadStep

LEMMA ReadManifestKeeps == ASSUME IInv, NEW h \in Hook, ReadManifest(h) PROVE IInv'
<1> DEFINE r == look[h].root
<1>1. ReadsOnly /\ pc[h] = "manifest"
  BY DEF ReadManifest
<1>2. DOMAIN look[h] = LookFields /\ r \in Root /\ look[h].pre \in Known
  BY <1>1 DEF IInv, At
<1>3. CASE world[r].manifest = 0
  <2>1. Go(h, "remote", look[h])
    BY <1>3 DEF ReadManifest
  <2>2. ManifestGone(look[h])
    BY <1>3 DEF ManifestGone
  <2>3. At("remote", look[h])
    BY <1>2, <2>2 DEF At
  <2> QED BY <1>1, <2>1, <2>3, ReadStep
<1>4. CASE world[r].manifest # 0
  <2> DEFINE l == [look[h] EXCEPT !.project = Project(world, r)]
  <2>1. Go(h, "again", l)
    BY <1>4 DEF ReadManifest
  <2>2. /\ l.root = r /\ l.pre = look[h].pre /\ l.project = Project(world, r)
        /\ DOMAIN l = LookFields
    BY <1>2 DEF LookFields
  <2>3. l.project = <<"manifest", r, world[r].manifest>>
    BY <1>4, <2>2 DEF Project
  <2>4. ReadAManifest(l)
    BY <2>2, <2>3 DEF ReadAManifest
  <2>5. At("again", l)
    BY <1>2, <2>2, <2>4 DEF At
  <2> QED BY <1>1, <2>1, <2>5, ReadStep
<1> QED BY <1>3, <1>4

LEMMA ReadRemoteKeeps == ASSUME IInv, NEW h \in Hook, ReadRemote(h) PROVE IInv'
<1> DEFINE r == look[h].root
<1> DEFINE q == GitRoot(world, r)
<1> DEFINE l == [look[h] EXCEPT !.project = <<"remote", q, world[q].config>>]
<1>1. ReadsOnly /\ pc[h] = "remote"
  BY DEF ReadRemote
<1>2. /\ DOMAIN look[h] = LookFields /\ r \in Root
      /\ look[h].pre \in Known /\ ManifestGone(look[h])
  BY <1>1 DEF IInv, At
<1>3. CASE Go(h, "again", l)
  <2>1. /\ l.root = r /\ l.pre = look[h].pre /\ l.project = <<"remote", q, world[q].config>>
        /\ DOMAIN l = LookFields
    BY <1>2 DEF LookFields
  <2>2. world[r].git # 0 => q = r
    BY <1>2, OwnRoot DEF IInv
  <2>3. ReadARemote(l)
    <3> HIDE DEF q, l
    <3> QED BY <2>1, <2>2 DEF ReadARemote
  <2>4. ManifestGone(l)
    BY <1>2, <2>1 DEF ManifestGone
  <2>5. At("again", l)
    BY <1>2, <2>1, <2>3, <2>4 DEF At
  <2> QED BY <1>1, <1>3, <2>5, ReadStep
<1>4. CASE Inferred(h)
  BY <1>1, <1>4, InferredKeeps
<1> QED BY <1>3, <1>4 DEF ReadRemote

\* The heart of it: evidence that is the same before and after a reading is what was read.
LEMMA RefreshIsGood ==
  ASSUME FilesOK, NEW l, l.root \in Root, l.pre \in Known,
         ReadAManifest(l) \/ (ReadARemote(l) /\ ManifestGone(l)),
         Refresh(l.pre, world[l.root], l.project) # NoRow
  PROVE  Good(l.root, Refresh(l.pre, world[l.root], l.project))
<1> DEFINE post == world[l.root]
<1> DEFINE by == l.project[1]
<1> DEFINE row == [by |-> by, evidence |-> Covered(post, by), project |-> l.project, order |-> 0]
<1>1. /\ Covered(l.pre, by) = Covered(post, by) /\ (by = "remote" => post.git # 0)
      /\ Refresh(l.pre, post, l.project) = row
  BY DEF Refresh
<1>2. post \in Known /\ 0 \in 0..clock
  BY DEF FilesOK
<1>3. Covered(post, by) \in Known
  BY <1>2 DEF Covered, Known, Part
<1>4. l.pre.manifest = post.manifest /\ l.pre.git = post.git
  <2>1. Covered(l.pre, by).manifest = l.pre.manifest /\ Covered(l.pre, by).git = l.pre.git
    BY DEF Covered, Known, Part
  <2>2. Covered(post, by).manifest = post.manifest /\ Covered(post, by).git = post.git
    BY <1>2 DEF Covered, Known, Part
  <2> QED BY <1>1, <2>1, <2>2
<1>5. Sound(l.root, row)
  <2>1. CASE ReadAManifest(l)
    <3>1. by = "manifest" /\ row.evidence.manifest = post.manifest
      BY <1>2, <2>1 DEF ReadAManifest, Covered, Known, Part
    <3> QED BY <1>4, <2>1, <3>1 DEF ReadAManifest, Sound
  <2>2. CASE ReadARemote(l) /\ ManifestGone(l)
    <3>1. by = "remote"
      BY <2>2 DEF ReadARemote
    <3>2. /\ Covered(post, by).manifest = post.manifest
          /\ Covered(post, by).config = post.config
          /\ Covered(l.pre, by).config = l.pre.config
      BY <1>2, <3>1 DEF Covered, Known, Part
    <3>3. l.pre.config = post.config
      BY <1>1, <3>2
    <3>4. post.manifest = 0
      BY <1>4, <2>2 DEF ManifestGone
    <3> QED BY <1>1, <1>4, <2>2, <3>1, <3>2, <3>3, <3>4 DEF ReadARemote, Sound
  <2> QED BY <2>1, <2>2
<1>6. Good(l.root, row)
  BY <1>3, <1>5 DEF Good
<1> QED BY <1>1, <1>6

LEMMA CollectAgainKeeps == ASSUME IInv, NEW h \in Hook, CollectAgain(h) PROVE IInv'
<1> DEFINE m == look[h]
<1> DEFINE row == Refresh(m.pre, world[m.root], m.project)
<1> DEFINE w == IF m.may /\ row # NoRow THEN <<m.root, row>> ELSE NoRow
<1> DEFINE l == [m EXCEPT !.wants = w]
<1>1. ReadsOnly /\ pc[h] = "again" /\ Go(h, "confirm", l)
  BY DEF CollectAgain
<1>2. /\ DOMAIN m = LookFields /\ m.root \in Root /\ m.pre \in Known
      /\ ReadAManifest(m) \/ (ReadARemote(m) /\ ManifestGone(m))
  BY <1>1 DEF IInv, At
<1>3. row # NoRow => Good(m.root, row)
  BY <1>2, RefreshIsGood DEF IInv
<1>4. w = NoRow \/ Good(w[1], w[2])
  BY <1>3
<1>5. l.wants = w /\ DOMAIN l = LookFields
  BY <1>2 DEF LookFields
<1>6. At("confirm", l)
  BY <1>4, <1>5 DEF At
<1> QED BY <1>1, <1>6, ReadStep

LEMMA ConfirmKeeps == ASSUME IInv, NEW h \in Hook, Confirm(h) PROVE IInv'
<1>1. ReadsOnly /\ pc[h] = "confirm"
  BY DEF Confirm
<1>2. look[h].wants = NoRow \/ Good(look[h].wants[1], look[h].wants[2])
  BY <1>1 DEF IInv, At
<1>3. ASSUME NEW w, w = NoRow \/ Good(w[1], w[2]), Resolved(h, look[h].project, w)
      PROVE  IInv'
  <2> DEFINE l == [Nothing EXCEPT !.project = look[h].project, !.wants = w]
  <2>1. Go(h, "record", l)
    BY <1>3 DEF Resolved
  <2>2. DOMAIN l = LookFields /\ l.wants = w
    BY DEF Nothing, LookFields
  <2>3. At("record", l)
    BY <1>3, <2>2 DEF At
  <2> QED BY <1>1, <2>1, <2>3, ReadStep
<1>4. CASE Inferred(h)
  BY <1>1, <1>4, InferredKeeps
<1>5. CASE Resolved(h, look[h].project, look[h].wants) \/ Resolved(h, look[h].project, NoRow)
  BY <1>2, <1>3, <1>5
<1> QED BY <1>4, <1>5 DEF Confirm
LEMMA ResolveKeeps == ASSUME IInv, NEW h \in Hook, Resolve(h) PROVE IInv'
<1>1. CASE Expire(h)
  BY <1>1, InferredKeeps DEF Expire
<1> QED BY <1>1, OpenCacheKeeps, SelectRootKeeps, LoadRowKeeps, CompareFirstKeeps,
           CompareConfigKeeps, TakeHitKeeps, DiscoverRootKeeps, CollectEvidenceKeeps,
           ReadManifestKeeps, ReadRemoteKeeps, CollectAgainKeeps, ConfirmKeeps DEF Resolve

--------------------------------------------------------------------------------
(* The steps that write the cache, and those of the hook around it. *)

LEMMA EndsIsAt == At("over", Nothing)
BY Anywhere, NothingIs

\* What a hook that puts a row into the cache knows.
LEMMA Storing ==
  ASSUME IInv, NEW h \in Hook, pc[h] \in {"refresh", "initialise", "upsert"}
  PROVE  /\ Good(look[h].wants[1], look[h].wants[2])
         /\ At("initialise", look[h]) /\ At("upsert", look[h])
BY DEF IInv, At

LEMMA CreateCacheKeeps == ASSUME IInv, NEW h \in Hook, CreateCache(h) PROVE IInv'
<1>1. pc[h] = "refresh" /\ UNCHANGED surroundings
  BY DEF CreateCache
<1>2. CASE cache' = [cache EXCEPT !.state = "empty"] /\ Go(h, "initialise", look[h])
  <2>1. DOMAIN cache' = {"state", "rows"} /\ cache'.rows = cache.rows
    BY <1>2 DEF IInv, CacheOK
  <2>2. CacheOK'
    BY <1>1, <2>1 DEF IInv, CacheOK, Good, Known, Sound, surroundings
  <2> QED BY <1>1, <1>2, <2>2, Storing, WriteStep
<1>3. CASE UNCHANGED cache /\ Go(h, "upsert", look[h])
  BY <1>1, <1>3, Storing, ReadStep DEF ReadsOnly
<1> QED BY <1>2, <1>3 DEF CreateCache

LEMMA InitialiseCacheKeeps == ASSUME IInv, NEW h \in Hook, InitialiseCache(h) PROVE IInv'
<1>1. pc[h] = "initialise" /\ UNCHANGED surroundings /\ Go(h, "upsert", look[h])
  BY DEF InitialiseCache
<1>2. DOMAIN cache' = {"state", "rows"} /\ cache'.rows = cache.rows
  BY DEF InitialiseCache, IInv, CacheOK
<1>3. CacheOK'
  BY <1>1, <1>2 DEF IInv, CacheOK, Good, Known, Sound, surroundings
<1> QED BY <1>1, <1>3, Storing, WriteStep

\* Pruning removes rows and changes none.
LEMMA PrunedIs ==
  ASSUME NEW rows, NEW r
  PROVE  /\ DOMAIN Pruned(rows, r) \subseteq DOMAIN rows
         /\ \A x \in DOMAIN Pruned(rows, r) : Pruned(rows, r)[x] = rows[x]
BY DEF Pruned

LEMMA UpsertKeeps == ASSUME IInv, NEW h \in Hook, Upsert(h) PROVE IInv'
<1> DEFINE r == look[h].wants[1]
<1> DEFINE row == look[h].wants[2]
<1> DEFINE rows == [x \in DOMAIN cache.rows \cup {r} |-> IF x = r THEN row ELSE cache.rows[x]]
<1>1. /\ pc[h] = "upsert" /\ UNCHANGED surroundings /\ Go(h, "over", Nothing)
      /\ cache' = [cache EXCEPT !.rows = Pruned(rows, r)]
  BY DEF Upsert, Ends
<1>2. Good(r, row)
  BY <1>1, Storing
<1>3. \A x \in DOMAIN rows : Good(x, rows[x])
  BY <1>2 DEF IInv, CacheOK
<1>4. DOMAIN cache' = {"state", "rows"} /\ cache'.rows = Pruned(rows, r)
  BY <1>1 DEF IInv, CacheOK
<1>5. \A x \in DOMAIN cache'.rows : Good(x, cache'.rows[x])
  <2> HIDE DEF rows
  <2> QED BY <1>3, <1>4, PrunedIs
<1>6. CacheOK'
  BY <1>1, <1>4, <1>5 DEF CacheOK, Good, Known, Sound, surroundings
<1> QED BY <1>1, <1>6, EndsIsAt, WriteStep

LEMMA EndsKeeps == ASSUME IInv, NEW h \in Hook, ReadsOnly, Ends(h) PROVE IInv'
BY EndsIsAt, ReadStep DEF Ends

LEMMA StartKeeps == ASSUME IInv, NEW h \in Hook, Start(h) PROVE IInv'
<1>1. ReadsOnly
  BY DEF Start, ReadsOnly
<1>2. CASE Inferred(h)
  BY <1>1, <1>2, InferredKeeps
<1>3. CASE Go(h, "open", Nothing)
  <2>1. At("open", Nothing)
    BY Anywhere, NothingIs
  <2> QED BY <1>1, <1>3, <2>1, ReadStep
<1> QED BY <1>2, <1>3 DEF Start

LEMMA RecordKeeps == ASSUME IInv, NEW h \in Hook, Record(h) PROVE IInv'
<1> DEFINE l == [look[h] EXCEPT !.wants = Ordered(@)]
<1>1. ReadsOnly /\ pc[h] = "record"
  BY DEF Record, ReadsOnly
<1>2. /\ DOMAIN look[h] = LookFields
      /\ look[h].wants = NoRow \/ Good(look[h].wants[1], look[h].wants[2])
  BY <1>1 DEF IInv, At
<1>3. l.wants = Ordered(look[h].wants) /\ DOMAIN l = LookFields
  BY <1>2 DEF LookFields
<1>4. Ordered(look[h].wants) = NoRow
        \/ Good(Ordered(look[h].wants)[1], Ordered(look[h].wants)[2])
  <2>1. CASE look[h].wants = NoRow
    BY <2>1 DEF Ordered
  <2>2. CASE look[h].wants # NoRow
    BY <1>2, <2>2 DEF Ordered, Good, Sound
  <2> QED BY <2>1, <2>2
<1>5. At("read", l) /\ At("append", l)
  BY <1>3, <1>4 DEF At
<1>6. CASE Go(h, "read", l) \/ Go(h, "append", l)
  BY <1>1, <1>5, <1>6, ReadStep
<1>7. CASE Ends(h)
  BY <1>1, <1>7, EndsKeeps
<1> QED BY <1>6, <1>7 DEF Record, Lifecycle

LEMMA CorrelateKeeps == ASSUME IInv, NEW h \in Hook, Correlate(h) PROVE IInv'
<1>1. ReadsOnly /\ pc[h] = "read" /\ Go(h, "append", look[h])
  BY DEF Correlate, ReadsOnly
<1>2. At("append", look[h])
  BY <1>1 DEF IInv, At
<1> QED BY <1>1, <1>2, ReadStep

LEMMA AppendBatchKeeps == ASSUME IInv, NEW h \in Hook, AppendBatch(h) PROVE IInv'
<1>1. ReadsOnly /\ pc[h] = "append"
  BY DEF AppendBatch, ReadsOnly
<1>2. CASE look[h].wants = NoRow
  BY <1>1, <1>2, EndsKeeps DEF AppendBatch
<1>3. CASE look[h].wants # NoRow
  <2>1. At("refresh", look[h])
    BY <1>1, <1>3 DEF IInv, At
  <2> QED BY <1>1, <1>3, <2>1, ReadStep DEF AppendBatch
<1> QED BY <1>2, <1>3

LEMMA OthersKeep == ASSUME IInv, UNCHANGED cacheVars PROVE IInv'
BY DEF IInv, FilesOK, CacheOK, At, Good, Known, Sound, HalfCompared, ReadAManifest,
       ReadARemote, ManifestGone, Hollow, SourceOf, cacheVars, surroundings

--------------------------------------------------------------------------------
(* The invariant. *)

LEMMA Initially == Init => IInv
<1> SUFFICES ASSUME Init PROVE IInv
  OBVIOUS
<1>1. FilesOK
  BY DEF Init, CacheInit, FilesOK, Known, Part, Root
<1>2. CacheOK
  BY DEF Init, CacheInit, CacheOK
<1>3. \A h \in Hook : At(pc[h], look[h])
  BY Anywhere, NothingIs DEF Init, CacheInit
<1> QED BY <1>1, <1>2, <1>3 DEF IInv, Init, CacheInit

LEMMA EveryStep == IInv /\ [Next]_vars => IInv'
<1> SUFFICES ASSUME IInv, [Next]_vars PROVE IInv'
  OBVIOUS
<1>1. ASSUME NEW h \in Hook, Start(h) PROVE IInv'
  BY <1>1, StartKeeps
<1>2. ASSUME NEW h \in Hook, ResolveStep(h) PROVE IInv'
  BY <1>2, ResolveKeeps DEF ResolveStep
<1>3. ASSUME NEW h \in Hook, Record(h) PROVE IInv'
  BY <1>3, RecordKeeps
<1>4. ASSUME NEW h \in Hook, Correlate(h) PROVE IInv'
  BY <1>4, CorrelateKeeps
<1>5. ASSUME NEW h \in Hook, AppendBatch(h) PROVE IInv'
  BY <1>5, AppendBatchKeeps
<1>6. ASSUME NEW h \in Hook, StoreStep(h) PROVE IInv'
  BY <1>6, CreateCacheKeeps, InitialiseCacheKeeps, UpsertKeeps DEF StoreStep, Store
<1>7. ASSUME NEW h \in Hook, StopStep(h) PROVE IInv'
  BY <1>7, EndsKeeps DEF StopStep, Stop, ReadsOnly
<1>8. ASSUME NEW c \in Call, Ask(c) \/ Answer(c) PROVE IInv'
  BY <1>8, OthersKeep DEF Ask, Answer
<1>9. ASSUME NEW f \in Volatile, Edit(f[1], f[2]) PROVE IInv'
  BY <1>9, EditKeeps, EditsAreBounded
<1>10. CASE UNCHANGED vars
  BY <1>10, OthersKeep DEF vars
<1> QED BY <1>1, <1>2, <1>3, <1>4, <1>5, <1>6, <1>7, <1>8, <1>9, <1>10 DEF Next

\* What hooks know of the files, and what the cache says of them, stays true or is
\* noticed to be outdated, however files, hooks and the permission hook interleave.
THEOREM Invariance == Spec => []IInv
BY Initially, EveryStep, PTL DEF Spec

\* A project that a hook takes from the cache (lookup_cache) is the one that reading
\* the files would have given when the lookup compared them (HitIsCurrent).
THEOREM CachedProjectIsCurrent == Spec => []HitIsCurrent
<1>1. IInv => HitIsCurrent
  BY DEF IInv, At, HitIsCurrent
<1> QED BY <1>1, Invariance, PTL

--------------------------------------------------------------------------------
(* The journal and the outcomes in it. *)

Entry == [kind : {"lifecycle", "decision", "diagnostic"}, session : Session,
          call : Call \cup {None}, state : Terminal \cup {"evaluating", "outcome"},
          name : Tool \cup {None}, act : Call \cup {None}]

\* The starts of calls of session s before row j.
StartsBefore(J, j, s) == {i \in 1..(j - 1) : J[i].name = "PreToolUse" /\ J[i].session = s}

\* Row j allows what was decided for call a, and that is call c of session s as far
\* as can be told: by its name, or as the last call that started before.
Backs(J, j, named, s, c, a) ==
  /\ J[j].act = a /\ Allows(J, j)
  /\ IF named THEN a = c
     ELSE /\ J[j].session = s /\ StartsBefore(J, j, s) # {}
          /\ J[Deepest(StartsBefore(J, j, s))].call = c
Backed(J, n, named, s, c, a) == \E j \in 1..n : Backs(J, j, named, s, c, a)

RowFits(J, i, named) ==
  /\ J[i].name # None => J[i].kind = "lifecycle"
  /\ J[i].state \in {"allowed", "outcome"} => J[i].kind = "decision"
  /\ J[i].kind = "decision" /\ J[i].state # "outcome" =>
       /\ J[i].act \in Call /\ J[i].session = SessionOf(J[i].act)
       /\ J[i].call = IF named THEN J[i].act ELSE None
  /\ J[i].state = "outcome" =>
       /\ J[i].act \in Call /\ J[i].call \in Call
       /\ Backed(J, i - 1, named, J[i].session, J[i].call, J[i].act)

JournalFits(J, named) == J \in Seq(Entry) /\ \A i \in 1..Len(J) : RowFits(J, i, named)

\* Journal K begins with J.
Grown(J, K) ==
  J \in Seq(Entry) /\ K \in Seq(Entry) /\ Len(J) <= Len(K) /\ \A i \in 1..Len(J) : K[i] = J[i]

\* What a row says depends on the rows before it.
LEMMA BacksStays ==
  ASSUME NEW J, NEW K, Grown(J, K), NEW j \in 1..Len(J), NEW named, NEW s, NEW c, NEW a
  PROVE  /\ StartsBefore(K, j, s) = StartsBefore(J, j, s)
         /\ Allows(J, j) <=> Allows(K, j)
         /\ Backs(J, j, named, s, c, a) <=> Backs(K, j, named, s, c, a)
<1>1. /\ Len(J) \in Nat /\ K[j] = J[j] /\ j \in Nat
      /\ \A i \in 1..(j - 1) : i \in 1..Len(J) /\ K[i] = J[i]
  BY DEF Grown
<1>2. StartsBefore(K, j, s) = StartsBefore(J, j, s)
  BY <1>1 DEF StartsBefore
<1>3. Allows(J, j) <=> Allows(K, j)
  BY <1>1 DEF Allows
<1>4. StartsBefore(J, j, s) # {} =>
        K[Deepest(StartsBefore(J, j, s))] = J[Deepest(StartsBefore(J, j, s))]
  <2> DEFINE S == StartsBefore(J, j, s)
  <2>1. S \subseteq 1..(j - 1) /\ j - 1 \in Nat
    BY <1>1 DEF StartsBefore
  <2> HIDE DEF S
  <2>2. S # {} => Deepest(S) \in S
    BY <2>1, DeepestIs
  <2> QED BY <1>1, <2>1, <2>2 DEF S
<1>5. Backs(J, j, named, s, c, a) <=> Backs(K, j, named, s, c, a)
  BY <1>1, <1>2, <1>3, <1>4 DEF Backs
<1> QED BY <1>2, <1>3, <1>5

LEMMA BackedStays ==
  ASSUME NEW J, NEW K, Grown(J, K), NEW n \in 0..Len(J), NEW m \in Nat, n <= m,
         NEW named, NEW s, NEW c, NEW a, Backed(J, n, named, s, c, a)
  PROVE  Backed(K, m, named, s, c, a)
<1>1. PICK j \in 1..n : Backs(J, j, named, s, c, a)
  BY DEF Backed
<1>2. j \in 1..Len(J) /\ j \in 1..m
  BY DEF Grown
<1>3. Backs(K, j, named, s, c, a)
  BY <1>1, <1>2, BacksStays
<1> QED BY <1>2, <1>3 DEF Backed

\* A row that fits a journal fits what the journal grows to.
LEMMA RowStays ==
  ASSUME NEW J, NEW K, Grown(J, K), NEW i \in 1..Len(J), NEW named, RowFits(J, i, named)
  PROVE  RowFits(K, i, named)
<1>1. K[i] = J[i] /\ Len(J) \in Nat /\ i - 1 \in 0..Len(J) /\ i - 1 \in Nat
  BY DEF Grown
<1>2. J[i].state = "outcome" => Backed(K, i - 1, named, J[i].session, J[i].call, J[i].act)
  BY <1>1, BackedStays DEF RowFits
<1> QED BY <1>1, <1>2 DEF RowFits

\* The part of the journal that is read is its beginning.
LEMMA ReadIsPart ==
  ASSUME journal \in Seq(Entry), NEW e
  PROVE  Grown(Read(e), journal)
<1> DEFINE S == {i \in DOMAIN journal : /\ Decides(journal[i], e)
                                        /\ journal[i].state \in {"allowed", "denied"}
                                        /\ journal[i].call \in {e.call, None}}
<1>1. CASE S = {}
  <2>1. Read(e) = <<>>
    BY <1>1 DEF Read
  <2> QED BY <2>1 DEF Grown
<1>2. CASE S # {}
  <2>1. Read(e) = SubSeq(journal, 1, Deepest(S))
    BY <1>2 DEF Read
  <2>2. S \subseteq 1..Len(journal) /\ Len(journal) \in Nat
    OBVIOUS
  <2> HIDE DEF S
  <2>3. Deepest(S) \in 1..Len(journal)
    BY <1>2, <2>2, DeepestIs
  <2> DEFINE n == Deepest(S)
  <2> HIDE DEF n
  <2>4. /\ SubSeq(journal, 1, n) \in Seq(Entry) /\ Len(SubSeq(journal, 1, n)) = n
        /\ \A i \in 1..n : SubSeq(journal, 1, n)[i] = journal[i]
    <3>1. n \in 1..Len(journal) /\ 1 \in 1..(Len(journal) + 1)
      BY <2>2, <2>3 DEF n
    <3>2. \A i \in 1..n : journal[i] \in Entry
      BY <3>1
    <3> QED BY <3>1, <3>2, SubSeqProperties
  <2> QED BY <2>1, <2>3, <2>4 DEF Grown, n
<1> QED BY <1>1, <1>2

\* A set of positions has a first one.
LEMMA EarliestIs ==
  ASSUME NEW S, S \subseteq Nat, S # {}
  PROVE  Earliest(S) \in S /\ \A i \in S : Earliest(S) <= i
<1>1. PICK x \in S : \A y \in S : <<y, x>> \notin OpToRel(<, Nat)
  BY NatLessThanWellFounded, WFMin
<1>2. \A y \in S : ~(y < x)
  BY <1>1 DEF OpToRel
<1>3. \A y \in S : x <= y
  BY <1>2
<1> QED BY <1>1, <1>3 DEF Earliest

\* What is said of a call that ended.
Said(v, e, J, named) ==
  \/ v = NoVerdict
  \/ v = <<Diagnostic(e)>>
  \/ \E a \in Call : v = <<Outcome(e, a)>> /\ Backed(J, Len(J), named, e.session, e.call, a)

\* An outcome is attributed to one of the decisions, which allows its call.
LEMMA AttributedIs ==
  ASSUME NEW log, NEW e, NEW acts
  PROVE  \/ Attributed(log, e, acts) \in {NoVerdict, <<Diagnostic(e)>>}
         \/ \E a \in acts : /\ Attributed(log, e, acts) = <<Outcome(e, a)>>
                            /\ \E i \in DOMAIN log : log[i].act = a /\ Allows(log, i)
<1> DEFINE S == {a \in acts : \E i \in DOMAIN log : log[i].act = a /\ Allows(log, i)}
           b == CHOOSE a \in S : TRUE
<1>1. CASE Cardinality(S) # 1
  BY <1>1 DEF Attributed
<1>2. CASE Cardinality(S) = 1
  <2>1. S # {}
    BY <1>2, FS_EmptySet
  <2>2. b \in S
    BY <2>1
  <2>3. Attributed(log, e, acts) \in {NoVerdict, <<Outcome(e, b)>>}
    BY <1>2 DEF Attributed
  <2> QED BY <2>2, <2>3
<1> QED BY <1>1, <1>2

\* A call with decisions of its own.
LEMMA OwnIsSaid ==
  ASSUME NEW log, NEW named, JournalFits(log, named), NEW e, e.call \in Call,
         NEW acts, acts = {log[i].act : i \in {j \in DOMAIN log : Decides(log[j], e)
                                                                /\ log[j].call = e.call}}
  PROVE  Said(Attributed(log, e, acts), e, log, named)
<1>1. CASE Attributed(log, e, acts) \in {NoVerdict, <<Diagnostic(e)>>}
  BY <1>1 DEF Said
<1>2. ASSUME NEW a \in acts, Attributed(log, e, acts) = <<Outcome(e, a)>>,
             NEW i \in DOMAIN log, log[i].act = a, Allows(log, i)
      PROVE  Said(Attributed(log, e, acts), e, log, named)
  <2>1. PICK j \in DOMAIN log : Decides(log[j], e) /\ log[j].call = e.call /\ log[j].act = a
    OBVIOUS
  <2>2. /\ DOMAIN log = 1..Len(log) /\ Len(log) \in Nat /\ j - 1 \in 0..Len(log)
        /\ j - 1 <= Len(log) /\ RowFits(log, j, named) /\ Grown(log, log)
    BY DEF JournalFits, Grown
  <2>3. log[j].kind = "decision" /\ log[j].session = e.session
    BY <2>1 DEF Decides
  <2>4. CASE log[j].state # "outcome"
    <3>1. a \in Call /\ e.call = IF named THEN a ELSE None
      BY <2>1, <2>2, <2>3, <2>4 DEF RowFits
    <3>2. named /\ a = e.call
      BY <3>1, CallsAreNamed
    <3>3. Backs(log, i, named, e.session, e.call, a)
      BY <1>2, <3>2 DEF Backs
    <3> QED BY <1>2, <2>2, <3>1, <3>3 DEF Backed, Said
  <2>5. CASE log[j].state = "outcome"
    <3>1. a \in Call /\ Backed(log, j - 1, named, e.session, e.call, a)
      BY <2>1, <2>2, <2>3, <2>5 DEF RowFits
    <3>2. Backed(log, Len(log), named, e.session, e.call, a)
      BY <2>2, <3>1, BackedStays
    <3> QED BY <1>2, <3>1, <3>2 DEF Said
  <2> QED BY <2>4, <2>5
<1> QED BY <1>1, <1>2, AttributedIs

\* A call without: what was decided after its start, before another one started.
LEMMA IntervalIsSaid ==
  ASSUME NEW log, JournalFits(log, FALSE), NEW e,
         NEW first \in DOMAIN log, Is(log[first], e, "PreToolUse"), log[first].call = e.call
  PROVE  Said(Interval(log, e, first), e, log, FALSE)
<1> DEFINE later == {i \in Befores(log, e) : i > first}
           inside == {i \in DOMAIN log : /\ log[i].kind = "decision" /\ i > first
                                         /\ \A j \in later : i < j}
           eligible == {log[i].act : i \in {j \in inside : Decides(log[j], e)
                                                            /\ Allows(log, j)}}
<1>1. CASE Interval(log, e, first) \in {NoVerdict, <<Diagnostic(e)>>}
  BY <1>1 DEF Said
<1>2. CASE Interval(log, e, first) = Attributed(log, e, eligible) /\ later = {}
  <2>1. ASSUME NEW a \in eligible, Attributed(log, e, eligible) = <<Outcome(e, a)>>
        PROVE  Said(Interval(log, e, first), e, log, FALSE)
    <3>1. PICK i \in DOMAIN log : /\ i > first /\ Decides(log[i], e) /\ Allows(log, i)
                                  /\ log[i].act = a
      OBVIOUS
    <3>2. /\ DOMAIN log = 1..Len(log) /\ Len(log) \in Nat
          /\ \A k \in DOMAIN log : RowFits(log, k, FALSE)
      <4>1. log \in Seq(Entry) /\ \A k \in 1..Len(log) : RowFits(log, k, FALSE)
        BY DEF JournalFits
      <4>2. DOMAIN log = 1..Len(log) /\ Len(log) \in Nat
        BY <4>1
      <4> QED BY <4>1, <4>2
    <3>3. log[i].session = e.session /\ log[i].state = "allowed" /\ log[i].kind = "decision"
      BY <3>1 DEF Decides, Allows
    <3>4. a \in Call
      BY <3>1, <3>2, <3>3 DEF RowFits
    <3> DEFINE S == StartsBefore(log, i, e.session)
    <3>5. first \in S
      BY <3>1, <3>2 DEF StartsBefore, Is
    <3>6. ASSUME NEW k \in S PROVE k <= first
      <4>1. k \in DOMAIN log /\ log[k].name = "PreToolUse" /\ log[k].session = e.session
        BY <3>2 DEF StartsBefore
      <4>2. "PreToolUse" # None
        BY CallsAreNamed DEF Tool
      <4>3. log[k].kind = "lifecycle"
        BY <3>2, <4>1, <4>2 DEF RowFits, JournalFits
      <4>4. k \in Befores(log, e)
        BY <4>1, <4>3 DEF Befores, Is
      <4> QED BY <1>2, <3>2, <4>1, <4>4
    <3>7. S \subseteq 1..Len(log) /\ i - 1 \in Nat
      BY <3>2 DEF StartsBefore
    <3> HIDE DEF S
    <3>8. Deepest(S) = first
      <4>1. Deepest(S) \in S /\ first <= Deepest(S)
        BY <3>2, <3>5, <3>7, DeepestIs
      <4>2. Deepest(S) <= first
        BY <3>6, <4>1
      <4>3. first \in Nat
        BY <3>2
      <4>4. Deepest(S) \in Nat
        <5>1. 1..Len(log) \subseteq Nat
          BY ONLY <3>2
        <5> QED BY ONLY <3>7, <4>1, <5>1
      <4> QED BY ONLY <4>1, <4>2, <4>3, <4>4
    <3>9. Backs(log, i, FALSE, e.session, e.call, a)
      BY <3>1, <3>3, <3>5, <3>8 DEF Backs, S
    <3> QED BY <1>2, <2>1, <3>2, <3>4, <3>9 DEF Said, Backed
  <2>2. CASE Attributed(log, e, eligible) \in {NoVerdict, <<Diagnostic(e)>>}
    BY <1>2, <2>2 DEF Said
  <2> HIDE DEF eligible
  <2>3. \/ Attributed(log, e, eligible) \in {NoVerdict, <<Diagnostic(e)>>}
        \/ \E a \in eligible : Attributed(log, e, eligible) = <<Outcome(e, a)>>
    <3>1. \/ Attributed(log, e, eligible) \in {NoVerdict, <<Diagnostic(e)>>}
          \/ \E a \in eligible : /\ Attributed(log, e, eligible) = <<Outcome(e, a)>>
                                  /\ \E i \in DOMAIN log : log[i].act = a /\ Allows(log, i)
      BY AttributedIs
    <3> QED BY <3>1
  <2> QED BY <2>1, <2>2, <2>3
<1> QED BY <1>1, <1>2 DEF Interval

\* Requests that name their calls leave nothing to be guessed.
LEMMA NamedIsOwn ==
  ASSUME JournalFits(journal, TRUE), NEW e,
         \A j \in DOMAIN Read(e) : ~(Decides(Read(e)[j], e) /\ Read(e)[j].call = e.call)
  PROVE  Read(e) = <<>>
<1> DEFINE S == {i \in DOMAIN journal : /\ Decides(journal[i], e)
                                        /\ journal[i].state \in {"allowed", "denied"}
                                        /\ journal[i].call \in {e.call, None}}
<1> SUFFICES ASSUME S # {} PROVE FALSE
  BY DEF Read
<1>1. Read(e) = SubSeq(journal, 1, Deepest(S))
  BY DEF Read
<1>2. journal \in Seq(Entry) /\ S \subseteq 1..Len(journal) /\ Len(journal) \in Nat
  BY DEF JournalFits
<1> DEFINE n == Deepest(S)
<1>3. n \in S
  <2> HIDE DEF S
  <2> QED BY <1>2, DeepestIs
<1>4. /\ Decides(journal[n], e) /\ journal[n].state \in {"allowed", "denied"}
      /\ journal[n].call \in {e.call, None} /\ n \in 1..Len(journal)
  BY <1>2, <1>3
<1>5. journal[n].call \in Call
  <2>1. RowFits(journal, n, TRUE)
    BY <1>4 DEF JournalFits
  <2> QED BY <1>4, <2>1 DEF RowFits, Decides
<1>6. journal[n].call = e.call
  BY <1>4, <1>5, CallsAreNamed
<1>7. Grown(Read(e), journal)
  BY <1>2, ReadIsPart
<1> HIDE DEF n, S
<1>8. Len(Read(e)) = n
  <2>1. n \in 1..Len(journal) /\ 1 \in 1..(Len(journal) + 1)
    BY <1>2, <1>4
  <2>2. \A i \in 1..n : journal[i] \in Entry
    BY <1>2, <2>1
  <2> QED BY <1>1, <2>1, <2>2, SubSeqProperties DEF n
<1>9. n \in DOMAIN Read(e) /\ Read(e)[n] = journal[n]
  BY <1>4, <1>7, <1>8 DEF Grown
<1> QED BY <1>4, <1>6, <1>9

\* What a hook reads in the journal about its call.
LEMMA CorrelatedIsSaid ==
  ASSUME NEW named \in BOOLEAN, JournalFits(journal, named), NEW e, e.call \in Call
  PROVE  Said(Correlated(Read(e), e), e, journal, named)
<1> DEFINE log == Read(e)
           own == {log[i].act : i \in {j \in DOMAIN log : Decides(log[j], e) /\ log[j].call = e.call}}
           anchors == Anchors(log, e)
<1>1. Grown(log, journal) /\ Len(log) \in Nat /\ Len(journal) \in Nat
  BY ReadIsPart DEF JournalFits, Grown
<1>2. JournalFits(log, named)
  <2>1. log \in Seq(Entry) /\ \A i \in 1..Len(log) : i \in 1..Len(journal) /\ i - 1 \in Nat
    BY <1>1 DEF Grown
  <2>2. ASSUME NEW i \in 1..Len(log) PROVE RowFits(log, i, named)
    <3>1. RowFits(journal, i, named) /\ log[i] = journal[i]
      BY <1>1, <2>1 DEF JournalFits, Grown
    <3>2. \A j \in 1..(i - 1) : j \in 1..Len(log)
      BY <1>1
    <3>3. \A s, c, a : Backed(journal, i - 1, named, s, c, a) => Backed(log, i - 1, named, s, c, a)
      BY <1>1, <3>2, BacksStays DEF Backed
    <3> QED BY <3>1, <3>3 DEF RowFits
  <2> QED BY <2>1, <2>2 DEF JournalFits
<1>3. ASSUME NEW v, Said(v, e, log, named) PROVE Said(v, e, journal, named)
  <2>1. Len(log) \in 0..Len(log) /\ Len(log) <= Len(journal)
    BY <1>1 DEF Grown
  <2>2. \A a : Backed(log, Len(log), named, e.session, e.call, a)
               => Backed(journal, Len(journal), named, e.session, e.call, a)
    BY <1>1, <2>1, BackedStays
  <2> QED BY <1>3, <2>2 DEF Said
<1>4. CASE own # {}
  <2>1. Correlated(log, e) \in {Attributed(log, e, own), <<Diagnostic(e)>>}
    BY <1>4 DEF Correlated
  <2>2. Said(Attributed(log, e, own), e, log, named)
    <3> HIDE DEF log
    <3> QED BY <1>2, OwnIsSaid
  <2>3. Said(<<Diagnostic(e)>>, e, log, named)
    BY DEF Said
  <2>4. Said(Correlated(log, e), e, log, named)
    <3> HIDE DEF log, own
    <3> QED BY <2>1, <2>2, <2>3
  <2>5. Said(Correlated(log, e), e, journal, named)
    <3> HIDE DEF log, own
    <3> QED BY <1>3, <2>4
  <2> QED BY <2>5
<1>5. CASE own = {}
  <2>1. CASE Correlated(log, e) \in {NoVerdict, <<Diagnostic(e)>>}
    BY <2>1 DEF Said
  <2>2. CASE Cardinality(anchors) = 1 /\ Correlated(log, e) = Interval(log, e, Earliest(anchors))
    <3>1. anchors # {} /\ anchors \subseteq DOMAIN log
      BY <2>2, FS_EmptySet DEF Anchors, Befores
    <3>2. ~named
      <4> SUFFICES ASSUME named PROVE FALSE
        OBVIOUS
      <4>1. \A j \in DOMAIN log : ~(Decides(log[j], e) /\ log[j].call = e.call)
        BY <1>5
      <4>2. log = <<>>
        BY <4>1, NamedIsOwn
      <4> HIDE DEF log
      <4> QED BY <3>1, <4>2
    <3>3. anchors \subseteq Nat
      BY <1>1, <3>1 DEF Grown
    <3>4. Earliest(anchors) \in anchors
      BY <3>1, <3>3, EarliestIs
    <3>5. /\ Earliest(anchors) \in DOMAIN log /\ Is(log[Earliest(anchors)], e, "PreToolUse")
          /\ log[Earliest(anchors)].call = e.call
      BY <3>4 DEF Anchors, Befores
    <3>6. Said(Interval(log, e, Earliest(anchors)), e, log, named)
      <4>1. named = FALSE
        BY <3>2
      <4> HIDE DEF log, anchors
      <4> QED BY <1>2, <3>5, <4>1, IntervalIsSaid
    <3> QED BY <1>3, <2>2, <3>6
  <2> QED BY <1>5, <2>1, <2>2 DEF Correlated
<1> QED BY <1>4, <1>5

--------------------------------------------------------------------------------
(* What the journal says, and who is about to add to it. *)

\* A hook that has appended what it observed.
Past == {"refresh", "initialise", "upsert", "over"}

HookFits(h) ==
  /\ pc[h] # "waiting" => h \in scene.hooks
  /\ pc[h] = "read" => Event[h].kind = "PostToolUse"
  /\ verdict[h] # NoVerdict => pc[h] = "append" /\ Event[h].kind = "PostToolUse"
  /\ Said(verdict[h], Event[h], journal, scene.named)

\* A permission that was given is given once.
AllowedOnce ==
  \A i \in 1..Len(journal) : journal[i].state = "allowed" =>
    /\ asked[journal[i].act] = "allowed"
    /\ \A j \in 1..Len(journal) :
         journal[j].state = "allowed" /\ journal[j].act = journal[i].act => i = j

\* An outcome was appended by a hook that was started for the end of its call.
Authored ==
  \A i \in Outcomes : \E h \in HooksOf(journal[i].call, "PostToolUse") : pc[h] \in Past

JInv ==
  /\ scene \in Scenes
  /\ DOMAIN pc = Hook /\ DOMAIN asked = Call /\ DOMAIN verdict = Hook
  /\ JournalFits(journal, scene.named)
  /\ \A h \in Hook : HookFits(h)
  /\ AllowedOnce
  /\ Authored
  /\ OneOutcomePerDecision

--------------------------------------------------------------------------------
(* Two outcomes. *)

LEMMA AllowsOnce ==
  ASSUME NEW J, NEW i, NEW j, i \in Nat \ {0}, j \in Nat \ {0}, Allows(J, i), Allows(J, j),
         J[i].act = J[j].act
  PROVE  i = j
<1>1. ~(i < j)
  <2> SUFFICES ASSUME i < j PROVE FALSE
    OBVIOUS
  <2>1. i \in 1..(j - 1)
    OBVIOUS
  <2> QED BY <2>1 DEF Allows, Terminal
<1>2. ~(j < i)
  <2> SUFFICES ASSUME j < i PROVE FALSE
    OBVIOUS
  <2>1. j \in 1..(i - 1)
    OBVIOUS
  <2> QED BY <2>1 DEF Allows, Terminal
<1> QED BY <1>1, <1>2

\* Outcomes of one decision are outcomes of one call.
LEMMA OneCall ==
  ASSUME NEW J, NEW named, NEW n, NEW m, n \in Nat, m \in Nat, NEW a,
         NEW s, NEW c, Backed(J, n, named, s, c, a),
         NEW t, NEW d, Backed(J, m, named, t, d, a)
  PROVE  c = d
<1>1. PICK i \in 1..n : Backs(J, i, named, s, c, a)
  BY DEF Backed
<1>2. PICK j \in 1..m : Backs(J, j, named, t, d, a)
  BY DEF Backed
<1>3. i = j
  <2>1. i \in Nat \ {0} /\ j \in Nat \ {0}
    OBVIOUS
  <2>2. Allows(J, i) /\ Allows(J, j) /\ J[i].act = J[j].act
    BY <1>1, <1>2 DEF Backs
  <2> QED BY <2>1, <2>2, AllowsOnce
<1>4. CASE named
  BY <1>1, <1>2, <1>4 DEF Backs
<1>5. CASE ~named
  <2>1. /\ J[i].session = s /\ J[Deepest(StartsBefore(J, i, s))].call = c
        /\ J[i].session = t /\ J[Deepest(StartsBefore(J, i, t))].call = d
    BY <1>1, <1>2, <1>3, <1>5 DEF Backs
  <2> QED BY <2>1
<1> QED BY <1>4, <1>5

LEMMA TwoHooks ==
  ASSUME scene \in Scenes, NEW c, NEW k, NEW g \in HooksOf(c, k), NEW h \in HooksOf(c, k), g # h
  PROVE  Cardinality(HooksOf(c, k)) > 1
<1> DEFINE S == HooksOf(c, k)
<1>1. IsFiniteSet(scene.hooks) /\ S \subseteq scene.hooks
  BY ScenesHaveHooks DEF HooksOf
<1>2. IsFiniteSet(S)
  BY <1>1, FS_Subset
<1> HIDE DEF S
<1>3. Cardinality({g}) = 1 /\ IsFiniteSet({g})
  BY FS_Singleton
<1>4. Cardinality({g} \cup {h}) = 2 /\ IsFiniteSet({g} \cup {h})
  BY <1>3, FS_AddElement
<1>5. {g} \cup {h} \subseteq S
  BY DEF S
<1>6. Cardinality({g} \cup {h}) <= Cardinality(S) /\ Cardinality(S) \in Nat
  BY <1>2, <1>5, FS_Subset, FS_CardinalityType
<1>7. Cardinality(S) > 1
  BY <1>4, <1>6
<1> QED BY <1>7 DEF S

--------------------------------------------------------------------------------
(* The journal grows. *)

LEMMA FitsGrows ==
  ASSUME NEW J, NEW K, NEW named, JournalFits(J, named), Grown(J, K),
         \A i \in (Len(J) + 1)..Len(K) : RowFits(K, i, named)
  PROVE  JournalFits(K, named)
<1>1. ASSUME NEW i \in 1..Len(K) PROVE RowFits(K, i, named)
  <2>1. Len(J) \in Nat /\ Len(K) \in Nat
    BY DEF Grown
  <2>2. i \in 1..Len(J) \/ i \in (Len(J) + 1)..Len(K)
    BY <2>1
  <2>3. CASE i \in 1..Len(J)
    <3>1. RowFits(J, i, named)
      BY <2>3 DEF JournalFits
    <3> QED BY <2>3, <3>1, RowStays
  <2> QED BY <2>2, <2>3
<1> QED BY <1>1 DEF JournalFits, Grown

LEMMA SaidGrows ==
  ASSUME NEW J, NEW K, Grown(J, K), NEW v, NEW e, NEW named, Said(v, e, J, named)
  PROVE  Said(v, e, K, named)
<1>1. Len(J) \in 0..Len(J) /\ Len(K) \in Nat /\ Len(J) <= Len(K)
  BY DEF Grown
<1>2. \A a : Backed(J, Len(J), named, e.session, e.call, a)
             => Backed(K, Len(K), named, e.session, e.call, a)
  BY <1>1, BackedStays
<1> QED BY <1>2 DEF Said

LEMMA SessionOfCall ==
  ASSUME NEW c \in Call
  PROVE  SessionOf(c) \in Session
<1>1. \E e \in {Event[h] : h \in Hook} : e.call = c
  BY DEF Call
<1>2. \A e \in {Event[h] : h \in Hook} : e.session \in Session
  BY HooksAreForTools
<1> QED BY <1>1, <1>2 DEF SessionOf

\* A row at the end of the journal.
LEMMA AppendIs ==
  ASSUME journal \in Seq(Entry), NEW row \in Entry, journal' = Append(journal, row)
  PROVE  /\ Grown(journal, journal') /\ Len(journal') = Len(journal) + 1
         /\ journal'[Len(journal) + 1] = row /\ Len(journal) \in Nat
         /\ DOMAIN journal = 1..Len(journal) /\ DOMAIN journal' = 1..(Len(journal) + 1)
         /\ \A i \in 1..Len(journal) : journal'[i] = journal[i]
BY DEF Grown

\* The rows before are what they were, and what they say is about them.
LEMMA AskAnswerKeeps ==
  ASSUME JInv, NEW c \in Call, NEW s \in {"evaluating", "allowed", "denied", "abstained"},
         asked[c] \in {"no", "asking"}, asked' = [asked EXCEPT ![c] = IF s = "evaluating" THEN "asking" ELSE s],
         journal' = Append(journal, Decision(c, s)),
         UNCHANGED <<pc, scene, verdict>>
  PROVE  JInv'
<1> DEFINE row == Decision(c, s)
           n == Len(journal) + 1
<1>1. row \in Entry /\ row.state = s /\ row.act = c
  BY SessionOfCall DEF Decision, Entry, Terminal
<1>2. /\ Grown(journal, journal') /\ Len(journal') = n /\ journal'[n] = row /\ Len(journal) \in Nat
      /\ DOMAIN journal = 1..Len(journal) /\ DOMAIN journal' = 1..n
      /\ \A i \in 1..Len(journal) : journal'[i] = journal[i]
  BY <1>1, AppendIs DEF JInv, JournalFits
<1>3. JournalFits(journal', scene.named)
  <2>1. RowFits(journal', n, scene.named)
    BY <1>2 DEF RowFits, Decision
  <2>2. \A i \in (Len(journal) + 1)..Len(journal') : i = n
    BY <1>2
  <2> QED BY <1>2, <2>1, <2>2, FitsGrows DEF JInv
<1>4. ASSUME NEW h \in Hook PROVE HookFits(h)'
  <2>1. HookFits(h)
    BY DEF JInv
  <2>2. Said(verdict[h], Event[h], journal', scene.named)
    BY <1>2, <2>1, SaidGrows DEF HookFits
  <2> QED BY <2>1, <2>2 DEF HookFits
<1>5. \A i \in 1..Len(journal) : journal[i].state = "allowed" => journal[i].act # c /\ journal[i].act \in Call
  BY DEF JInv, AllowedOnce, JournalFits, RowFits
<1>6. AllowedOnce'
  <2> HIDE DEF row
  <2>1. \A i \in 1..n : i \in 1..Len(journal) \/ i = n
    BY <1>2
  <2>2. s = "allowed" => asked'[c] = "allowed"
    BY DEF JInv
  <2>3. \A i \in 1..Len(journal) : journal[i].state = "allowed" =>
          /\ asked'[journal[i].act] = "allowed"
          /\ \A j \in 1..Len(journal) :
               journal[j].state = "allowed" /\ journal[j].act = journal[i].act => i = j
    BY <1>5 DEF JInv, AllowedOnce
  <2> HIDE DEF n
  <2> QED BY <1>1, <1>2, <1>5, <2>1, <2>2, <2>3 DEF AllowedOnce
<1>7. Outcomes' = Outcomes /\ \A i \in Outcomes : journal'[i] = journal[i]
  <2>1. \A i \in 1..n : i \in 1..Len(journal) \/ i = n
    BY <1>2
  <2>2. s # "outcome" /\ \A i \in 1..Len(journal) : i \in 1..n
    BY <1>2
  <2> HIDE DEF row, n
  <2> QED BY <1>1, <1>2, <2>1, <2>2 DEF Outcomes
<1>8. Authored'
  <2> SUFFICES ASSUME NEW i \in Outcomes'
               PROVE  \E h \in HooksOf(journal[i].call, "PostToolUse")' : pc'[h] \in Past
    BY DEF Authored
  <2>1. i \in Outcomes /\ journal'[i] = journal[i]
    BY <1>7
  <2>2. HooksOf(journal[i].call, "PostToolUse")' = HooksOf(journal[i].call, "PostToolUse")
    BY <2>1 DEF HooksOf
  <2> QED BY <2>1, <2>2 DEF JInv, Authored
<1>9. OneOutcomePerDecision'
  <2> SUFFICES ASSUME NEW i \in Outcomes', NEW j \in Outcomes', i # j,
                      journal'[i].act = journal'[j].act
               PROVE  Cardinality(HooksOf(journal[i].call, "PostToolUse")') > 1
    BY DEF OneOutcomePerDecision
  <2>1. /\ i \in Outcomes /\ journal'[i] = journal[i]
        /\ j \in Outcomes /\ journal'[j] = journal[j]
    BY <1>7
  <2>2. HooksOf(journal[i].call, "PostToolUse")' = HooksOf(journal[i].call, "PostToolUse")
    BY <2>1 DEF HooksOf
  <2> QED BY <2>1, <2>2 DEF JInv, OneOutcomePerDecision
<1> QED BY <1>3, <1>4, <1>6, <1>8, <1>9 DEF JInv

--------------------------------------------------------------------------------
(* The steps of a hook. *)

\* A hook moves on, and with it at most what it would have appended is lost.
LEMMA MoveKeeps ==
  ASSUME JInv, NEW h \in Hook, NEW p, pc' = [pc EXCEPT ![h] = p],
         p # "waiting", p = "read" => Event[h].kind = "PostToolUse",
         pc[h] \in Past => p \in Past, pc[h] = "waiting" => h \in scene.hooks,
         \/ UNCHANGED verdict /\ pc[h] # "append"
         \/ verdict' = [verdict EXCEPT ![h] = NoVerdict],
         UNCHANGED <<scene, journal, asked>>
  PROVE  JInv'
<1>1. ASSUME NEW g \in Hook PROVE HookFits(g)'
  <2>1. HookFits(g) /\ HookFits(h)
    BY DEF JInv
  <2>2. CASE g = h
    <3>1. verdict'[h] = NoVerdict /\ pc'[h] = p
      BY <2>1 DEF JInv, HookFits
    <3>2. Said(NoVerdict, Event[h], journal, scene.named)
      BY DEF Said
    <3> QED BY <2>1, <2>2, <3>1, <3>2 DEF HookFits
  <2>3. CASE g # h
    <3>1. pc'[g] = pc[g] /\ verdict'[g] = verdict[g]
      BY <2>3 DEF JInv
    <3> QED BY <2>1, <3>1 DEF HookFits
  <2> QED BY <2>2, <2>3
<1>2. Authored'
  <2>1. \A g \in Hook : pc[g] \in Past => pc'[g] \in Past
    BY DEF JInv
  <2>2. \A c : HooksOf(c, "PostToolUse") \subseteq Hook
    BY ScenesHaveHooks DEF HooksOf, JInv
  <2>3. \A c : HooksOf(c, "PostToolUse")' = HooksOf(c, "PostToolUse")
    BY DEF HooksOf
  <2> QED BY <2>1, <2>2, <2>3 DEF JInv, Authored, Outcomes
<1>3. OneOutcomePerDecision'
  <2>1. \A c : HooksOf(c, "PostToolUse")' = HooksOf(c, "PostToolUse")
    BY DEF HooksOf
  <2> QED BY <2>1 DEF JInv, OneOutcomePerDecision, Outcomes
<1> QED BY <1>1, <1>2, <1>3 DEF JInv, AllowedOnce

\* Where resolving the project takes a hook.
Ahead == {"select", "load", "compare", "compareConfig", "hit", "discover", "evidence",
          "manifest", "remote", "again", "confirm", "record"}

\* Resolving the project comes before the event is recorded.
LEMMA ResolveMoves ==
  ASSUME NEW h \in Hook, Resolve(h)
  PROVE  /\ \E p \in Ahead : pc' = [pc EXCEPT ![h] = p]
         /\ pc[h] \notin Past \cup {"waiting", "append"}
<1>1. CASE OpenCache(h)
  BY <1>1 DEF OpenCache, Discover, Go, Past, Ahead
<1>2. CASE SelectRoot(h)
  BY <1>2 DEF SelectRoot, Discover, Go, Past, Ahead
<1>3. CASE LoadRow(h)
  BY <1>3 DEF LoadRow, Discover, Go, Past, Ahead
<1>4. CASE CompareFirst(h)
  BY <1>4 DEF CompareFirst, Discover, Hit, Go, Past, Ahead
<1>5. CASE CompareConfig(h)
  BY <1>5 DEF CompareConfig, Discover, Hit, Go, Past, Ahead
<1>6. CASE TakeHit(h)
  <2>1. /\ pc' = [pc EXCEPT ![h] = "record"]
        /\ pc[h] = "hit"
    BY <1>6 DEF TakeHit, Resolved, Go
  <2>2. pc[h] \notin Past \cup {"waiting", "append"}
    BY <2>1 DEF Past
  <2>3. \E p \in Ahead : pc' = [pc EXCEPT ![h] = p]
    BY <2>1 DEF Ahead
  <2> QED BY <2>2, <2>3
<1>7. CASE DiscoverRoot(h)
  BY <1>7 DEF DiscoverRoot, Inferred, Resolved, Go, Past, Ahead
<1>8. CASE CollectEvidence(h)
  <2>1. /\ pc' = [pc EXCEPT ![h] = "manifest"]
        /\ pc[h] = "evidence"
    BY <1>8 DEF CollectEvidence, Go
  <2>2. pc[h] \notin Past \cup {"waiting", "append"}
    BY <2>1 DEF Past
  <2>3. \E p \in Ahead : pc' = [pc EXCEPT ![h] = p]
    BY <2>1 DEF Ahead
  <2> QED BY <2>2, <2>3
<1>9. CASE ReadManifest(h)
  BY <1>9 DEF ReadManifest, Go, Past, Ahead
<1>10. CASE ReadRemote(h)
  BY <1>10 DEF ReadRemote, Inferred, Resolved, Go, Past, Ahead
<1>11. CASE CollectAgain(h)
  <2>1. /\ pc' = [pc EXCEPT ![h] = "confirm"]
        /\ pc[h] = "again"
    BY <1>11 DEF CollectAgain, Go
  <2>2. pc[h] \notin Past \cup {"waiting", "append"}
    BY <2>1 DEF Past
  <2>3. \E p \in Ahead : pc' = [pc EXCEPT ![h] = p]
    BY <2>1 DEF Ahead
  <2> QED BY <2>2, <2>3
<1>12. CASE Confirm(h)
  BY <1>12 DEF Confirm, Inferred, Resolved, Go, Past, Ahead
<1>13. CASE Expire(h)
  <2>1. /\ pc' = [pc EXCEPT ![h] = "record"]
        /\ pc[h] \in {"open", "select", "load", "compare", "compareConfig", "discover", "again", "confirm"}
    BY <1>13 DEF Expire, Inferred, Resolved, Go
  <2>2. pc[h] \notin Past \cup {"waiting", "append"}
    BY <2>1 DEF Past
  <2>3. \E p \in Ahead : pc' = [pc EXCEPT ![h] = p]
    BY <2>1 DEF Ahead
  <2> QED BY <2>2, <2>3
<1> QED BY <1>1, <1>2, <1>3, <1>4, <1>5, <1>6, <1>7, <1>8, <1>9, <1>10, <1>11, <1>12, <1>13
        DEF Resolve

\* The cache is written when everything is appended.
LEMMA StoreMoves ==
  ASSUME NEW h \in Hook, Store(h)
  PROVE  /\ \E p \in Past : pc' = [pc EXCEPT ![h] = p]
         /\ pc[h] \in Past
BY DEF Store, CreateCache, InitialiseCache, Upsert, Ends, Go, Past

LEMMA StartMoves ==
  ASSUME JInv, NEW h \in Hook, Start(h)
  PROVE  JInv'
<1>1. PICK p : pc' = [pc EXCEPT ![h] = p] /\ p \in {"record", "open"}
  BY DEF Start, Inferred, Resolved, Go
<1>2. pc[h] = "waiting" /\ h \in scene.hooks /\ UNCHANGED <<scene, journal, asked, verdict>>
  BY DEF Start, hookVars
<1> QED BY <1>1, <1>2, MoveKeeps DEF Past

LEMMA RecordMoves ==
  ASSUME JInv, NEW h \in Hook, Record(h)
  PROVE  JInv'
<1>1. PICK p : /\ pc' = [pc EXCEPT ![h] = p] /\ p \in {"read", "append", "over"}
               /\ p = "read" => Event[h].kind = "PostToolUse"
  BY DEF Record, Lifecycle, Ends, Go
<1>2. pc[h] = "record" /\ UNCHANGED <<scene, journal, asked, verdict>>
  BY DEF Record
<1> QED BY <1>1, <1>2, MoveKeeps DEF Past

LEMMA StopMoves ==
  ASSUME JInv, NEW h \in Hook, StopStep(h)
  PROVE  JInv'
<1>1. /\ pc' = [pc EXCEPT ![h] = "over"] /\ pc[h] # "waiting"
      /\ verdict' = [verdict EXCEPT ![h] = NoVerdict] /\ UNCHANGED <<scene, journal, asked>>
  BY DEF StopStep, Stop, Ends, Go
<1> QED BY <1>1, MoveKeeps DEF Past

LEMMA CorrelateMoves ==
  ASSUME JInv, NEW h \in Hook, Correlate(h)
  PROVE  JInv'
<1>1. /\ pc[h] = "read" /\ pc' = [pc EXCEPT ![h] = "append"]
      /\ verdict' = [verdict EXCEPT ![h] = Correlated(Read(Event[h]), Event[h])]
      /\ UNCHANGED <<scene, journal, asked>>
  BY DEF Correlate, Go
<1>2. Said(Correlated(Read(Event[h]), Event[h]), Event[h], journal, scene.named)
  <2>1. Event[h].call \in Call /\ scene.named \in BOOLEAN
    BY ScenesHaveHooks DEF Call, JInv
  <2> QED BY <2>1, CorrelatedIsSaid DEF JInv
<1>3. ASSUME NEW g \in Hook PROVE HookFits(g)'
  <2>1. HookFits(g) /\ HookFits(h)
    BY DEF JInv
  <2>2. CASE g = h
    <3>1. verdict'[h] = Correlated(Read(Event[h]), Event[h]) /\ pc'[h] = "append"
      BY <1>1 DEF JInv
    <3> QED BY <1>1, <1>2, <2>1, <2>2, <3>1 DEF HookFits
  <2>3. CASE g # h
    <3>1. pc'[g] = pc[g] /\ verdict'[g] = verdict[g]
      BY <1>1, <2>3 DEF JInv
    <3> QED BY <1>1, <2>1, <3>1 DEF HookFits
  <2> QED BY <2>2, <2>3
<1>4. Authored'
  <2>1. \A g \in Hook : pc[g] \in Past => pc'[g] \in Past
    BY <1>1 DEF JInv, Past
  <2>2. \A c : HooksOf(c, "PostToolUse") \subseteq Hook
    BY ScenesHaveHooks DEF HooksOf, JInv
  <2>3. \A c : HooksOf(c, "PostToolUse")' = HooksOf(c, "PostToolUse")
    BY <1>1 DEF HooksOf
  <2> QED BY <1>1, <2>1, <2>2, <2>3 DEF JInv, Authored, Outcomes
<1>5. OneOutcomePerDecision'
  <2>1. \A c : HooksOf(c, "PostToolUse")' = HooksOf(c, "PostToolUse")
    BY <1>1 DEF HooksOf
  <2> QED BY <1>1, <2>1 DEF JInv, OneOutcomePerDecision, Outcomes
<1> QED BY <1>1, <1>3, <1>4, <1>5 DEF JInv, AllowedOnce

--------------------------------------------------------------------------------
(* What a hook appends. *)

\* Two rows at most, and one of them an outcome.
LEMMA BatchIs ==
  ASSUME JInv, NEW h \in Hook, journal' = journal \o <<Observation(Event[h])>> \o verdict[h]
  PROVE  /\ Grown(journal, journal') /\ Len(journal) \in Nat
         /\ DOMAIN journal = 1..Len(journal) /\ DOMAIN journal' = 1..Len(journal')
         /\ \A i \in (Len(journal) + 1)..Len(journal') :
              \/ journal'[i] \in {Observation(Event[h]), Diagnostic(Event[h])}
              \/ /\ i = Len(journal) + 2 /\ verdict[h] # NoVerdict
                 /\ \E a \in Call : /\ journal'[i] = Outcome(Event[h], a)
                                    /\ Backed(journal, Len(journal), scene.named,
                                              Event[h].session, Event[h].call, a)
<1> DEFINE e == Event[h]
           o == Observation(e)
<1>1. e.call \in Call /\ e.session \in Session /\ e.kind \in Tool
  BY HooksAreForTools DEF Call
<1>2. /\ o \in Entry /\ Diagnostic(e) \in Entry
      /\ \A a \in Call : Outcome(e, a) \in Entry
  BY <1>1 DEF Entry, Observation, Diagnostic, Outcome, Terminal
<1>3. journal \in Seq(Entry) /\ Said(verdict[h], e, journal, scene.named)
  BY DEF JInv, JournalFits, HookFits
<1>4. CASE verdict[h] = NoVerdict
  <2> HIDE DEF o
  <2>1. journal' = Append(journal, o)
    BY <1>2, <1>3, <1>4 DEF NoVerdict, o
  <2>2. /\ Grown(journal, journal') /\ Len(journal') = Len(journal) + 1
        /\ journal'[Len(journal) + 1] = o /\ Len(journal) \in Nat
        /\ DOMAIN journal = 1..Len(journal) /\ DOMAIN journal' = 1..Len(journal')
    BY <1>2, <1>3, <2>1, AppendIs
  <2>3. \A i \in (Len(journal) + 1)..Len(journal') : i = Len(journal) + 1
    <3>1. Len(journal') = Len(journal) + 1 /\ Len(journal) \in Nat
      BY <2>2
    <3> QED BY ONLY <3>1
  <2> QED BY <2>2, <2>3 DEF o
<1>5. ASSUME NEW row \in Entry, verdict[h] = <<row>>
      PROVE  /\ Grown(journal, journal') /\ Len(journal) \in Nat /\ Len(journal') = Len(journal) + 2
             /\ journal'[Len(journal) + 1] = o /\ journal'[Len(journal) + 2] = row
             /\ DOMAIN journal = 1..Len(journal) /\ DOMAIN journal' = 1..Len(journal')
  <2> HIDE DEF o
  <2>1. journal \in Seq(Entry) /\ o \in Entry /\ journal' = Append(Append(journal, o), row)
    BY <1>2, <1>3, <1>5 DEF o
  <2> DEFINE J == Append(journal, o)
  <2>2. /\ J \in Seq(Entry) /\ Len(J) = Len(journal) + 1 /\ Len(journal) \in Nat
        /\ J[Len(journal) + 1] = o /\ \A i \in 1..Len(journal) : J[i] = journal[i]
        /\ DOMAIN journal = 1..Len(journal)
    BY <1>2, <1>3
  <2> HIDE DEF J
  <2>3. /\ journal' \in Seq(Entry) /\ Len(journal') = Len(J) + 1
        /\ journal'[Len(J) + 1] = row /\ \A i \in 1..Len(J) : journal'[i] = J[i]
        /\ DOMAIN journal' = 1..Len(journal')
    <3>1. journal' = Append(J, row)
      BY <2>1 DEF J
    <3>2. /\ Append(J, row) \in Seq(Entry) /\ Len(Append(J, row)) = Len(J) + 1
          /\ Append(J, row)[Len(J) + 1] = row /\ \A i \in 1..Len(J) : Append(J, row)[i] = J[i]
      BY <1>5, <2>2, AppendProperties
    <3>3. DOMAIN Append(J, row) = 1..Len(Append(J, row))
      BY <3>2
    <3> QED BY <3>1, <3>2, <3>3
  <2>4. Grown(journal, journal')
    <3>1. \A i \in 1..Len(journal) : i \in 1..Len(J)
      BY ONLY <2>2
    <3>2. Len(journal) <= Len(journal')
      BY ONLY <2>2, <2>3
    <3> QED BY <1>3, <2>2, <2>3, <3>1, <3>2 DEF Grown
  <2>5. Len(journal') = Len(journal) + 2 /\ journal'[Len(journal) + 2] = row
    <3>1. Len(J) + 1 = Len(journal) + 2
      BY ONLY <2>2
    <3> QED BY <2>3, <3>1
  <2>6. journal'[Len(journal) + 1] = o
    BY <2>2, <2>3
  <2> QED BY <2>2, <2>3, <2>4, <2>5, <2>6
<1>6. CASE verdict[h] = <<Diagnostic(e)>>
  <2>1. \A i \in (Len(journal) + 1)..(Len(journal) + 2) : i = Len(journal) + 1 \/ i = Len(journal) + 2
    BY <1>3
  <2> HIDE DEF o, e
  <2>2. /\ Grown(journal, journal') /\ Len(journal) \in Nat /\ Len(journal') = Len(journal) + 2
        /\ journal'[Len(journal) + 1] = o /\ journal'[Len(journal) + 2] = Diagnostic(e)
        /\ DOMAIN journal = 1..Len(journal) /\ DOMAIN journal' = 1..Len(journal')
    BY <1>2, <1>5, <1>6
  <2> QED BY <2>1, <2>2 DEF o, e
<1>7. ASSUME NEW a \in Call, verdict[h] = <<Outcome(e, a)>>,
             Backed(journal, Len(journal), scene.named, e.session, e.call, a)
      PROVE  /\ Grown(journal, journal') /\ Len(journal) \in Nat /\ Len(journal') = Len(journal) + 2
             /\ journal'[Len(journal) + 1] = o /\ journal'[Len(journal) + 2] = Outcome(e, a)
             /\ DOMAIN journal = 1..Len(journal) /\ DOMAIN journal' = 1..Len(journal')
             /\ verdict[h] # NoVerdict
  <2>1. verdict[h] # NoVerdict
    BY <1>7 DEF NoVerdict
  <2> HIDE DEF o, e
  <2> QED BY <1>2, <1>5, <1>7, <2>1
<1>8. CASE \E a \in Call : /\ verdict[h] = <<Outcome(e, a)>>
                           /\ Backed(journal, Len(journal), scene.named, e.session, e.call, a)
  <2>1. PICK a \in Call : /\ verdict[h] = <<Outcome(e, a)>>
                          /\ Backed(journal, Len(journal), scene.named, e.session, e.call, a)
    BY <1>8
  <2>2. \A i \in (Len(journal) + 1)..(Len(journal) + 2) : i = Len(journal) + 1 \/ i = Len(journal) + 2
    BY <1>3
  <2> HIDE DEF o, e
  <2>3. /\ Grown(journal, journal') /\ Len(journal) \in Nat /\ Len(journal') = Len(journal) + 2
        /\ journal'[Len(journal) + 1] = o /\ journal'[Len(journal) + 2] = Outcome(e, a)
        /\ DOMAIN journal = 1..Len(journal) /\ DOMAIN journal' = 1..Len(journal')
        /\ verdict[h] # NoVerdict
    BY <1>7, <2>1
  <2> QED BY <2>1, <2>2, <2>3 DEF o, e
<1> QED BY <1>3, <1>4, <1>6, <1>8 DEF Said

\* What a hook appends fits, and is its own.
LEMMA AppendBatchMoves ==
  ASSUME JInv, NEW h \in Hook, AppendBatch(h)
  PROVE  JInv'
<1> DEFINE e == Event[h]
           n == Len(journal)
<1>1. /\ pc[h] = "append" /\ UNCHANGED <<scene, asked>>
      /\ journal' = journal \o <<Observation(Event[h])>> \o verdict[h]
      /\ verdict' = [verdict EXCEPT ![h] = NoVerdict]
      /\ \E p \in Past : pc' = [pc EXCEPT ![h] = p]
  BY DEF AppendBatch, Ends, Go, Past
<1>2. /\ Grown(journal, journal') /\ n \in Nat
      /\ DOMAIN journal = 1..n /\ DOMAIN journal' = 1..Len(journal')
      /\ \A i \in (n + 1)..Len(journal') :
           \/ journal'[i] \in {Observation(e), Diagnostic(e)}
           \/ /\ i = n + 2 /\ verdict[h] # NoVerdict
              /\ \E a \in Call : /\ journal'[i] = Outcome(e, a)
                                 /\ Backed(journal, n, scene.named, e.session, e.call, a)
  BY <1>1, BatchIs
<1>3. e.call \in Call /\ e.kind \in Tool /\ Len(journal') \in Nat /\ n <= Len(journal')
  BY <1>2, HooksAreForTools DEF Call, Grown
<1>4. JournalFits(journal', scene.named)
  <2>1. ASSUME NEW i \in (n + 1)..Len(journal') PROVE RowFits(journal', i, scene.named)
    <3>1. CASE journal'[i] \in {Observation(e), Diagnostic(e)}
      BY <3>1 DEF RowFits, Observation, Diagnostic
    <3>2. ASSUME NEW a \in Call, i = n + 2, journal'[i] = Outcome(e, a),
                 Backed(journal, n, scene.named, e.session, e.call, a)
          PROVE  RowFits(journal', i, scene.named)
      <4>1. n \in 0..Len(journal) /\ i - 1 \in Nat /\ n <= i - 1
        BY <1>2, <3>2
      <4>2. Backed(journal', i - 1, scene.named, e.session, e.call, a)
        BY <1>2, <3>2, <4>1, BackedStays
      <4> HIDE DEF e
      <4> QED BY <1>3, <3>2, <4>2 DEF RowFits, Outcome
    <3> QED BY <1>2, <3>1, <3>2
  <2> QED BY <1>2, <2>1, FitsGrows DEF JInv
<1>5. pc'[h] \in Past /\ verdict'[h] = NoVerdict
      /\ \A g \in Hook \ {h} : pc'[g] = pc[g] /\ verdict'[g] = verdict[g]
  BY <1>1 DEF JInv
<1>6. ASSUME NEW g \in Hook PROVE HookFits(g)'
  <2>1. HookFits(g) /\ HookFits(h)
    BY DEF JInv
  <2>2. CASE g = h
    <3>1. Said(NoVerdict, Event[h], journal', scene.named)
      BY DEF Said
    <3> QED BY <1>1, <1>5, <2>1, <2>2, <3>1 DEF HookFits, Past
  <2>3. CASE g # h
    <3>1. Said(verdict[g], Event[g], journal', scene.named)
      BY <1>2, <2>1, SaidGrows DEF HookFits
    <3> QED BY <1>1, <1>5, <2>1, <2>3, <3>1 DEF HookFits
  <2> QED BY <2>2, <2>3
<1>7. \A i \in 1..Len(journal') : (i \in 1..n /\ journal'[i] = journal[i]) \/ i \in (n + 1)..Len(journal')
  BY <1>2 DEF Grown
<1>8. \A i \in (n + 1)..Len(journal') : journal'[i].state # "allowed"
  <2> SUFFICES ASSUME NEW i \in (n + 1)..Len(journal') PROVE journal'[i].state # "allowed"
    OBVIOUS
  <2>1. /\ Observation(e).state # "allowed" /\ Diagnostic(e).state # "allowed"
        /\ \A a : Outcome(e, a).state # "allowed"
    BY DEF Observation, Diagnostic, Outcome
  <2> HIDE DEF e, n
  <2> QED BY <1>2, <2>1
<1>9. AllowedOnce'
  <2>1. \A i \in 1..Len(journal') : journal'[i].state = "allowed" => i \in 1..n /\ journal'[i] = journal[i]
    BY <1>7, <1>8
  <2> HIDE DEF n
  <2>2. \A i \in 1..n : journal[i].state = "allowed" =>
          /\ asked[journal[i].act] = "allowed"
          /\ \A j \in 1..n : journal[j].state = "allowed" /\ journal[j].act = journal[i].act => i = j
    BY DEF JInv, AllowedOnce, n
  <2> SUFFICES ASSUME NEW i \in 1..Len(journal'), journal'[i].state = "allowed"
               PROVE  /\ asked[journal'[i].act] = "allowed"
                      /\ \A j \in 1..Len(journal') :
                           journal'[j].state = "allowed" /\ journal'[j].act = journal'[i].act => i = j
    BY <1>1 DEF AllowedOnce
  <2>3. i \in 1..n /\ journal'[i] = journal[i]
    BY <2>1
  <2>4. ASSUME NEW j \in 1..Len(journal'), journal'[j].state = "allowed",
               journal'[j].act = journal'[i].act
        PROVE  i = j
    <3>1. j \in 1..n /\ journal'[j] = journal[j]
      BY <2>1, <2>4
    <3> QED BY <2>2, <2>3, <2>4, <3>1
  <2> QED BY <2>2, <2>3, <2>4
<1>10. \A i \in Outcomes' :
         \/ i \in Outcomes /\ journal'[i] = journal[i]
         \/ /\ i = n + 2 /\ e.kind = "PostToolUse"
            /\ \E a \in Call : journal'[i] = Outcome(e, a)
  <2> SUFFICES ASSUME NEW i \in 1..Len(journal'), journal'[i].state = "outcome"
               PROVE  \/ i \in Outcomes /\ journal'[i] = journal[i]
                      \/ /\ i = n + 2 /\ e.kind = "PostToolUse"
                         /\ \E a \in Call : journal'[i] = Outcome(e, a)
    BY <1>2 DEF Outcomes
  <2>1. CASE i \in 1..n /\ journal'[i] = journal[i]
    BY <1>2, <2>1 DEF Outcomes
  <2>2. CASE i \in (n + 1)..Len(journal')
    <3>1. verdict[h] # NoVerdict => e.kind = "PostToolUse"
      BY DEF JInv, HookFits
    <3>2. journal'[i] \notin {Observation(e), Diagnostic(e)}
      BY DEF Observation, Diagnostic
    <3> HIDE DEF e, n
    <3> QED BY <1>2, <2>2, <3>1, <3>2
  <2> QED BY <1>7, <2>1, <2>2
<1>11. \A c : HooksOf(c, "PostToolUse")' = HooksOf(c, "PostToolUse")
  BY <1>1 DEF HooksOf
<1>12. \A c : HooksOf(c, "PostToolUse") \subseteq Hook
  BY ScenesHaveHooks DEF HooksOf, JInv
<1>13. e.kind = "PostToolUse" => h \in HooksOf(e.call, "PostToolUse")
  BY <1>1 DEF JInv, HookFits, HooksOf
<1>14. \A i \in Outcomes : \E g \in HooksOf(journal[i].call, "PostToolUse") \ {h} : pc[g] \in Past
  BY <1>1 DEF JInv, Authored, Past
<1>15. \A a : Outcome(e, a).call = e.call /\ Outcome(e, a).act = a
  BY DEF Outcome
<1> HIDE DEF e, n
<1>16. Authored'
  <2> SUFFICES ASSUME NEW i \in Outcomes'
               PROVE  \E g \in HooksOf(journal'[i].call, "PostToolUse") : pc'[g] \in Past
    BY <1>11 DEF Authored
  <2>1. CASE i \in Outcomes /\ journal'[i] = journal[i]
    BY <1>5, <1>12, <1>14, <2>1
  <2>2. CASE i = n + 2 /\ e.kind = "PostToolUse" /\ \E a \in Call : journal'[i] = Outcome(e, a)
    BY <1>5, <1>13, <1>15, <2>2
  <2> QED BY <1>10, <2>1, <2>2
<1>17. OneOutcomePerDecision'
  <2> SUFFICES ASSUME NEW i \in Outcomes', NEW j \in Outcomes', i # j,
                      journal'[i].act = journal'[j].act
               PROVE  Cardinality(HooksOf(journal'[i].call, "PostToolUse")) > 1
    BY <1>11 DEF OneOutcomePerDecision
  <2>1. journal'[i].call = journal'[j].call
    <3>1. /\ i \in 1..Len(journal') /\ journal'[i].state = "outcome" /\ i - 1 \in Nat
          /\ j \in 1..Len(journal') /\ journal'[j].state = "outcome" /\ j - 1 \in Nat
      BY <1>2 DEF Outcomes
    <3>2. RowFits(journal', i, scene.named) /\ RowFits(journal', j, scene.named)
      BY <1>4, <3>1 DEF JournalFits
    <3>3. /\ Backed(journal', i - 1, scene.named, journal'[i].session, journal'[i].call, journal'[i].act)
          /\ Backed(journal', j - 1, scene.named, journal'[j].session, journal'[j].call, journal'[i].act)
      BY <3>1, <3>2 DEF RowFits
    <3> QED BY <3>1, <3>3, OneCall
  <2>2. ASSUME NEW k \in Outcomes, journal'[k] = journal[k], journal'[k].call = e.call,
               e.kind = "PostToolUse"
        PROVE  Cardinality(HooksOf(e.call, "PostToolUse")) > 1
    <3>1. PICK g \in HooksOf(e.call, "PostToolUse") : g # h
      BY <1>14, <2>2
    <3> QED BY <1>13, <2>2, <3>1, TwoHooks DEF JInv
  <2>3. CASE i \in Outcomes /\ journal'[i] = journal[i] /\ j \in Outcomes /\ journal'[j] = journal[j]
    BY <2>3 DEF JInv, OneOutcomePerDecision
  <2>4. CASE /\ i \in Outcomes /\ journal'[i] = journal[i]
             /\ e.kind = "PostToolUse" /\ \E a \in Call : journal'[j] = Outcome(e, a)
    <3>1. journal'[i].call = e.call
      BY <1>15, <2>1, <2>4
    <3> QED BY <2>2, <2>4, <3>1
  <2>5. CASE /\ j \in Outcomes /\ journal'[j] = journal[j]
             /\ e.kind = "PostToolUse" /\ \E a \in Call : journal'[i] = Outcome(e, a)
    <3>1. journal'[i].call = e.call /\ journal'[j].call = e.call
      BY <1>15, <2>1, <2>5
    <3> QED BY <2>2, <2>5, <3>1
  <2> QED BY <1>10, <2>3, <2>4, <2>5
<1>18. DOMAIN pc' = Hook /\ DOMAIN verdict' = Hook /\ DOMAIN asked' = Call /\ scene' \in Scenes
  BY <1>1 DEF JInv
<1> QED BY <1>1, <1>4, <1>6, <1>9, <1>16, <1>17, <1>18 DEF JInv

--------------------------------------------------------------------------------
(* The invariant. *)

LEMMA JInitially == Init => JInv
<1> SUFFICES ASSUME Init PROVE JInv
  OBVIOUS
<1>1. /\ journal = <<>> /\ journal \in Seq(Entry) /\ Len(journal) = 0 /\ DOMAIN journal = {}
      /\ scene \in Scenes /\ pc = [h \in Hook |-> "waiting"] /\ asked = [c \in Call |-> "no"]
      /\ verdict = [h \in Hook |-> NoVerdict]
  BY DEF Init
<1>2. \A h \in Hook : HookFits(h)
  BY <1>1 DEF HookFits, Said
<1>3. JournalFits(journal, scene.named) /\ AllowedOnce
  BY <1>1 DEF JournalFits, AllowedOnce
<1>4. Outcomes = {}
  BY <1>1 DEF Outcomes
<1> QED BY <1>1, <1>2, <1>3, <1>4 DEF JInv, Authored, OneOutcomePerDecision

LEMMA JStutters == ASSUME JInv, UNCHANGED <<pc, scene, journal, asked, verdict>> PROVE JInv'
<1>1. \A h \in Hook : HookFits(h)'
  BY DEF JInv, HookFits
<1>2. \A c : HooksOf(c, "PostToolUse")' = HooksOf(c, "PostToolUse")
  BY DEF HooksOf
<1>3. Authored' /\ OneOutcomePerDecision'
  BY <1>2 DEF JInv, Authored, OneOutcomePerDecision, Outcomes
<1> QED BY <1>1, <1>3 DEF JInv, AllowedOnce

LEMMA AnswerMoves ==
  ASSUME JInv, NEW c \in Call, Answer(c)
  PROVE  JInv'
<1>1. asked[c] = "asking" /\ UNCHANGED <<pc, scene, verdict>>
  BY DEF Answer, cacheVars
<1>2. CASE \E s \in {"allowed", "denied", "abstained"} :
             asked' = [asked EXCEPT ![c] = s] /\ journal' = Append(journal, Decision(c, s))
  <2>1. PICK s \in {"allowed", "denied", "abstained"} :
             asked' = [asked EXCEPT ![c] = s] /\ journal' = Append(journal, Decision(c, s))
    BY <1>2
  <2>2. (IF s = "evaluating" THEN "asking" ELSE s) = s
    OBVIOUS
  <2> QED BY <1>1, <2>1, <2>2, AskAnswerKeeps
<1>3. CASE asked' = [asked EXCEPT ![c] = "abstained"] /\ UNCHANGED journal
  <2>1. \A h \in Hook : HookFits(h)'
    BY <1>1, <1>3 DEF JInv, HookFits
  <2>2. \A d : HooksOf(d, "PostToolUse")' = HooksOf(d, "PostToolUse")
    BY <1>1 DEF HooksOf
  <2>3. Authored' /\ OneOutcomePerDecision'
    BY <1>1, <1>3, <2>2 DEF JInv, Authored, OneOutcomePerDecision, Outcomes
  <2>4. \A i \in 1..Len(journal) : journal[i].state = "allowed" => journal[i].act # c /\ journal[i].act \in Call
    BY <1>1 DEF JInv, AllowedOnce, JournalFits, RowFits
  <2>5. AllowedOnce'
    BY <1>3, <2>4 DEF JInv, AllowedOnce
  <2> QED BY <1>1, <1>3, <2>1, <2>3, <2>5 DEF JInv
<1> QED BY <1>2, <1>3 DEF Answer

LEMMA AskMoves ==
  ASSUME JInv, NEW c \in Call, Ask(c)
  PROVE  JInv'
<1>1. /\ asked[c] = "no" /\ asked' = [asked EXCEPT ![c] = "asking"]
      /\ journal' = Append(journal, Decision(c, "evaluating")) /\ UNCHANGED <<pc, scene, verdict>>
  BY DEF Ask, cacheVars
<1>2. (IF "evaluating" = "evaluating" THEN "asking" ELSE "evaluating") = "asking"
  OBVIOUS
<1> QED BY <1>1, <1>2, AskAnswerKeeps

LEMMA JEveryStep == JInv /\ [Next]_vars => JInv'
<1> SUFFICES ASSUME JInv, [Next]_vars PROVE JInv'
  OBVIOUS
<1>1. ASSUME NEW h \in Hook, Start(h) PROVE JInv'
  BY <1>1, StartMoves
<1>2. ASSUME NEW h \in Hook, ResolveStep(h) PROVE JInv'
  <2>1. Resolve(h) /\ UNCHANGED <<scene, journal, asked, verdict>>
    BY <1>2 DEF ResolveStep, hookVars
  <2>2. PICK p \in Ahead : pc' = [pc EXCEPT ![h] = p]
    BY <2>1, ResolveMoves
  <2>3. pc[h] \notin Past \cup {"waiting", "append"}
    BY <2>1, ResolveMoves
  <2>4. p \notin {"waiting", "read"}
    BY <2>2 DEF Ahead
  <2> QED BY <2>1, <2>2, <2>3, <2>4, MoveKeeps
<1>3. ASSUME NEW h \in Hook, Record(h) PROVE JInv'
  BY <1>3, RecordMoves
<1>4. ASSUME NEW h \in Hook, Correlate(h) PROVE JInv'
  BY <1>4, CorrelateMoves
<1>5. ASSUME NEW h \in Hook, AppendBatch(h) PROVE JInv'
  BY <1>5, AppendBatchMoves
<1>6. ASSUME NEW h \in Hook, StoreStep(h) PROVE JInv'
  <2>1. Store(h) /\ UNCHANGED <<scene, journal, asked, verdict>>
    BY <1>6 DEF StoreStep, hookVars
  <2>2. PICK p \in Past : pc' = [pc EXCEPT ![h] = p]
    BY <2>1, StoreMoves
  <2>3. pc[h] \in Past
    BY <2>1, StoreMoves
  <2>4. p \notin {"waiting", "read"} /\ pc[h] \notin {"waiting", "append"}
    BY <2>2, <2>3 DEF Past
  <2> QED BY <2>1, <2>2, <2>3, <2>4, MoveKeeps
<1>7. ASSUME NEW h \in Hook, StopStep(h) PROVE JInv'
  BY <1>7, StopMoves
<1>8. ASSUME NEW c \in Call, Ask(c) \/ Answer(c) PROVE JInv'
  BY <1>8, AskMoves, AnswerMoves
<1>9. ASSUME NEW f \in Volatile, Edit(f[1], f[2]), UNCHANGED hookVars PROVE JInv'
  BY <1>9, JStutters DEF Edit, hookVars
<1>10. CASE UNCHANGED vars
  BY <1>10, JStutters DEF vars, cacheVars, hookVars
<1> QED BY <1>1, <1>2, <1>3, <1>4, <1>5, <1>6, <1>7, <1>8, <1>9, <1>10 DEF Next

\* The outcomes in the journal are backed by decisions before them and written by
\* hooks of their call, however hooks, requests and answers interleave.
THEOREM JournalIsBacked == Spec => []JInv
BY JInitially, JEveryStep, PTL DEF Spec

\* An outcome goes to a decision that allowed a call, and to that of its own call
\* where that can be told (correlate_exact, OutcomeIsOfItsCall).
THEOREM OutcomesFindTheirCall == Spec => []OutcomeIsOfItsCall
<1>1. ASSUME JInv PROVE OutcomeIsOfItsCall
  <2> SUFFICES ASSUME NEW i \in Outcomes
               PROVE  /\ \E j \in 1..(i - 1) : journal[j].act = journal[i].act /\ Allows(journal, j)
                      /\ scene.named \/ StartedLast(journal[i].act) => journal[i].act = journal[i].call
    BY DEF OutcomeIsOfItsCall
  <2>1. journal \in Seq(Entry) /\ \A k \in 1..Len(journal) : RowFits(journal, k, scene.named)
    BY <1>1 DEF JInv, JournalFits
  <2>2. DOMAIN journal = 1..Len(journal) /\ Len(journal) \in Nat
    BY <2>1
  <2>3. i \in 1..Len(journal) /\ journal[i].state = "outcome"
    BY <2>2 DEF Outcomes
  <2> DEFINE a == journal[i].act
             s == journal[i].session
             c == journal[i].call
  <2>4. Backed(journal, i - 1, scene.named, s, c, a)
    BY <2>1, <2>3 DEF RowFits
  <2>5. PICK j \in 1..(i - 1) : Backs(journal, j, scene.named, s, c, a)
    BY <2>4 DEF Backed
  <2>6. /\ journal[j].act = a /\ Allows(journal, j) /\ j \in 1..Len(journal)
        /\ journal[j].state = "allowed"
    BY <2>2, <2>3, <2>5 DEF Backs, Allows
  <2>7. scene.named => a = c
    BY <2>5 DEF Backs
  <2>8. ASSUME StartedLast(a), ~scene.named PROVE a = c
    <3>1. PICK k \in 1..Len(journal) :
            /\ journal[k].act = a /\ journal[k].state = "allowed"
            /\ LET S == {m \in 1..(k - 1) : /\ journal[m].name = "PreToolUse"
                                            /\ journal[m].session = SessionOf(a)}
               IN  S # {} /\ journal[Deepest(S)].call = a
      BY <2>2, <2>8 DEF StartedLast
    <3>2. k = j
      BY <1>1, <2>6, <3>1 DEF JInv, AllowedOnce
    <3>3. journal[j].session = s /\ journal[j].session = SessionOf(a)
      <4>1. RowFits(journal, j, scene.named)
        BY <2>1, <2>6
      <4> QED BY <2>5, <2>6, <2>8, <4>1 DEF RowFits, Backs
    <3>4. journal[Deepest(StartsBefore(journal, j, SessionOf(a)))].call = a
      BY <3>1, <3>2 DEF StartsBefore
    <3>5. journal[Deepest(StartsBefore(journal, j, s))].call = c
      BY <2>5, <2>8 DEF Backs
    <3> QED BY <3>3, <3>4, <3>5
  <2> QED BY <2>6, <2>7, <2>8
<1> QED BY <1>1, JournalIsBacked, PTL

\* A decision has one outcome, unless the end of its call was reported twice
\* (correlate_post_tool and the batch that appends its verdict, OneOutcomePerDecision).
THEOREM OutcomesAreUnique == Spec => []OneOutcomePerDecision
<1>1. JInv => OneOutcomePerDecision
  BY DEF JInv
<1> QED BY <1>1, JournalIsBacked, PTL
================================================================================
