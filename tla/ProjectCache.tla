----------------------------- MODULE ProjectCache -----------------------------
(* How a lifecycle hook learns the project of its working directory            *)
(* (src/lifecycle_project.rs): from the cache, if the files a cached identity  *)
(* was read from are still the ones recorded with it, else from git and the    *)
(* files, which the user and git write meanwhile; and how the hook puts what   *)
(* it found into the cache after it recorded its event                         *)
(* (src/brain/storage/runtime_cache.rs).                                       *)
(*                                                                             *)
(* The directories on the way to the working directory are numbered from the   *)
(* outermost.  A file is its version, 0 while it is missing; no two writes     *)
(* give the same version, as the evidence of a file includes its times.        *)
EXTENDS Naturals, FiniteSets

CONSTANTS Hook, NoRow,
          Depth,     \* the working directory lies in directories 1..Depth
          MaxRows,   \* MAX_RUNTIME_CACHE_ROWS
          Volatile,  \* bound: the files that change, as <<directory, part>>
          MaxEdits   \* bound: how often they do

Root == 1..Depth
Part == {"git", "manifest", "config"}

ASSUME BoundsArePositive == Depth \in Nat \ {0} /\ MaxRows \in Nat \ {0}
ASSUME EditsAreBounded == Volatile \subseteq Root \X Part /\ MaxEdits \in Nat

VARIABLES world,   \* the files
          clock,   \* the latest version
          cache,   \* the cache database
          pc,      \* where each hook is
          look     \* what it found so far

surroundings == <<world, clock>>
cacheVars == <<surroundings, cache, pc, look>>

Files == [Part -> Nat]

\* What the evidence of a project covers: one read from a manifest does not depend on
\* the configuration.
Covered(files, by) == [files EXCEPT !.config = IF by = "manifest" THEN 0 ELSE @]

\* The identity that the files of a directory give.
Temporary == <<"temporary", 0, 0>>
Project(w, r) == IF w[r].manifest # 0 THEN <<"manifest", r, w[r].manifest>>
                 ELSE IF w[r].config # 0 THEN <<"remote", r, w[r].config>>
                 ELSE Temporary
\* The file it was read from.
SourceOf(by) == IF by = "manifest" THEN "manifest" ELSE "config"
Projects == {Temporary} \cup ({"manifest", "remote"} \X Root \X Nat)

Deepest(S) == CHOOSE r \in S : \A q \in S : q <= r

\* The root git finds from directory r: the deepest repository around it, 0 if none.
GitRoot(w, r) == LET S == {q \in 1..r : w[q].git # 0}
                 IN  IF S = {} THEN 0 ELSE Deepest(S)

\* Another repository or project begins between directory r and the working directory.
Boundary(w, r) == \E q \in Root : q > r /\ (w[q].git # 0 \/ w[q].manifest # 0)

Row == [by : {"manifest", "remote"}, evidence : Files, project : Projects, order : Nat]

\* What a hook knows: the root it looks at, the row it took from the cache, the
\* evidence collected before reading, the project, whether it may put a row into
\* the cache, and the row it will put.  `was` is history: the project of the root
\* at the moment the row's manifest was compared.
Nothing == [root |-> 0, row |-> NoRow, pre |-> NoRow, project |-> Temporary,
            may |-> FALSE, wants |-> NoRow, was |-> Temporary]

CacheInit ==
  /\ world = [r \in Root |-> [git |-> IF r = 1 THEN 1 ELSE 0, manifest |-> 0, config |-> 1]]
  /\ clock = 1
  /\ cache = [state |-> "missing", rows |-> [r \in {} |-> NoRow]]
  /\ look = [h \in Hook |-> Nothing]

--------------------------------------------------------------------------------
(* The user and git write, create and remove files. *)
Edit(r, part) ==
  /\ clock <= MaxEdits /\ clock' = clock + 1
  /\ \E v \in {0, clock + 1} : world' = [world EXCEPT ![r][part] = v]
  /\ world' # world
  /\ UNCHANGED <<cache, pc, look>>

--------------------------------------------------------------------------------
(* Helpers of the steps of a hook. *)
Go(h, p, l) == pc' = [pc EXCEPT ![h] = p] /\ look' = [look EXCEPT ![h] = l]

\* The hook knows its project and turns to its event.
Resolved(h, project, wants) ==
  Go(h, "record", [Nothing EXCEPT !.project = project, !.wants = wants])
Inferred(h) == Resolved(h, Temporary, NoRow)
Ends(h) == Go(h, "over", Nothing)

\* Discovery follows; its result may be cached unless the cache was unusable.
Discover(h, may) == Go(h, "discover", [Nothing EXCEPT !.may = may])
ReadsOnly == UNCHANGED <<surroundings, cache>>

--------------------------------------------------------------------------------
(* Looking the directory up. *)

\* A cache that is not initialised, or is being written, is passed over.
OpenCache(h) ==
  /\ pc[h] = "open" /\ ReadsOnly
  /\ \/ cache.state = "missing" /\ Discover(h, TRUE)
     \/ cache.state # "missing" /\ Discover(h, FALSE)
     \/ cache.state = "ready" /\ Go(h, "select", Nothing)

SelectRoot(h) ==
  /\ pc[h] = "select" /\ ReadsOnly
  /\ LET S == DOMAIN cache.rows
         r == Deepest(S)
     IN  IF S = {} \/ Boundary(world, r) THEN Discover(h, TRUE)
         ELSE Go(h, "load", [Nothing EXCEPT !.root = r])

\* The row may have been pruned since.
LoadRow(h) ==
  /\ pc[h] = "load" /\ ReadsOnly
  /\ LET r == look[h].root
     IN  IF r \in DOMAIN cache.rows
         THEN Go(h, "compare", [look[h] EXCEPT !.row = cache.rows[r]])
         ELSE Discover(h, FALSE)

Hit(h, l) == Go(h, "hit", l)

\* The first files of the evidence are the recorded ones.
Fresh(w, r, row) == row.evidence.manifest = w[r].manifest /\ row.evidence.git = w[r].git

\* The files of the evidence are read one after the other.
CompareFirst(h) ==
  /\ pc[h] = "compare" /\ ReadsOnly
  /\ LET r == look[h].root
         l == [look[h] EXCEPT !.was = Project(world, r)]
     IN  IF ~Fresh(world, r, l.row) THEN Discover(h, TRUE)
         ELSE IF l.row.by = "manifest" THEN Hit(h, l)
         ELSE Go(h, "compareConfig", l)

CompareConfig(h) ==
  /\ pc[h] = "compareConfig" /\ ReadsOnly
  /\ IF look[h].row.evidence.config = world[look[h].root].config THEN Hit(h, look[h])
     ELSE Discover(h, TRUE)

TakeHit(h) ==
  /\ pc[h] = "hit" /\ ReadsOnly
  /\ Resolved(h, look[h].row.project, NoRow)

--------------------------------------------------------------------------------
(* Discovering the project. *)

DiscoverRoot(h) ==
  /\ pc[h] = "discover" /\ ReadsOnly
  /\ LET r == GitRoot(world, Depth)
     IN  IF r = 0 THEN Inferred(h)
         ELSE Go(h, "evidence", [look[h] EXCEPT !.root = r])

CollectEvidence(h) ==
  /\ pc[h] = "evidence" /\ ReadsOnly
  /\ Go(h, "manifest", [look[h] EXCEPT !.pre = world[look[h].root]])

ReadManifest(h) ==
  /\ pc[h] = "manifest" /\ ReadsOnly
  /\ LET r == look[h].root
     IN  IF world[r].manifest = 0 THEN Go(h, "remote", look[h])
         ELSE Go(h, "again", [look[h] EXCEPT !.project = Project(world, r)])

\* Git reads the configuration of the repository it finds around the root now.
ReadRemote(h) ==
  /\ pc[h] = "remote" /\ ReadsOnly
  /\ LET q == GitRoot(world, look[h].root)
     IN  \/ /\ q # 0 /\ world[q].config # 0
            /\ Go(h, "again", [look[h] EXCEPT !.project = <<"remote", q, world[q].config>>])
         \/ Inferred(h)

\* Mutant of Refresh: the evidence is what is found after the reading.
RefreshAfter(pre, post, project) ==
  [by |-> project[1], evidence |-> Covered(post, project[1]), project |-> project, order |-> 0]
\* The row to put into the cache, if the evidence is the same before and after.
Refresh(pre, post, project) ==
  LET by == project[1]
  IN  IF Covered(pre, by) = Covered(post, by) /\ (by = "remote" => post.git # 0)
      THEN [by |-> by, evidence |-> Covered(post, by), project |-> project, order |-> 0]
      ELSE NoRow

CollectAgain(h) ==
  /\ pc[h] = "again" /\ ReadsOnly
  /\ LET l == look[h]
         row == Refresh(l.pre, world[l.root], l.project)
     IN  Go(h, "confirm",
            [l EXCEPT !.wants = IF l.may /\ row # NoRow THEN <<l.root, row>> ELSE NoRow])

\* A remote whose configuration comes from files the evidence does not cover is
\* not cached.
Confirm(h) ==
  /\ pc[h] = "confirm" /\ ReadsOnly
  /\ LET l == look[h]
     IN  IF GitRoot(world, Depth) # l.root \/ Boundary(world, l.root) THEN Inferred(h)
         ELSE \/ Resolved(h, l.project, l.wants)
              \/ l.project[1] = "remote" /\ Resolved(h, l.project, NoRow)

\* The 250 ms of project discovery are over, or git fails.
Expire(h) ==
  /\ ReadsOnly
  /\ pc[h] \in {"open", "select", "load", "compare", "compareConfig", "discover", "again", "confirm"}
  /\ Inferred(h)

\* The process dies, or gives up over an error: a deadline that passes while the
\* manifest or the remote is read, a manifest that cannot be parsed, a call to a
\* database that fails.
Stop(h) == /\ pc[h] \notin {"waiting", "over"}
           /\ Ends(h) /\ UNCHANGED <<surroundings, cache>>

--------------------------------------------------------------------------------
(* Putting a row into the cache, when everything else is durable.  A process that *)
(* stops after it created the file leaves one that nobody can use.                 *)

CreateCache(h) ==
  /\ pc[h] = "refresh" /\ UNCHANGED surroundings
  /\ \/ /\ cache.state = "missing"
        /\ cache' = [cache EXCEPT !.state = "empty"] /\ Go(h, "initialise", look[h])
     \/ cache.state = "ready" /\ Go(h, "upsert", look[h]) /\ UNCHANGED cache

InitialiseCache(h) ==
  /\ pc[h] = "initialise" /\ UNCHANGED surroundings
  /\ cache' = [cache EXCEPT !.state = "ready"]
  /\ Go(h, "upsert", look[h])

\* The oldest rows beyond the limit go, but not the row of r.
Pruned(rows, r) ==
  LET others == DOMAIN rows \ {r}
      Older(S) == \A x \in S, y \in others \ S : rows[x].order <= rows[y].order
      excess == IF Cardinality(DOMAIN rows) > MaxRows THEN Cardinality(DOMAIN rows) - MaxRows ELSE 0
      gone == CHOOSE S \in SUBSET others : Cardinality(S) = excess /\ Older(S)
  IN  [x \in DOMAIN rows \ gone |-> rows[x]]

Upsert(h) ==
  /\ pc[h] = "upsert" /\ UNCHANGED surroundings
  /\ Ends(h)
  /\ LET r == look[h].wants[1]
         rows == [x \in DOMAIN cache.rows \cup {r} |->
                    IF x = r THEN look[h].wants[2] ELSE cache.rows[x]]
     IN  cache' = [cache EXCEPT !.rows = Pruned(rows, r)]

Resolve(h) ==
  \/ OpenCache(h) \/ SelectRoot(h) \/ LoadRow(h) \/ CompareFirst(h) \/ CompareConfig(h)
  \/ TakeHit(h) \/ DiscoverRoot(h) \/ CollectEvidence(h) \/ ReadManifest(h)
  \/ ReadRemote(h) \/ CollectAgain(h) \/ Confirm(h) \/ Expire(h)
Store(h) == CreateCache(h) \/ InitialiseCache(h) \/ Upsert(h)

--------------------------------------------------------------------------------
(* Properties. *)

CacheTypes ==
  /\ world \in [Root -> Files] /\ clock \in Nat
  /\ cache.state \in {"missing", "empty", "ready"}
  /\ cache.rows \in [DOMAIN cache.rows -> Row] /\ DOMAIN cache.rows \subseteq Root

\* Evidence that says the file the project was read from is missing: it appeared after
\* the evidence was collected and had gone when it was collected again.
Hollow(row) == row.evidence[SourceOf(row.by)] = 0

\* An identity taken from the cache is the one a reading of the files would have
\* given when the lookup compared them, whatever was written, by whom and when,
\* since the row was made (except for a row with hollow evidence).
HitIsCurrent ==
  \A h \in Hook : pc[h] = "hit" =>
    Hollow(look[h].row) \/ look[h].row.project = look[h].was
================================================================================
