--------------------------- MODULE Release_proofs ---------------------------
(***************************************************************************)
(* For every repository, mirror, component map and sequence of attempts:   *)
(* the mirror may bring its own component map, because no tree passes the  *)
(* comparison that does not hold the repository's; what is published is    *)
(* the build of such a tree by the attempt that published it, from a       *)
(* commit whose CI was green; and the check of a crate's lock is right     *)
(* whatever part of a bump is on the registry.                             *)
(***************************************************************************)
EXTENDS Release, SequenceTheorems, TLAPS

-----------------------------------------------------------------------------
(* The export carries the component map it was made by.                    *)

\* An edit of another file leaves the map's where it is.
LEMMA ReplaceElsewhere ==
  ASSUME NEW tree, NEW path, NEW before, NEW after, path # MapExport,
         MapExport \in DOMAIN Replace(tree, path, before, after)
  PROVE  /\ MapExport \in DOMAIN tree
         /\ Replace(tree, path, before, after)[MapExport] = tree[MapExport]
<1>1. MapExport \notin DOMAIN Failed
  BY DEF Failed
<1>2. Replace(tree, path, before, after)
        = [tree EXCEPT ![path].text = ReplaceFirstSubSeq(after, before, @)]
  BY <1>1 DEF Replace
<1> QED
  BY <1>2

\* The map's file is at another path than the files that are edited.
LEMMA OtherPaths ==
  /\ MapExport # CargoToml
  /\ MapExport # ElixirManifest
  /\ MapExport # <<"hop.go">>
  BY DEF MapExport, CargoToml, ElixirManifest

\* Whatever is assembled has the repository's map at its place.
LEMMA AssembledMap ==
  ASSUME NEW repo, NEW copies, Copy(MapSource, MapExport) \in copies,
         MapExport \in DOMAIN Assembled(repo, copies)
  PROVE  Assembled(repo, copies)[MapExport] = repo[MapSource]
<1> DEFINE x == Copy(MapSource, MapExport)
<1>1. MapExport \notin DOMAIN Failed
  BY DEF Failed
<1>2. /\ \A y, z \in copies : y.to = z.to => y = z
      /\ Assembled(repo, copies)
           = [p \in {y.to : y \in copies} |-> repo[(CHOOSE y \in copies : y.to = p).from]]
  BY <1>1 DEF Assembled
<1>3. x \in copies /\ x.to = MapExport /\ x.from = MapSource
  BY DEF Copy
<1>4. (CHOOSE y \in copies : y.to = MapExport) = x
  BY <1>2, <1>3
<1> QED
  BY <1>2, <1>3, <1>4

\* The export of a component holds the repository's map, whatever map it was
\* made by.
LEMMA ExportCarriesMap ==
  ASSUME NEW repo, NEW c, NEW map, MapExport \in DOMAIN Expected(repo, c, map)
  PROVE  Expected(repo, c, map)[MapExport] = repo[MapSource]
<1> DEFINE own == Copy(map[c].prefix, <<>>)
           vendored == IF c = Elixir THEN ElixirVendor ELSE {}
           copies == TreeCopies(repo, own, Excluded(c)) \cup FileCopies(c)
                     \cup UNION {TreeCopies(repo, t, {<<"CLAUDE.md">>}) : t \in vendored}
           assembled == Assembled(repo, copies)
           owned == OwnEdit(c, assembled)
           named == Renamed(map[c].rename, owned)
           alone == Standalone(repo, c, named)
<1>1. MapExport \notin DOMAIN Failed
  BY DEF Failed
<1>2. Expected(repo, c, map) = alone
  BY <1>1 DEF Expected
<1>3. Copy(MapSource, MapExport) \in copies
  BY DEF FileCopies, SharedExports
<1> HIDE DEF copies
<1>4. MapExport \in DOMAIN named /\ alone[MapExport] = named[MapExport]
  <2>1. CASE c \notin RustMirrors
    BY <1>2, <2>1 DEF Standalone
  <2>2. CASE c \in RustMirrors
    <3> DEFINE preamble == SkyIn[repo[Sky].text].preamble
               package == <<"[package]">>
               inner == Replace(named, CargoToml, package, preamble)
               before == <<"repository = monorepo">>
               after == <<"repository = mirror">>
    <3>1. alone = Replace(inner, CargoToml, before, after)
      BY <2>2 DEF Standalone
    <3> HIDE DEF inner, package, before, after, alone, named
    <3>2. MapExport \in DOMAIN inner /\ alone[MapExport] = inner[MapExport]
      BY <1>2, <3>1, ReplaceElsewhere, OtherPaths
    <3>3. MapExport \in DOMAIN named /\ inner[MapExport] = named[MapExport]
      BY <3>2, ReplaceElsewhere, OtherPaths DEF inner
    <3> QED
      BY <3>2, <3>3
  <2> QED
    BY <2>1, <2>2
<1>5. MapExport \in DOMAIN owned /\ named[MapExport] = owned[MapExport]
  BY <1>4, ReplaceElsewhere, OtherPaths DEF Renamed
<1>6. MapExport \in DOMAIN assembled /\ owned[MapExport] = assembled[MapExport]
  <2> HIDE DEF assembled
  <2>1. CASE c = Elixir
    <3> DEFINE before == <<"hop = { path }", "", "[workspace]">>
               after == <<"hop = { workspace }">>
    <3>1. owned = Replace(assembled, ElixirManifest, before, after)
      <4>1. c # Go
        BY <2>1 DEF Elixir, Go
      <4> QED
        BY <2>1, <4>1 DEF OwnEdit
    <3> HIDE DEF owned, before, after
    <3> QED
      BY <1>5, <3>1, ReplaceElsewhere, OtherPaths
  <2>2. CASE c # Elixir /\ c = Go
    <3> DEFINE path == <<"hop.go">>
               before == <<"#cgo target/debug">>
               after == <<"#cgo pkg-config: hop">>
    <3>1. owned = Replace(assembled, path, before, after) /\ path # MapExport
      BY <2>2, OtherPaths DEF OwnEdit
    <3> HIDE DEF owned, path, before, after
    <3> QED
      BY <1>5, <3>1, ReplaceElsewhere
  <2>3. CASE c # Elixir /\ c # Go
    <3>1. owned = assembled
      BY <2>3 DEF OwnEdit
    <3> QED
      BY <1>5, <3>1
  <2> QED
    BY <2>1, <2>2, <2>3
<1>7. assembled[MapExport] = repo[MapSource]
  BY <1>3, <1>6, AssembledMap
<1> QED
  BY <1>2, <1>4, <1>5, <1>6, <1>7

\* So a tree that passes the comparison by the map it brings is the export by the
\* repository's own map: a mirror cannot choose what it is compared with.
THEOREM MirrorMapIsHarmless ==
  ASSUME NEW s, NEW tree, TreeMatches(s, tree)
  PROVE  tree = Exported(Repo[s], Component)
<1> DEFINE map == MapIn[tree[MapExport].text]
<1>1. MapExport \in DOMAIN tree /\ Expected(Repo[s], Component, map) = tree
  BY DEF TreeMatches
<1>2. tree[MapExport] = Repo[s][MapSource]
  BY <1>1, ExportCarriesMap
<1>3. map = ComponentMap(Repo[s])
  BY <1>2 DEF ComponentMap
<1> QED
  BY <1>1, <1>3 DEF Exported

-----------------------------------------------------------------------------
(* What is published.                                                      *)

Judged == {"run", "checks", "artifact", "publish"}

\* What the publish job has established at each of its places.
JobInv ==
  /\ main \in Nat
  /\ pc # "none" => event.content \in Contents
  /\ pc \in {"source"} \cup Judged => Tagged.labels = <<source>>
  /\ pc \in Judged => OnMain(source) /\ <<event.content, source>> \in Matching
  /\ pc = "publish" => dist = Built(event.commit, attempt)

\* The manifest that the n-th attempt's build of the tagged commit gets, for a
\* canonical commit s.
ManifestOf(n, s) ==
  CreateManifest([repository |-> Component, source_sha |-> event.commit,
                  source_ref |-> event.version, run_id |-> 1, run_attempt |-> n,
                  canonical_source_sha |-> s],
                 Built(event.commit, n))

\* What is in the store has the form of an artifact, and its manifest, if it has
\* one, is that of some attempt.
StoreInv ==
  /\ artifact = [files |-> artifact.files, manifest |-> artifact.manifest]
  /\ artifact.files = [f \in DOMAIN artifact.files |-> artifact.files[f]]
  /\ artifact.manifest = Unreadable \/ \E n, s : artifact.manifest = ManifestOf(n, s)
  /\ pc = "none" => artifact.manifest = Unreadable

IInv == JobInv /\ StoreInv /\ PublishedIsExport

\* Nothing is published yet.
LEMMA InitInv == Init => IInv
<1> SUFFICES ASSUME Init PROVE IInv
  OBVIOUS
<1>1. artifact.files = <<>> /\ artifact.manifest = Unreadable
      /\ artifact = [files |-> <<>>, manifest |-> Unreadable]
  BY DEF Init, NoArtifact
<1>2. JobInv /\ PublishedIsExport
  BY DEF Init, JobInv, Judged, PublishedIsExport
<1>3. StoreInv
  BY <1>1 DEF StoreInv
<1> QED
  BY <1>2, <1>3 DEF IInv

\* Main only grows: what is on it stays on it.
LEMMA MainGrows ==
  ASSUME IInv, main' \in {main, main + 1}
  PROVE  main' \in Nat /\ \A s : OnMain(s) => OnMain(s)'
  BY DEF IInv, JobInv, OnMain

\* Others merge, test, release crates, and move the mirror and its tag.
LEMMA OthersInv ==
  ASSUME IInv,
         \/ MainAdvances \/ MirrorAdvances \/ TagMoves
         \/ \E s \in Commits : CiStarts(s) \/ CiEnds(s) \/ CrateReleased(s)
  PROVE  IInv'
<1>1. /\ UNCHANGED <<event, pc, attempt, source, artifact, dist, published>>
      /\ main' \in {main, main + 1}
  BY DEF MainAdvances, MirrorAdvances, TagMoves, CiStarts, CiEnds, CrateReleased,
         CanonOnly, MirrorOnly, canonVars, checkVars
<1>2. JobInv'
  BY <1>1, MainGrows DEF IInv, JobInv, Judged, Tagged
<1>3. StoreInv'
  BY <1>1 DEF IInv, StoreInv, ManifestOf
<1>4. PublishedIsExport'
  BY <1>1, MainGrows DEF IInv, PublishedIsExport
<1> QED
  BY <1>2, <1>3, <1>4 DEF IInv

\* The tag is pushed.
LEMMA PushInv ==
  ASSUME IInv, PushTag  PROVE IInv'
<1>1. /\ pc = "none" /\ pc' = "build" /\ event'.content \in Contents
      /\ main' = main /\ artifact' = artifact /\ published' = published
  BY DEF PushTag, canonVars
<1>2. JobInv'
  BY <1>1 DEF IInv, JobInv, Judged
<1>3. StoreInv'
  BY <1>1 DEF IInv, StoreInv
<1>4. PublishedIsExport'
  BY <1>1 DEF IInv, PublishedIsExport, OnMain
<1> QED
  BY <1>2, <1>3, <1>4 DEF IInv

\* The steps that only move the run: on, to its end, or to another attempt.
LEMMA MovesInv ==
  ASSUME IInv,
         \/ BuildFails \/ Checkout \/ CheckRun \/ ReadFullPage \/ ReadLastPage
         \/ Outage \/ RepeatFailed \/ RepeatAll
  PROVE  IInv'
<1>1. /\ UNCHANGED <<main, event, artifact, published>>
      /\ pc # "none"
      /\ \/ pc' \in {"build", "queued", "tag", "unbuilt", "refused", "outage"}
         \/ pc \in Judged /\ pc' \in {"checks", "artifact"} /\ source' = source
  BY DEF BuildFails, Checkout, CheckRun, ReadFullPage, ReadLastPage, Outage,
         RepeatFailed, RepeatAll, Repeats, Goes, Checks, PublishOnly, RunOnly,
         canonVars, checkVars, Judged, Reading
<1>2. JobInv'
  BY <1>1 DEF IInv, JobInv, Judged, OnMain, Tagged
<1>3. StoreInv'
  BY <1>1 DEF IInv, StoreInv, ManifestOf
<1>4. PublishedIsExport'
  BY <1>1 DEF IInv, PublishedIsExport, OnMain
<1> QED
  BY <1>2, <1>3, <1>4 DEF IInv

\* What the checkout names, and the comparison of the trees, are of one commit.
LEMMA SourceInv ==
  ASSUME IInv, CheckTag \/ CheckSource  PROVE IInv'
<1>1. /\ UNCHANGED <<main, event, artifact, published>>
      /\ pc # "none" /\ pc' \in {"source", "run", "refused"}
  BY DEF CheckTag, CheckSource, Checks, PublishOnly, RunOnly, canonVars
<1>2. pc' = "source" => Tagged.labels = <<source'>>
  <2>1. pc' = "source" => CheckTag
    BY DEF CheckSource, Checks
  <2>2. event.content \in Contents
    BY <1>1 DEF IInv, JobInv
  <2>3. Tagged.labels \in Seq(Commits)
    BY <2>2, ContentAssumption DEF Tagged
  <2>4. ASSUME Len(Tagged.labels) = 1  PROVE Tagged.labels = <<Tagged.labels[1]>>
    BY <2>3, <2>4
  <2> QED
    BY <2>1, <2>4 DEF CheckTag, Checks, TagState
<1>3. pc' = "run" => /\ Tagged.labels = <<source'>> /\ OnMain(source')
                     /\ <<event.content, source'>> \in Matching
  BY DEF IInv, JobInv, CheckTag, CheckSource, Checks, checkVars
<1>4. JobInv'
  BY <1>1, <1>2, <1>3 DEF IInv, JobInv, Judged, OnMain, Tagged
<1>5. StoreInv'
  BY <1>1 DEF IInv, StoreInv, ManifestOf
<1>6. PublishedIsExport'
  BY <1>1 DEF IInv, PublishedIsExport, OnMain
<1> QED
  BY <1>4, <1>5, <1>6 DEF IInv

\* A build, or a failure of the store, leaves an artifact of that form.
LEMMA StoredInv ==
  ASSUME IInv, Build \/ StoreFails  PROVE IInv'
<1>1. /\ UNCHANGED <<main, event, source, dist, published, attempt>>
      /\ pc' = pc \/ (pc = "build" /\ pc' = "queued")
      /\ pc # "none"
  BY DEF Build, StoreFails, Goes, RunOnly, canonVars, checkVars, IInv, StoreInv
<1>2. JobInv'
  BY <1>1 DEF IInv, JobInv, Judged, OnMain, Tagged
<1>3. StoreInv'
  <2>1. CASE Build
    <3>1. artifact' = [files |-> Built(event.commit, attempt),
                       manifest |-> ManifestOf(attempt, Tagged.labels[1])]
      BY <2>1 DEF Build, Context, ManifestOf
    <3>2. Built(event.commit, attempt)
            = [f \in DOMAIN Built(event.commit, attempt) |->
                 Built(event.commit, attempt)[f]]
      BY DEF Built
    <3>3. ManifestOf(attempt, Tagged.labels[1])' = ManifestOf(attempt, Tagged.labels[1])
      BY <1>1 DEF ManifestOf, Tagged
    <3> QED
      BY <1>1, <3>1, <3>2, <3>3 DEF StoreInv
  <2>2. CASE StoreFails
    <3>1. /\ artifact' = [files |-> artifact'.files, manifest |-> artifact'.manifest]
          /\ artifact'.files = [f \in DOMAIN artifact'.files |-> artifact'.files[f]]
          /\ artifact'.manifest \in {artifact.manifest, Unreadable}
      BY <2>2 DEF StoreFails, IInv, StoreInv
    <3> QED
      BY <1>1, <3>1 DEF IInv, StoreInv, ManifestOf
  <2> QED
    BY <2>1, <2>2
<1>4. PublishedIsExport'
  BY <1>1 DEF IInv, PublishedIsExport, OnMain
<1> QED
  BY <1>2, <1>3, <1>4 DEF IInv

\* Files that are verified against a manifest of this attempt are its build.
LEMMA VerifiedFiles ==
  ASSUME StoreInv, NEW c, Verified(artifact.manifest, Context(c), artifact.files)
  PROVE  artifact.files = Built(event.commit, attempt)
<1> DEFINE built == Built(event.commit, attempt)
<1>1. artifact.manifest # Unreadable
  BY DEF Verified, Unreadable
<1>2. PICK n, s : artifact.manifest = ManifestOf(n, s)
  BY <1>1 DEF StoreInv
<1>3. n = attempt
  BY <1>2 DEF Verified, Context, ManifestOf, CreateManifest
<1>4. artifact.manifest.files = Inventory(built)
  BY <1>2, <1>3 DEF ManifestOf, CreateManifest
<1>5. DOMAIN artifact.files = DOMAIN built
  <2> HIDE DEF built
  <2>1. \A e \in Inventory(built) : e.path \in DOMAIN built
    BY DEF Inventory
  <2>2. \A p \in DOMAIN built : \E e \in Inventory(built) : e.path = p
    <3>1. ASSUME NEW p \in DOMAIN built  PROVE \E e \in Inventory(built) : e.path = p
      <4>1. [path |-> p, sha256 |-> Digest(built[p])] \in Inventory(built)
        BY DEF Inventory
      <4> QED
        BY <4>1
    <3> QED
      BY <3>1
  <2>3. {e.path : e \in Inventory(built)} = DOMAIN built
    BY <2>1, <2>2
  <2> QED
    BY <1>4, <2>3 DEF Verified
<1>6. ASSUME NEW f \in DOMAIN built  PROVE artifact.files[f] = built[f]
  <2>1. [path |-> f, sha256 |-> Digest(built[f])] \in artifact.manifest.files
    BY <1>4 DEF Inventory
  <2>2. Digest(artifact.files[f]) = Digest(built[f])
    BY <2>1 DEF Verified
  <2> QED
    BY <2>2 DEF Digest
<1>7. built = [f \in DOMAIN built |-> built[f]]
  BY DEF Built
<1> HIDE DEF built
<1>8. artifact.files = built
  BY <1>5, <1>6, <1>7 DEF StoreInv
<1> QED
  BY <1>8 DEF built

\* The artifact is verified, and published.
LEMMA PublishInv ==
  ASSUME IInv, CheckArtifact \/ Publish  PROVE IInv'
<1>1. /\ UNCHANGED <<main, event, source, artifact, attempt>>
      /\ pc \in Judged
      /\ pc' \in {"publish", "published", "refused"}
  BY DEF CheckArtifact, Publish, Checks, PublishOnly, RunOnly, canonVars, checkVars,
         Judged
<1>2. JobInv'
  <2>1. CASE CheckArtifact
    <3>1. pc' = "publish" => dist' = Built(event.commit, attempt)
      BY <2>1, VerifiedFiles DEF CheckArtifact, Checks, IInv
    <3> QED
      BY <1>1, <3>1 DEF IInv, JobInv, Judged, OnMain, Tagged
  <2>2. CASE Publish
    <3>1. pc' # "publish"
      BY <2>2 DEF Publish
    <3> QED
      BY <1>1, <3>1 DEF IInv, JobInv, Judged, OnMain, Tagged
  <2> QED
    BY <2>1, <2>2
<1>3. StoreInv'
  BY <1>1 DEF IInv, StoreInv, ManifestOf, Judged
<1>4. PublishedIsExport'
  <2> DEFINE new == [commit |-> event.commit, content |-> event.content,
                     attempt |-> attempt, source |-> source,
                     version |-> event.version, files |-> dist]
  <2>1. published' = published \/ (pc = "publish" /\ published' = published \cup {new})
    BY DEF CheckArtifact, Publish, PublishOnly
  <2>2. ASSUME pc = "publish"
        PROVE  /\ Tagged.labels = <<source>> /\ OnMain(source)
               /\ Tagged.tree = Exported(Repo[source], Component)
               /\ dist = Built(event.commit, attempt)
    <3>1. <<event.content, source>> \in Matching
      BY <2>2 DEF IInv, JobInv, Judged
    <3>2. TreeMatches(source, Tagged.tree)
      BY <3>1 DEF Matching, Tagged
    <3> QED
      BY <2>2, <3>2, MirrorMapIsHarmless DEF IInv, JobInv, Judged
  <2>3. \A p \in published' : p \in published \/ (pc = "publish" /\ p = new)
    BY <2>1
  <2> QED
    BY <1>1, <2>2, <2>3 DEF IInv, PublishedIsExport, OnMain, Tagged
<1> QED
  BY <1>2, <1>3, <1>4 DEF IInv

\* Every step keeps the invariant.
LEMMA StepInv == IInv /\ [Next]_vars => IInv'
<1> SUFFICES ASSUME IInv, [Next]_vars PROVE IInv'
  OBVIOUS
<1>1. CASE UNCHANGED vars
  <2>1. UNCHANGED <<main, event, pc, attempt, source, artifact, dist, published>>
    BY <1>1 DEF vars, canonVars, checkVars
  <2> QED
    BY <2>1 DEF IInv, JobInv, StoreInv, ManifestOf, PublishedIsExport, OnMain, Tagged
<1>2. CASE JobStep
  BY <1>2, MovesInv, SourceInv, StoredInv, PublishInv DEF JobStep
<1> QED
  BY <1>1, <1>2, OthersInv, PushInv, MovesInv, StoredInv DEF Next

\* The invariant holds in every state of every behaviour.
THEOREM Invariant == Spec => []IInv
  BY InitInv, StepInv, PTL DEF Spec

\* For every history of the repository, the mirror and the runs: what is published
\* was built by its own attempt from a tagged tree that is the export of the one
\* canonical commit it names, which is on main.
THEOREM PublishedFromMain == Spec => []PublishedIsExport
<1>1. IInv => PublishedIsExport
  BY DEF IInv
<1> QED
  BY <1>1, Invariant, PTL

-----------------------------------------------------------------------------
(* The types.                                                              *)

CiRuns ==
  [status : {"absent", "running", "completed"}, runs : 0..MaxCiRuns,
   checks : [Names -> Conclusions], order : CheckOrders]

TypeInv ==
  /\ main \in 0..Len(History)
  /\ ci \in [Commits -> CiRuns]
  /\ wasGreen \subseteq Commits
  /\ mirror \in 0..MaxMirror
  /\ tagAt \in 0..mirror /\ event.commit \in 0..mirror
  /\ pc = "none" => event.commit = 0
  /\ pc \in Pcs /\ attempt \in 1..MaxAttempts
  /\ source \in Commits \cup {NoSource} /\ page \in Nat \ {0}

\* Nothing has happened yet.
LEMMA InitTypeInv == Init => TypeInv
<1> SUFFICES ASSUME Init PROVE TypeInv
  OBVIOUS
<1>1. NoRun \in CiRuns
  <2>1. (CHOOSE o \in CheckOrders : TRUE) \in CheckOrders
    BY OrderAssumption
  <2> DEFINE o == CHOOSE x \in CheckOrders : TRUE
             checks == [n \in Names |-> "none"]
  <2>2. checks \in [Names -> Conclusions]
    BY DEF Conclusions
  <2>3. 0 \in 0..MaxCiRuns
    BY BoundAssumption
  <2>4. NoRun = [status |-> "absent", runs |-> 0, checks |-> checks, order |-> o]
    BY DEF NoRun
  <2> HIDE DEF o, checks
  <2> QED
    BY <2>1, <2>2, <2>3, <2>4 DEF CiRuns, o
<1>2. ci \in [Commits -> CiRuns]
  BY <1>1 DEF Init
<1>3. main = 0 /\ mirror = 0 /\ tagAt = 0 /\ event.commit = 0 /\ attempt = 1 /\ page = 1
  BY DEF Init, NoEvent
<1>4. 0 \in 0..Len(History) /\ 0 \in 0..MaxMirror /\ 1 \in 1..MaxAttempts
  BY HistoryAssumption, BoundAssumption
<1>5. wasGreen = {} /\ pc = "none" /\ source = NoSource
  BY DEF Init
<1> QED
  BY <1>2, <1>3, <1>4, <1>5 DEF TypeInv, Pcs

\* What happens in the canonical repository and on the registry.
LEMMA CanonTypeInv ==
  ASSUME TypeInv,
         MainAdvances \/ \E s \in Commits : CiStarts(s) \/ CiEnds(s) \/ CrateReleased(s)
  PROVE  TypeInv'
<1>1. UNCHANGED <<mirror, tagAt, event, pc, attempt, source, page>>
  BY DEF MainAdvances, CiStarts, CiEnds, CrateReleased, CanonOnly, mirrorVars, checkVars
<1>2. main' \in 0..Len(History)
  <2>1. main' = main \/ (main < Len(History) /\ main' = main + 1)
    BY DEF MainAdvances, CiStarts, CiEnds, CrateReleased
  <2>2. Len(History) \in Nat
    BY HistoryAssumption
  <2> QED
    BY <2>1, <2>2 DEF TypeInv
<1>3. ASSUME NEW s \in Commits, CiStarts(s)
      PROVE  ci' \in [Commits -> CiRuns] /\ wasGreen' \subseteq Commits
  <2>1. PICK o \in CheckOrders :
          ci' = [ci EXCEPT ![s] = [status |-> "running", runs |-> @.runs + 1,
                                   checks |-> [n \in Names |-> "none"], order |-> o]]
    BY <1>3 DEF CiStarts
  <2>2. ci[s].runs < MaxCiRuns /\ ci[s].runs \in 0..MaxCiRuns
    BY <1>3 DEF CiStarts, TypeInv, CiRuns
  <2>3. ci[s].runs + 1 \in 0..MaxCiRuns
    BY <2>2, BoundAssumption
  <2> DEFINE checks == [n \in Names |-> "none"]
  <2>4. checks \in [Names -> Conclusions]
    BY DEF Conclusions
  <2> HIDE DEF checks
  <2>5. [status |-> "running", runs |-> ci[s].runs + 1, checks |-> checks, order |-> o]
          \in CiRuns
    BY <2>3, <2>4 DEF CiRuns
  <2> QED
    BY <1>3, <2>1, <2>5 DEF TypeInv, CiStarts, checks
<1>4. ASSUME NEW s \in Commits, CiEnds(s)
      PROVE  ci' \in [Commits -> CiRuns] /\ wasGreen' \subseteq Commits
  <2>1. PICK checks \in [Names -> Conclusions \ {"none"}] :
          /\ ci' = [ci EXCEPT ![s].status = "completed", ![s].checks = checks]
          /\ wasGreen' = IF Green(checks) THEN wasGreen \cup {s} ELSE wasGreen
    BY <1>4 DEF CiEnds
  <2>2. checks \in [Names -> Conclusions]
    OBVIOUS
  <2>3. [ci[s] EXCEPT !.status = "completed", !.checks = checks] \in CiRuns
    BY <2>2 DEF TypeInv, CiRuns
  <2>4. ci' = [ci EXCEPT ![s] = [ci[s] EXCEPT !.status = "completed", !.checks = checks]]
    BY <2>1
  <2> QED
    BY <2>1, <2>3, <2>4 DEF TypeInv
<1>5. ci' \in [Commits -> CiRuns] /\ wasGreen' \subseteq Commits
  <2>1. CASE MainAdvances \/ \E s \in Commits : CrateReleased(s)
    BY <2>1 DEF MainAdvances, CrateReleased, TypeInv
  <2> QED
    BY <1>3, <1>4, <2>1
<1> QED
  BY <1>1, <1>2, <1>5 DEF TypeInv

\* What happens to the mirror and its tag.
LEMMA MirrorTypeInv ==
  ASSUME TypeInv, MirrorAdvances \/ PushTag \/ TagMoves  PROVE TypeInv'
<1>1. UNCHANGED <<main, ci, wasGreen, attempt, source, page>>
  BY DEF MirrorAdvances, PushTag, TagMoves, MirrorOnly, canonVars, checkVars
<1>2. /\ mirror' \in 0..MaxMirror /\ tagAt' \in 0..mirror'
      /\ event'.commit \in 0..mirror'
      /\ pc' = "none" => event'.commit = 0
      /\ pc' \in Pcs
  <2>1. CASE MirrorAdvances
    BY <2>1, BoundAssumption DEF MirrorAdvances, MirrorOnly, TypeInv
  <2>2. CASE PushTag
    BY <2>2 DEF PushTag, TypeInv, Pcs
  <2>3. CASE TagMoves
    BY <2>3 DEF TagMoves, MirrorOnly, TypeInv
  <2> QED
    BY <2>1, <2>2, <2>3
<1> QED
  BY <1>1, <1>2 DEF TypeInv

\* What the run of the workflow does.
LEMMA RunTypeInv ==
  ASSUME TypeInv, IInv, JobStep \/ StoreFails \/ Outage \/ RepeatFailed \/ RepeatAll
  PROVE  TypeInv'
<1>1. UNCHANGED <<main, ci, wasGreen, mirror, tagAt, event>>
  BY DEF JobStep, Build, BuildFails, Checkout, CheckTag, CheckSource, CheckRun,
         ReadFullPage, ReadLastPage, CheckArtifact, Publish, StoreFails, Outage,
         RepeatFailed, RepeatAll, Repeats, PublishOnly, RunOnly, canonVars, mirrorVars
<1>2. pc # "none" /\ pc' # "none" /\ pc' \in Pcs
  BY DEF JobStep, Build, BuildFails, Checkout, CheckTag, CheckSource, CheckRun,
         ReadFullPage, ReadLastPage, CheckArtifact, Publish, StoreFails, Outage,
         RepeatFailed, RepeatAll, Repeats, Goes, Checks, Pcs, Reading, PublishOnly,
         RunOnly, TypeInv, IInv, StoreInv
<1>3. attempt' \in 1..MaxAttempts
  <2>1. attempt' = attempt \/ (attempt < MaxAttempts /\ attempt' = attempt + 1)
    BY DEF JobStep, Build, BuildFails, Checkout, CheckTag, CheckSource, CheckRun,
           ReadFullPage, ReadLastPage, CheckArtifact, Publish, StoreFails, Outage,
           RepeatFailed, RepeatAll, Repeats, PublishOnly
  <2>2. MaxAttempts \in Nat
    BY BoundAssumption
  <2> QED
    BY <2>1, <2>2 DEF TypeInv
<1>4. source' \in Commits \cup {NoSource}
  <2>1. CASE CheckTag
    <3>1. event.content \in Contents
      BY <2>1 DEF CheckTag, Checks, IInv, JobInv
    <3>2. Tagged.labels \in Seq(Commits)
      BY <3>1, ContentAssumption DEF Tagged
    <3>3. TagState => Tagged.labels[1] \in Commits
      BY <3>2 DEF TagState
    <3> QED
      BY <2>1, <3>3 DEF CheckTag, TypeInv
  <2>2. CASE ~CheckTag
    BY <2>2 DEF JobStep, Build, BuildFails, Checkout, CheckSource, CheckRun,
         ReadFullPage, ReadLastPage, CheckArtifact, Publish, StoreFails, Outage,
         RepeatFailed, RepeatAll, Repeats, checkVars, TypeInv
  <2> QED
    BY <2>1, <2>2
<1>5. page' \in Nat \ {0}
  <2>1. page' \in {page, 1, page + 1}
    BY DEF JobStep, Build, BuildFails, Checkout, CheckTag, CheckSource, CheckRun,
           ReadFullPage, ReadLastPage, CheckArtifact, Publish, StoreFails, Outage,
           RepeatFailed, RepeatAll, Repeats, PublishOnly, checkVars
  <2> QED
    BY <2>1 DEF TypeInv
<1> QED
  BY <1>1, <1>2, <1>3, <1>4, <1>5 DEF TypeInv

\* Every step keeps the types.
LEMMA StepTypeInv == TypeInv /\ IInv /\ [Next]_vars => TypeInv'
<1> SUFFICES ASSUME TypeInv, IInv, [Next]_vars PROVE TypeInv'
  OBVIOUS
<1>1. CASE UNCHANGED vars
  BY <1>1 DEF vars, canonVars, mirrorVars, checkVars, TypeInv
<1> QED
  BY <1>1, CanonTypeInv, MirrorTypeInv, RunTypeInv DEF Next

\* They hold in every state of every behaviour.
THEOREM TypeInvariant == Spec => []TypeInv
  BY InitTypeInv, StepTypeInv, Invariant, PTL DEF Spec

\* Every variable keeps its type, in any number of attempts and of runs of the CI;
\* what is about to be uploaded is all the files of a build.
THEOREM TypeCorrect == Spec => []TypeOK
<1>1. TypeInv /\ IInv => TypeOK
  <2> SUFFICES ASSUME TypeInv, IInv PROVE TypeOK
    OBVIOUS
  <2>1. event.commit # 0 => event.content \in Contents
    BY DEF TypeInv, IInv, JobInv
  <2>2. pc = "publish" => DOMAIN dist = Files
    BY DEF IInv, JobInv, Built
  <2>3. \A s \in Commits :
          /\ ci[s].status \in {"absent", "running", "completed"}
          /\ ci[s].runs \in 0..MaxCiRuns
          /\ ci[s].checks \in [Names -> Conclusions] /\ ci[s].order \in CheckOrders
    BY DEF TypeInv, CiRuns
  <2> QED
    BY <2>1, <2>2, <2>3 DEF TypeInv, TypeOK
<1> QED
  BY <1>1, Invariant, TypeInvariant, PTL

-----------------------------------------------------------------------------
(* The checks of a commit, read page by page while its CI may run again.   *)

Entries == [name : STRING, conclusion : Conclusions]

\* The gate succeeds only in a run without a failure; a green run is remembered.
CiInv ==
  \A s \in Commits :
    /\ ci[s].checks[Gate] = "success" =>
         \A n \in Names : ci[s].checks[n] \in {"success", "skipped"}
    /\ Green(ci[s].checks) => s \in wasGreen

\* The success of the gate stands in the list only when the commit was green, or
\* the list was never begun; what passed was green.
SeenInv ==
  /\ seen \in Seq(Entries)
  /\ OnePage => seen = <<>> /\ page = 1
  /\ GateDecides => \A i \in DOMAIN seen :
       seen[i].name = Gate /\ seen[i].conclusion = "success" => source \in wasGreen
  /\ pc \in {"artifact", "publish"} => source \in wasGreen
  /\ \A p \in published : p.source \in wasGreen

GreenInv == CiInv /\ SeenInv

\* The gate is one of the required checks of every commit.
LEMMA GateRequired ==
  ASSUME NEW s \in Commits
  PROVE  Gate \in Names /\ Gate \in ToSet(Required(s)) /\ ToSet(Required(s)) \subseteq Names
  BY GateAssumption DEF Names

\* No run has ended, and nothing was listed.
LEMMA InitGreenInv == Init => GreenInv
<1> SUFFICES ASSUME Init PROVE GreenInv
  OBVIOUS
<1>1. ASSUME NEW s \in Commits
      PROVE  ci[s].checks[Gate] = "none" /\ ~Green(ci[s].checks)
  <2>1. ci[s].checks = [n \in Names |-> "none"]
    BY <1>1 DEF Init, NoRun
  <2>2. ci[s].checks[Gate] = "none"
    BY <2>1, GateRequired
  <2> QED
    BY <2>2, GateRequired DEF Green
<1>2. CiInv
  BY <1>1 DEF CiInv
<1>3. SeenInv
  BY DEF Init, SeenInv
<1> QED
  BY <1>2, <1>3 DEF GreenInv

\* The steps that neither touch the CI nor list a check, and begin no verdict.
LEMMA OtherGreenInv ==
  ASSUME GreenInv, UNCHANGED <<ci, wasGreen, published>>,
         \/ seen' = seen /\ page' = page /\ source' = source
         \/ seen' = <<>> /\ page' = 1,
         pc' \in {"artifact", "publish"} =>
           pc \in {"artifact", "publish"} /\ source' = source
  PROVE  GreenInv'
<1>1. CiInv'
  BY DEF GreenInv, CiInv, Green
<1>2. /\ seen' \in Seq(Entries)
      /\ OnePage => seen' = <<>> /\ page' = 1
      /\ GateDecides => \A i \in DOMAIN seen' :
           seen'[i].name = Gate /\ seen'[i].conclusion = "success" => source' \in wasGreen
  <2>1. CASE seen' = seen /\ page' = page /\ source' = source
    BY <2>1 DEF GreenInv, SeenInv
  <2>2. CASE seen' = <<>> /\ page' = 1
    BY <2>2
  <2> QED
    BY <2>1, <2>2
<1>3. pc' \in {"artifact", "publish"} => source' \in wasGreen
  BY DEF GreenInv, SeenInv
<1>4. SeenInv'
  BY <1>2, <1>3 DEF GreenInv, SeenInv, OnePage, GateDecides
<1> QED
  BY <1>1, <1>4 DEF GreenInv

\* A run of the CI starts or ends.
LEMMA CiGreenInv ==
  ASSUME GreenInv, TypeInv, NEW s \in Commits, CiStarts(s) \/ CiEnds(s)
  PROVE  GreenInv'
<1>1. UNCHANGED <<source, seen, page, pc, published>>
  BY DEF CiStarts, CiEnds, CanonOnly, checkVars
<1>2. wasGreen \subseteq wasGreen'
  BY DEF CiStarts, CiEnds
<1>3. \A t \in Commits \ {s} : ci'[t] = ci[t]
  BY DEF CiStarts, CiEnds, TypeInv
<1>4. /\ ci'[s].checks[Gate] = "success" =>
           \A n \in Names : ci'[s].checks[n] \in {"success", "skipped"}
      /\ Green(ci'[s].checks) => s \in wasGreen'
  <2>1. CASE CiStarts(s)
    <3>1. ci'[s].checks = [n \in Names |-> "none"]
      BY <2>1 DEF CiStarts, TypeInv
    <3>2. ci'[s].checks[Gate] = "none"
      BY <3>1, GateRequired
    <3> QED
      BY <3>2, GateRequired DEF Green
  <2>2. CASE CiEnds(s)
    <3>1. PICK checks \in [Names -> Conclusions \ {"none"}] :
            /\ checks[Gate] = "failure" <=> \E n \in Names \ {Gate} : checks[n] = "failure"
            /\ ci' = [ci EXCEPT ![s].status = "completed", ![s].checks = checks]
            /\ wasGreen' = IF Green(checks) THEN wasGreen \cup {s} ELSE wasGreen
      BY <2>2 DEF CiEnds
    <3>2. ci'[s].checks = checks
      BY <3>1 DEF TypeInv, CiRuns
    <3>3. checks[Gate] = "success" => \A n \in Names : checks[n] \in {"success", "skipped"}
      BY <3>1 DEF Conclusions
    <3> QED
      BY <3>1, <3>2, <3>3
  <2> QED
    BY <2>1, <2>2
<1>5. CiInv'
  BY <1>2, <1>3, <1>4 DEF GreenInv, CiInv, Green
<1>6. SeenInv'
  BY <1>1, <1>2 DEF GreenInv, SeenInv, OnePage, GateDecides
<1> QED
  BY <1>5, <1>6 DEF GreenInv

\* A page shows, of each check that is ours, what the CI says of it now.
LEMMA ListedNow ==
  ASSUME TypeInv, NEW s \in Commits, NEW p \in Nat \ {0}
  PROVE  /\ Listed(s, p) \in Seq(Entries)
         /\ \A i \in DOMAIN Listed(s, p) :
              Listed(s, p)[i].name \in Names =>
                Listed(s, p)[i].conclusion = ci[s].checks[Listed(s, p)[i].name]
<1> DEFINE order == ci[s].order
           from == (p - 1) * PageSize + 1
           to == IF p * PageSize <= Len(order) THEN p * PageSize ELSE Len(order)
           batch == SubSeq(order, from, to)
<1>1. order \in Seq(STRING) /\ ci[s].checks \in [Names -> Conclusions]
  BY OrderAssumption DEF TypeInv, CiRuns
<1>2. (p - 1) * PageSize \in Nat /\ p * PageSize \in Nat
  <2>1. \A m, n \in Nat : m * n \in Nat
    OBVIOUS
  <2>2. p - 1 \in Nat /\ p \in Nat /\ PageSize \in Nat
    BY BoundAssumption
  <2> QED
    BY <2>1, <2>2
<1> HIDE DEF order
<1>3. from \in Int /\ to \in Int /\ \A i \in from..to : i \in 1..Len(order)
  BY <1>1, <1>2
<1> HIDE DEF from, to
<1>4. batch \in Seq(STRING)
  <2>1. \A i \in from..to : order[i] \in STRING
    BY <1>1, <1>3
  <2> QED
    BY <1>3, <2>1, SubSeqProperties
<1>5. Listed(s, p) =
        [i \in DOMAIN batch |->
           [name |-> batch[i],
            conclusion |-> IF batch[i] \in Names THEN ci[s].checks[batch[i]]
                                                 ELSE "success"]]
  BY DEF Listed, from, to, order
<1> HIDE DEF batch
<1>6. \A i \in DOMAIN batch :
         (IF batch[i] \in Names THEN ci[s].checks[batch[i]] ELSE "success") \in Conclusions
  BY <1>1 DEF Conclusions
<1>7. DOMAIN batch = 1..Len(batch) /\ Len(batch) \in Nat
      /\ \A i \in DOMAIN batch : batch[i] \in STRING
  BY <1>4
<1>8. \A i \in DOMAIN batch : Listed(s, p)[i] \in Entries
  BY <1>5, <1>6, <1>7 DEF Entries
<1>9. Listed(s, p) \in [1..Len(batch) -> Entries]
  BY <1>5, <1>7, <1>8, Zenon
<1>10. Listed(s, p) \in Seq(Entries)
  BY <1>7, <1>9
<1> QED
  BY <1>5, <1>10

\* A list that passes, read while the runs changed, is of a commit that was green.
LEMMA PassedWasGreen ==
  ASSUME GreenInv, TypeInv, source \in Commits, GateDecides \/ OnePage,
         ChecksPass(Required(source), seen \o Listed(source, page))
  PROVE  source \in wasGreen
<1> DEFINE now == Listed(source, page)
           all == seen \o now
           checks == ci[source].checks
<1>1. /\ now \in Seq(Entries)
      /\ \A i \in DOMAIN now : now[i].name \in Names => now[i].conclusion = checks[now[i].name]
  BY ListedNow DEF TypeInv
<1>2. seen \in Seq(Entries)
  BY DEF GreenInv, SeenInv
<1>3. ASSUME NEW n \in ToSet(Required(source))
      PROVE  \E i \in DOMAIN all : all[i].name = n /\ all[i].conclusion \in Allowed(n)
  <2> HIDE DEF all
  <2>1. {all[i].name : i \in {j \in DOMAIN all : all[j].name \in Names}}
          = ToSet(Required(source))
    BY Zenon DEF ChecksPass, all
  <2>2. PICK i \in {j \in DOMAIN all : all[j].name \in Names} : all[i].name = n
    BY <1>3, <2>1
  <2>3. all[i].conclusion \in Allowed(all[i].name)
    BY <2>2, Zenon DEF ChecksPass, all
  <2> QED
    BY <2>2, <2>3
<1>4. Gate \in Names /\ Gate \in ToSet(Required(source)) /\ ToSet(Required(source)) \subseteq Names
  BY GateRequired
<1>5. Green(checks) => source \in wasGreen
  BY DEF GreenInv, CiInv
<1>6. checks[Gate] = "success" => \A n \in Names : checks[n] \in {"success", "skipped"}
  BY DEF GreenInv, CiInv
<1> HIDE DEF now, checks
<1>7. CASE GateDecides
  <2>1. PICK i \in DOMAIN all : all[i].name = Gate /\ all[i].conclusion = "success"
    BY <1>3, <1>4 DEF Allowed, AlwaysSuccess
  <2>2. CASE i \in DOMAIN seen
    <3>1. all[i] = seen[i]
      BY <1>1, <1>2, <2>2
    <3> QED
      BY <1>7, <2>1, <2>2, <3>1 DEF GreenInv, SeenInv
  <2>3. CASE i \notin DOMAIN seen
    <3>1. PICK j \in DOMAIN now : all[i] = now[j]
      <4>1. i - Len(seen) \in DOMAIN now /\ all[i] = now[i - Len(seen)]
        BY <1>1, <1>2, <2>3
      <4> QED
        BY <4>1
    <3>2. checks[Gate] = "success"
      BY <1>1, <1>4, <2>1, <3>1
    <3> QED
      BY <1>5, <1>6, <1>7, <3>2 DEF Green, GateDecides
  <2> QED
    BY <2>2, <2>3
<1>8. CASE OnePage
  <2>1. all = now
    <3>1. seen = <<>>
      BY <1>8 DEF GreenInv, SeenInv
    <3> QED
      BY <1>1, <3>1, ConcatEmptySeq
  <2>2. \A n \in ToSet(Required(source)) : checks[n] \in Allowed(n)
    BY <1>1, <1>3, <1>4, <2>1
  <2>3. \A n \in Names \cap AlwaysSuccess : checks[n] = "success"
    BY <1>8, <2>2 DEF OnePage, Allowed
  <2>4. checks[Gate] = "success"
    BY <1>4, <2>3 DEF AlwaysSuccess
  <2> QED
    BY <1>5, <1>6, <2>3, <2>4 DEF Green
<1> QED
  BY <1>7, <1>8

\* The pages are read.
LEMMA PagesGreenInv ==
  ASSUME GreenInv, TypeInv, IInv, GateDecides \/ OnePage, ReadFullPage \/ ReadLastPage
  PROVE  GreenInv'
<1>1. UNCHANGED <<ci, wasGreen, published, source>> /\ pc = "checks"
  BY DEF ReadFullPage, ReadLastPage, PublishOnly, RunOnly, canonVars
<1>2. source \in Commits
  <2>1. OnMain(source)
    BY <1>1 DEF IInv, JobInv, Judged
  <2> QED
    BY <2>1, HistoryAssumption DEF OnMain, TypeInv
<1>3. CiInv'
  BY <1>1 DEF GreenInv, CiInv, Green
<1>4. CASE ReadLastPage
  <2>1. seen' = <<>> /\ page' = 1
    BY <1>4 DEF ReadLastPage
  <2>2. pc' \in {"artifact", "publish"} => source \in wasGreen
    BY <1>2, <1>4, PassedWasGreen DEF ReadLastPage
  <2>3. SeenInv'
    BY <1>1, <2>1, <2>2 DEF GreenInv, SeenInv, OnePage, GateDecides
  <2> QED
    BY <1>3, <2>3 DEF GreenInv
<1>5. CASE ReadFullPage
  <2> DEFINE now == Listed(source, page)
             checks == ci[source].checks
  <2>1. /\ now \in Seq(Entries)
        /\ \A i \in DOMAIN now : now[i].name \in Names => now[i].conclusion = checks[now[i].name]
    BY <1>2, ListedNow DEF TypeInv
  <2>2. seen' = seen \o now /\ pc' = "checks" /\ seen \in Seq(Entries)
    BY <1>1, <1>5 DEF ReadFullPage, GreenInv, SeenInv
  <2>3. ~OnePage
    <3> SUFFICES ASSUME OnePage PROVE FALSE
      OBVIOUS
    <3>1. 1 * PageSize <= Len(ci[source].order)
      BY <1>5 DEF ReadFullPage, Full, GreenInv, SeenInv
    <3>2. ci[source].order \in CheckOrders
      BY <1>2 DEF TypeInv, CiRuns
    <3>3. Len(ci[source].order) \in Nat /\ PageSize \in Nat
      BY <3>2, OrderAssumption, BoundAssumption
    <3> QED
      BY <3>1, <3>2, <3>3 DEF OnePage
  <2> HIDE DEF now
  <2>4. ASSUME GateDecides, NEW i \in DOMAIN (seen \o now),
               (seen \o now)[i].name = Gate, (seen \o now)[i].conclusion = "success"
        PROVE  source \in wasGreen
    <3>1. CASE i \in DOMAIN seen
      <4>1. (seen \o now)[i] = seen[i]
        BY <2>1, <2>2, <3>1
      <4> QED
        BY <2>4, <3>1, <4>1 DEF GreenInv, SeenInv
    <3>2. CASE i \notin DOMAIN seen
      <4>1. i - Len(seen) \in DOMAIN now /\ (seen \o now)[i] = now[i - Len(seen)]
        BY <2>1, <2>2, <3>2
      <4>2. checks[Gate] = "success"
        BY <1>2, <2>1, <2>4, <4>1, GateRequired
      <4>3. \A n \in Names : checks[n] \in {"success", "skipped"}
        BY <1>2, <4>2 DEF GreenInv, CiInv
      <4>4. Green(checks)
        BY <2>4, <4>2, <4>3 DEF Green, GateDecides
      <4> QED
        BY <1>2, <4>4 DEF GreenInv, CiInv
    <3> QED
      BY <3>1, <3>2
  <2>5. seen' \in Seq(Entries)
    BY <2>1, <2>2
  <2>6. SeenInv'
    BY <1>1, <2>2, <2>3, <2>4, <2>5 DEF GreenInv, SeenInv, OnePage, GateDecides
  <2> QED
    BY <1>3, <2>6 DEF GreenInv
<1> QED
  BY <1>4, <1>5

\* Every step keeps it.
LEMMA StepGreenInv ==
  ASSUME GreenInv, TypeInv, IInv, GateDecides \/ OnePage, [Next]_vars  PROVE GreenInv'
<1>1. CASE UNCHANGED vars
  BY <1>1, OtherGreenInv DEF vars, canonVars, checkVars
<1>2. CASE \/ MainAdvances \/ MirrorAdvances \/ PushTag \/ TagMoves \/ StoreFails
           \/ \E s \in Commits : CrateReleased(s)
  <2>1. UNCHANGED <<ci, wasGreen, published, seen, page, source>>
        /\ (pc' = pc \/ pc' = "build")
    BY <1>2 DEF MainAdvances, MirrorAdvances, PushTag, TagMoves, StoreFails, CrateReleased,
                CanonOnly, MirrorOnly, RunOnly, canonVars, checkVars
  <2> QED
    BY <2>1, OtherGreenInv
<1>3. ASSUME NEW s \in Commits, CiStarts(s) \/ CiEnds(s)  PROVE GreenInv'
  BY <1>3, CiGreenInv
<1>4. CASE \/ Build \/ BuildFails \/ Checkout \/ CheckTag \/ CheckSource \/ CheckRun
           \/ CheckArtifact \/ Outage \/ RepeatFailed \/ RepeatAll
  <2>1. /\ UNCHANGED <<ci, wasGreen, published>>
        /\ \/ seen' = seen /\ page' = page /\ source' = source
           \/ seen' = <<>> /\ page' = 1
        /\ \/ pc' \notin {"artifact", "publish"}
           \/ pc = "artifact" /\ pc' = "publish" /\ source' = source
    BY <1>4 DEF Build, BuildFails, Checkout, CheckTag, CheckSource, CheckRun,
                CheckArtifact, Outage, RepeatFailed, RepeatAll, Repeats, Goes, Checks,
                PublishOnly, RunOnly, canonVars, checkVars
  <2> QED
    BY <2>1, OtherGreenInv
<1>5. CASE Publish
  <2>1. /\ UNCHANGED <<ci, wasGreen, seen, page, source>>
        /\ pc = "publish" /\ pc' \notin {"artifact", "publish"}
        /\ \A p \in published' : p \in published \/ p.source = source
    BY <1>5 DEF Publish, RunOnly, canonVars, checkVars
  <2>2. CiInv'
    BY <2>1 DEF GreenInv, CiInv, Green
  <2>3. SeenInv'
    BY <2>1 DEF GreenInv, SeenInv, OnePage, GateDecides
  <2> QED
    BY <2>2, <2>3 DEF GreenInv
<1> QED
  BY <1>1, <1>2, <1>3, <1>4, <1>5, PagesGreenInv DEF Next, JobStep

\* Where the success of the gate says all of a run, or the checks are read at once,
\* the CI of what is published was once all green: that the run, the pages of its
\* checks, the tag and the artifact are read at different times, and may each have
\* changed since, lets nothing else through.
THEOREM GreenReleases == Spec => []GreenIfReadAtOnce
<1>1. CASE GateDecides \/ OnePage
  <2>1. Init => GreenInv
    BY InitGreenInv
  <2>2. GreenInv /\ TypeInv /\ IInv /\ [Next]_vars => GreenInv'
    BY <1>1, StepGreenInv
  <2>3. GreenInv => GreenIfReadAtOnce
    BY DEF GreenInv, SeenInv, GreenIfReadAtOnce, PublishedWasGreen
  <2> QED
    BY <2>1, <2>2, <2>3, Invariant, TypeInvariant, PTL DEF Spec
<1>2. CASE ~(GateDecides \/ OnePage)
  <2>1. GreenIfReadAtOnce
    BY <1>2 DEF GreenIfReadAtOnce
  <2> QED
    BY <2>1, PTL
<1> QED
  BY <1>1, <1>2

-----------------------------------------------------------------------------
(* The lock files of the crates, as the registry fills.                    *)

\* The registry loses nothing that it had before.
RegistryInv == ThirdParty \subseteq registry

\* The registry only grows.
LEMMA StepRegistryInv == RegistryInv /\ [Next]_vars => RegistryInv'
<1> SUFFICES ASSUME RegistryInv, [Next]_vars PROVE RegistryInv'
  OBVIOUS
<1>1. registry \subseteq registry'
  <2>1. CASE UNCHANGED vars
    BY <2>1 DEF vars, canonVars
  <2>2. CASE MainAdvances \/ \E s \in Commits : CiStarts(s) \/ CiEnds(s) \/ CrateReleased(s)
    BY <2>2 DEF MainAdvances, CiStarts, CiEnds, CrateReleased
  <2>3. CASE MirrorAdvances \/ PushTag \/ TagMoves
    BY <2>3 DEF MirrorAdvances, PushTag, TagMoves, MirrorOnly, canonVars
  <2>4. CASE JobStep \/ StoreFails \/ Outage \/ RepeatFailed \/ RepeatAll
    BY <2>4 DEF JobStep, Build, BuildFails, Checkout, CheckTag, CheckSource, CheckRun,
         ReadFullPage, ReadLastPage, CheckArtifact, Publish, StoreFails, Outage,
         RepeatFailed, RepeatAll, Repeats, PublishOnly, RunOnly, canonVars
  <2> QED
    BY <2>1, <2>2, <2>3, <2>4 DEF Next
<1> QED
  BY <1>1 DEF RegistryInv

\* A requirement of a crate that is exported names a version it admits.
LEMMA WantedIsAdmitted ==
  ASSUME NEW s \in Sound, NEW x \in CratesOf(s)
  PROVE  /\ x.siblings \subseteq x.requirements
         /\ \A r \in x.requirements : r.wanted \in r.allows
<1>1. x \in Crates(Repo[s])
  BY DEF CratesOf, CratesIn
<1>2. PICK tree : x = Crate(Repo[s], tree)
  BY <1>1 DEF Crates
<1>3. /\ x.requirements = {RequiresIn[l] : l \in ToSet(tree[CargoToml].text) \cap DOMAIN RequiresIn}
      /\ x.siblings = {r \in x.requirements : Tolerable(Repo[s], r)}
  BY <1>2 DEF Crate
<1>4. \A r \in x.requirements : r.wanted \in r.allows
  BY <1>3, RequirementAssumption
<1> QED
  BY <1>3, <1>4

\* What cargo names as missing is required and is not on the registry in any version
\* that is admitted; it names nothing only when nothing is missing.
LEMMA ReportedIsMissing ==
  ASSUME NEW x, NEW reported \in Reports(x, registry)
  PROVE  /\ \A r \in reported : r \in x.requirements
                             /\ \A v \in r.allows : <<r.name, v>> \notin registry
         /\ reported = {} => \A r \in x.requirements :
                               \E v \in r.allows : <<r.name, v>> \in registry
<1> DEFINE unresolved ==
             {r \in x.requirements : \A v \in r.allows : <<r.name, v>> \notin registry}
<1>1. \/ unresolved = {} /\ reported = {}
      \/ reported \subseteq unresolved /\ reported # {}
  BY DEF Reports
<1> QED
  BY <1>1

\* For every repository, lock and registry: CI does not refuse a right lock while its
\* siblings are being released in whatever order, and a lock that it accepts when they
\* all are there is one that cargo accepts.
THEOREM LocksAreJudged == Spec => []LockGate
<1>1. Init => RegistryInv
  BY DEF Init, RegistryInv
<1>2. RegistryInv => LockGate
  <2> SUFFICES ASSUME RegistryInv, NEW s \in Sound, NEW x \in CratesOf(s),
                      NEW reported \in Reports(x, registry)
               PROVE  /\ Honest(x) /\ InOrder(x) => LockAccepted(x, registry, reported)
                      /\ /\ LockAccepted(x, registry, reported)
                         /\ \A r \in x.siblings : <<r.name, r.wanted>> \in registry
                         => CargoAgrees(x, registry)
    BY Zenon DEF LockGate
  <2>1. ASSUME Honest(x), InOrder(x)  PROVE LockAccepted(x, registry, reported)
    <3>1. \A r \in x.requirements \ x.siblings :
            \E v \in r.allows : <<r.name, v>> \in x.pins \cap registry
      BY <2>1 DEF Honest, RegistryInv
    <3>2. \A r \in x.siblings : r.wanted \in r.allows /\ <<r.name, r.wanted>> \in x.pins
      BY <2>1, WantedIsAdmitted DEF Honest
    <3>3. CASE reported = {}
      <4>1. \A r \in x.siblings : <<r.name, r.wanted>> \in registry
        <5>1. \A r \in x.siblings : \E v \in r.allows : <<r.name, v>> \in registry
          BY <3>3, ReportedIsMissing, WantedIsAdmitted
        <5> QED
          BY <2>1, <5>1 DEF InOrder
      <4>2. CargoAgrees(x, registry)
        BY <3>1, <3>2, <4>1 DEF CargoAgrees
      <4> QED
        BY <4>2 DEF LockAccepted
    <3>4. CASE reported # {}
      <4>1. reported \subseteq x.siblings
        BY <3>1, ReportedIsMissing
      <4>2. ASSUME NEW r \in x.requirements  PROVE \E p \in x.pins : p[1] = r.name
        <5>1. PICK v : <<r.name, v>> \in x.pins
          BY <3>1, <3>2
        <5>2. <<r.name, v>>[1] = r.name
          OBVIOUS
        <5> QED
          BY <5>1, <5>2
      <4> QED
        BY <3>2, <3>4, <4>1, <4>2 DEF LockAccepted
    <3> QED
      BY <3>3, <3>4
  <2>2. ASSUME LockAccepted(x, registry, reported),
               \A r \in x.siblings : <<r.name, r.wanted>> \in registry
        PROVE  CargoAgrees(x, registry)
    <3>1. reported \subseteq x.siblings => reported = {}
      <4> SUFFICES ASSUME reported \subseteq x.siblings, NEW r \in reported  PROVE FALSE
        OBVIOUS
      <4>1. r \in x.siblings /\ \A v \in r.allows : <<r.name, v>> \notin registry
        BY ReportedIsMissing
      <4>2. r.wanted \in r.allows
        BY <4>1, WantedIsAdmitted
      <4> QED
        BY <2>2, <4>1, <4>2
    <3> QED
      BY <2>2, <3>1 DEF LockAccepted
  <2> QED
    BY <2>1, <2>2
<1> QED
  BY <1>1, <1>2, StepRegistryInv, PTL DEF Spec
=============================================================================
