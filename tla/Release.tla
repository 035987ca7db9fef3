------------------------------ MODULE Release ------------------------------
(***************************************************************************)
(* The release of one component from its mirror: the two jobs of           *)
(* .github/workflows/release.yml, with the checks of release-provenance.py *)
(* and release-artifact.py, while canonical main, the CI of a commit, the  *)
(* mirror, its tags, the store of artifacts and the registry of crates go  *)
(* on changing.  Each read of one of these is a step of its own.           *)
(*                                                                         *)
(* A canonical commit is a member of Commits, a mirror commit its position *)
(* on the mirror's main.  What a mirror commit holds is drawn when it is   *)
(* tagged: nothing looks at the others.                                    *)
(***************************************************************************)
EXTENDS StandaloneLock, ReleaseManifest, TLC

CONSTANTS
  Component,       \* --component
  Commits,         \* canonical commits, merged or not
  History,         \* those that canonical main comes to hold, in order
  Repo,            \* the tree of each
  Contents,        \* names of what may be committed to the mirror
  Content,         \* of each the [tree, labels]
  RequiredIn,      \* from a text of required-checks.json to the list in it
  ExportsCheck,    \* the check that runs static_check
  CheckOrders,     \* in what orders the checks of a commit may be listed
  PageSize,        \* checks on a page (100)
  Versions,        \* versions a tag may name
  Files,           \* the files that a build makes
  ThirdParty,      \* the crates of others, <<name, version>>
  MaxMirror, MaxAttempts, MaxCiRuns   \* bounds


\* The commits whose components can all be exported, the crates that static_check
\* finds in each, and which contents of a mirror are which commit's export.
Sound == {s \in Commits : ExportsSound(Repo[s])}
CratesIn == {<<s, Crates(Repo[s])>> : s \in Sound}
ExportOf == {x \in Contents \X Commits :
               Content[x[1]].tree = Exported(Repo[x[2]], Component)}
CratesOf(s) == UNION {x[2] : x \in {y \in CratesIn : y[1] = s}}

Gate == "CI gate"
AlwaysSuccess == {"Detect changed areas", "Automation authority guards", Gate}
RequiredChecks == <<"tools", "required-checks.json">>
Required(s) == RequiredIn[Repo[s][RequiredChecks].text]

ASSUME HistoryAssumption == History \in Seq(Commits)
ASSUME ContentAssumption == \A m \in Contents : Content[m].labels \in Seq(Commits)
ASSUME GateAssumption ==
  \A s \in Commits : Gate \in ToSet(Required(s))
ASSUME OrderAssumption == CheckOrders # {} /\ CheckOrders \subseteq Seq(STRING)
ASSUME BoundAssumption == {PageSize, MaxMirror, MaxAttempts, MaxCiRuns} \subseteq Nat \ {0}

VARIABLES
  main,        \* how much of History canonical main has
  ci,          \* the main push run of ci.yml for each canonical commit
  wasGreen,    \* the commits for which a run once ended all green (history)
  registry,    \* the crates on the registry, <<name, version>>
  mirror,      \* how many commits the mirror's main has
  tagAt,       \* the mirror commit the tag is on now
  event,       \* the push: the commit and what it holds, the version, whether the
               \* tag is new
  pc,          \* where the release run is
  attempt,     \* GITHUB_RUN_ATTEMPT
  source,      \* the canonical commit that the tagged commit names
  seen, page,  \* the check runs listed so far, and the next page
  artifact,    \* what is in the store: [files, manifest]
  dist,        \* the files that were downloaded and verified
  published    \* what the index was given

canonVars == <<main, ci, wasGreen, registry>>
mirrorVars == <<mirror, tagAt>>
checkVars == <<source, seen, page>>
vars == <<canonVars, mirrorVars, event, pc, attempt, checkVars, artifact, dist, published>>

-----------------------------------------------------------------------------

Conclusions == {"success", "failure", "skipped", "none"}
Names == UNION {ToSet(Required(s)) : s \in Commits}
NoRun == [status |-> "absent", runs |-> 0, checks |-> [n \in Names |-> "none"],
          order |-> CHOOSE o \in CheckOrders : TRUE]
NoSource == ""
NoEvent == [commit |-> 0, content |-> "", version |-> "", created |-> FALSE]
NoArtifact == [files |-> <<>>, manifest |-> Unreadable]

Reading == {"tag", "source", "run", "checks", "artifact"}
Pcs == {"none", "build", "queued", "publish", "published", "unbuilt", "refused", "outage"}
       \cup Reading

TypeOK ==
  /\ main \in 0..Len(History)
  /\ \A s \in Commits :
       /\ ci[s].status \in {"absent", "running", "completed"}
       /\ ci[s].runs \in 0..MaxCiRuns
       /\ ci[s].checks \in [Names -> Conclusions] /\ ci[s].order \in CheckOrders
  /\ wasGreen \subseteq Commits
  /\ mirror \in 0..MaxMirror
  /\ tagAt \in 0..mirror /\ event.commit \in 0..mirror
  /\ event.commit # 0 => event.content \in Contents
  /\ pc \in Pcs /\ attempt \in 1..MaxAttempts
  /\ source \in Commits \cup {NoSource} /\ page \in Nat \ {0}
  /\ pc = "publish" => DOMAIN dist = Files

Init ==
  /\ main = 0
  /\ ci = [s \in Commits |-> NoRun]
  /\ wasGreen = {}
  /\ registry = ThirdParty
  /\ mirror = 0 /\ tagAt = 0
  /\ event = NoEvent /\ pc = "none" /\ attempt = 1
  /\ source = NoSource /\ seen = <<>> /\ page = 1
  /\ artifact = NoArtifact /\ dist = <<>>
  /\ published = {}

-----------------------------------------------------------------------------
(* What happens in the canonical repository and on the registry.           *)

CanonOnly == UNCHANGED <<mirrorVars, event, pc, attempt, checkVars, artifact, dist, published>>
OnMain(s) == \E i \in 1..main : History[i] = s

MainAdvances ==
  /\ main < Len(History)
  /\ main' = main + 1
  /\ CanonOnly /\ UNCHANGED <<ci, wasGreen, registry>>

\* A run starts, or the whole of it is repeated; its number stays the same.
CiStarts(s) ==
  /\ OnMain(s) /\ ci[s].status # "running" /\ ci[s].runs < MaxCiRuns
  /\ \E o \in CheckOrders :
       ci' = [ci EXCEPT ![s] = [status |-> "running", runs |-> @.runs + 1,
                                checks |-> [n \in Names |-> "none"], order |-> o]]
  /\ CanonOnly /\ UNCHANGED <<main, wasGreen, registry>>

Green(checks) ==
  /\ \A n \in Names : checks[n] \in {"success", "skipped"}
  /\ \A n \in Names \cap AlwaysSuccess : checks[n] = "success"

\* The exports check is static_check with the registry as it is now and whatever
\* cargo reports.
StaticCheck(s, passes) ==
  IF passes
  THEN s \in Sound /\ \A x \in CratesOf(s) :
         \E reported \in Reports(x, registry) : LockAccepted(x, registry, reported)
  ELSE s \notin Sound \/ \E x \in CratesOf(s) :
         \E reported \in Reports(x, registry) : ~LockAccepted(x, registry, reported)

\* The gate fails when a check failed.
CiEnds(s) ==
  /\ ci[s].status = "running"
  /\ \E checks \in [Names -> Conclusions \ {"none"}] :
       /\ checks[ExportsCheck] # "skipped"
       /\ StaticCheck(s, checks[ExportsCheck] = "success")
       /\ checks[Gate] = "failure" <=> \E n \in Names \ {Gate} : checks[n] = "failure"
       /\ ci' = [ci EXCEPT ![s].status = "completed", ![s].checks = checks]
       /\ wasGreen' = IF Green(checks) THEN wasGreen \cup {s} ELSE wasGreen
  /\ CanonOnly /\ UNCHANGED <<main, registry>>

\* A sibling is released from its own mirror once the checks have passed.
CrateReleased(s) ==
  /\ s \in wasGreen
  /\ \E x \in CratesOf(s) : \E r \in x.siblings :
       /\ <<r.name, r.wanted>> \notin registry
       /\ registry' = registry \cup {<<r.name, r.wanted>>}
  /\ CanonOnly /\ UNCHANGED <<main, ci, wasGreen>>

-----------------------------------------------------------------------------
(* The mirror: its main, which Copybara or a person moves, and the tag.    *)

MirrorOnly == UNCHANGED <<canonVars, pc, attempt, checkVars, artifact, dist, published>>

MirrorAdvances ==
  /\ mirror < MaxMirror
  /\ mirror' = mirror + 1
  /\ MirrorOnly /\ UNCHANGED <<tagAt, event>>

\* The push of the tag starts the workflow; created is FALSE when the push moved
\* or forced a tag that was there before.
PushTag ==
  /\ pc = "none"
  /\ \E c \in 1..mirror, m \in Contents, v \in Versions, new \in BOOLEAN :
       /\ tagAt' = c
       /\ event' = [commit |-> c, content |-> m, version |-> v, created |-> new]
  /\ pc' = "build"
  /\ UNCHANGED <<canonVars, mirror, attempt, checkVars, artifact, dist, published>>

TagMoves ==
  /\ tagAt # 0
  /\ \E c \in (1..mirror) \ {tagAt} : tagAt' = c
  /\ MirrorOnly /\ UNCHANGED <<mirror, event>>

-----------------------------------------------------------------------------
(* The build job.                                                          *)

Goes(from, to) == pc = from /\ pc' = to
RunOnly == UNCHANGED <<canonVars, mirrorVars, event>>

Tagged == Content[event.content]
Manifested == <<"pyproject.toml">>

\* Two builds of one commit are not the same bytes.
Built(commit, n) == [f \in Files |-> <<commit, n, f>>]

Context(canonical) ==
  [repository |-> Component, source_sha |-> event.commit, source_ref |-> event.version,
   run_id |-> 1, run_attempt |-> attempt, canonical_source_sha |-> canonical]

\* The version of the tag is compared with pyproject.toml; the manifest needs
\* exactly one label in the commit message.
Buildable ==
  /\ Manifested \in DOMAIN Tagged.tree
  /\ VersionIn[Tagged.tree[Manifested].text] = event.version
  /\ Len(Tagged.labels) = 1

Build ==
  /\ Goes("build", "queued")
  /\ Buildable
  /\ LET files == Built(event.commit, attempt)
     IN  artifact' = [files |-> files,
                      manifest |-> CreateManifest(Context(Tagged.labels[1]), files)]
  /\ RunOnly /\ UNCHANGED <<attempt, checkVars, dist, published>>

BuildFails ==
  /\ Goes("build", "unbuilt")
  /\ ~Buildable
  /\ RunOnly /\ UNCHANGED <<attempt, checkVars, artifact, dist, published>>

\* The store loses or alters a file, or the manifest: one of them, as one is enough
\* for the artifact to be refused.
StoreFails ==
  /\ artifact.manifest # Unreadable /\ artifact.files = Built(event.commit, attempt)
  /\ \/ \E f \in DOMAIN artifact.files :
          \/ artifact' = [artifact EXCEPT !.files[f] = <<0, 0, f>>]
          \/ artifact' = [artifact EXCEPT !.files =
                             [g \in DOMAIN artifact.files \ {f} |-> artifact.files[g]]]
     \/ artifact' = [artifact EXCEPT !.manifest = Unreadable]
  /\ RunOnly /\ UNCHANGED <<pc, attempt, checkVars, dist, published>>

-----------------------------------------------------------------------------
(* The publish job: verify of release-provenance.py, verify of             *)
(* release-artifact.py, the upload.                                        *)

PublishOnly == RunOnly /\ UNCHANGED <<attempt, artifact, published>>

\* Each check either goes on or rejects the release.
Checks(from, ok, to) == pc = from /\ pc' = IF ok THEN to ELSE "refused"

\* The checkout brings the tag as it is now; validate_tag_state sees later that it
\* is not the one of the event.
Checkout ==
  /\ Checks("queued", event.created /\ tagAt = event.commit, "tag")
  /\ PublishOnly /\ UNCHANGED <<checkVars, dist>>

\* validate_tag_state, for the mirror's main as it is fetched now, and
\* parse_source_revision.
TagState == event.commit = mirror /\ Len(Tagged.labels) = 1

CheckTag ==
  /\ Checks("tag", TagState, "source")
  /\ source' = IF TagState THEN Tagged.labels[1] ELSE source
  /\ seen' = <<>> /\ page' = 1
  /\ PublishOnly /\ UNCHANGED dist

\* Whether a link leads out of the archive: at some point of its way, from the
\* directory that holds it, more names have been left than entered.
Escapes(path, target) ==
  LET way == Front(path) \o target
      Ups(n) == Cardinality({i \in 1..n : way[i] = ".."})
  IN  \E n \in DOMAIN way : Ups(n) > n - Ups(n)

\* Mutant of Extracted: a link may not go up at all.
BugNoParent(s) ==
  \A p \in DOMAIN Repo[s] :
    Repo[s][p].mode = "120000" => \A i \in DOMAIN Repo[s][p].text : Repo[s][p].text[i] # ".."

\* extract_archive
Extracted(s) ==
  \A p \in DOMAIN Repo[s] : Repo[s][p].mode = "120000" => ~Escapes(p, Repo[s][p].text)

\* Mutant of TreeMatches: only what the export has is compared.
BugExtraIgnored(s, tree) ==
  /\ MapExport \in DOMAIN tree
  /\ LET expected == Expected(Repo[s], Component, MapIn[tree[MapExport].text])
     IN  /\ expected # Failed /\ DOMAIN expected \subseteq DOMAIN tree
         /\ \A p \in DOMAIN expected : tree[p] = expected[p]

\* load_components, expected_export_tree and compare_trees: the component map is
\* the mirror's own.
TreeMatches(s, tree) ==
  /\ MapExport \in DOMAIN tree
  /\ LET expected == Expected(Repo[s], Component, MapIn[tree[MapExport].text])
     IN  expected # Failed /\ expected = tree

\* parse_required_checks
RequiredParsed(s) ==
  /\ RequiredChecks \in DOMAIN Repo[s]
  /\ Required(s) # <<>> /\ IsInjective(Required(s))

\* What the archive of a canonical commit settles, apart from the mirror and with it.
Usable == {s \in Commits : Extracted(s) /\ RequiredParsed(s)}
Matching == {x \in Contents \X Usable : TreeMatches(x[2], Content[x[1]].tree)}

\* Canonical main is read once; what follows is of one commit and cannot change.
CheckSource ==
  /\ Checks("source", OnMain(source) /\ <<event.content, source>> \in Matching, "run")
  /\ PublishOnly /\ UNCHANGED <<checkVars, dist>>

\* select_workflow_run
CheckRun ==
  /\ Checks("run", /\ ci[source].status = "completed"
                   /\ \A n \in Names : ci[source].checks[n] # "failure", "checks")
  /\ PublishOnly /\ UNCHANGED <<checkVars, dist>>

\* A page of the checks of a commit as the API lists them, those of other workflows
\* too.
Listed(s, p) ==
  LET order == ci[s].order
      batch == SubSeq(order, (p - 1) * PageSize + 1,
                      IF p * PageSize <= Len(order) THEN p * PageSize ELSE Len(order))
  IN  [i \in DOMAIN batch |->
         [name |-> batch[i],
          conclusion |-> IF batch[i] \in Names THEN ci[s].checks[batch[i]] ELSE "success"]]
Full(s, p) == p * PageSize <= Len(ci[s].order)

\* Mutant of Allowed: every check may be skipped.
BugMaySkip(n) == {"success", "skipped"}

Allowed(n) == IF n \in AlwaysSuccess THEN {"success"} ELSE {"success", "skipped"}

\* verify_required_checks
ChecksPass(required, listed) ==
  LET ours == {i \in DOMAIN listed : listed[i].name \in Names}
  IN  /\ \A i, j \in ours : listed[i].name = listed[j].name => i = j
      /\ {listed[i].name : i \in ours} = ToSet(required)
      /\ \A i \in ours : listed[i].conclusion \in Allowed(listed[i].name)

\* paged: the list goes on after a page that is full, and is judged after one that
\* is not.
ReadFullPage ==
  /\ pc = "checks" /\ Full(source, page)
  /\ seen' = seen \o Listed(source, page) /\ page' = page + 1
  /\ PublishOnly /\ UNCHANGED <<pc, source, dist>>

ReadLastPage ==
  /\ pc = "checks" /\ ~Full(source, page)
  /\ pc' = IF ChecksPass(Required(source), seen \o Listed(source, page))
           THEN "artifact" ELSE "refused"
  /\ seen' = <<>> /\ page' = 1
  /\ PublishOnly /\ UNCHANGED <<source, dist>>

CheckArtifact ==
  /\ Checks("artifact", Verified(artifact.manifest, Context(source), artifact.files), "publish")
  /\ dist' = artifact.files
  /\ PublishOnly /\ UNCHANGED checkVars

\* The index takes a version once.
Publish ==
  /\ pc = "publish"
  /\ IF \E p \in published : p.version = event.version
     THEN pc' = "refused" /\ UNCHANGED published
     ELSE /\ pc' = "published"
          /\ published' = published \cup
               {[commit |-> event.commit, content |-> event.content, attempt |-> attempt,
                 source |-> source, version |-> event.version, files |-> dist]}
  /\ RunOnly /\ UNCHANGED <<attempt, checkVars, artifact, dist>>

\* A request that fails ends the job, and what it had read is gone.
Outage ==
  /\ pc \in Reading \cup {"queued", "publish"}
  /\ pc' = "outage"
  /\ source' = NoSource /\ seen' = <<>> /\ page' = 1 /\ dist' = <<>>
  /\ PublishOnly

-----------------------------------------------------------------------------
(* Somebody runs it again: the jobs that failed, or all of them.           *)

Repeats(from, to) ==
  /\ pc \in from /\ attempt < MaxAttempts
  /\ pc' = to /\ attempt' = attempt + 1
  /\ RunOnly /\ UNCHANGED <<checkVars, artifact, dist, published>>

RepeatFailed == Repeats({"refused", "outage"}, "queued")
RepeatAll == Repeats({"refused", "outage", "unbuilt", "published"}, "build")

JobStep ==
  \/ Build \/ BuildFails
  \/ Checkout \/ CheckTag \/ CheckSource \/ CheckRun \/ ReadFullPage \/ ReadLastPage
  \/ CheckArtifact \/ Publish

Next ==
  \/ MainAdvances
  \/ \E s \in Commits : CiStarts(s) \/ CiEnds(s) \/ CrateReleased(s)
  \/ MirrorAdvances \/ PushTag \/ TagMoves
  \/ JobStep \/ StoreFails \/ Outage
  \/ RepeatFailed \/ RepeatAll

\* A job that runs goes on; nobody has to merge, tag or repeat anything.
Spec == Init /\ [][Next]_vars /\ WF_vars(JobStep)

-----------------------------------------------------------------------------
(* Safety.                                                                 *)

\* What is published was built, by the attempt that published it, from a commit
\* that holds exactly the export of one canonical commit on main, by that commit's
\* own component map.
PublishedIsExport ==
  \A p \in published :
    LET m == Content[p.content]
    IN  /\ m.labels = <<p.source>>
        /\ OnMain(p.source)
        /\ m.tree = Exported(Repo[p.source], Component)
        /\ p.files = Built(p.commit, p.attempt)

\* And the CI of that canonical commit was once all green ("Authorize mirror releases
\* against ... CI provenance", release-provenance.py, line 2; checks that may not even
\* be skipped, lines 26-30).
PublishedWasGreen == \A p \in published : p.source \in wasGreen

\* When it was.  Either the gate is the only required check that may not be skipped,
\* so that its success says all of a run; or the checks of a commit fit on a page, so
\* that they are read at once, and those that may not be skipped are required of
\* every commit.
GateDecides == Names \cap AlwaysSuccess = {Gate}
OnePage ==
  /\ \A o \in CheckOrders : Len(o) < PageSize
  /\ \A s \in Commits : Names \cap AlwaysSuccess \subseteq ToSet(Required(s))

\* In either case the CI of what is published was once all green, although the run,
\* the pages of its checks, the tag and the artifact are read at different times and
\* all of them change.
GreenIfReadAtOnce == GateDecides \/ OnePage => PublishedWasGreen

\* A crate whose lock is right for the bump: it pins every requirement at a
\* version it admits, a sibling's at the version of the workspace, the others' at
\* one that the registry had before.
Honest(x) ==
  \A r \in x.requirements :
    IF r \in x.siblings
    THEN <<r.name, r.wanted>> \in x.pins
    ELSE \E v \in r.allows : <<r.name, v>> \in x.pins \cap ThirdParty

\* No sibling of x overtook it: one that is on the registry in a version x admits is
\* there in the version x wants.  Cargo has nothing to name as missing otherwise.
InOrder(x) ==
  \A r \in x.siblings :
    (\E v \in r.allows : <<r.name, v>> \in registry) => <<r.name, r.wanted>> \in registry

\* Whatever part of a bump is on the registry, CI does not refuse a right lock for
\* what is missing; and when all of its siblings are there, it lets no lock pass
\* that cargo would not.
LockGate ==
  \A s \in Sound : \A x \in CratesOf(s) : \A reported \in Reports(x, registry) :
    /\ Honest(x) /\ InOrder(x) => LockAccepted(x, registry, reported)
    /\ /\ LockAccepted(x, registry, reported)
       /\ \A r \in x.siblings : <<r.name, r.wanted>> \in registry
       => CargoAgrees(x, registry)

-----------------------------------------------------------------------------
(* Liveness.                                                               *)

\* Nothing stands against the release: a new tag on the mirror's main, which is a
\* proper export of a commit on canonical main, all green now, and an artifact as
\* this attempt built it.
Legitimate ==
  /\ event.created /\ tagAt = event.commit /\ event.commit = mirror
  /\ \E s \in Commits :
       /\ Tagged.labels = <<s>> /\ OnMain(s)
       /\ <<event.content, s>> \in ExportOf
       /\ ci[s].status = "completed" /\ Green(ci[s].checks)
       /\ ToSet(Required(s)) = Names
       /\ artifact.manifest = CreateManifest(Context(s), artifact.files)
  /\ artifact.files = Built(event.commit, attempt)
  /\ published = {}

\* Such a release is published, unless something moves meanwhile.
LegitimateIsPublished ==
  (pc = "queued" /\ Legitimate) ~>
    (published # {} \/ pc = "outage" \/ ~Legitimate)
=============================================================================
