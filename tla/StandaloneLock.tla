--------------------------- MODULE StandaloneLock ---------------------------
(***************************************************************************)
(* The check of the exported packages that CI runs (static_check of        *)
(* .github/package-export-smoke.py), and in it the lock file of a crate    *)
(* that is released on its own (verify_standalone_lock).                   *)
(*                                                                         *)
(* When all versions are raised together, a crate requires siblings of a   *)
(* version that no registry has, and that can be released only when this   *)
(* check has passed.  So a sibling that is missing at exactly the version  *)
(* of the workspace is not a failure.                                      *)
(***************************************************************************)
EXTENDS ExportTree

CONSTANTS
  VersionIn,    \* from a manifest's text to the version it declares
  RequiresIn,   \* from a line of Cargo.toml to the requirement in it:
                \* [name, wanted, allows], allows being the versions it admits
  PinsIn        \* from a text of Cargo.lock to the <<name, version>> it pins

\* A requirement names the first of the versions it admits.
ASSUME RequirementAssumption ==
  \A l \in DOMAIN RequiresIn : RequiresIn[l].wanted \in RequiresIn[l].allows

CargoLock == <<"Cargo.lock">>
ReleaseWorkflow == <<".github", "workflows", "release.yml">>

\* The names our crates have on crates.io, and the version being released.
PublishedCrates(repo) == SkyIn[repo[Sky].text].renames \cup {"hop-wasm"}
Anchor(repo) == VersionIn[repo[CargoToml].text]

Tolerable(repo, r) == r.name \in PublishedCrates(repo) /\ r.wanted = Anchor(repo)

ComponentMap(repo) == MapIn[repo[MapSource].text]
Exported(repo, c) == Expected(repo, c, ComponentMap(repo))
HasLock(c, tree) == c \in RustMirrors /\ ReleaseWorkflow \in DOMAIN tree

\* What the check knows of a crate: what it requires, what its lock pins, and
\* which of its requirements may be missing from the registry.
Crate(repo, tree) ==
  LET requirements ==
        {RequiresIn[l] : l \in ToSet(tree[CargoToml].text) \cap DOMAIN RequiresIn}
  IN  [requirements |-> requirements, pins |-> PinsIn[tree[CargoLock].text],
       siblings |-> {r \in requirements : Tolerable(repo, r)}]

Crates(repo) ==
  {Crate(repo, Exported(repo, c)) :
     c \in {d \in DOMAIN ComponentMap(repo) : HasLock(d, Exported(repo, d))}}

-----------------------------------------------------------------------------
(* verify_standalone_lock.                                                 *)

\* cargo metadata --locked succeeds: each requirement is pinned at a version it
\* admits and the registry has.
CargoAgrees(crate, registry) ==
  \A r \in crate.requirements : \E v \in r.allows : <<r.name, v>> \in crate.pins \cap registry

\* What cargo's message may name when it fails: some of what it cannot resolve
\* (it need not go on after the first), nothing when the lock is merely stale.
Reports(crate, registry) ==
  LET unresolved ==
        {r \in crate.requirements : \A v \in r.allows : <<r.name, v>> \notin registry}
  IN  IF unresolved = {} THEN {{}} ELSE (SUBSET unresolved) \ {{}}

\* Mutant of LockAccepted: that cargo names nothing it misses is overlooked, and
\* the empty set is within the siblings.
BugNothingNamed(crate, registry, reported) ==
  \/ CargoAgrees(crate, registry)
  \/ /\ reported \subseteq crate.siblings
     /\ \A r \in reported : <<r.name, r.wanted>> \in crate.pins
     /\ \A r \in crate.requirements : \E p \in crate.pins : p[1] = r.name

\* The strict check; or only siblings are missing, the lock pins them as wanted,
\* and has some version of everything else.
LockAccepted(crate, registry, reported) ==
  \/ CargoAgrees(crate, registry)
  \/ /\ reported # {} /\ reported \subseteq crate.siblings
     /\ \A r \in reported : <<r.name, r.wanted>> \in crate.pins
     /\ \A r \in crate.requirements : \E p \in crate.pins : p[1] = r.name

-----------------------------------------------------------------------------
(* static_check.                                                           *)

\* check_copybara_contract: Copybara moves what the component map says.
ContractHolds(repo) ==
  LET map == ComponentMap(repo)
  IN  SkyIn[repo[Sky].text].tuples = {<<map[c].prefix, c>> : c \in DOMAIN map}

\* What does not depend on the registry.
ExportsSound(repo) ==
  /\ ContractHolds(repo)
  /\ \A c \in DOMAIN ComponentMap(repo) :
       LET tree == Exported(repo, c)
       IN  /\ tree # Failed /\ <<"CLAUDE.md">> \notin DOMAIN tree
           /\ HasLock(c, tree) => CargoLock \in DOMAIN tree
=============================================================================
