----------------------------- MODULE MCRelease -----------------------------
(***************************************************************************)
(* The Python SDK is released.  Canonical main has one commit, which       *)
(* raises all versions to 2; two more were never merged: one whose lock    *)
(* pins an old third-party crate, one that requires a version of a sibling *)
(* that nobody releases.  hop-relayd requires two siblings.                *)
(***************************************************************************)
EXTENDS Release

File(text) == [mode |-> "100644", text |-> text]
Tree(paths, text) == [p \in paths |-> File(<<text>>)]

Core == <<"core", "hop-core">>
Relayd == <<"services", "hop-relayd">>

Plain == Tree({x.from : x \in SharedExports \cup NativeExports \cup RustExports} \cup
              {<<"tools", "copybara", "elixir-native-Cargo.toml">>,
               <<"tools", "copybara", "elixir-native-Cargo.lock">>, HopHeader,
               <<"sdk", "python", "CLAUDE.md">>, <<"sdk", "go", "go.mod">>,
               <<"sdk", "elixir", "native", "hop_endpoint", "Cargo.lock">>,
               <<"core", "hop", "CLAUDE.md">>, <<"core", "hop", "lib.rs">>,
               <<"core", "hop-endpoint", "lib.rs">>,
               <<"core", "stores", "hop-store-sqlite", "lib.rs">>,
               Core \o ReleaseWorkflow, Relayd \o ReleaseWorkflow}, "text")

Cargo(lines) == File(<<"[package]">> \o lines)

RepoWith(sibling, lock) ==
  (CargoToml :> File(<<"version 2">>)) @@
  (MapSource :> File(<<"map">>)) @@ (Sky :> File(<<"sky">>)) @@
  (RequiredChecks :> File(<<"required">>)) @@
  (<<".claude", "skills", "audit">> :>
     [mode |-> "120000", text |-> <<"..", "..", ".agents", "skills", "audit">>]) @@
  (<<"sdk", "python", "pyproject.toml">> :> File(<<"version 2">>)) @@
  (<<"sdk", "python", "run.sh">> :> [mode |-> "100755", text |-> <<"text">>]) @@
  (<<"sdk", "go", "hop.go">> :> File(<<"#cgo target/debug", "code">>)) @@
  (<<"sdk", "elixir">> \o ElixirManifest :> File(<<"hop = { path }", "", "[workspace]">>)) @@
  (Core \o CargoToml :> Cargo(<<"name = hop-core", "sha2 = 1">>)) @@
  (Core \o CargoLock :> File(<<"lock">>)) @@
  (Relayd \o CargoToml :> Cargo(<<"name = hop-relayd", sibling, "store = 2", "sha2 = 1">>)) @@
  (Relayd \o CargoLock :> File(<<lock>>)) @@ Plain

MCCommits == {"bump", "stale", "ahead"}
MCHistory == <<"bump">>
MCRepo == "bump" :> RepoWith("core = 2", "lock") @@
          "stale" :> RepoWith("core = 2", "old lock") @@
          "ahead" :> RepoWith("core = 3", "lock of 3")

Requires(name, version) == [name |-> name, wanted |-> version, allows |-> {version}]
MCRequiresIn == "core = 2" :> Requires("hop-mesh-core", "2") @@
                "core = 3" :> Requires("hop-mesh-core", "3") @@
                "store = 2" :> Requires("hop-mesh-store-sqlite", "2") @@
                "sha2 = 1" :> [name |-> "sha2", wanted |-> "1", allows |-> {"1", "1.1"}]
LockOf(core, sha) ==
  {<<"hop-mesh-core", core>>, <<"hop-mesh-store-sqlite", "2">>, <<"sha2", sha>>}
MCPinsIn == <<"lock">> :> LockOf("2", "1.1") @@ <<"old lock">> :> LockOf("2", "0.9") @@
            <<"lock of 3">> :> LockOf("3", "1.1")
MCThirdParty == {<<"sha2", "0.9">>, <<"sha2", "1">>, <<"sha2", "1.1">>}
MCVersionIn == <<"version 2">> :> "2" @@ <<"version 1">> :> "1"

Entry(prefix, rename) == [prefix |-> prefix, rename |-> rename]
MapWith(python) ==
  "hop-sdk-python" :> Entry(python, <<>>) @@
  Go :> Entry(<<"sdk", "go">>, <<>>) @@ Elixir :> Entry(<<"sdk", "elixir">>, <<>>) @@
  "hop-core" :> Entry(Core, <<"name = hop-core", "name = hop-mesh-core">>) @@
  "hop-relayd" :> Entry(Relayd, <<>>)
MCMapIn == <<"map">> :> MapWith(<<"sdk", "python">>) @@
           <<"other map">> :> MapWith(<<"core", "hop">>)
MCSkyIn == <<"sky">> :>
  [tuples |-> LET map == MapWith(<<"sdk", "python">>)
              IN  {<<map[c].prefix, c>> : c \in DOMAIN map},
   renames |-> {"hop-mesh-core", "hop-mesh-store-sqlite"},
   preamble |-> <<"[workspace]", "repository = monorepo", "[package]">>]

MCRequiredIn == <<"required">> :> <<"Package exports", "Unit tests", Gate>>
MCCheckOrders == {<<"Unit tests", "lint", Gate, "Package exports">>,
                  <<Gate, "Package exports", "lint", "Unit tests">>}

\* The export of the commit, also named by the one that was never merged; a
\* commit with its label twice; and trees that somebody has touched.
Mirrored == Expected(MCRepo["bump"], "hop-sdk-python", MapWith(<<"sdk", "python">>))
MCContent ==
  "export" :> [tree |-> Mirrored, labels |-> <<"bump">>] @@
  "unmerged" :> [tree |-> Mirrored, labels |-> <<"stale">>] @@
  "two labels" :> [tree |-> Mirrored, labels |-> <<"bump", "bump">>] @@
  "file added" :> [tree |-> (<<"added">> :> File(<<"text">>)) @@ Mirrored, labels |-> <<"bump">>] @@
  "map" :> [tree |-> [Mirrored EXCEPT ![MapExport].text = <<"other map">>],
            labels |-> <<"bump">>]
MCContents == DOMAIN MCContent

\* For MixedPages: all three checks that may not be skipped are required, and two of
\* them are on different pages.
MixedRequiredIn == <<"required">> :>
  <<"Detect changed areas", "Automation authority guards", "Package exports", Gate>>
MixedCheckOrders ==
  {<<"Detect changed areas", "lint", "Package exports", "Automation authority guards", Gate>>}
MixedContents == {"export"}
=============================================================================
