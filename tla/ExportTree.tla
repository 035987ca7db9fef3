----------------------------- MODULE ExportTree -----------------------------
(***************************************************************************)
(* What the mirror of a component must hold: expected_export_tree of       *)
(* .github/package-export-smoke.py.  CI builds every component's tree with *)
(* it, and a release is allowed only for a mirror that holds exactly this  *)
(* tree.                                                                   *)
(*                                                                         *)
(* A path is the sequence of its names, a tree a function from paths to    *)
(* files, a file its mode and its lines (of a symbolic link, the names of  *)
(* its target).  What a helper raises is the empty tree: no export has it. *)
(***************************************************************************)
EXTENDS Naturals, Sequences, FiniteSets, SequencesExt

CONSTANTS
  MapIn,   \* from a text of components.json to the component map in it
  SkyIn    \* from a text of copy.bara.sky to [tuples, renames, preamble]

Failed == <<>>

Elixir == "hop-sdk-elixir"
Go == "hop-sdk-go"
Android == "hop-sdk-android"
RustMirrors == {"hop-core", "libhop", "hop-wasm", "hop-store-sqlite",
                "hop-store-firestore", "hop-relayd", "hop-endpoint", "hop-gateway"}
NativeComponents == {Go, "hop-sdk-apple", Android, "hop-embedded"}

CargoToml == <<"Cargo.toml">>
MapSource == <<"tools", "copybara", "components.json">>
MapExport == <<".github", "components.json">>
Sky == <<"tools", "copybara", "copy.bara.sky">>
HopHeader == <<"sdk", "hop.h">>

Copy(from, to) == [from |-> from, to |-> to]

SharedExports == {
  Copy(<<"tools", "release-provenance.py">>, <<".github", "release-provenance.py">>),
  Copy(<<"tools", "release-artifact.py">>, <<".github", "release-artifact.py">>),
  Copy(MapSource, MapExport),
  Copy(<<"tools", "package-export-smoke.py">>, <<".github", "package-export-smoke.py">>)}

NativeExports ==
  {Copy(<<"tools", f>>, <<"native", f>>) :
     f \in {"native-artifacts.py", "native-artifacts.schema.json",
            "native-artifacts-public.pem"}}

RustExports ==
  {Copy(<<"tools", "crates-publish.py">>, <<".github", "crates-publish.py">>)}

ElixirVendor == {
  Copy(<<"core", "hop-core">>, <<"native", "vendor", "hop-core">>),
  Copy(<<"core", "hop-endpoint">>, <<"native", "vendor", "hop-endpoint-core">>),
  Copy(<<"core", "stores", "hop-store-sqlite">>, <<"native", "vendor", "hop-store-sqlite">>),
  Copy(<<"core", "hop">>, <<"native", "vendor", "libhop">>)}

\* The files a component gets from outside its own directory.
FileCopies(c) ==
  SharedExports
  \cup (IF c \in NativeComponents THEN NativeExports ELSE {})
  \cup (IF c \in RustMirrors THEN RustExports ELSE {})
  \cup (CASE c = Go -> {Copy(HopHeader, <<"hop.h">>)}
          [] c = Android -> {Copy(HopHeader, <<"include", "hop.h">>)}
          [] c = Elixir ->
               {Copy(<<"tools", "copybara", "elixir-native-Cargo.toml">>,
                     <<"native", "Cargo.toml">>),
                Copy(<<"tools", "copybara", "elixir-native-Cargo.lock">>,
                     <<"native", "Cargo.lock">>)}
          [] OTHER -> {})

-----------------------------------------------------------------------------
(* add_tree, add_file and replace_text.                                    *)

Within(repo, dir) == {p \in DOMAIN repo : IsStrictPrefix(dir, p)}
Relative(path, dir) == SubSeq(path, Len(dir) + 1, Len(path))

TreeCopies(repo, tree, excluded) ==
  {Copy(p, tree.to \o Relative(p, tree.from)) :
     p \in {q \in Within(repo, tree.from) : Relative(q, tree.from) \notin excluded}}

\* Every source must exist, and no destination may be given twice.
Assembled(repo, copies) ==
  IF /\ \A x \in copies : x.from \in DOMAIN repo
     /\ \A x, y \in copies : x.to = y.to => x = y
  THEN [p \in {x.to : x \in copies} |-> repo[(CHOOSE x \in copies : x.to = p).from]]
  ELSE Failed

Occurrences(text, before) ==
  {i \in 1..(Len(text) + 1 - Len(before)) :
     SubSeq(text, i, i + Len(before) - 1) = before}

\* The anchor must be in the file exactly once.
Replace(tree, path, before, after) ==
  IF path \in DOMAIN tree /\ Cardinality(Occurrences(tree[path].text, before)) = 1
  THEN [tree EXCEPT ![path].text = ReplaceFirstSubSeq(after, before, @)]
  ELSE Failed

-----------------------------------------------------------------------------

\* The edits, in the order in which each finds its anchor: the crate is renamed,
\* then its [package] line becomes the workspace preamble, which brings a line
\* naming the monorepo, which becomes one naming the mirror.
ElixirManifest == <<"native", "hop_endpoint", "Cargo.toml">>

OwnEdit(c, tree) ==
  CASE c = Elixir -> Replace(tree, ElixirManifest,
                             <<"hop = { path }", "", "[workspace]">>, <<"hop = { workspace }">>)
    [] c = Go -> Replace(tree, <<"hop.go">>, <<"#cgo target/debug">>, <<"#cgo pkg-config: hop">>)
    [] OTHER -> tree

Renamed(rename, tree) ==
  IF rename = <<>> THEN tree
  ELSE Replace(tree, CargoToml, <<"[package]", rename[1]>>, <<"[package]", rename[2]>>)

Standalone(repo, c, tree) ==
  IF c \notin RustMirrors THEN tree
  ELSE Replace(Replace(tree, CargoToml, <<"[package]">>, SkyIn[repo[Sky].text].preamble),
               CargoToml, <<"repository = monorepo">>, <<"repository = mirror">>)

\* A directory's own CLAUDE.md stays behind; those further down do not.
Excluded(c) ==
  {<<"CLAUDE.md">>}
  \cup (IF c = Elixir THEN {<<"native", "hop_endpoint", "Cargo.lock">>} ELSE {})

\* expected_export_tree, with the component map as an argument: CI takes the
\* repository's own, the release check the one it finds in the mirror.
Expected(repo, c, map) ==
  LET own == Copy(map[c].prefix, <<>>)
      vendored == IF c = Elixir THEN ElixirVendor ELSE {}
      copies == TreeCopies(repo, own, Excluded(c)) \cup FileCopies(c)
                \cup UNION {TreeCopies(repo, t, {<<"CLAUDE.md">>}) : t \in vendored}
  IN  IF c \in DOMAIN map /\ \A t \in vendored \cup {own} : Within(repo, t.from) # {}
      THEN Standalone(repo, c, Renamed(map[c].rename, OwnEdit(c, Assembled(repo, copies))))
      ELSE Failed
=============================================================================
