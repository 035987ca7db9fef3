-------------------------- MODULE ReleaseManifest --------------------------
(***************************************************************************)
(* The manifest that goes with the files of a release                      *)
(* (.github/release-artifact.py): create writes what was built, where and  *)
(* by which attempt of which run; verify compares it with what arrives.    *)
(***************************************************************************)
EXTENDS Naturals, FiniteSets

Unreadable == [schema |-> 0, context |-> {}, files |-> {}]

\* A digest stands for the content it is of.
Digest(content) == <<"sha256", content>>

\* artifact_files, for a directory without links.
Inventory(files) == {[path |-> p, sha256 |-> Digest(files[p])] : p \in DOMAIN files}

CreateManifest(context, files) ==
  [schema |-> 1, context |-> context, files |-> Inventory(files)]

\* Mutant of Verified: the files are not compared.
BugContextOnly(manifest, context, files) ==
  manifest.schema = 1 /\ manifest.context = context

\* load_manifest and verify.
Verified(manifest, context, files) ==
  /\ manifest.schema = 1
  /\ manifest.context = context
  /\ \A e, f \in manifest.files : e.path = f.path => e = f
  /\ {e.path : e \in manifest.files} = DOMAIN files
  /\ \A e \in manifest.files : Digest(files[e.path]) = e.sha256
=============================================================================
