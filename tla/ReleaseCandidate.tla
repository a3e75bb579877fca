-------------------------- MODULE ReleaseCandidate --------------------------
(***************************************************************************)
(* Generate of the release-candidate tool: list the tracked files, filter  *)
(* them, read the revision, clear the output directory, copy the files of  *)
(* the working tree, replace .gitignore, archive the copy, and write the   *)
(* listing and last the manifest.  Any step may fail, a deferred Close may *)
(* lose what was written without failing, and somebody works in the        *)
(* repository meanwhile.                                                   *)
(***************************************************************************)
EXTENDS Naturals, Sequences, FiniteSets, SequencesExt

CONSTANTS
  Paths,      \* every path, in the order of sort.Strings
  Trimmed,    \* a path after TrimSpace
  Excluded,   \* paths that includePath refuses
  Gitignore,  \* ".gitignore"
  Initial,    \* paths tracked at first
  Absent, Directory,  \* no file, or not a regular one
  Public,     \* publicGitignore
  Torn,       \* a part of a file
  Link, Target, \* a symbolic link, and where one at a path would lead
  MaxChanges, \* bound: changes to the repository
  MaxRuns     \* bound: runs of the tool

Files == {Paths[i] : i \in DOMAIN Paths}

Versions == 0 .. MaxChanges
\* What is at a path; only a version is a regular file of the repository.
Contents == Versions \cup {Absent, Directory, Public, Torn, Link}

ASSUME PathsAssumption ==
  /\ Paths \in Seq(STRING) /\ Trimmed \in [Files -> Files] /\ Excluded \subseteq Files /\ Gitignore \in Files
  /\ Initial \subseteq Files /\ \A c \in {Absent, Directory, Public, Torn, Link} : c \notin Versions
  /\ Absent \notin {Directory, Public, Torn, Link} /\ Torn # Public
  /\ DOMAIN Target \subseteq Files /\ \A f \in DOMAIN Target : Target[f] \in Files \ DOMAIN Target
  /\ \A i, j \in DOMAIN Paths : i # j => Paths[i] # Paths[j]
  /\ MaxChanges \in Nat /\ MaxRuns \in Nat \ {0}

Empty == [f \in Files |-> Absent]

VARIABLES
  index,      \* paths git ls-files --cached prints
  worktree,   \* the repository's working tree
  commits,    \* the trees of the revisions, HEAD last
  changes,    \* changes so far
  pc, runs,
  included,   \* sorted paths of the candidate
  copied,     \* how many of them are copied
  revision,   \* git rev-parse HEAD
  tree, archive, listing, manifest,  \* the output directory
  clean,      \* history: HEAD, index and working tree agreed until all was copied
  lost,       \* history: a Close failed unnoticed since the directory was cleared
  halfReset   \* history: the last RemoveAll failed

repoVars == <<index, worktree, commits, changes>>
outVars  == <<tree, archive, listing, manifest>>
vars     == <<repoVars, pc, runs, included, copied, revision, outVars, clean, lost, halfReset>>

NoArchive  == [members |-> Empty, state |-> "none"]
NoManifest == [files |-> <<>>, revision |-> 0, state |-> "none"]

HeadTree == commits[Len(commits)]

Init ==
  /\ index = Initial
  /\ worktree = [f \in Files |-> 0]
  /\ commits = <<[f \in Files |-> IF f \in Initial THEN 0 ELSE Absent]>>
  /\ changes = 0 /\ pc = "idle" /\ runs = 0
  /\ included = <<>> /\ copied = 0 /\ revision = 0
  /\ tree = Empty /\ archive = NoArchive /\ listing = <<>> /\ manifest = NoManifest
  /\ clean = FALSE /\ lost = FALSE /\ halfReset = FALSE

-----------------------------------------------------------------------------
(* The repository's other users.                                           *)

Change ==
  /\ changes < MaxChanges /\ changes' = changes + 1
  /\ clean' = (clean /\ pc \notin {"listed", "revised", "copying"})
  /\ UNCHANGED <<pc, runs, included, copied, revision, outVars, lost, halfReset>>

\* What git tracks at a path.
Trackable == Versions \cup {Link}

\* A file is edited, removed, or made a directory or a link.
EditFile ==
  /\ Change
  /\ \E f \in Files, c \in {changes + 1, Absent, Directory, Link} :
       /\ c = Link => f \in DOMAIN Target
       /\ worktree' = [worktree EXCEPT ![f] = c]
  /\ UNCHANGED <<index, commits>>

Track ==
  /\ Change
  /\ \E f \in Files :
       /\ worktree[f] \in Trackable
       /\ index' = IF f \in index THEN index \ {f} ELSE index \cup {f}
  /\ UNCHANGED <<worktree, commits>>

\* git commit -a
Commit ==
  /\ Change
  /\ LET new == [f \in Files |-> IF f \in index /\ worktree[f] \in Trackable THEN worktree[f] ELSE Absent] IN
       /\ commits' = Append(commits, new)
       /\ index' = {f \in index : new[f] # Absent}
  /\ UNCHANGED worktree

-----------------------------------------------------------------------------
(* The tool.                                                               *)

Fail == pc' = "failed"

\* Mutated form of IncludePath: the path is not trimmed before the rules are asked.
IncludeUntrimmed(f) == f \notin Excluded

IncludePath(f) == Trimmed[f] \notin Excluded

Kept(tracked) == {Trimmed[f] : f \in {g \in tracked : IncludePath(g)}}

Sorted(paths) ==
  \A i, j \in DOMAIN paths : i < j =>
    \E m, n \in DOMAIN Paths : m < n /\ Paths[m] = paths[i] /\ Paths[n] = paths[j]

\* Mutated form of Filtered: without the map of the paths seen.
FilteredAgain(tracked) ==
  LET kept == {g \in tracked : IncludePath(g)}
  IN  {paths \in [1 .. Cardinality(kept) -> Kept(tracked)] : \A f \in Kept(tracked) : Contains(paths, f)}

\* filterTrackedFiles: trimmed, filtered, without repetition, sorted.
Filtered(tracked) ==
  {paths \in [1 .. Cardinality(Kept(tracked)) -> Kept(tracked)] : Sorted(paths)}

TreeIsHead ==
  \A f \in Files : /\ f \in index <=> HeadTree[f] # Absent
                   /\ f \in index => worktree[f] = HeadTree[f]

ListFiles ==
  /\ pc = "idle" /\ runs < MaxRuns /\ runs' = runs + 1
  /\ \/ included' \in Filtered(index) /\ pc' = "listed"
     \/ included' = included /\ Fail
  /\ clean' = TreeIsHead /\ copied' = 0
  /\ UNCHANGED <<repoVars, revision, outVars, lost, halfReset>>

GitRevision ==
  /\ pc = "listed"
  /\ \/ revision' = Len(commits) /\ pc' = "revised"
     \/ revision' = revision /\ Fail
  /\ UNCHANGED <<repoVars, runs, included, copied, outVars, clean, lost, halfReset>>

\* Mutated form of Cleared: the manifest stays until the new one is written.
ClearedButManifest == tree' = Empty /\ archive' = NoArchive /\ listing' = <<>> /\ UNCHANGED manifest

Cleared == tree' = Empty /\ archive' = NoArchive /\ listing' = <<>> /\ manifest' = NoManifest

\* os.RemoveAll goes on after an error and leaves what it could not remove.
ResetOutput ==
  /\ pc = "revised"
  /\ \/ Cleared /\ lost' = FALSE /\ halfReset' = FALSE /\ pc' \in {"copying", "failed"}
     \/ /\ \E gone \in SUBSET Files :
             tree' = [f \in Files |-> IF f \in gone THEN Absent ELSE tree[f]]
        /\ archive' \in {archive, NoArchive} /\ listing' \in {listing, <<>>}
        /\ manifest' \in {manifest, NoManifest}
        /\ halfReset' = TRUE /\ Fail /\ UNCHANGED lost
  /\ UNCHANGED <<repoVars, runs, included, copied, revision, clean>>

\* os.Open follows a link.
Opened(files, f) == IF files[f] = Link THEN files[Target[f]] ELSE files[f]

\* A copy of what is in the working tree now, or what a failed Close leaves of it.
CopyFile ==
  /\ pc = "copying" /\ copied < Len(included)
  /\ LET f == included[copied + 1]
         file == Opened(worktree, f)
     IN
     \/ /\ file \in Versions
        /\ tree' = [tree EXCEPT ![f] = file]
        /\ copied' = copied + 1 /\ UNCHANGED <<pc, lost>>
     \/ /\ file \in Versions
        /\ tree' = [tree EXCEPT ![f] = Torn]
        /\ \/ lost' = TRUE /\ copied' = copied + 1 /\ UNCHANGED pc
           \/ Fail /\ UNCHANGED <<lost, copied>>
     \/ Fail /\ UNCHANGED <<tree, copied, lost>>
  /\ UNCHANGED <<repoVars, runs, included, revision, archive, listing, manifest, clean, halfReset>>

\* Mutated form of Publish: the repository's own .gitignore is shipped.
PublishOwn == UNCHANGED tree

\* os.WriteFile of publicGitignore.
Publish ==
  tree' = IF Contains(included, Gitignore) THEN [tree EXCEPT ![Gitignore] = Public] ELSE tree

ReplaceGitignore ==
  /\ pc = "copying" /\ copied = Len(included)
  /\ \/ Publish /\ pc' = "copied"
     \/ /\ Contains(included, Gitignore) /\ Fail
        /\ tree' \in {tree, [tree EXCEPT ![Gitignore] = Torn]}
  /\ UNCHANGED <<repoVars, runs, included, copied, revision, archive, listing, manifest,
                 clean, lost, halfReset>>

\* The members of an archive that has got as far as these files.
Packed(files) == [f \in Files |-> IF Contains(files, f) THEN tree[f] ELSE Absent]

\* tar and gzip hold back what they are given and write it, and the end of the
\* archive, when they are closed; the errors of the three deferred Close calls are
\* dropped.  So an archive may be cut short anywhere and the run go on; its members
\* are those it has whole.  A run that fails midway closes what it has, and the
\* archive may end properly after a part of the files.
WriteArchive ==
  /\ pc = "copied"
  /\ \/ archive' = [members |-> Packed(included), state |-> "ended"] /\ pc' = "archived" /\ UNCHANGED lost
     \/ \E files \in Prefixes(included) :
          archive' = [members |-> Packed(files), state |-> "cut"] /\ pc' = "archived" /\ lost' = TRUE
     \/ \E files \in Prefixes(included), state \in {"cut", "ended"} :
          archive' \in {archive, [members |-> Packed(files), state |-> state]} /\ Fail /\ UNCHANGED lost
  /\ UNCHANGED <<repoVars, runs, included, copied, revision, tree, listing, manifest, clean, halfReset>>

WriteListing ==
  /\ pc = "archived"
  /\ \/ listing' = included /\ pc' = "listing"
     \/ listing' \in {listing, <<>>} /\ Fail
  /\ UNCHANGED <<repoVars, runs, included, copied, revision, tree, archive, manifest, clean, lost, halfReset>>

\* Mutated form of Stated: the revision is read when the manifest is written.
StatedLate == [files |-> included, revision |-> Len(commits), state |-> "whole"]

\* The manifest's fields.
Stated == [files |-> included, revision |-> revision, state |-> "whole"]

WriteManifest ==
  /\ pc = "listing"
  /\ \/ manifest' = Stated /\ pc' = "done"
     \/ manifest' \in {manifest, [NoManifest EXCEPT !.state = "torn"]} /\ Fail
  /\ UNCHANGED <<repoVars, runs, included, copied, revision, tree, archive, listing, clean, lost, halfReset>>

Again ==
  /\ pc \in {"done", "failed"} /\ pc' = "idle"
  /\ UNCHANGED <<repoVars, runs, included, copied, revision, outVars, clean, lost, halfReset>>

Next ==
  \/ EditFile \/ Track \/ Commit
  \/ ListFiles \/ GitRevision \/ ResetOutput \/ CopyFile \/ ReplaceGitignore
  \/ WriteArchive \/ WriteListing \/ WriteManifest \/ Again

Spec == Init /\ [][Next]_vars

-----------------------------------------------------------------------------
TypeOK ==
  /\ index \subseteq Files /\ worktree \in [Files -> Contents] /\ changes \in 0 .. MaxChanges
  /\ \A r \in DOMAIN commits : commits[r] \in [Files -> Trackable \cup {Absent}]
  /\ pc \in {"idle", "listed", "revised", "copying", "copied", "archived", "listing", "done", "failed"}
  /\ runs \in 0 .. MaxRuns /\ copied \in 0 .. Len(included) /\ revision \in 0 .. Len(commits)
  /\ \A i, j \in DOMAIN included : included[i] \in Files /\ (i # j => included[i] # included[j])
  /\ tree \in [Files -> Contents]
  /\ archive.members \in [Files -> Contents] /\ archive.state \in {"none", "cut", "ended"}
  /\ clean \in BOOLEAN /\ lost \in BOOLEAN /\ halfReset \in BOOLEAN

\* No excluded path is ever in the output directory (releasecandidate.go:204), in
\* whatever run and whatever it failed at, also when git lists it with blanks
\* around it.
NothingExcludedShips ==
  \A f \in Excluded : /\ tree[f] = Absent /\ archive.members[f] = Absent
                      /\ ~Contains(listing, f) /\ ~Contains(manifest.files, f)

\* The archive has the first of these files, and all of them if it ends as one does.
ArchiveHas(files) ==
  \/ archive.state = "ended" /\ archive.members = tree
  \/ archive.state = "cut" /\ \E first \in Prefixes(files) : archive.members = Packed(first)

LossKnown == archive.state = "cut" \/ (\E f \in Files : tree[f] = Torn) => lost

\* Generate clears the directory first and writes the manifest last
\* (releasecandidate.go:142, 191): where there is a manifest, tree and listing have
\* exactly its files, and the archive has the first of them in order, all of them if
\* it ends as an archive does; only a Close that failed unnoticed (lines 296, 322)
\* leaves one that does not, or a part of a file in the tree.  A directory that a
\* later run could not clear is left out.
ManifestMeansComplete ==
  manifest.state = "whole" /\ ~halfReset =>
    /\ listing = manifest.files
    /\ \A f \in Files : tree[f] # Absent <=> Contains(manifest.files, f)
    /\ ArchiveHas(manifest.files) /\ LossKnown

\* The archive never has the repository's own .gitignore, which the copy loop has
\* put into the tree before (releasecandidate.go:158).
GitignoreIsPublic == archive.members[Gitignore] \in {Absent, Public}

\* A file of a candidate and its revision: for a link, the file it leads to.
IsTold(file, f, told) ==
  \/ file = Opened(told, f)
  \* The link leads out of what is tracked.
  \/ told[f] = Link /\ Opened(told, f) = Absent
  \* The revision has the path only with blanks around it.
  \/ told[f] = Absent /\ \E g \in Files : Trimmed[g] = f /\ told[g] # Absent

\* The files come from the working tree, the revision from HEAD, at different
\* times (releasecandidate.go:137, 151): if the repository was clean and let alone
\* until the last copy, the archive has every file of the revision named that is not
\* excluded, as it is there.  Where a Close failed unnoticed, a file may have been
\* cut short in the tree or be missing from the end of the archive; even then none
\* is another revision's.
RevisionTold ==
  pc = "done" /\ clean =>
    \A f \in Files \ ({Gitignore} \cup Excluded) : Trimmed[f] = f =>
      \/ IsTold(archive.members[f], f, commits[manifest.revision])
      \/ lost /\ archive.members[f] = Torn
      \/ lost /\ archive.members[f] = Absent /\ archive.state = "cut"
=============================================================================
