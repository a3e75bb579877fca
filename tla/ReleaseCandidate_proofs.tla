---------------------- MODULE ReleaseCandidate_proofs ----------------------
(***************************************************************************)
(* What an output directory of the release-candidate tool holds, proved    *)
(* for any paths, exclusions and blanks, and any numbers of runs and of    *)
(* changes to the repository.                                              *)
(***************************************************************************)
EXTENDS ReleaseCandidate, FiniteSetTheorems, FunctionTheorems, TLAPS

Distinct(paths) == \A i, j \in 1 .. Len(paths) : i # j => paths[i] # paths[j]

ArchiveType  == [members : [Files -> Contents], state : {"none", "cut", "ended"}]
ManifestType == [files : Seq(Files), revision : Nat, state : {"none", "torn", "whole"}]

Types ==
  /\ index \subseteq Files /\ worktree \in [Files -> Contents] /\ changes \in 0 .. MaxChanges
  /\ \A f \in Files : worktree[f] = Link => f \in DOMAIN Target
  /\ commits \in Seq([Files -> Trackable \cup {Absent}]) /\ Len(commits) > 0
  /\ pc \in {"idle", "listed", "revised", "copying", "copied", "archived", "listing", "done", "failed"}
  /\ runs \in 0 .. MaxRuns /\ included \in Seq(Files) /\ Distinct(included)
  /\ copied \in 0 .. Len(included) /\ revision \in 0 .. Len(commits)
  /\ tree \in [Files -> Contents]
  /\ archive \in ArchiveType
  /\ listing \in Seq(Files)
  /\ manifest \in ManifestType
  /\ clean \in BOOLEAN /\ lost \in BOOLEAN /\ halfReset \in BOOLEAN

\* No excluded path is on its way into the directory either.
Kosher == NothingExcludedShips /\ \A f \in Excluded : ~Contains(included, f)

\* How far the directory has come, by where the tool is.
Staged ==
  /\ pc \in {"listed", "revised"} => copied = 0
  /\ pc \in {"copying", "copied", "archived", "listing"} => manifest.state = "none"
  /\ pc = "copying" => \A f \in Files : tree[f] # Absent <=> \E i \in 1 .. copied : included[i] = f
  /\ pc \in {"copied", "archived", "listing"} =>
       /\ \A f \in Files : tree[f] # Absent <=> Contains(included, f)
       /\ Contains(included, Gitignore) => tree[Gitignore] = Public
  /\ pc \in {"copying", "copied"} => archive.state = "none"
  /\ pc \in {"copying", "copied", "archived", "listing"} => LossKnown
  /\ pc \in {"archived", "listing"} => ArchiveHas(included)
  /\ pc = "listing" => listing = included
  /\ ManifestMeansComplete /\ GitignoreIsPublic

\* A file of the candidate is the one of its revision, or was lost in part.
FileTold(file, f, told) == IsTold(file, f, told) \/ (lost /\ file = Torn)

Own == {f \in Files \ ({Gitignore} \cup Excluded) : Trimmed[f] = f}

\* What is known of a repository nobody has touched.
Untouched ==
  clean =>
    /\ pc \in {"listed", "revised", "copying"} =>
         TreeIsHead /\ \A f \in Files : Contains(included, f) <=> f \in Kept(index)
    /\ pc \in {"revised", "copying"} => revision = Len(commits)
    /\ pc = "copying" => \A i \in 1 .. copied :
         tree[included[i]] = Opened(worktree, included[i]) \/ (lost /\ tree[included[i]] = Torn)
    /\ pc \in {"copied", "archived", "listing"} =>
         revision \in 1 .. Len(commits) /\ \A f \in Own : FileTold(tree[f], f, commits[revision])
    /\ pc = "done" => manifest.revision \in 1 .. Len(commits) /\ RevisionTold

IInv == Types /\ Kosher /\ Staged /\ Untouched

-----------------------------------------------------------------------------
LEMMA FilesAreFinite == IsFiniteSet(Files)
<1> DEFINE n == Len(Paths)
<1>1. n \in Nat /\ DOMAIN Paths = 1 .. n
  BY PathsAssumption
<1>2. IsFiniteSet(1 .. n)
  <2>1. 1 \in Int /\ n \in Int
    BY <1>1
  <2> HIDE DEF n
  <2>2. QED
    BY <2>1, FS_Interval
<1>3. [i \in 1 .. n |-> Paths[i]] \in Surjection(1 .. n, Files)
  BY <1>1, Fun_IsSurj DEF Files
<1>4. QED
  BY <1>2, <1>3, FS_Surjection

\* What filterTrackedFiles returns: the paths kept, each once.
LEMMA FilterKeeps ==
  ASSUME NEW tracked \in SUBSET Files, NEW paths \in Filtered(tracked)
  PROVE  /\ paths \in Seq(Files) /\ Distinct(paths)
         /\ \A f \in Files : Contains(paths, f) <=> f \in Kept(tracked)
<1> DEFINE kept == Kept(tracked)
           n == Cardinality(kept)
<1>1. kept \subseteq Files
  BY PathsAssumption DEF Kept
<1>2. IsFiniteSet(kept) /\ n \in Nat /\ Cardinality(kept) = n
  <2>1. IsFiniteSet(kept)
    BY <1>1, FilesAreFinite, FS_Subset
  <2>2. QED
    BY <2>1, FS_CardinalityType
<1>3. paths \in [1 .. n -> kept] /\ Sorted(paths)
  BY DEF Filtered
<1>4. IsFiniteSet(1 .. n) /\ Cardinality(1 .. n) = n
  <2>1. 1 \in Int /\ n \in Int
    BY <1>2
  <2>2. Cardinality(1 .. n) = IF 1 > n THEN 0 ELSE n - 1 + 1
    <3> HIDE DEF n
    <3>1. QED
      BY <2>1, FS_Interval
  <2>3. IsFiniteSet(1 .. n)
    <3> HIDE DEF n
    <3>1. QED
      BY <2>1, FS_Interval
  <2> HIDE DEF n
  <2>4. QED
    BY <1>2, <2>2, <2>3
<1> HIDE DEF n, kept
<1>5. paths \in Seq(Files) /\ Len(paths) = n
  BY <1>1, <1>2, <1>3
<1>6. ASSUME NEW i \in 1 .. n, NEW j \in 1 .. n, i < j
      PROVE  paths[i] # paths[j]
  BY <1>3, <1>6, PathsAssumption DEF Sorted
<1>7. ASSUME NEW i \in 1 .. n, NEW j \in 1 .. n, i # j
      PROVE  paths[i] # paths[j]
  BY <1>2, <1>6, <1>7
<1>8. paths \in Injection(1 .. n, kept)
  BY <1>3, <1>7, Fun_IsInj
<1>9. paths \in Surjection(1 .. n, kept)
  BY <1>2, <1>4, <1>8, FS_Injection
<1>10. \A f \in kept : \E i \in 1 .. n : paths[i] = f
  BY <1>9 DEF Surjection
<1>11. \A f \in Files : Contains(paths, f) <=> f \in kept
  BY <1>3, <1>5, <1>10 DEF Contains
<1>12. QED
  BY <1>5, <1>7, <1>11 DEF Distinct, kept

-----------------------------------------------------------------------------
LEMMA EmptyTypes ==
  /\ Empty \in [Files -> Contents]
  /\ NoArchive \in ArchiveType
  /\ NoManifest \in ManifestType /\ [NoManifest EXCEPT !.state = "torn"] \in ManifestType
  /\ <<>> \in Seq(Files)
<1>1. Empty \in [Files -> Contents]
  BY DEF Empty, Contents
<1>2. <<>> \in Seq(Files)
  OBVIOUS
<1>3. NoArchive \in ArchiveType
  BY <1>1 DEF NoArchive, ArchiveType
<1>4. [NoManifest EXCEPT !.state = "torn"] = [files |-> <<>>, revision |-> 0, state |-> "torn"]
  BY DEF NoManifest
<1>5. NoManifest \in ManifestType /\ [files |-> <<>>, revision |-> 0, state |-> "torn"] \in ManifestType
  BY <1>2 DEF NoManifest, ManifestType
<1>6. QED
  BY <1>1, <1>2, <1>3, <1>4, <1>5

LEMMA TypesInit == Init => Types
<1> SUFFICES ASSUME Init PROVE Types
  OBVIOUS
<1>1. /\ 0 \in Versions /\ Versions \subseteq Contents
      /\ [f \in Files |-> 0] \in [Files -> Contents]
      /\ [f \in Files |-> IF f \in Initial THEN 0 ELSE Absent] \in [Files -> Trackable \cup {Absent}]
  BY PathsAssumption DEF Versions, Contents, Trackable
<1>2. commits \in Seq([Files -> Trackable \cup {Absent}]) /\ Len(commits) = 1
  BY <1>1 DEF Init
<1>3. index \subseteq Files /\ worktree \in [Files -> Contents] /\ changes \in 0 .. MaxChanges
      /\ \A f \in Files : worktree[f] # Link
  BY <1>1, PathsAssumption DEF Init
<1>4. included \in Seq(Files) /\ Distinct(included) /\ copied \in 0 .. Len(included)
  BY EmptyTypes DEF Init, Distinct
<1>5. runs \in 0 .. MaxRuns /\ revision \in 0 .. Len(commits)
  BY <1>2, PathsAssumption DEF Init
<1>6. /\ tree \in [Files -> Contents] /\ archive \in ArchiveType
      /\ listing \in Seq(Files) /\ manifest \in ManifestType
  BY EmptyTypes DEF Init
<1>7. /\ pc = "idle" /\ clean \in BOOLEAN /\ lost \in BOOLEAN /\ halfReset \in BOOLEAN
  BY DEF Init
<1>8. QED
  BY <1>2, <1>3, <1>4, <1>5, <1>6, <1>7 DEF Types

LEMMA TypesStep == Types /\ [Next]_vars => Types'
<1> SUFFICES ASSUME Types, [Next]_vars PROVE Types'
  OBVIOUS
<1>0. Versions \cup {Absent} \subseteq Contents /\ Absent \in Contents /\ Directory \in Contents
      /\ Public \in Contents /\ Torn \in Contents /\ Link \in Contents
  BY DEF Contents
<1>1. CASE EditFile
  <2>1. changes' \in 0 .. MaxChanges /\ changes + 1 \in Versions
    BY <1>1, PathsAssumption DEF EditFile, Change, Types, Versions
  <2>2. worktree' \in [Files -> Contents] /\ \A f \in Files : worktree'[f] = Link => f \in DOMAIN Target
    <3>1. PICK f \in Files, c \in {changes + 1, Absent, Directory, Link} :
            (c = Link => f \in DOMAIN Target) /\ worktree' = [worktree EXCEPT ![f] = c]
      BY <1>1 DEF EditFile
    <3>2. c \in Contents
      BY <1>0, <2>1 DEF Contents
    <3>3. QED
      BY <3>1, <3>2 DEF Types
  <2>3. clean' \in BOOLEAN
    BY <1>1 DEF EditFile, Change, Types
  <2>4. QED
    BY <1>1, <2>1, <2>2, <2>3 DEF EditFile, Change, outVars, Types, Distinct
<1>2. CASE Track
  <2>1. changes' \in 0 .. MaxChanges
    BY <1>2, PathsAssumption DEF Track, Change, Types
  <2>2. index' \subseteq Files
    BY <1>2 DEF Track, Types
  <2>3. clean' \in BOOLEAN
    BY <1>2 DEF Track, Change, Types
  <2>4. QED
    BY <1>2, <2>1, <2>2, <2>3 DEF Track, Change, outVars, Types, Distinct
<1>3. CASE Commit
  <2>1. changes' \in 0 .. MaxChanges
    BY <1>3, PathsAssumption DEF Commit, Change, Types
  <2>2. index' \subseteq Files
    BY <1>3 DEF Commit, Types
  <2>3. PICK new \in [Files -> Trackable \cup {Absent}] : commits' = Append(commits, new)
    BY <1>3 DEF Commit
  <2>4. commits' \in Seq([Files -> Trackable \cup {Absent}]) /\ Len(commits') = Len(commits) + 1
        /\ Len(commits) \in Nat
    BY <2>3 DEF Types
  <2>5. revision' \in 0 .. Len(commits') /\ Len(commits') > 0
    BY <1>3, <2>4 DEF Commit, Change, Types
  <2>6. clean' \in BOOLEAN
    BY <1>3 DEF Commit, Change, Types
  <2>7. QED
    BY <1>3, <2>1, <2>2, <2>4, <2>5, <2>6 DEF Commit, Change, outVars, Types, Distinct
<1>4. CASE ListFiles
  <2>1. included' \in Seq(Files) /\ Distinct(included)'
    BY <1>4, FilterKeeps DEF ListFiles, Types, Distinct
  <2>2. runs' \in 0 .. MaxRuns
    BY <1>4, PathsAssumption DEF ListFiles, Types
  <2>3. clean' \in BOOLEAN
    BY <1>4 DEF ListFiles, TreeIsHead
  <2>4. copied' \in 0 .. Len(included')
    BY <1>4, <2>1 DEF ListFiles
  <2>5. QED
    BY <1>4, <2>1, <2>2, <2>3, <2>4 DEF ListFiles, Fail, repoVars, outVars, Types
<1>5. CASE GitRevision
  BY <1>5 DEF GitRevision, Fail, repoVars, outVars, Types, Distinct
<1>6. CASE ResetOutput
  <2>2. tree' \in [Files -> Contents]
    BY <1>0, <1>6, EmptyTypes DEF ResetOutput, Cleared, Types
  <2>3. archive' \in ArchiveType /\ listing' \in Seq(Files) /\ manifest' \in ManifestType
    BY <1>6, EmptyTypes DEF ResetOutput, Cleared, Types
  <2>4. QED
    BY <1>6, <2>2, <2>3 DEF ResetOutput, Fail, repoVars, Types, Distinct
<1>7. CASE CopyFile
  <2>1. copied' \in 0 .. Len(included)
    BY <1>7 DEF CopyFile, Types
  <2>2. included[copied + 1] \in Files
    BY <1>7 DEF CopyFile, Types
  <2>3. tree' \in [Files -> Contents]
    BY <1>0, <1>7, <2>2 DEF CopyFile, Types
  <2>4. QED
    BY <1>7, <2>1, <2>3 DEF CopyFile, Fail, repoVars, Types, Distinct
<1>8. CASE ReplaceGitignore
  <2>1. tree' \in [Files -> Contents]
    BY <1>0, <1>8 DEF ReplaceGitignore, Publish, Types
  <2>2. QED
    BY <1>8, <2>1 DEF ReplaceGitignore, Fail, repoVars, Types, Distinct
<1>9. CASE WriteArchive
  <2>1. \A files : Packed(files) \in [Files -> Contents]
    BY <1>0 DEF Packed, Types
  <2>2. archive' \in ArchiveType
    BY <1>9, <2>1, EmptyTypes DEF WriteArchive, Types, ArchiveType
  <2>3. QED
    BY <1>9, <2>2 DEF WriteArchive, Fail, repoVars, Types, Distinct
<1>10. CASE WriteListing
  <2>1. listing' \in Seq(Files)
    BY <1>10, EmptyTypes DEF WriteListing, Types
  <2>2. QED
    BY <1>10, <2>1 DEF WriteListing, Fail, repoVars, Types, Distinct
<1>11. CASE WriteManifest
  <2>1. Stated \in ManifestType
    BY DEF Stated, Types, ManifestType
  <2>2. manifest' \in ManifestType
    BY <1>11, <2>1, EmptyTypes DEF WriteManifest, Types
  <2>3. QED
    BY <1>11, <2>2 DEF WriteManifest, Fail, repoVars, Types, Distinct
<1>12. CASE Again
  BY <1>12 DEF Again, repoVars, outVars, Types, Distinct
<1>13. CASE UNCHANGED vars
  BY <1>13 DEF vars, repoVars, outVars, Types, Distinct
<1>14. QED
  BY <1>1, <1>2, <1>3, <1>4, <1>5, <1>6, <1>7, <1>8, <1>9, <1>10, <1>11, <1>12, <1>13 DEF Next

-----------------------------------------------------------------------------
(* No excluded path.                                                       *)

LEMMA KosherStep ==
  ASSUME Types, Kosher, [Next]_vars
  PROVE  Kosher'
<1> SUFFICES ASSUME NEW f \in Excluded
             PROVE  /\ tree'[f] = Absent /\ archive'.members[f] = Absent
                    /\ ~Contains(listing', f) /\ ~Contains(manifest'.files, f)
                    /\ ~Contains(included', f)
  BY DEF Kosher, NothingExcludedShips
<1>0. /\ tree[f] = Absent /\ archive.members[f] = Absent
      /\ ~Contains(listing, f) /\ ~Contains(manifest.files, f)
      /\ ~Contains(included, f)
  BY DEF Kosher, NothingExcludedShips
<1>1. f \in Files
  BY PathsAssumption
<1>2. Empty[f] = Absent /\ ~Contains(<<>>, f)
  BY <1>1 DEF Empty, Contains
<1>3. CASE ListFiles
  <2>1. f \notin Kept(index)
    BY DEF Kept, IncludePath
  <2>2. ~Contains(included', f)
    BY <1>0, <1>1, <1>3, <2>1, FilterKeeps DEF ListFiles, Types
  <2>3. QED
    BY <1>0, <1>3, <2>2 DEF ListFiles, outVars
<1>4. CASE ResetOutput
  <2>1. NoArchive.members[f] = Absent /\ ~Contains(NoManifest.files, f)
    BY <1>2 DEF NoArchive, NoManifest
  <2>2. tree'[f] = Absent
    BY <1>0, <1>1, <1>2, <1>4 DEF ResetOutput, Cleared
  <2>3. archive' \in {archive, NoArchive} /\ listing' \in {listing, <<>>}
        /\ manifest' \in {manifest, NoManifest} /\ included' = included
    BY <1>4 DEF ResetOutput, Cleared
  <2>4. QED
    BY <1>0, <1>2, <2>1, <2>2, <2>3
<1>5. CASE CopyFile
  <2>1. copied < Len(included) => Contains(included, included[copied + 1])
    BY DEF Types, Contains
  <2>2. tree'[f] = Absent
    BY <1>0, <1>1, <1>5, <2>1 DEF CopyFile, Types
  <2>3. QED
    BY <1>0, <1>5, <2>2 DEF CopyFile
<1>6. CASE ReplaceGitignore
  <2>1. tree'[f] = Absent
    BY <1>0, <1>1, <1>6 DEF ReplaceGitignore, Publish, Types
  <2>2. QED
    BY <1>0, <1>6, <2>1 DEF ReplaceGitignore
<1>7. CASE WriteArchive
  <2>1. \A files : Packed(files)[f] = Absent
    BY <1>0, <1>1 DEF Packed
  <2>2. archive'.members = archive.members \/ \E files : archive'.members = Packed(files)
    BY <1>7 DEF WriteArchive
  <2>3. QED
    BY <1>0, <1>2, <1>7, <2>1, <2>2 DEF WriteArchive
<1>8. CASE WriteListing
  BY <1>0, <1>2, <1>8 DEF WriteListing
<1>9. CASE WriteManifest
  <2>1. manifest'.files \in {manifest.files, included, <<>>}
    BY <1>9 DEF WriteManifest, Stated, NoManifest
  <2>2. QED
    BY <1>0, <1>2, <1>9, <2>1 DEF WriteManifest
<1>10. CASE EditFile \/ Track \/ Commit \/ GitRevision \/ Again \/ UNCHANGED vars
  BY <1>0, <1>10 DEF EditFile, Track, Commit, Change, GitRevision, Again, vars, outVars
<1>11. QED
  BY <1>3, <1>4, <1>5, <1>6, <1>7, <1>8, <1>9, <1>10 DEF Next

-----------------------------------------------------------------------------
(* The stages.                                                             *)

\* What is said of the directory stays true while nobody writes to it.
LEMMA SameDirectory ==
  ASSUME UNCHANGED <<outVars, lost, halfReset>>
  PROVE  /\ ManifestMeansComplete' = ManifestMeansComplete /\ GitignoreIsPublic' = GitignoreIsPublic
         /\ LossKnown' = LossKnown
         /\ \A files : ArchiveHas(files)' = ArchiveHas(files)
<1>1. \A files : Packed(files)' = Packed(files)
  BY DEF Packed, outVars
<1>2. \A files : ArchiveHas(files)' = ArchiveHas(files)
  BY <1>1 DEF ArchiveHas, outVars
<1>3. LossKnown' = LossKnown
  BY DEF LossKnown, outVars
<1>4. ManifestMeansComplete' = ManifestMeansComplete
  BY <1>2, <1>3 DEF ManifestMeansComplete, outVars
<1>5. QED
  BY <1>2, <1>3, <1>4 DEF GitignoreIsPublic, outVars

LEMMA StagedStep ==
  ASSUME Types, Staged, [Next]_vars
  PROVE  Staged'
<1>1. CASE EditFile \/ Track \/ Commit \/ UNCHANGED vars
  <2>1. UNCHANGED <<pc, included, copied, outVars, lost, halfReset>>
    BY <1>1 DEF EditFile, Track, Commit, Change, vars
  <2>2. ArchiveHas(included)' = ArchiveHas(included)
    BY <2>1, SameDirectory DEF ArchiveHas, Packed
  <2>3. QED
    BY <2>1, <2>2, SameDirectory DEF Staged, outVars
<1>2. CASE ListFiles \/ GitRevision \/ Again
  <2>1. /\ UNCHANGED <<outVars, lost, halfReset>>
        /\ pc' \in {"idle", "listed", "revised", "failed"}
        /\ pc' \in {"listed", "revised"} => copied' = 0
    BY <1>2 DEF ListFiles, GitRevision, Again, Fail, Staged
  <2>2. QED
    BY <2>1, SameDirectory DEF Staged
<1>3. CASE ResetOutput
  <2>1. CASE Cleared /\ halfReset' = FALSE /\ pc' \in {"copying", "failed"}
    <3>1. manifest'.state = "none" /\ archive'.members[Gitignore] = Absent /\ archive'.state = "none"
      BY <2>1, PathsAssumption DEF Cleared, NoManifest, NoArchive, Empty
    <3>2. \A f \in Files : tree'[f] = Absent
      BY <2>1 DEF Cleared, Empty
    <3>3. copied' = 0
      BY <1>3 DEF ResetOutput, Staged
    <3>4. LossKnown'
      BY <3>1, <3>2, PathsAssumption DEF LossKnown
    <3>5. QED
      BY <2>1, <3>1, <3>2, <3>3, <3>4 DEF Staged, ManifestMeansComplete, GitignoreIsPublic
  <2>2. CASE halfReset' = TRUE /\ pc' = "failed" /\ archive' \in {archive, NoArchive}
    <3>1. archive'.members[Gitignore] \in {Absent, Public}
      BY <2>2, PathsAssumption DEF Staged, GitignoreIsPublic, NoArchive, Empty
    <3>2. QED
      BY <2>2, <3>1 DEF Staged, ManifestMeansComplete, GitignoreIsPublic
  <2>3. QED
    BY <1>3, <2>1, <2>2 DEF ResetOutput, Fail
<1>4. CASE CopyFile
  <2>0. /\ pc = "copying" /\ copied < Len(included) /\ pc' \in {"copying", "failed"}
        /\ manifest.state = "none" /\ archive.state = "none" /\ LossKnown
        /\ UNCHANGED <<manifest, archive, included>>
    BY <1>4 DEF CopyFile, Fail, Staged
  <2>1. CASE pc' = "copying"
    <3> DEFINE g == included[copied + 1]
    <3>1. copied' = copied + 1 /\ copied \in Nat /\ g \in Files
      BY <1>4, <2>0, <2>1 DEF CopyFile, Fail, Types
    <3>2. PICK c \in Versions \cup {Torn} :
            tree' = [tree EXCEPT ![g] = c] /\ (c = Torn => lost') /\ (lost => lost')
      <4>1. Torn \notin Versions
        BY PathsAssumption
      <4>2. QED
        BY <1>4, <2>0, <2>1, <4>1 DEF CopyFile, Fail
    <3>3. c # Absent
      BY PathsAssumption
    <3>4. tree \in [Files -> Contents]
      BY DEF Types
    <3>5. \A f \in Files : tree[f] # Absent <=> \E i \in 1 .. copied : included[i] = f
      BY <2>0 DEF Staged
    <3>6. \A f \in Files : tree'[f] # Absent <=> f = g \/ \E i \in 1 .. copied : included[i] = f
      BY <3>2, <3>3, <3>4, <3>5
    <3>7. \A f : (\E i \in 1 .. copied + 1 : included[i] = f)
                  <=> f = g \/ \E i \in 1 .. copied : included[i] = f
      BY <3>1
    <3>8. \A f \in Files : tree'[f] # Absent <=> \E i \in 1 .. copied' : included'[i] = f
      BY <2>0, <3>1, <3>6, <3>7
    <3>9. LossKnown'
      BY <2>0, <3>1, <3>2, <3>4 DEF LossKnown
    <3>10. QED
      BY <2>0, <2>1, <3>8, <3>9 DEF Staged, ManifestMeansComplete, GitignoreIsPublic
  <2>2. CASE pc' = "failed"
    BY <2>0, <2>2 DEF Staged, ManifestMeansComplete, GitignoreIsPublic
  <2>3. QED
    BY <2>0, <2>1, <2>2
<1>5. CASE ReplaceGitignore
  <2>0. /\ pc = "copying" /\ copied = Len(included) /\ pc' \in {"copied", "failed"}
        /\ manifest.state = "none" /\ archive.state = "none" /\ LossKnown
        /\ UNCHANGED <<manifest, archive, included, lost>>
    BY <1>5 DEF ReplaceGitignore, Fail, Staged
  <2>1. CASE pc' = "copied"
    <3>1. Publish
      BY <1>5, <2>1 DEF ReplaceGitignore, Fail
    <3>2. \A f \in Files : tree[f] # Absent <=> Contains(included, f)
      BY <2>0 DEF Staged, Contains
    <3>3. /\ Contains(included, Gitignore) => tree'[Gitignore] = Public
          /\ \A f \in Files : tree'[f] # Absent <=> Contains(included, f)
      BY <3>1, <3>2, PathsAssumption DEF Publish, Types
    <3>4. LossKnown'
      BY <2>0, <3>1, PathsAssumption DEF LossKnown, Publish, Types
    <3>5. QED
      BY <2>0, <2>1, <3>3, <3>4 DEF Staged, ManifestMeansComplete, GitignoreIsPublic
  <2>2. CASE pc' = "failed"
    BY <2>0, <2>2 DEF Staged, ManifestMeansComplete, GitignoreIsPublic
  <2>3. QED
    BY <2>0, <2>1, <2>2
<1>6. CASE WriteArchive
  <2>0. /\ pc = "copied" /\ pc' \in {"archived", "failed"}
        /\ manifest.state = "none" /\ UNCHANGED <<manifest, tree, included>>
        /\ \A f \in Files : tree[f] # Absent <=> Contains(included, f)
        /\ Contains(included, Gitignore) => tree[Gitignore] = Public
        /\ LossKnown
    BY <1>6 DEF WriteArchive, Fail, Staged
  <2>1. Packed(included) = tree
    BY <2>0 DEF Packed, Types
  <2>2. tree[Gitignore] \in {Absent, Public}
    BY <2>0, PathsAssumption
  <2>3. \A files : Packed(files)[Gitignore] \in {Absent, Public}
    BY <2>2, PathsAssumption DEF Packed
  <2>4. archive'.members[Gitignore] \in {Absent, Public}
    <3>1. archive' = archive \/ \E files : archive'.members = Packed(files)
      BY <1>6 DEF WriteArchive
    <3>2. QED
      BY <2>3, <3>1 DEF Staged, GitignoreIsPublic
  <2>5. CASE pc' = "archived"
    <3>1. ArchiveHas(included)' /\ (archive'.state = "cut" => lost') /\ (lost => lost')
      <4>1. CASE archive' = [members |-> Packed(included), state |-> "ended"] /\ UNCHANGED lost
        BY <2>0, <2>1, <4>1 DEF ArchiveHas
      <4>2. ASSUME NEW files \in Prefixes(included),
                   archive' = [members |-> Packed(files), state |-> "cut"], lost'
            PROVE  ArchiveHas(included)' /\ (archive'.state = "cut" => lost') /\ (lost => lost')
        <5>1. Packed(files)' = Packed(files) /\ Prefixes(included)' = Prefixes(included)
          BY <2>0 DEF Packed, Prefixes
        <5>2. QED
          BY <4>2, <5>1 DEF ArchiveHas
      <4>3. QED
        BY <1>6, <2>5, <4>1, <4>2 DEF WriteArchive, Fail
    <3>2. LossKnown'
      BY <2>0, <3>1 DEF Staged, LossKnown
    <3>3. QED
      BY <2>0, <2>4, <2>5, <3>1, <3>2 DEF Staged, ManifestMeansComplete, GitignoreIsPublic
  <2>6. CASE pc' = "failed"
    BY <2>0, <2>4, <2>6 DEF Staged, ManifestMeansComplete, GitignoreIsPublic
  <2>7. QED
    BY <2>0, <2>5, <2>6
<1>7. CASE WriteListing
  <2>1. /\ pc = "archived" /\ pc' \in {"listing", "failed"}
        /\ pc' = "listing" => listing' = included
        /\ manifest.state = "none" /\ UNCHANGED <<manifest, tree, included, archive, lost>>
        /\ LossKnown /\ ArchiveHas(included)
    BY <1>7 DEF WriteListing, Fail, Staged
  <2>2. LossKnown' /\ ArchiveHas(included)'
    <3>1. \A files : Packed(files)' = Packed(files)
      BY <2>1 DEF Packed
    <3>2. QED
      BY <2>1, <3>1 DEF LossKnown, ArchiveHas
  <2>3. QED
    BY <2>1, <2>2 DEF Staged, ManifestMeansComplete, GitignoreIsPublic
<1>8. CASE WriteManifest
  <2>1. /\ pc = "listing" /\ pc' \in {"done", "failed"}
        /\ UNCHANGED <<tree, included, archive, listing, lost>>
        /\ manifest'.state = "whole" => manifest'.files = included
    <3>1. manifest.state = "none"
      BY <1>8 DEF WriteManifest, Staged
    <3>2. manifest' \in {Stated, manifest, [NoManifest EXCEPT !.state = "torn"]}
      BY <1>8 DEF WriteManifest
    <3>3. [NoManifest EXCEPT !.state = "torn"].state = "torn"
      BY DEF NoManifest
    <3>4. Stated.files = included
      BY DEF Stated
    <3>5. QED
      BY <1>8, <3>1, <3>2, <3>3, <3>4 DEF WriteManifest, Fail
  <2>2. LossKnown' /\ ArchiveHas(included)'
    <3>1. \A files : Packed(files)' = Packed(files)
      BY <2>1 DEF Packed
    <3>2. QED
      BY <2>1, <3>1 DEF Staged, LossKnown, ArchiveHas
  <2>3. ManifestMeansComplete'
    <3> SUFFICES ASSUME manifest'.state = "whole"
                 PROVE  /\ listing' = manifest'.files
                        /\ \A f \in Files : tree'[f] # Absent <=> Contains(manifest'.files, f)
                        /\ ArchiveHas(manifest.files)' /\ LossKnown'
      BY DEF ManifestMeansComplete
    <3>1. manifest'.files = included' /\ listing' = manifest'.files
      BY <2>1 DEF Staged
    <3>2. ArchiveHas(manifest.files)'
      BY <2>2, <3>1 DEF ArchiveHas
    <3>3. QED
      BY <2>1, <2>2, <3>1, <3>2 DEF Staged
  <2>4. QED
    BY <2>1, <2>3 DEF Staged, GitignoreIsPublic
<1>9. QED
  BY <1>1, <1>2, <1>3, <1>4, <1>5, <1>6, <1>7, <1>8 DEF Next

-----------------------------------------------------------------------------
(* The revision.                                                           *)

\* Whoever works in the repository, no revision changes.
LEMMA RevisionsStay ==
  ASSUME Types, EditFile \/ Track \/ Commit
  PROVE  /\ Len(commits) \in Nat /\ Len(commits') \in Nat /\ Len(commits) <= Len(commits')
         /\ \A r \in 1 .. Len(commits) : commits'[r] = commits[r]
<1>1. Len(commits) \in Nat
  BY DEF Types
<1>2. CASE EditFile \/ Track
  BY <1>1, <1>2 DEF EditFile, Track
<1>3. CASE Commit
  <2>1. PICK new : commits' = Append(commits, new)
    BY <1>3 DEF Commit
  <2>2. QED
    BY <1>1, <2>1 DEF Types
<1>4. QED
  BY <1>2, <1>3

\* A clean repository that was let alone until the last copy.
LEMMA CopyIsRevision ==
  ASSUME Types, Staged, Untouched, ReplaceGitignore, pc' = "copied", clean
  PROVE  \A f \in Own : FileTold(tree'[f], f, commits[revision])
<1>0. /\ pc = "copying" /\ copied = Len(included) /\ Publish
      /\ revision = Len(commits) /\ TreeIsHead
      /\ \A f \in Files : Contains(included, f) <=> f \in Kept(index)
      /\ \A i \in 1 .. copied :
           tree[included[i]] = Opened(worktree, included[i]) \/ (lost /\ tree[included[i]] = Torn)
  BY DEF ReplaceGitignore, Fail, Untouched
<1>1. \A f \in Files : tree[f] # Absent <=> Contains(included, f)
  BY <1>0 DEF Staged, Contains
<1> DEFINE told == commits[revision]
<1>2. \A f \in Files : /\ f \in index <=> told[f] # Absent
                       /\ f \in index => worktree[f] = told[f]
  BY <1>0 DEF TreeIsHead, HeadTree
<1> HIDE DEF told
<1> SUFFICES ASSUME NEW f \in Own
             PROVE  FileTold(tree'[f], f, told)
  BY DEF told
<1>3. f \in Files /\ f \notin Excluded /\ Trimmed[f] = f /\ tree'[f] = tree[f]
  BY <1>0 DEF Own, Publish, Types
<1>4. CASE f \in index
  <2>1. f \in Kept(index)
    BY <1>3, <1>4 DEF Kept, IncludePath
  <2>2. PICK i \in 1 .. copied : included[i] = f
    BY <1>0, <1>3, <2>1 DEF Contains
  <2>3. tree[f] = Opened(worktree, f) \/ (lost /\ tree[f] = Torn)
    BY <1>0, <2>2
  <2>4. worktree[f] = told[f] /\ told[f] # Absent
    BY <1>2, <1>3, <1>4
  <2>5. CASE told[f] # Link
    BY <1>3, <2>3, <2>4, <2>5 DEF FileTold, IsTold, Opened
  <2>6. CASE told[f] = Link
    <3>1. Target[f] \in Files
      BY <1>3, <2>4, <2>6, PathsAssumption DEF Types
    <3>2. told[Target[f]] = Absent \/ worktree[Target[f]] = told[Target[f]]
      BY <1>2, <3>1
    <3>3. QED
      BY <1>3, <2>3, <2>4, <2>6, <3>2 DEF FileTold, IsTold, Opened
  <2>7. QED
    BY <2>5, <2>6
<1>5. CASE f \notin index /\ f \in Kept(index)
  <2>1. PICK g \in index : Trimmed[g] = f
    BY <1>5 DEF Kept
  <2>2. g \in Files
    BY DEF Types
  <2>3. QED
    BY <1>2, <1>3, <1>5, <2>1, <2>2 DEF FileTold, IsTold
<1>6. CASE f \notin index /\ f \notin Kept(index)
  <2>1. tree[f] = Absent /\ told[f] = Absent
    BY <1>0, <1>1, <1>2, <1>3, <1>6
  <2>2. QED
    BY <1>3, <2>1, PathsAssumption DEF FileTold, IsTold, Opened
<1>7. QED
  BY <1>4, <1>5, <1>6

LEMMA UntouchedStep ==
  ASSUME Types, Staged, Untouched, [Next]_vars
  PROVE  Untouched'
<1>1. CASE EditFile \/ Track \/ Commit
  <2>1. /\ clean' => clean /\ pc \notin {"listed", "revised", "copying"}
        /\ UNCHANGED <<pc, included, copied, revision, tree, archive, manifest, lost>>
    BY <1>1 DEF EditFile, Track, Commit, Change, outVars
  <2>2. QED
    BY <1>1, <2>1, RevisionsStay DEF Untouched, RevisionTold, FileTold, IsTold, Opened
<1>2. CASE ListFiles
  <2>1. CASE included' \in Filtered(index) /\ pc' = "listed"
    <3>1. \A f \in Files : Contains(included', f) <=> f \in Kept(index)
      BY <2>1, FilterKeeps DEF Types
    <3>2. clean' = TreeIsHead /\ UNCHANGED <<index, worktree, commits>>
      BY <1>2 DEF ListFiles, repoVars
    <3>3. TreeIsHead' = TreeIsHead /\ Kept(index') = Kept(index)
      BY <3>2 DEF TreeIsHead, HeadTree
    <3>4. QED
      BY <2>1, <3>1, <3>2, <3>3 DEF Untouched
  <2>2. CASE pc' = "failed"
    BY <2>2 DEF Untouched
  <2>3. QED
    BY <1>2, <2>1, <2>2 DEF ListFiles, Fail
<1>3. CASE GitRevision
  <2>1. /\ pc = "listed" /\ pc' \in {"revised", "failed"}
        /\ pc' = "revised" => revision' = Len(commits)
        /\ UNCHANGED <<index, worktree, commits, included, clean>>
    BY <1>3 DEF GitRevision, Fail, repoVars
  <2>2. QED
    BY <2>1 DEF Untouched, TreeIsHead, HeadTree
<1>4. CASE ResetOutput
  <2>1. /\ pc = "revised" /\ pc' \in {"copying", "failed"} /\ copied' = 0
        /\ UNCHANGED <<index, worktree, commits, included, revision, clean>>
    BY <1>4 DEF ResetOutput, Fail, repoVars, Staged
  <2>2. QED
    BY <2>1 DEF Untouched, TreeIsHead, HeadTree
<1>5. CASE CopyFile
  <2>1. /\ pc = "copying" /\ pc' \in {"copying", "failed"} /\ copied < Len(included)
        /\ UNCHANGED <<index, worktree, commits, included, revision, clean>>
    BY <1>5 DEF CopyFile, Fail, repoVars
  <2>2. ASSUME clean, pc' = "copying"
        PROVE  \A i \in 1 .. copied' :
                 tree'[included[i]] = Opened(worktree, included[i]) \/ (lost' /\ tree'[included[i]] = Torn)
    <3> DEFINE g == included[copied + 1]
    <3>1. /\ copied' = copied + 1 /\ (lost => lost')
          /\ \/ tree' = [tree EXCEPT ![g] = Opened(worktree, g)]
             \/ lost' /\ tree' = [tree EXCEPT ![g] = Torn]
      BY <1>5, <2>2 DEF CopyFile, Fail
    <3>2. \A i \in 1 .. copied :
            tree[included[i]] = Opened(worktree, included[i]) \/ (lost /\ tree[included[i]] = Torn)
      BY <2>1, <2>2 DEF Untouched
    <3>3. /\ copied \in Nat /\ Len(included) \in Nat /\ tree \in [Files -> Contents]
          /\ \A i \in 1 .. copied + 1 : included[i] \in Files
          /\ \A i \in 1 .. copied : included[i] # g
      <4>1. copied \in Nat /\ Len(included) \in Nat /\ copied + 1 \in 1 .. Len(included)
        BY <2>1 DEF Types
      <4>2. \A i \in 1 .. copied + 1 : i \in 1 .. Len(included)
        BY <4>1
      <4>3. \A i \in 1 .. copied : i # copied + 1
        BY <4>1
      <4>4. \A i \in 1 .. Len(included) : included[i] \in Files
        BY DEF Types
      <4>5. \A i \in 1 .. copied : included[i] # g
        BY <4>1, <4>2, <4>3 DEF Types, Distinct
      <4>6. QED
        BY <4>1, <4>2, <4>4, <4>5 DEF Types
    <3>4. /\ tree'[g] = Opened(worktree, g) \/ (lost' /\ tree'[g] = Torn)
          /\ \A i \in 1 .. copied : tree'[included[i]] = tree[included[i]]
      BY <3>1, <3>3
    <3>5. \A i \in 1 .. copied + 1 : i = copied + 1 \/ i \in 1 .. copied
      BY <3>3
    <3>6. QED
      BY <3>1, <3>2, <3>4, <3>5
  <2>3. QED
    BY <2>1, <2>2 DEF Untouched, TreeIsHead, HeadTree
<1>6. CASE ReplaceGitignore
  <2>1. /\ pc = "copying" /\ pc' \in {"copied", "failed"}
        /\ UNCHANGED <<commits, revision, clean, lost>>
    BY <1>6 DEF ReplaceGitignore, Fail, repoVars
  <2>2. clean => revision \in 1 .. Len(commits)
    BY <2>1 DEF Untouched, Types
  <2>3. clean /\ pc' = "copied" => \A f \in Own : FileTold(tree'[f], f, commits[revision])
    BY <1>6, CopyIsRevision
  <2>4. clean /\ pc' = "copied" => \A f \in Own : FileTold(tree[f], f, commits[revision])'
    BY <2>1, <2>3 DEF FileTold
  <2>5. QED
    BY <2>1, <2>2, <2>4 DEF Untouched
<1>7. CASE WriteArchive
  <2>1. /\ pc = "copied" /\ pc' \in {"archived", "failed"} /\ (lost => lost')
        /\ UNCHANGED <<commits, revision, clean, tree>>
    BY <1>7 DEF WriteArchive, Fail, repoVars
  <2>2. QED
    BY <2>1 DEF Untouched, FileTold
<1>8. CASE WriteListing
  <2>1. /\ pc = "archived" /\ pc' \in {"listing", "failed"}
        /\ UNCHANGED <<commits, revision, clean, lost, tree>>
    BY <1>8 DEF WriteListing, Fail, repoVars
  <2>2. QED
    BY <2>1 DEF Untouched, FileTold
<1>9. CASE WriteManifest
  <2>1. /\ pc = "listing" /\ pc' \in {"done", "failed"}
        /\ UNCHANGED <<commits, revision, clean, lost, tree, archive>>
        /\ pc' = "done" => manifest'.revision = revision
    BY <1>9 DEF WriteManifest, Stated, Fail, repoVars
  <2>2. ASSUME clean, pc' = "done"
        PROVE  RevisionTold'
    <3>1. \A f \in Own : FileTold(tree[f], f, commits[revision])
      BY <2>1, <2>2 DEF Untouched
    <3>2. ASSUME NEW f \in Own
          PROVE  \/ IsTold(archive.members[f], f, commits[revision])
                 \/ lost /\ archive.members[f] = Torn
                 \/ lost /\ archive.members[f] = Absent /\ archive.state = "cut"
      <4>1. \/ archive.members[f] = tree[f]
            \/ lost /\ archive.members[f] = Absent /\ archive.state = "cut"
        <5>1. ArchiveHas(included) /\ LossKnown /\ f \in Files
          BY <2>1 DEF Staged, Own
        <5>2. \A files : Packed(files)[f] \in {tree[f], Absent}
          BY <5>1 DEF Packed
        <5>3. QED
          BY <5>1, <5>2 DEF ArchiveHas, LossKnown
      <4>2. QED
        BY <3>1, <4>1 DEF FileTold
    <3>3. \A f \in Own :
            \/ IsTold(archive'.members[f], f, commits'[manifest'.revision])
            \/ lost' /\ archive'.members[f] = Torn
            \/ lost' /\ archive'.members[f] = Absent /\ archive'.state = "cut"
      BY <2>1, <2>2, <3>2
    <3>4. QED
      BY <3>3 DEF RevisionTold, Own, IsTold, Opened
  <2>3. QED
    BY <2>1, <2>2 DEF Untouched
<1>10. CASE Again
  <2>1. pc' = "idle"
    BY <1>10 DEF Again
  <2>2. QED
    BY <2>1 DEF Untouched
<1>11. CASE UNCHANGED vars
  <2>1. UNCHANGED <<index, worktree, commits, pc, included, copied, revision, tree, archive, manifest,
                    clean, lost>>
    BY <1>11 DEF vars, repoVars, outVars
  <2>2. TreeIsHead' = TreeIsHead /\ Kept(index)' = Kept(index)
    BY <2>1 DEF TreeIsHead, HeadTree, Kept
  <2>3. QED
    BY <2>1, <2>2 DEF Untouched, RevisionTold, FileTold, IsTold, Opened
<1>12. QED
  BY <1>1, <1>2, <1>3, <1>4, <1>5, <1>6, <1>7, <1>8, <1>9, <1>10, <1>11 DEF Next

-----------------------------------------------------------------------------
(* The theorems.                                                           *)

LEMMA InvariantInit == Init => IInv
<1> SUFFICES ASSUME Init PROVE IInv
  OBVIOUS
<1>1. Kosher
  BY PathsAssumption DEF Init, Kosher, NothingExcludedShips, Empty, NoArchive, NoManifest, Contains
<1>2. Staged
  BY PathsAssumption
     DEF Init, Staged, ManifestMeansComplete, GitignoreIsPublic, Empty, NoArchive, NoManifest
<1>3. Untouched
  BY DEF Init, Untouched
<1>4. QED
  BY <1>1, <1>2, <1>3, TypesInit DEF IInv

LEMMA InvariantStep == IInv /\ [Next]_vars => IInv'
BY TypesStep, KosherStep, StagedStep, UntouchedStep DEF IInv

LEMMA Invariant == Spec => []IInv
BY InvariantInit, InvariantStep, PTL DEF Spec

\* TypeOK (releasecandidate.go, Generate).
THEOREM CandidateTypes == Spec => []TypeOK
<1>1. Types => TypeOK
  <2> SUFFICES ASSUME Types PROVE TypeOK
    OBVIOUS
  <2>1. \A r \in DOMAIN commits : commits[r] \in [Files -> Trackable \cup {Absent}]
    BY DEF Types
  <2>2. \A i, j \in DOMAIN included : included[i] \in Files /\ (i # j => included[i] # included[j])
    BY DEF Types, Distinct
  <2>3. archive.members \in [Files -> Contents] /\ archive.state \in {"none", "cut", "ended"}
    BY DEF Types, ArchiveType
  <2>4. QED
    BY <2>1, <2>2, <2>3 DEF Types, TypeOK
<1>2. QED
  BY <1>1, Invariant, PTL DEF IInv

\* NothingExcludedShips (includePath, writeArchive): whatever fails, and however the
\* paths are written, no excluded path is in tree, archive, listing or manifest.
THEOREM ExcludedStaysOut == Spec => []NothingExcludedShips
BY Invariant, PTL DEF IInv, Kosher

\* ManifestMeansComplete (Generate): the manifest, written last into a cleared
\* directory, vouches for the rest of it.
THEOREM ManifestVouches == Spec => []ManifestMeansComplete
BY Invariant, PTL DEF IInv, Staged

\* GitignoreIsPublic (Generate): the archive is written after the replacement.
THEOREM OwnGitignoreStays == Spec => []GitignoreIsPublic
BY Invariant, PTL DEF IInv, Staged

\* RevisionTold (Generate): a candidate of a repository that was clean and let alone
\* has the files of the revision it names.
THEOREM CandidateIsRevision == Spec => []RevisionTold
<1>1. IInv => RevisionTold
  BY DEF IInv, Untouched, RevisionTold
<1>2. QED
  BY <1>1, Invariant, PTL
=============================================================================
