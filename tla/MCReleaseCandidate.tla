------------------------- MODULE MCReleaseCandidate -------------------------
(* The instance of ReleaseCandidate that TLC checks: a file, one whose name is *)
(* the same but for a blank, an excluded path and one that differs from it by  *)
(* a blank, and .gitignore.  The file may become a link to the excluded path.  *)
EXTENDS ReleaseCandidate

MCPaths    == <<".gitignore", "a", "a+blank", "wiki", "wiki+blank">>
MCTrimmed  == [f \in {MCPaths[i] : i \in 1 .. 5} |->
                 CASE f = "a+blank" -> "a" [] f = "wiki+blank" -> "wiki" [] OTHER -> f]
MCExcluded == {"wiki"}
MCTarget   == [f \in {"a"} |-> "wiki"]
MCInitial  == {".gitignore", "a", "a+blank", "wiki"}
=============================================================================
