----------------------- MODULE MCEvidencePublication -----------------------
(***************************************************************************)
(* Instances of EvidencePublication for TLC.  The members every bundle has *)
(* are all written and required alike, so one or two of the eleven stand   *)
(* for them.                                                               *)
(***************************************************************************)
EXTENDS EvidencePublication

CONSTANTS s1, s2

MCCoreMembers == <<"manifest.json">>

=============================================================================
