--------------------------- MODULE MCCodeownersCache ---------------------------
(***************************************************************************)
(* Constants for TLC.                                                      *)
(***************************************************************************)
EXTENDS CodeownersCache

CONSTANTS i1, r1, v1, v2

MCInstallations == {i1}
MCRepos == {r1}
MCInstallationOf == [r \in MCRepos |-> i1]
MCContents == {v1, v2}
\* A file in the second place that is edited, moved to the first, or moved back; and
\* a repository without one, or one that GitHub does not show for a while.
EditedOrMoved ==
    {<<Absent, v1, Absent>>, <<Absent, v2, Absent>>, <<v1, Absent, Absent>>,
     <<Absent, Absent, Absent>>}

===============================================================================
