--------------------------- MODULE MCTeamPushJobs ----------------------------
(* Instances of TeamPushJobs: one message and one call, two devices. *)
EXTENDS TeamPushJobs, TLC

OneMessage == {1}
OneCall    == {2}

Interchangeable == Permutations(Devices) \union Permutations(Workers)
=============================================================================
