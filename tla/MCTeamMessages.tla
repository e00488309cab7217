--------------------------- MODULE MCTeamMessages ----------------------------
(* Instances of TeamMessages. *)
EXTENDS TeamMessages

CONSTANTS hello, hi

Own    == {hello}
Others == {hi}
=============================================================================
