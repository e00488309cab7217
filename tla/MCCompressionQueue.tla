------------------------- MODULE MCCompressionQueue --------------------------
(* The instance of CompressionQueue for TLC. *)
EXTENDS CompressionQueue

CONSTANTS j1, j2

TwoJobs == {j1, j2}
=============================================================================
