-------------------------- MODULE MCDataResolution --------------------------
(* Runs of one op from a private repo, and one of a local op.                 *)
EXTENDS DataResolution
=============================================================================
