----------------------------- MODULE MCRequest -----------------------------
(***************************************************************************)
(* Instances of Request for TLC.  No symmetry: liveness is checked.        *)
(***************************************************************************)
EXTENDS Request
=============================================================================
