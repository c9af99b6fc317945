------------------------------ MODULE MCAudit ------------------------------
(***************************************************************************)
(* Instances of Audit for TLC.  The handlers are interchangeable.          *)
(***************************************************************************)
EXTENDS Audit, TLC

Symmetry == Permutations(Handlers)
=============================================================================
