---------------------------- MODULE MCConnSlots ----------------------------
(***************************************************************************)
(* Instances of ConnSlots for TLC.  Handlers are interchangeable, and so   *)
(* are users: both may be permuted where no liveness property is checked.  *)
(***************************************************************************)
EXTENDS ConnSlots, TLC

Symmetry == Permutations(Reqs) \cup Permutations(Users)
=============================================================================
