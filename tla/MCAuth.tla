------------------------------- MODULE MCAuth -------------------------------
(***************************************************************************)
(* Instances of Auth for TLC.  Calls are interchangeable, and so are       *)
(* passwords and names.                                                    *)
(***************************************************************************)
EXTENDS Auth, TLC

Symmetry == Permutations(Calls) \cup Permutations(Names) \cup Permutations(Passwords)
=============================================================================
