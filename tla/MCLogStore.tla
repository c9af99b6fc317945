---------------------------- MODULE MCLogStore -----------------------------
(***************************************************************************)
(* Instances of LogStore for TLC; the constants are all numbers and sets   *)
(* of numbers, given in the configuration files.                           *)
(***************************************************************************)
EXTENDS LogStore
=============================================================================
