----------------------------- MODULE SeqFilter -----------------------------
(***************************************************************************)
(* The elements of a sequence that belong to a set, in their order.  It is *)
(* what SelectSeq computes for a membership test, written as a recursive   *)
(* function so that it can be reasoned about.                              *)
(***************************************************************************)
EXTENDS Naturals, Sequences

Keep(s, S) ==
  LET kept[i \in 0 .. Len(s)] ==
        IF i = 0 THEN <<>>
        ELSE IF s[i] \in S THEN Append(kept[i - 1], s[i]) ELSE kept[i - 1]
  IN  kept[Len(s)]
=============================================================================
