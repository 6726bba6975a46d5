----------------------------- MODULE MCSkipList -----------------------------
(* SkipList with four messages, two of them left in the same second. *)
EXTENDS SkipList

MCKeyOf == <<1, 2, 2, 3>>
=============================================================================
