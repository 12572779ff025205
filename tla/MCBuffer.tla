------------------------------ MODULE MCBuffer ------------------------------
(***************************************************************************)
(* Buffer on a vector of a few bytes, so that the prepend bytes, a move to *)
(* the front, growth and a spilled read all happen within one stream.      *)
(***************************************************************************)
EXTENDS Buffer
=============================================================================
