--------------------------- MODULE MC_GoListStream ---------------------------
(***************************************************************************)
(* GoListStream on every text of at most five characters over whitespace, *)
(* a scalar, a closing bracket and opening brackets of two objects: long   *)
(* enough for two values back to back with and without whitespace, nested *)
(* brackets, a stray closing bracket and an unterminated object.           *)
(***************************************************************************)
EXTENDS GoListStream, SequencesExt

CONSTANTS P1, P2, Scalar

MCPayloads == {P1, P2}

MCOutputs == BoundedSeq(Char, 5)
=============================================================================
