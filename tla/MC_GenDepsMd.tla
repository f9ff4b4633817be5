---------------------------- MODULE MC_GenDepsMd ----------------------------
(***************************************************************************)
(* The whole program on every go-list output of at most four characters   *)
(* built from whitespace, a scalar, a closing bracket and the opening      *)
(* brackets of four records.  The third-party cap is 1 instead of 80 so    *)
(* that sections at, below and above the cap all occur.                    *)
(***************************************************************************)
EXTENDS GenDepsMd

M    == <<"m">>
MA   == <<"m", "/", "a">>
MB   == <<"m", "b">>
S    == <<"s">>
SDot == <<"s", "/", ".">>
T    == <<".", "/", "m">>
TB   == <<"b", ".">>

MCChars == {"m", "a", "b", "s", ".", "/"}
MCModule == M
MCIds == {M, MA, MB, S, SDot, T, TB}

(* ASCII code points. *)
MCCodePoint == [c \in MCChars |->
                  CASE c = "." -> 46 [] c = "/" -> 47 [] c = "a" -> 97
                    [] c = "b" -> 98 [] c = "m" -> 109 [] c = "s" -> 115]

(* The module root with an edge of each class and a self edge; a package  *)
(* with two third-party edges (above the cap) and a repeated one; a       *)
(* package under the module with no dependencies; a look-alike "mb".      *)
R1 == [path |-> M, deps |-> <<MA, T, M, S>>]
R2 == [path |-> MA, deps |-> <<TB, T, TB, SDot>>]
R3 == [path |-> MA, deps |-> Absent]
R4 == [path |-> MB, deps |-> <<S>>]

MCRecords == {R1, R2, R3, R4}

(* The decoder's characters over these records (GoListStream's Char). *)
MCChar == [kind : {"ws", "scalar", "close"}, val : {NotObject}]
            \cup [kind : {"open"}, val : MCRecords]

MCOutputs == BoundedSeq(MCChar, 4)
=============================================================================
