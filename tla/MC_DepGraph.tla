----------------------------- MODULE MC_DepGraph -----------------------------
(***************************************************************************)
(* DepGraph on the module path "m" and six import paths chosen so that     *)
(* every branch of the classification is taken: the module root, a package*)
(* under it, a path that starts with "m" without a "/" boundary ("mb", as  *)
(* ktlfoo against ktl), a standard-library path, one with a dot after its  *)
(* first "/" (still standard library) and one with a dotted first segment. *)
(***************************************************************************)
EXTENDS DepGraph

M    == <<"m">>
MA   == <<"m", "/", "a">>
MB   == <<"m", "b">>
S    == <<"s">>
SDot == <<"s", "/", ".">>
T    == <<".", "/", "m">>

MCChars == {"m", "a", "b", "s", ".", "/"}
MCModule == M
MCIds == {M, MA, MB, S, SDot, T}

(* Dependency lists: absent, null, empty, a self edge, a repeated entry,  *)
(* and lists that reach every class.                                     *)
MCDepLists == {Absent, Null, <<>>, <<M, MA>>, <<MA, MA, S>>, <<T, SDot, MB>>}

MCPaths == {M, MA, MB, S, Absent, Null}

MCValues ==
    {NotObject} \cup [path : MCPaths, deps : MCDepLists]

(* Every list of at most two decoded values. *)
MCInputs == BoundedSeq(MCValues, 2)

(* The well-formed records a `go list` run emits: objects with a path. *)
MCWellFormed == BoundedSeq([path : {M, MA, MB, S}, deps : MCDepLists], 2)
=============================================================================
