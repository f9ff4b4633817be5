----------------------------- MODULE BuildGraph -----------------------------
(***************************************************************************)
(* What the builder loop of tools/gen-deps-md.py (lines 40-55) promises,   *)
(* as one atomic step from the record list to the three maps: either no    *)
(* record raises, and each package's maps hold its records' distinct       *)
(* dependencies minus itself, split by path shape; or the first record     *)
(* that raises ends the program with the maps of the records before it.    *)
(***************************************************************************)
EXTENDS PackageRecords

VARIABLES
    packages,   \* the decoded record list
    internal,   \* internal_deps_by_pkg
    stdlib,     \* stdlib_deps_by_pkg
    third,      \* third_party_deps_by_pkg
    pc          \* "pkgs" (not built yet), "sort" (built) or "crash"

vars == <<packages, internal, stdlib, third, pc>>

(* The dependencies package p has over the first n records, minus itself. *)
DepsUpTo(n, p) == RawDeps(packages, n, p) \ {p}

(* The three maps after the first n records, one class per path shape. *)
InternalOf(n) ==
    [p \in Ids |-> {q \in DepsUpTo(n, p) : StartsWith(q, ModulePath)}]

ThirdOf(n) ==
    [p \in Ids |-> {q \in DepsUpTo(n, p) : /\ ~StartsWith(q, ModulePath)
                                          /\ HasDot(FirstSegment(q))}]

StdlibOf(n) ==
    [p \in Ids |-> {q \in DepsUpTo(n, p) : /\ ~StartsWith(q, ModulePath)
                                          /\ ~HasDot(FirstSegment(q))}]

MapsOf(n) ==
    /\ internal' = InternalOf(n)
    /\ third' = ThirdOf(n)
    /\ stdlib' = StdlibOf(n)

Init ==
    /\ packages \in Inputs
    /\ internal = EmptyMap
    /\ stdlib = EmptyMap
    /\ third = EmptyMap
    /\ pc = "pkgs"

(* No record raises: the graph of the whole list is built. *)
Build ==
    /\ pc = "pkgs"
    /\ \A m \in 1..Len(packages) : ~Raises(packages[m])
    /\ MapsOf(Len(packages))
    /\ pc' = "sort"
    /\ UNCHANGED packages

(* Record n is the first that raises: the graph of the records before it. *)
Crash ==
    /\ pc = "pkgs"
    /\ \E n \in 1..Len(packages) :
         /\ Raises(packages[n])
         /\ \A m \in 1..(n - 1) : ~Raises(packages[m])
         /\ MapsOf(n - 1)
    /\ pc' = "crash"
    /\ UNCHANGED packages

Next == Build \/ Crash

Spec == Init /\ [][Next]_vars /\ WF_vars(Next)
=============================================================================
