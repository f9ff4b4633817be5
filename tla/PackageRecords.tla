--------------------------- MODULE PackageRecords ---------------------------
(***************************************************************************)
(* The decoded `go list` records as main() of tools/gen-deps-md.py reads   *)
(* them (lines 40-45), and what the builder computes from a list of them.  *)
(* Shared by the builder (DepGraph) and its abstract specification         *)
(* (BuildGraph).                                                           *)
(***************************************************************************)
EXTENDS ImportPaths, FiniteSets

CONSTANTS
    Ids,        \* the finite set of import paths that occur in the input
    Absent,     \* a field missing from a JSON object
    Null,       \* a field whose JSON value is null
    NotObject,  \* a decoded JSON value that is not an object (number, list)
    Inputs      \* the decoded record sequences main() may be given

ASSUME IdsAssumption == Ids \subseteq Path

ASSUME IdsFiniteAssumption == IsFiniteSet(Ids)

(***************************************************************************)
(* A decoded JSON object, abstracted to the two fields the code reads.     *)
(* Any other field is ignored by the code and left out.                    *)
(***************************************************************************)
Record == [path : Ids \cup {Absent, Null}, deps : Seq(Ids) \cup {Absent, Null}]

Value == Record \cup {NotObject}

ASSUME InputsAssumption == Inputs \subseteq Seq(Value)

(* The sentinels are distinct non-paths, and a non-object is no object. *)
ASSUME SentinelAssumption ==
    /\ Absent \notin Ids /\ Null \notin Ids /\ Absent # Null
    /\ NotObject \notin Record

(* A defaultdict(set) that has never been written: every key maps to {}. *)
EmptyMap == [p \in Ids |-> {}]

(* pkg.get("Deps", []) or []: an absent or null list is the empty list. *)
DepsOf(rec) == IF rec.deps \in {Absent, Null} THEN <<>> ELSE rec.deps

(***************************************************************************)
(* A value on which lines 41-42 raise: pkg.get on a non-object             *)
(* (AttributeError), or .startswith on a null ImportPath.                  *)
(***************************************************************************)
Raises(rec) == rec = NotObject \/ (rec # NotObject /\ rec.path = Null)

(* A record the code takes into the graph (line 42 passes). *)
InCodeScope(rec) ==
    /\ rec # NotObject
    /\ rec.path \in Ids
    /\ StartsWith(rec.path, ModulePath)

(***************************************************************************)
(* The raw dependencies of package p over the first n records of list pk: *)
(* the union of the Deps lists of every in-scope record with ImportPath p. *)
(***************************************************************************)
RawDeps(pk, n, p) ==
    UNION {ToSet(DepsOf(pk[m])) :
             m \in {m \in 1..n : InCodeScope(pk[m]) /\ pk[m].path = p}}

=============================================================================
