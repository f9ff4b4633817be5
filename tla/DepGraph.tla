------------------------------ MODULE DepGraph ------------------------------
(***************************************************************************)
(* The package graph builder of tools/gen-deps-md.py: the loop of main()   *)
(* (lines 36-55) over the decoded `go list -deps -json` records that fills *)
(* the three defaultdict(set) maps internal / stdlib / third-party, one    *)
(* step per record and one per dependency, as the loops run.              *)
(***************************************************************************)
EXTENDS PackageRecords

VARIABLES
    packages,   \* the list returned by run_go_list()
    k,          \* the number of records the outer loop has finished
    imp,        \* imp_path of the record being processed
    deps,       \* pkg.get("Deps", []) or [] of that record
    d,          \* the number of its dependencies already processed
    internal,   \* internal_deps_by_pkg
    stdlib,     \* stdlib_deps_by_pkg
    third,      \* third_party_deps_by_pkg
    pc          \* "pkgs" (outer loop), "deps" (inner loop), "sort" (line 57)
                \* reached, or "crash" (an exception ended the program)

buildVars == <<k, imp, deps, d, internal, stdlib, third>>
vars == <<packages, pc, buildVars>>

(***************************************************************************)
(* The state of lines 36-38 for a given list of records; packages itself   *)
(* is set by the caller (the decoder, or Init below).                      *)
(***************************************************************************)
BuildInit ==
    /\ k = 0
    /\ imp = <<>>
    /\ deps = <<>>
    /\ d = 0
    /\ internal = EmptyMap
    /\ stdlib = EmptyMap
    /\ third = EmptyMap

Init == packages \in Inputs /\ BuildInit /\ pc = "pkgs"

(***************************************************************************)
(* Line 41-42 on a value that is not an object (pkg.get raises            *)
(* AttributeError) or whose ImportPath is null (None.startswith raises):   *)
(* the exception ends the program.                                         *)
(***************************************************************************)
CrashOnRecord ==
    /\ pc = "pkgs"
    /\ k < Len(packages)
    /\ \/ packages[k + 1] = NotObject
       \/ packages[k + 1] # NotObject /\ packages[k + 1].path = Null
    /\ pc' = "crash"
    /\ UNCHANGED <<packages, buildVars>>

(***************************************************************************)
(* Lines 41-43: a record whose ImportPath is absent ("") or does not start *)
(* with MODULE is skipped.                                                 *)
(***************************************************************************)
SkipRecord ==
    /\ pc = "pkgs"
    /\ k < Len(packages)
    /\ packages[k + 1] # NotObject
    /\ \/ packages[k + 1].path = Absent
       \/ /\ packages[k + 1].path \in Ids
          /\ ~StartsWith(packages[k + 1].path, ModulePath)
    /\ k' = k + 1
    /\ UNCHANGED <<packages, pc, imp, deps, d, internal, stdlib, third>>

(* Mutant: pkg.get("Deps", []) without the trailing "or []" of line 45. *)
EnterRecordNoDefault ==
    /\ pc = "pkgs"
    /\ k < Len(packages)
    /\ packages[k + 1] # NotObject
    /\ packages[k + 1].path \in Ids
    /\ StartsWith(packages[k + 1].path, ModulePath)
    /\ imp' = packages[k + 1].path
    /\ deps' = IF packages[k + 1].deps = Absent THEN <<>> ELSE packages[k + 1].deps
    /\ d' = 0
    /\ pc' = "deps"
    /\ UNCHANGED <<packages, k, internal, stdlib, third>>

(* Lines 41-45: a record in the module's scope enters the inner loop. *)
EnterRecord ==
    /\ pc = "pkgs"
    /\ k < Len(packages)
    /\ packages[k + 1] # NotObject
    /\ packages[k + 1].path \in Ids
    /\ StartsWith(packages[k + 1].path, ModulePath)
    /\ imp' = packages[k + 1].path
    /\ deps' = DepsOf(packages[k + 1])
    /\ d' = 0
    /\ pc' = "deps"
    /\ UNCHANGED <<packages, k, internal, stdlib, third>>

(* s[p].add(q) on a defaultdict(set). *)
Add(s, p, q) == [s EXCEPT ![p] = @ \cup {q}]

(***************************************************************************)
(* Lines 46-55: one dependency is classified and added to the set of its   *)
(* class; a self edge (dep == imp_path) is dropped.                        *)
(***************************************************************************)
AddDep ==
    /\ pc = "deps"
    /\ d < Len(deps)
    /\ LET dep == deps[d + 1]
           cls == Classify(dep, imp)
       IN  /\ internal' = IF cls = "internal" THEN Add(internal, imp, dep)
                                               ELSE internal
           /\ third' = IF cls = "third" THEN Add(third, imp, dep) ELSE third
           /\ stdlib' = IF cls = "stdlib" THEN Add(stdlib, imp, dep)
                                           ELSE stdlib
    /\ d' = d + 1
    /\ UNCHANGED <<packages, pc, k, imp, deps>>

(* Line 45: the inner loop ends; the outer loop moves to the next record. *)
EndDeps ==
    /\ pc = "deps"
    /\ d = Len(deps)
    /\ pc' = "pkgs"
    /\ k' = k + 1
    /\ UNCHANGED <<packages, imp, deps, d, internal, stdlib, third>>

(* Mutant: the outer loop stopping one record early. *)
EndRecordsEarly ==
    /\ pc = "pkgs"
    /\ k + 1 >= Len(packages)
    /\ pc' = "sort"
    /\ UNCHANGED <<packages, buildVars>>

(* Line 40: the outer loop ends and control reaches line 57. *)
EndRecords ==
    /\ pc = "pkgs"
    /\ k = Len(packages)
    /\ pc' = "sort"
    /\ UNCHANGED <<packages, buildVars>>

BuildNext ==
    \/ CrashOnRecord
    \/ SkipRecord
    \/ EnterRecord
    \/ AddDep
    \/ EndDeps
    \/ EndRecords

(* The builder on its own stops where line 57 starts, or at a crash. *)
Stopped == pc \in {"sort", "crash"} /\ UNCHANGED vars

Next == BuildNext \/ Stopped

(* main() is one sequential thread: it keeps running while it can. *)
Spec == Init /\ [][Next]_vars /\ WF_vars(BuildNext)
-----------------------------------------------------------------------------
(* The builder's own variables; TypeOK adds its control states. *)
BuildTypeOK ==
    /\ packages \in Seq(Value)
    /\ k \in 0..Len(packages)
    /\ imp \in Path
    /\ deps \in Seq(Ids)
    /\ d \in 0..Len(deps)
    /\ internal \in [Ids -> SUBSET Ids]
    /\ stdlib \in [Ids -> SUBSET Ids]
    /\ third \in [Ids -> SUBSET Ids]

TypeOK == BuildTypeOK /\ pc \in {"pkgs", "deps", "sort", "crash"}

Edges(p) == internal[p] \cup stdlib[p] \cup third[p]

(***************************************************************************)
(* Classification totality (spec sections 3 and 8): once the loop is done, *)
(* the edges of every package are exactly the distinct dependencies of all *)
(* its records (duplicate records merged) minus itself, each in exactly    *)
(* one class, and that class is the one the path-shape rule gives.         *)
(***************************************************************************)
EdgePartition ==
    pc = "sort" =>
      \A p \in Ids :
        /\ Edges(p) = RawDeps(packages, Len(packages), p) \ {p}
        /\ internal[p] \cap stdlib[p] = {}
        /\ internal[p] \cap third[p] = {}
        /\ stdlib[p] \cap third[p] = {}
        /\ \A q \in internal[p] : StartsWith(q, ModulePath)
        /\ \A q \in third[p] : HasDot(FirstSegment(q))
        /\ \A q \in stdlib[p] : ~HasDot(FirstSegment(q))
(***************************************************************************)
(* Spec sections 4.2 and 4.3, scenario 5: a package is in the module only  *)
(* when its path is the module path followed by "/" or by nothing, so no   *)
(* package outside it gets edges, and no internal edge leads outside it.   *)
(* The code tests str.startswith(MODULE) alone (lines 42 and 46).          *)
(***************************************************************************)
ScopeAtBoundary ==
    \A p \in Ids :
      /\ Edges(p) # {} => InScopeAtBoundary(p)
      /\ \A q \in internal[p] : InScopeAtBoundary(q)

(***************************************************************************)
(* Spec sections 4.1 and 7: a value that is not a package object, or an   *)
(* object whose fields are missing or null, is kept as a record with empty *)
(* fields and excluded from the graph; it is never an error.  The code     *)
(* calls pkg.get and imp_path.startswith on it (lines 41-42).              *)
(***************************************************************************)
NoCrash == pc # "crash"
-----------------------------------------------------------------------------
(***************************************************************************)
(* The refinement mapping: until the loop is over (line 57 reached, or an  *)
(* exception raised) the abstract builder has not moved and its maps are   *)
(* empty; from then on they are the code's maps.                           *)
(***************************************************************************)
BuildOver == pc \in {"sort", "crash"}

Abs == INSTANCE BuildGraph WITH
         internal <- IF BuildOver THEN internal ELSE EmptyMap,
         stdlib <- IF BuildOver THEN stdlib ELSE EmptyMap,
         third <- IF BuildOver THEN third ELSE EmptyMap,
         pc <- IF BuildOver THEN pc ELSE "pkgs"

(***************************************************************************)
(* The loop of lines 40-55, one record and one dependency per step,        *)
(* implements the atomic builder: it ends, and when it ends its maps are   *)
(* those of every record (or of the records before the first one that      *)
(* raises), whatever the order of records, duplicates and self edges.      *)
(***************************************************************************)
BuildRefines == Abs!Spec
=============================================================================
