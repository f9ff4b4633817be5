--------------------------- MODULE DepGraphProofs ---------------------------
(***************************************************************************)
(* Proofs about DepGraph, the builder loop of tools/gen-deps-md.py, for    *)
(* every module path, alphabet, set of paths and input list.               *)
(***************************************************************************)
EXTENDS DepGraph, TLAPS

(* The dependencies of the current record that the inner loop has added. *)
DoneDeps == {deps[j] : j \in 1..d}

(***************************************************************************)
(* The inductive invariant.  EdgePartition speaks only of the end of the   *)
(* loop; to carry it through the loop, BuildInv says what the maps hold    *)
(* after k records and d dependencies of record k+1, and that every edge   *)
(* already added has the class the path-shape rule gives it.               *)
(***************************************************************************)
ClassesRespected ==
    \A p \in Ids :
      /\ \A q \in internal[p] : StartsWith(q, ModulePath)
      /\ \A q \in third[p] : ~StartsWith(q, ModulePath) /\ HasDot(FirstSegment(q))
      /\ \A q \in stdlib[p] : ~StartsWith(q, ModulePath) /\ ~HasDot(FirstSegment(q))

LoopProgress ==
    /\ pc \in {"pkgs", "sort", "crash"} =>
         \A p \in Ids : Edges(p) = RawDeps(packages, k, p) \ {p}
    /\ pc = "deps" =>
         /\ k < Len(packages)
         /\ InCodeScope(packages[k + 1])
         /\ imp = packages[k + 1].path
         /\ deps = DepsOf(packages[k + 1])
         /\ \A p \in Ids :
              Edges(p) = (RawDeps(packages, k, p) \cup (IF p = imp THEN DoneDeps ELSE {}))
                           \ {p}
    /\ pc = "sort" => k = Len(packages)

BuildInv == TypeOK /\ ClassesRespected /\ LoopProgress
USE IdsAssumption, InputsAssumption, ModuleAssumption

-----------------------------------------------------------------------------
(***************************************************************************)
(* Type correctness: every step of the loops keeps the offsets within the  *)
(* lists and the three maps functions from paths to sets of paths.         *)
(***************************************************************************)
LEMMA DepsOfType ==
    ASSUME NEW rec \in Record
    PROVE  DepsOf(rec) \in Seq(Ids)
BY DEF DepsOf, Record

LEMMA AddType ==
    ASSUME NEW s \in [Ids -> SUBSET Ids], NEW p, NEW q \in Ids
    PROVE  Add(s, p, q) \in [Ids -> SUBSET Ids]
BY DEF Add

(* TypeOK alone is not inductive: the inner loop runs on a record of the list. *)
TypeInv == TypeOK /\ (pc = "deps" => k < Len(packages))

LEMMA TypeInit == Init => TypeInv
BY DEF Init, BuildInit, TypeInv, TypeOK, BuildTypeOK, EmptyMap, Path

LEMMA TypeStep == TypeInv /\ [Next]_vars => TypeInv'
<1> SUFFICES ASSUME TypeInv, [Next]_vars PROVE TypeInv'
  OBVIOUS
<1> USE DEF TypeInv, TypeOK, BuildTypeOK
<1>1. CASE CrashOnRecord
  BY <1>1 DEF CrashOnRecord, buildVars
<1>2. CASE SkipRecord
  BY <1>2 DEF SkipRecord
<1>3. CASE EnterRecord
  <2>1. packages[k + 1] \in Record
    BY <1>3 DEF EnterRecord, Value
  <2>2. deps' \in Seq(Ids)
    BY <1>3, <2>1, DepsOfType DEF EnterRecord
  <2>3. imp' \in Path
    BY <1>3, <2>1 DEF EnterRecord, Record
  <2>. QED
    BY <1>3, <2>2, <2>3 DEF EnterRecord
<1>4. CASE AddDep
  <2>1. deps[d + 1] \in Ids
    BY <1>4 DEF AddDep
  <2>. QED
    BY <1>4, <2>1, AddType DEF AddDep
<1>5. CASE EndDeps
  BY <1>5 DEF EndDeps
<1>6. CASE EndRecords
  BY <1>6 DEF EndRecords, buildVars
<1>7. CASE Stopped \/ UNCHANGED vars
  BY <1>7 DEF Stopped, vars, buildVars
<1>. QED
  BY <1>1, <1>2, <1>3, <1>4, <1>5, <1>6, <1>7 DEF Next, BuildNext

(* The builder's variables keep their types in every reachable state. *)
THEOREM TypeCorrect == Spec => []TypeOK
<1>1. TypeInv => TypeOK
  BY DEF TypeInv
<1>. QED
  BY TypeInit, TypeStep, <1>1, PTL DEF Spec
-----------------------------------------------------------------------------
(***************************************************************************)
(* Lemmas on the operators the loop is built from.                         *)
(***************************************************************************)
USE SentinelAssumption

(* No record is read before the loop: the raw dependencies start empty. *)
LEMMA RawDepsZero ==
    ASSUME NEW pk, NEW p
    PROVE  RawDeps(pk, 0, p) = {}
BY DEF RawDeps

(* One more record adds its list when it is in scope with path p. *)
LEMMA RawDepsStep ==
    ASSUME NEW pk, NEW n \in Nat, NEW p
    PROVE  RawDeps(pk, n + 1, p) =
             RawDeps(pk, n, p) \cup
               (IF InCodeScope(pk[n + 1]) /\ pk[n + 1].path = p
                THEN ToSet(DepsOf(pk[n + 1])) ELSE {})
<1> DEFINE Sel(m) == {j \in 1..m : InCodeScope(pk[j]) /\ pk[j].path = p}
<1>1. Sel(n + 1) = Sel(n) \cup (IF InCodeScope(pk[n + 1]) /\ pk[n + 1].path = p
                                THEN {n + 1} ELSE {})
  OBVIOUS
<1>. QED
  BY <1>1 DEF RawDeps

(* The class Classify gives is one of four, each with its path shape. *)
LEMMA ClassifyCases ==
    ASSUME NEW dep, NEW q
    PROVE  \/ Classify(dep, q) = "internal" /\ StartsWith(dep, ModulePath) /\ dep # q
           \/ Classify(dep, q) = "self" /\ dep = q
           \/ Classify(dep, q) = "third" /\ ~StartsWith(dep, ModulePath)
                                         /\ HasDot(FirstSegment(dep))
           \/ Classify(dep, q) = "stdlib" /\ ~StartsWith(dep, ModulePath)
                                          /\ ~HasDot(FirstSegment(dep))
BY DEF Classify

(* The classes are distinct strings. *)
LEMMA ClassNames ==
    /\ "internal" # "self" /\ "internal" # "third" /\ "internal" # "stdlib"
    /\ "self" # "third" /\ "self" # "stdlib" /\ "third" # "stdlib"
OBVIOUS
-----------------------------------------------------------------------------
(***************************************************************************)
(* Classification totality.  IInv is inductive: the initial state has no   *)
(* edges and has read no record; each step of the loops keeps the maps     *)
(* equal to the dependencies read so far, minus self edges, in the class   *)
(* the path-shape rule gives.                                              *)
(***************************************************************************)
IInv == TypeInv /\ ClassesRespected /\ LoopProgress

LEMMA IInvInit == Init => IInv
<1> SUFFICES ASSUME Init PROVE IInv
  OBVIOUS
<1>1. TypeInv
  BY TypeInit
<1>2. ClassesRespected
  BY DEF Init, BuildInit, EmptyMap, ClassesRespected
<1>3. LoopProgress
  BY RawDepsZero DEF Init, BuildInit, EmptyMap, LoopProgress, Edges
<1>. QED
  BY <1>1, <1>2, <1>3 DEF IInv

LEMMA IInvStep == IInv /\ [Next]_vars => IInv'
<1> SUFFICES ASSUME IInv, [Next]_vars PROVE IInv'
  OBVIOUS
<1>0. TypeInv'
  BY TypeStep DEF IInv
<1> USE DEF IInv, TypeInv, TypeOK, BuildTypeOK
<1>1. CASE CrashOnRecord
  BY <1>0, <1>1 DEF CrashOnRecord, buildVars, ClassesRespected, LoopProgress,
                    Edges, DoneDeps
<1>2. CASE SkipRecord
  <2>1. ~InCodeScope(packages[k + 1])
    BY <1>2 DEF SkipRecord, InCodeScope
  <2>2. \A p \in Ids : RawDeps(packages, k + 1, p) = RawDeps(packages, k, p)
    <3>1. k \in Nat
      OBVIOUS
    <3>2. ASSUME NEW p \in Ids
          PROVE  RawDeps(packages, k + 1, p) = RawDeps(packages, k, p)
      <4>1. RawDeps(packages, k + 1, p) =
              RawDeps(packages, k, p) \cup
                (IF InCodeScope(packages[k + 1]) /\ packages[k + 1].path = p
                 THEN ToSet(DepsOf(packages[k + 1])) ELSE {})
        BY <3>1, RawDepsStep
      <4>. QED
        BY <2>1, <4>1
    <3>. QED
      BY <3>2
  <2>3. ClassesRespected'
    BY <1>2 DEF SkipRecord, ClassesRespected
  <2>4. LoopProgress'
    BY <1>2, <2>2 DEF SkipRecord, LoopProgress, Edges
  <2>. QED
    BY <1>0, <2>3, <2>4
<1>3. CASE EnterRecord
  <2>1. InCodeScope(packages[k + 1])
    BY <1>3 DEF EnterRecord, InCodeScope
  <2>2. DoneDeps' = {}
    BY <1>3 DEF EnterRecord, DoneDeps
  <2>3. ClassesRespected'
    BY <1>3 DEF EnterRecord, ClassesRespected
  <2>4. LoopProgress'
    BY <1>3, <2>1, <2>2 DEF EnterRecord, LoopProgress, Edges
  <2>. QED
    BY <1>0, <2>3, <2>4
<1>4. CASE AddDep
  <2> DEFINE dep == deps[d + 1]
             cls == Classify(dep, imp)
  <2>1. /\ k < Len(packages)
        /\ InCodeScope(packages[k + 1])
        /\ imp = packages[k + 1].path
        /\ deps = DepsOf(packages[k + 1])
        /\ \A p \in Ids :
             Edges(p) = (RawDeps(packages, k, p) \cup (IF p = imp THEN DoneDeps ELSE {})) \ {p}
    BY <1>4 DEF AddDep, LoopProgress
  <2>2. imp \in Ids /\ StartsWith(imp, ModulePath)
    BY <2>1 DEF InCodeScope
  <2>3. dep \in Ids
    BY <1>4 DEF AddDep
  <2>4. DoneDeps' = DoneDeps \cup {dep}
    BY <1>4 DEF AddDep, DoneDeps
  <2>5. \/ cls = "internal" /\ StartsWith(dep, ModulePath) /\ dep # imp
        \/ cls = "self" /\ dep = imp
        \/ cls = "third" /\ ~StartsWith(dep, ModulePath) /\ HasDot(FirstSegment(dep))
        \/ cls = "stdlib" /\ ~StartsWith(dep, ModulePath) /\ ~HasDot(FirstSegment(dep))
    BY ClassifyCases
  <2>6. \A p \in Ids : Edges(p)' = IF p = imp /\ dep # imp THEN Edges(p) \cup {dep}
                                                          ELSE Edges(p)
    <3>1. CASE cls = "internal"
      BY <1>4, <2>2, <2>5, <3>1, ClassNames DEF AddDep, Add, Edges
    <3>2. CASE cls = "self"
      BY <1>4, <2>5, <3>2, ClassNames DEF AddDep, Edges
    <3>3. CASE cls = "third"
      BY <1>4, <2>2, <2>5, <3>3, ClassNames DEF AddDep, Add, Edges
    <3>4. CASE cls = "stdlib"
      BY <1>4, <2>2, <2>5, <3>4, ClassNames DEF AddDep, Add, Edges
    <3>. QED
      BY <2>5, <3>1, <3>2, <3>3, <3>4
  <2>7. ClassesRespected'
    <3>1. CASE cls = "internal"
      BY <1>4, <2>2, <2>5, <3>1, ClassNames DEF AddDep, Add, ClassesRespected
    <3>2. CASE cls = "self"
      BY <1>4, <2>5, <3>2, ClassNames DEF AddDep, ClassesRespected
    <3>3. CASE cls = "third"
      BY <1>4, <2>2, <2>5, <3>3, ClassNames DEF AddDep, Add, ClassesRespected
    <3>4. CASE cls = "stdlib"
      BY <1>4, <2>2, <2>5, <3>4, ClassNames DEF AddDep, Add, ClassesRespected
    <3>. QED
      BY <2>5, <3>1, <3>2, <3>3, <3>4
  <2>8. \A p \in Ids :
          Edges(p)' = (RawDeps(packages, k, p) \cup (IF p = imp THEN DoneDeps' ELSE {})) \ {p}
    BY <2>1, <2>4, <2>6
  <2>9. LoopProgress'
    BY <1>4, <2>1, <2>8 DEF AddDep, LoopProgress
  <2>. QED
    BY <1>0, <2>7, <2>9
<1>5. CASE EndDeps
  <2>1. /\ k < Len(packages)
        /\ InCodeScope(packages[k + 1])
        /\ imp = packages[k + 1].path
        /\ deps = DepsOf(packages[k + 1])
        /\ \A p \in Ids :
             Edges(p) = (RawDeps(packages, k, p) \cup (IF p = imp THEN DoneDeps ELSE {})) \ {p}
    BY <1>5 DEF EndDeps, LoopProgress
  <2>2. DoneDeps = ToSet(DepsOf(packages[k + 1]))
    BY <1>5, <2>1 DEF EndDeps, DoneDeps, ToSet
  <2>3. \A p \in Ids :
          RawDeps(packages, k + 1, p) = RawDeps(packages, k, p) \cup (IF p = imp THEN DoneDeps ELSE {})
    BY <2>1, <2>2, RawDepsStep
  <2>4. \A p \in Ids : Edges(p)' = RawDeps(packages, k + 1, p) \ {p}
    BY <1>5, <2>1, <2>3 DEF EndDeps, Edges
  <2>5. LoopProgress'
    BY <1>5, <2>4 DEF EndDeps, LoopProgress, Edges
  <2>6. ClassesRespected'
    BY <1>5 DEF EndDeps, ClassesRespected
  <2>. QED
    BY <1>0, <2>5, <2>6
<1>6. CASE EndRecords
  BY <1>0, <1>6 DEF EndRecords, buildVars, ClassesRespected, LoopProgress,
                    Edges
<1>7. CASE Stopped \/ UNCHANGED vars
  <2>1. UNCHANGED <<packages, pc, k, imp, deps, d, internal, stdlib, third>>
    BY <1>7 DEF Stopped, vars, buildVars
  <2>2. ClassesRespected'
    BY <2>1 DEF ClassesRespected
  <2>3. LoopProgress'
    BY <2>1 DEF LoopProgress, Edges, DoneDeps
  <2>. QED
    BY <1>0, <2>2, <2>3
<1>. QED
  BY <1>1, <1>2, <1>3, <1>4, <1>5, <1>6, <1>7 DEF Next, BuildNext

LEMMA IInvImpliesPartition == IInv => EdgePartition
<1> SUFFICES ASSUME IInv, pc = "sort", NEW p \in Ids
             PROVE  /\ Edges(p) = RawDeps(packages, Len(packages), p) \ {p}
                    /\ internal[p] \cap stdlib[p] = {}
                    /\ internal[p] \cap third[p] = {}
                    /\ stdlib[p] \cap third[p] = {}
                    /\ \A q \in internal[p] : StartsWith(q, ModulePath)
                    /\ \A q \in third[p] : HasDot(FirstSegment(q))
                    /\ \A q \in stdlib[p] : ~HasDot(FirstSegment(q))
  BY DEF EdgePartition
<1>1. Edges(p) = RawDeps(packages, Len(packages), p) \ {p}
  BY DEF IInv, LoopProgress
<1>2. ClassesRespected
  BY DEF IInv
<1>. QED
  BY <1>1, <1>2 DEF ClassesRespected

(***************************************************************************)
(* Classification totality for every input: when the loop of lines 40-55   *)
(* ends, each package's edges are exactly the distinct dependencies of its *)
(* records minus itself, each in one class, the class of its path shape.   *)
(***************************************************************************)
THEOREM Partition == Spec => []EdgePartition
BY IInvInit, IInvStep, IInvImpliesPartition, PTL DEF Spec
-----------------------------------------------------------------------------
(***************************************************************************)
(* Refinement.  Besides IInv the mapping needs that no record before k     *)
(* raises, so that the record of a crash is the first one that does.       *)
(***************************************************************************)
NoRaiseBefore == \A m \in 1..k : ~Raises(packages[m])

RInv == IInv /\ NoRaiseBefore

LEMMA RInvInit == Init => RInv
BY IInvInit DEF Init, BuildInit, RInv, NoRaiseBefore

LEMMA RInvStep == RInv /\ [Next]_vars => RInv'
<1> SUFFICES ASSUME RInv, [Next]_vars PROVE RInv'
  OBVIOUS
<1>1. IInv'
  BY IInvStep DEF RInv
<1> USE DEF RInv, IInv, TypeInv, TypeOK, BuildTypeOK
<1>2. CASE SkipRecord
  <2>1. ~Raises(packages[k + 1])
    BY <1>2 DEF SkipRecord, Raises
  <2>. QED
    BY <1>1, <1>2, <2>1 DEF SkipRecord, NoRaiseBefore
<1>3. CASE EndDeps
  <2>1. InCodeScope(packages[k + 1])
    BY <1>3 DEF EndDeps, LoopProgress
  <2>2. ~Raises(packages[k + 1])
    BY <2>1 DEF InCodeScope, Raises
  <2>. QED
    BY <1>1, <1>3, <2>2 DEF EndDeps, NoRaiseBefore
<1>4. CASE CrashOnRecord \/ EnterRecord \/ AddDep \/ EndRecords
      \/ Stopped \/ UNCHANGED vars
  BY <1>1, <1>4 DEF CrashOnRecord, EnterRecord, AddDep, EndRecords, Stopped,
                    vars, buildVars, NoRaiseBefore
<1>. QED
  BY <1>2, <1>3, <1>4 DEF Next, BuildNext

(***************************************************************************)
(* The instance Abs has its own copies of the operators BuildGraph takes   *)
(* from PackageRecords and ImportPaths; they equal the originals, since    *)
(* the mapping substitutes none of the variables they read.                *)
(***************************************************************************)
LEMMA AbsDepsUpTo ==
    ASSUME NEW n, NEW p
    PROVE  Abs!DepsUpTo(n, p) = RawDeps(packages, n, p) \ {p}
BY DEF Abs!DepsUpTo, Abs!RawDeps, RawDeps, Abs!InCodeScope, InCodeScope,
       Abs!StartsWith, StartsWith, Abs!IsPrefix, IsPrefix, Abs!DepsOf, DepsOf,
       Abs!ToSet, ToSet

LEMMA AbsShapes ==
    ASSUME NEW q
    PROVE  /\ Abs!StartsWith(q, ModulePath) = StartsWith(q, ModulePath)
           /\ Abs!HasDot(Abs!FirstSegment(q)) = HasDot(FirstSegment(q))
BY DEF Abs!StartsWith, StartsWith, Abs!IsPrefix, IsPrefix, Abs!HasDot, HasDot,
       Abs!FirstSegment, FirstSegment, Abs!SelectInSeq, SelectInSeq, Abs!Min, Min

LEMMA AbsRaises ==
    ASSUME NEW rec
    PROVE  Abs!Raises(rec) = Raises(rec)
BY DEF Abs!Raises, Raises

LEMMA AbsEmptyMap == Abs!EmptyMap = EmptyMap
BY DEF Abs!EmptyMap, EmptyMap

(***************************************************************************)
(* Outside the inner loop the three maps are the abstract builder's maps   *)
(* of the first k records: the edges are the raw dependencies minus the    *)
(* package, and each class holds exactly the edges of its path shape.      *)
(***************************************************************************)
LEMMA MapsAreAbstract ==
    ASSUME IInv, pc \in {"pkgs", "sort", "crash"}
    PROVE  /\ internal = Abs!InternalOf(k)
           /\ third = Abs!ThirdOf(k)
           /\ stdlib = Abs!StdlibOf(k)
<1> USE DEF IInv, TypeInv, TypeOK, BuildTypeOK
<1>1. \A p \in Ids : Edges(p) = RawDeps(packages, k, p) \ {p}
  BY DEF LoopProgress
<1>2. ASSUME NEW p \in Ids
      PROVE  /\ internal[p] = Abs!InternalOf(k)[p]
             /\ third[p] = Abs!ThirdOf(k)[p]
             /\ stdlib[p] = Abs!StdlibOf(k)[p]
  <2>1. Edges(p) = Abs!DepsUpTo(k, p)
    BY <1>1, AbsDepsUpTo
  <2>2. /\ \A q \in internal[p] : StartsWith(q, ModulePath)
        /\ \A q \in third[p] : ~StartsWith(q, ModulePath) /\ HasDot(FirstSegment(q))
        /\ \A q \in stdlib[p] : ~StartsWith(q, ModulePath) /\ ~HasDot(FirstSegment(q))
    BY DEF ClassesRespected
  <2>3. \A q : /\ Abs!StartsWith(q, ModulePath) = StartsWith(q, ModulePath)
               /\ Abs!HasDot(Abs!FirstSegment(q)) = HasDot(FirstSegment(q))
    BY AbsShapes
  <2>4. internal[p] = {q \in Abs!DepsUpTo(k, p) : Abs!StartsWith(q, ModulePath)}
    BY <2>1, <2>2, <2>3 DEF Edges
  <2>5. third[p] = {q \in Abs!DepsUpTo(k, p) : /\ ~Abs!StartsWith(q, ModulePath)
                                              /\ Abs!HasDot(Abs!FirstSegment(q))}
    BY <2>1, <2>2, <2>3 DEF Edges
  <2>6. stdlib[p] = {q \in Abs!DepsUpTo(k, p) : /\ ~Abs!StartsWith(q, ModulePath)
                                               /\ ~Abs!HasDot(Abs!FirstSegment(q))}
    BY <2>1, <2>2, <2>3 DEF Edges
  <2>. QED
    BY <2>4, <2>5, <2>6 DEF Abs!InternalOf, Abs!ThirdOf, Abs!StdlibOf
<1>. QED
  BY <1>2 DEF Abs!InternalOf, Abs!ThirdOf, Abs!StdlibOf

(* The initial state maps to the abstract initial state. *)
LEMMA AbsInit == Init => Abs!Init
BY AbsEmptyMap DEF Init, BuildInit, Abs!Init, BuildOver

(* Every step maps to an abstract step or to a stutter. *)
LEMMA AbsStep == RInv /\ [Next]_vars => [Abs!Next]_Abs!vars
<1> SUFFICES ASSUME RInv, [Next]_vars PROVE [Abs!Next]_Abs!vars
  OBVIOUS
<1> USE DEF RInv, IInv, TypeInv, TypeOK, BuildTypeOK
<1>1. CASE CrashOnRecord
  <2>1. /\ internal = Abs!InternalOf(k)
        /\ third = Abs!ThirdOf(k)
        /\ stdlib = Abs!StdlibOf(k)
    BY <1>1, MapsAreAbstract DEF CrashOnRecord
  <2>2. /\ k + 1 \in 1..Len(packages)
        /\ (k + 1) - 1 = k
    BY <1>1 DEF CrashOnRecord
  <2>3. Raises(packages[k + 1]) /\ \A m \in 1..k : ~Raises(packages[m])
    BY <1>1 DEF CrashOnRecord, Raises, NoRaiseBefore
  <2>4. /\ Abs!Raises(packages[k + 1])
        /\ \A m \in 1..((k + 1) - 1) : ~Abs!Raises(packages[m])
    BY <2>2, <2>3, AbsRaises
  <2>5. Abs!Crash
    BY <1>1, <2>1, <2>2, <2>4 DEF CrashOnRecord, buildVars, BuildOver, Abs!Crash,
                            Abs!MapsOf
  <2>. QED
    BY <2>5 DEF Abs!Next
<1>2. CASE EndRecords
  <2>1. /\ internal = Abs!InternalOf(k)
        /\ third = Abs!ThirdOf(k)
        /\ stdlib = Abs!StdlibOf(k)
    BY <1>2, MapsAreAbstract DEF EndRecords
  <2>2. \A m \in 1..Len(packages) : ~Abs!Raises(packages[m])
    BY <1>2, AbsRaises DEF EndRecords, NoRaiseBefore
  <2>3. Abs!Build
    BY <1>2, <2>1, <2>2 DEF EndRecords, buildVars, BuildOver, Abs!Build,
                            Abs!MapsOf
  <2>. QED
    BY <2>3 DEF Abs!Next
<1>3. CASE SkipRecord \/ EnterRecord \/ AddDep \/ EndDeps
  BY <1>3 DEF SkipRecord, EnterRecord, AddDep, EndDeps, BuildOver, Abs!vars
<1>4. CASE Stopped \/ UNCHANGED vars
  BY <1>4 DEF Stopped, vars, buildVars, BuildOver, Abs!vars
<1>. QED
  BY <1>1, <1>2, <1>3, <1>4 DEF Next, BuildNext

(***************************************************************************)
(* The loop of lines 40-55 implements the safety part of the atomic        *)
(* builder BuildGraph under the mapping of DepGraph: it only ever ends     *)
(* with the maps of all records, or, at the first record that raises,      *)
(* with the maps of the records before it.                                 *)
(***************************************************************************)
THEOREM Refinement == Spec => Abs!Init /\ [][Abs!Next]_Abs!vars
<1>1. Spec => []RInv
  BY RInvInit, RInvStep, PTL DEF Spec
<1>. QED
  BY <1>1, AbsInit, AbsStep, PTL DEF Spec
=============================================================================
