--------------------------- MODULE GenDepsMdProofs ---------------------------
(***************************************************************************)
(* Proofs about the whole of tools/gen-deps-md.py (GenDepsMd): the three   *)
(* phases of main() hand over through packages, the maps and pc, and the   *)
(* report printed at the end is ordered and truncated as the spec says,    *)
(* for every module path, alphabet, set of paths, cap and go output.       *)
(***************************************************************************)
EXTENDS GenDepsMd, DepGraphProofs, DepReportProofs, TLAPS

(* The decoder's lemmas, for the decoder main() runs. *)
SP == INSTANCE GoListStreamProofs WITH Payloads <- Objects, ScalarValue <- NotObject

(* The package list of line 57: the keys of the three maps. *)
AllKeys == Keys(internal) \cup Keys(stdlib) \cup Keys(third)

(***************************************************************************)
(* The inductive invariant.  MainTypeOK is not inductive on its own: it    *)
(* needs the offsets each control state implies, and that the report is    *)
(* empty until line 57 and afterwards holds, section by section, what      *)
(* lines 71-102 render from the sorted keys of the (no longer changing)    *)
(* maps.                                                                   *)
(***************************************************************************)
GInv ==
    /\ MainTypeOK
    /\ pc = "list" => i = 0
    /\ pc = "value" => i < Len(buf)
    /\ pc = "deps" => k < Len(packages)
    /\ pc \notin {"render", "done"} => report = <<>> /\ r = 0
    /\ pc \in {"render", "done"} =>
         /\ pkgs = Sorted(AllKeys)
         /\ Len(report) = r
         /\ \A n \in 1..r : report[n] = SectionOf(internal, third, stdlib, pkgs[n])
    /\ pc = "done" => r = Len(pkgs)

USE IdsAssumption, IdsFiniteAssumption, ObjectsAssumption, OutputTextAssumption,
    CapAssumption

(* The decoder main() runs is the one GoListStreamProofs is about. *)
LEMMA StreamValueEnd ==
    ASSUME NEW b \in Seq(Stream!Char), NEW at \in 0..(Len(b) - 1)
    PROVE  Stream!ValueEnd(b, at) = -1 \/ Stream!ValueEnd(b, at) \in (at + 1)..Len(b)
<1>1. Stream!Char = SP!Char
  BY DEF Stream!Char, SP!Char
<1>2. Stream!ValueEnd(b, at) = SP!ValueEnd(b, at)
  BY DEF Stream!ValueEnd, SP!ValueEnd, Stream!Depth, SP!Depth
<1>. QED
  BY <1>1, <1>2, SP!ValueEndRange

(* The keys of the three maps are paths of the graph. *)
LEMMA AllKeysType ==
    ASSUME internal \in [Ids -> SUBSET Ids], stdlib \in [Ids -> SUBSET Ids],
           third \in [Ids -> SUBSET Ids]
    PROVE  AllKeys \in SUBSET Ids
BY DEF AllKeys, Keys

LEMMA GInit == MainInit => GInv
<1> SUFFICES ASSUME MainInit PROVE GInv
  OBVIOUS
<1>1. Stream!StreamDataOK
  BY DEF MainInit, Stream!StreamInit, Stream!StreamDataOK
<1>2. BuildTypeOK
  BY DEF MainInit, Stream!StreamInit, BuildInit, BuildTypeOK, EmptyMap, Path
<1>3. RenderTypeOK
  BY DEF MainInit, RenderInit, RenderTypeOK
<1>. QED
  BY <1>1, <1>2, <1>3 DEF MainInit, Stream!StreamInit, RenderInit, GInv, MainTypeOK

(* The decoder's steps: before line 57, so the report stays empty. *)
LEMMA GStepStream ==
    ASSUME GInv, Stream!StreamNext, UNCHANGED <<buildVars, renderVars>>
    PROVE  GInv'
<1> USE DEF GInv, MainTypeOK, Stream!StreamDataOK, BuildTypeOK, RenderTypeOK,
            buildVars, renderVars
<1>0. pc \in {"list", "loop", "ws", "value"}
  BY DEF Stream!StreamNext, Stream!ListSucceeds, Stream!ListFails,
         Stream!LoopEnter, Stream!LoopExit, Stream!SkipWs, Stream!BreakAtEnd,
         Stream!WsDone, Stream!DecodeValue, Stream!DecodeFails
<1>1. CASE Stream!ListSucceeds
  <2>1. buf' \in Seq(Stream!Char)
    BY <1>1 DEF Stream!ListSucceeds
  <2>. QED
    BY <1>0, <1>1, <2>1 DEF Stream!ListSucceeds
<1>2. CASE Stream!DecodeValue
  <2>1. i \in 0..(Len(buf) - 1) /\ buf[i + 1] \in Stream!Char
    BY <1>2 DEF Stream!DecodeValue
  <2>2. i' \in (i + 1)..Len(buf)
    BY <1>2, <2>1, StreamValueEnd DEF Stream!DecodeValue
  <2>3. buf[i + 1].val \in Objects \cup {NotObject}
    BY <2>1 DEF Stream!Char
  <2>4. buf[i + 1].val \in Value
    BY <2>3 DEF Value
  <2>5. packages' \in Seq(Objects \cup {NotObject}) /\ packages' \in Seq(Value)
        /\ Len(packages') = Len(packages) + 1
    BY <1>2, <2>3, <2>4 DEF Stream!DecodeValue
  <2>. QED
    BY <1>0, <1>2, <2>2, <2>5 DEF Stream!DecodeValue
<1>3. CASE Stream!SkipWs
  BY <1>0, <1>3 DEF Stream!SkipWs
<1>4. CASE \/ Stream!ListFails \/ Stream!LoopEnter \/ Stream!LoopExit
           \/ Stream!BreakAtEnd \/ Stream!WsDone \/ Stream!DecodeFails
  BY <1>0, <1>4 DEF Stream!ListFails, Stream!LoopEnter, Stream!LoopExit,
                    Stream!BreakAtEnd, Stream!WsDone, Stream!DecodeFails
<1>. QED
  BY <1>1, <1>2, <1>3, <1>4 DEF Stream!StreamNext

(* The builder's steps: before line 57 too; DepGraphProofs gives the types. *)
LEMMA GStepBuild ==
    ASSUME GInv, BuildNext, UNCHANGED <<buf, i, renderVars>>
    PROVE  GInv'
<1>1. pc \in {"pkgs", "deps"} /\ pc' \in {"pkgs", "deps", "sort", "crash"}
  BY DEF BuildNext, CrashOnRecord, SkipRecord, EnterRecord, AddDep, EndDeps,
         EndRecords
<1>2. UNCHANGED packages
  BY DEF BuildNext, CrashOnRecord, SkipRecord, EnterRecord, AddDep, EndDeps,
         EndRecords
<1>3. TypeInv
  BY <1>1 DEF GInv, MainTypeOK, TypeInv, TypeOK
<1>4. TypeInv'
  BY <1>3, TypeStep DEF Next
<1>. QED
  BY <1>1, <1>2, <1>4 DEF GInv, MainTypeOK, TypeInv, TypeOK, Stream!StreamDataOK,
                          RenderTypeOK, renderVars

(* The renderer's steps: the maps no longer change. *)
LEMMA GStepRender ==
    ASSUME GInv, RenderNext, UNCHANGED <<buf, i, packages, buildVars>>
    PROVE  GInv'
<1>0. /\ internal \in [Ids -> SUBSET Ids] /\ stdlib \in [Ids -> SUBSET Ids]
      /\ third \in [Ids -> SUBSET Ids]
      /\ internal' = internal /\ stdlib' = stdlib /\ third' = third
      /\ pkgs \in Seq(Ids) /\ r \in 0..Len(pkgs) /\ report \in Seq(Sect)
      /\ Stream!StreamDataOK' /\ BuildTypeOK'
  BY DEF GInv, MainTypeOK, BuildTypeOK, RenderTypeOK, buildVars,
         Stream!StreamDataOK
<1>1. CASE SortPkgs
  <2>1. AllKeys \in SUBSET Ids /\ AllKeys' = AllKeys
    BY <1>0, AllKeysType DEF AllKeys
  <2>2. IsFiniteSet(AllKeys) /\ AllKeys \in SUBSET Path
    BY <2>1, IdsSubsetFinite
  <2>3. pkgs' = Sorted(AllKeys)
    BY <1>1 DEF SortPkgs, AllKeys
  <2>4. pkgs' \in Seq(Ids)
    BY <2>1, <2>2, <2>3, SortedSpec
  <2>5. r = 0 /\ report = <<>>
    BY <1>1 DEF SortPkgs, GInv
  <2>. QED
    BY <1>0, <1>1, <2>1, <2>3, <2>4, <2>5
       DEF SortPkgs, GInv, MainTypeOK, RenderTypeOK
<1>2. CASE RenderSection
  <2>1. /\ pc = "render" /\ r < Len(pkgs) /\ Len(report) = r
        /\ \A n \in 1..r : report[n] = SectionOf(internal, third, stdlib, pkgs[n])
    BY <1>2 DEF RenderSection, GInv
  <2>2. pkgs[r + 1] \in Ids
    BY <1>0, <2>1
  <2>3. Section(pkgs[r + 1]) = SectionOf(internal, third, stdlib, pkgs[r + 1])
    BY SectionAsOf
  <2>4. SectionOf(internal, third, stdlib, pkgs[r + 1]) \in Sect
    BY <1>0, <2>2, SectionCorrect
  <2>5. /\ report' \in Seq(Sect) /\ Len(report') = r + 1
        /\ \A n \in 1..(r + 1) :
             report'[n] = SectionOf(internal, third, stdlib, pkgs[n])
    BY <1>0, <1>2, <2>1, <2>3, <2>4 DEF RenderSection
  <2>6. pkgs' = pkgs /\ r' = r + 1 /\ pc' = "render" /\ AllKeys' = AllKeys
    BY <1>0, <1>2, <2>1 DEF RenderSection, AllKeys
  <2>7. \A n \in 1..r' :
          report'[n] = SectionOf(internal', third', stdlib', pkgs'[n])
    BY <1>0, <2>5, <2>6
  <2>8. RenderTypeOK'
    BY <1>0, <2>1, <2>5, <2>6 DEF RenderTypeOK
  <2>9. pkgs = Sorted(AllKeys)
    BY <2>1 DEF GInv
  <2>. QED
    BY <1>0, <2>5, <2>6, <2>7, <2>8, <2>9 DEF GInv, MainTypeOK
<1>3. CASE PrintReport
  BY <1>0, <1>3 DEF PrintReport, GInv, MainTypeOK, RenderTypeOK, renderVars,
                    AllKeys
<1>. QED
  BY <1>1, <1>2, <1>3 DEF RenderNext

LEMMA GStep == GInv /\ [MainNext \/ (Ended /\ UNCHANGED allVars)]_allVars => GInv'
<1> SUFFICES ASSUME GInv, [MainNext \/ (Ended /\ UNCHANGED allVars)]_allVars
             PROVE  GInv'
  OBVIOUS
<1>1. CASE Stream!StreamNext /\ UNCHANGED <<buildVars, renderVars>>
  BY <1>1, GStepStream
<1>2. CASE BuildNext /\ UNCHANGED <<buf, i, renderVars>>
  BY <1>2, GStepBuild
<1>3. CASE RenderNext /\ UNCHANGED <<buf, i, packages, buildVars>>
  BY <1>3, GStepRender
<1>4. CASE UNCHANGED allVars
  BY <1>4 DEF allVars, buildVars, renderVars, GInv, MainTypeOK, AllKeys,
              Stream!StreamDataOK, BuildTypeOK, RenderTypeOK
<1>. QED
  BY <1>1, <1>2, <1>3, <1>4 DEF MainNext

LEMMA GInvOrdered == GInv => SectionsOrdered
<1> SUFFICES ASSUME GInv, pc = "done"
             PROVE  /\ Ascending([n \in 1..Len(report) |-> report[n].pkg])
                    /\ {report[n].pkg : n \in 1..Len(report)} = Nodes
  BY DEF SectionsOrdered
<1>1. /\ internal \in [Ids -> SUBSET Ids] /\ stdlib \in [Ids -> SUBSET Ids]
      /\ third \in [Ids -> SUBSET Ids] /\ pkgs \in Seq(Ids)
      /\ pkgs = Sorted(AllKeys) /\ Len(report) = Len(pkgs)
      /\ \A n \in 1..Len(pkgs) :
           report[n] = SectionOf(internal, third, stdlib, pkgs[n])
  BY DEF GInv, MainTypeOK, BuildTypeOK, RenderTypeOK
<1>2. Ascending(pkgs) /\ {pkgs[m] : m \in 1..Len(pkgs)} = AllKeys
  BY <1>1, AllKeysType, IdsSubsetFinite, SortedSpec
<1>3. ASSUME NEW n \in 1..Len(pkgs) PROVE report[n].pkg = pkgs[n]
  <2>1. report[n] = SectionOf(internal, third, stdlib, pkgs[n])
    BY <1>1
  <2>. QED
    BY <2>1 DEF SectionOf
<1>4. [n \in 1..Len(report) |-> report[n].pkg] = pkgs
  BY <1>1, <1>3
<1>5. AllKeys = Nodes
  BY DEF AllKeys, Keys, Nodes, Edges
<1>. QED
  BY <1>1, <1>2, <1>3, <1>4, <1>5

(* TruncationCorrect asks SectionRight of every rendered section. *)
LEMMA TruncationAsRight ==
    TruncationCorrect <=>
      \A n \in 1..Len(report) : SectionRight(report[n], internal, third, stdlib)
BY DEF TruncationCorrect, SectionRight

LEMMA GInvTruncated == GInv => TruncationCorrect
<1> SUFFICES ASSUME GInv, NEW n \in 1..Len(report)
             PROVE  SectionRight(report[n], internal, third, stdlib)
  BY TruncationAsRight
<1>1. pc \in {"render", "done"}
  BY DEF GInv
<1>2. /\ internal \in [Ids -> SUBSET Ids] /\ stdlib \in [Ids -> SUBSET Ids]
      /\ third \in [Ids -> SUBSET Ids]
      /\ pkgs \in Seq(Ids) /\ r \in 0..Len(pkgs) /\ Len(report) = r
      /\ \A m \in 1..r : report[m] = SectionOf(internal, third, stdlib, pkgs[m])
  BY <1>1 DEF GInv, MainTypeOK, BuildTypeOK, RenderTypeOK
<1>3. pkgs[n] \in Ids /\ report[n] = SectionOf(internal, third, stdlib, pkgs[n])
  BY <1>2
<1>4. SectionRight(SectionOf(internal, third, stdlib, pkgs[n]), internal, third, stdlib)
  BY <1>2, <1>3, SectionCorrect
<1>. QED
  BY <1>3, <1>4

(***************************************************************************)
(* The program's variables keep their types on every run of main(): the    *)
(* decoder's offset and list, the builder's offsets and maps, and the      *)
(* sorted package list and the rendered sections.                          *)
(***************************************************************************)
THEOREM MainTypeCorrect == MainSpec => []MainTypeOK
<1>1. GInv => MainTypeOK
  BY DEF GInv
<1>. QED
  BY GInit, GStep, <1>1, PTL DEF MainSpec

(***************************************************************************)
(* The printed report has one section per package with a dependency and   *)
(* no other, in strictly ascending str order of import path (line 57).    *)
(***************************************************************************)
THEOREM ReportOrdered == MainSpec => []SectionsOrdered
BY GInit, GStep, GInvOrdered, PTL DEF MainSpec

(***************************************************************************)
(* Every rendered section lists its dependencies in order, shows exactly  *)
(* the first min(cap, k) third-party ones with the "... (N more)" line    *)
(* exactly when k > cap, and counts its stdlib ones (lines 74-101).       *)
(***************************************************************************)
THEOREM ReportTruncated == MainSpec => []TruncationCorrect
BY GInit, GStep, GInvTruncated, PTL DEF MainSpec
=============================================================================
