------------------------------ MODULE DepReport ------------------------------
(***************************************************************************)
(* The report renderer of tools/gen-deps-md.py, lines 57-104 of main():    *)
(* the packages are the keys of the three maps, sorted; one section is     *)
(* rendered per package, with its internal dependencies sorted, its        *)
(* third-party dependencies sorted and cut at a cap with a "... (N more)"  *)
(* line, and the number of its standard-library dependencies; the text is  *)
(* printed at the end.  The static header and the Markdown wording are     *)
(* left out: a section is the record of what it lists.                     *)
(***************************************************************************)
EXTENDS DepGraph

CONSTANTS
    Cap,        \* cap = 80 at line 88
    CodePoint,  \* the code point of each character, which str ordering uses
    NoMarker    \* a section without the "... (N more)" line

ASSUME CapAssumption == Cap \in Nat \ {0}

ASSUME CodePointAssumption ==
    /\ CodePoint \in [Chars -> Nat]
    /\ \A a, b \in Chars : CodePoint[a] = CodePoint[b] => a = b

VARIABLES
    pkgs,       \* the sorted package list of line 57
    r,          \* the number of sections rendered so far
    report      \* the sections appended to out, in order

renderVars == <<pkgs, r, report>>

(***************************************************************************)
(* Python's s < t on str: code point by code point, a proper prefix first. *)
(***************************************************************************)
PathLess(s, t) ==
    \/ IsStrictPrefix(s, t)
    \/ \E n \in 1..Len(s) :
         /\ n <= Len(t)
         /\ SubSeq(s, 1, n - 1) = SubSeq(t, 1, n - 1)
         /\ CodePoint[s[n]] < CodePoint[t[n]]

(***************************************************************************)
(* sorted(S) for a set of distinct paths: entry m is the path of S that    *)
(* has exactly m - 1 paths of S below it under str ordering.               *)
(***************************************************************************)
Sorted(S) ==
    [m \in 1..Cardinality(S) |->
       CHOOSE x \in S : Cardinality({y \in S : PathLess(y, x)}) = m - 1]

(* The keys of a defaultdict(set): the packages something was added to. *)
Keys(m) == {p \in Ids : m[p] # {}}

(* Mutant: the marker written whatever the length, len - cap possibly < 0. *)
SectionAlwaysMore(p) ==
    LET tp == Sorted(third[p])
    IN  [pkg |-> p,
         internal |-> Sorted(internal[p]),
         third |-> SubSeq(tp, 1, IF Len(tp) < Cap THEN Len(tp) ELSE Cap),
         more |-> Len(tp) - Cap,
         stdlib |-> Cardinality(stdlib[p])]

(* Mutant: the marker test of line 91 as len >= cap. *)
SectionMarkerAtCap(p) ==
    LET tp == Sorted(third[p])
    IN  [pkg |-> p,
         internal |-> Sorted(internal[p]),
         third |-> SubSeq(tp, 1, IF Len(tp) < Cap THEN Len(tp) ELSE Cap),
         more |-> IF Len(tp) >= Cap THEN Len(tp) - Cap ELSE NoMarker,
         stdlib |-> Cardinality(stdlib[p])]

(***************************************************************************)
(* Lines 74-101: the section of package p.  third_party[:cap] keeps the    *)
(* first cap entries; the marker line is written when len > cap.           *)
(***************************************************************************)
Section(p) ==
    LET tp == Sorted(third[p])
    IN  [pkg |-> p,
         internal |-> Sorted(internal[p]),
         third |-> SubSeq(tp, 1, IF Len(tp) < Cap THEN Len(tp) ELSE Cap),
         more |-> IF Len(tp) > Cap THEN Len(tp) - Cap ELSE NoMarker,
         stdlib |-> Cardinality(stdlib[p])]

RenderInit ==
    /\ pkgs = <<>>
    /\ r = 0
    /\ report = <<>>

(* Mutant: the stdlib map's keys left out of line 57. *)
SortPkgsNoStdlib ==
    /\ pc = "sort"
    /\ pkgs' = Sorted(Keys(internal) \cup Keys(third))
    /\ pc' = "render"
    /\ UNCHANGED <<r, report>>

(* Line 57: the union of the keys of the three maps, sorted. *)
SortPkgs ==
    /\ pc = "sort"
    /\ pkgs' = Sorted(Keys(internal) \cup Keys(stdlib) \cup Keys(third))
    /\ pc' = "render"
    /\ UNCHANGED <<r, report>>

(* Lines 71-102: one package section is appended to out. *)
RenderSection ==
    /\ pc = "render"
    /\ r < Len(pkgs)
    /\ report' = Append(report, Section(pkgs[r + 1]))
    /\ r' = r + 1
    /\ UNCHANGED <<pkgs, pc>>

(* Line 104: the text is printed and the program ends. *)
PrintReport ==
    /\ pc = "render"
    /\ r = Len(pkgs)
    /\ pc' = "done"
    /\ UNCHANGED renderVars

RenderNext ==
    \/ SortPkgs
    \/ RenderSection
    \/ PrintReport
-----------------------------------------------------------------------------
Sect == [pkg : Ids, internal : Seq(Ids), third : Seq(Ids),
         more : Nat \cup {NoMarker}, stdlib : Nat]

RenderTypeOK ==
    /\ pkgs \in Seq(Ids)
    /\ r \in 0..Len(pkgs)
    /\ report \in Seq(Sect)

(* A strictly ascending list under str ordering. *)
Ascending(s) == \A a, b \in 1..Len(s) : a < b => PathLess(s[a], s[b])

(* The packages that have at least one dependency edge. *)
Nodes == {p \in Ids : Edges(p) # {}}

(***************************************************************************)
(* Ordering invariant (spec section 8): the printed report has one section *)
(* per package of the graph and no other, in strictly ascending order of   *)
(* import path, so that reruns on the same input give the same text.       *)
(***************************************************************************)
SectionsOrdered ==
    pc = "done" =>
      /\ Ascending([n \in 1..Len(report) |-> report[n].pkg])
      /\ {report[n].pkg : n \in 1..Len(report)} = Nodes

(***************************************************************************)
(* Truncation (spec section 8): a section lists its internal dependencies  *)
(* in order, its third-party dependencies in order and exactly the first   *)
(* min(cap, k) of them, with a marker of k - cap more exactly when k > cap,*)
(* and counts its standard-library dependencies.                           *)
(***************************************************************************)
TruncationCorrect ==
    \A n \in 1..Len(report) :
      LET s == report[n]
          all == third[s.pkg]
          shown == {s.third[m] : m \in 1..Len(s.third)}
      IN  /\ Ascending(s.internal)
          /\ {s.internal[m] : m \in 1..Len(s.internal)} = internal[s.pkg]
          /\ Ascending(s.third)
          /\ shown \subseteq all
          /\ \A x \in shown, y \in all \ shown : PathLess(x, y)
          /\ IF Cardinality(all) > Cap
             THEN Len(s.third) = Cap /\ s.more = Cardinality(all) - Cap
             ELSE shown = all /\ s.more = NoMarker
          /\ s.stdlib = Cardinality(stdlib[s.pkg])
=============================================================================
