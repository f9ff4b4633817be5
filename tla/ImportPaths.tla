---------------------------- MODULE ImportPaths ----------------------------
(***************************************************************************)
(* Package import paths and the string tests tools/gen-deps-md.py makes   *)
(* on them.  A path is a sequence of one-character strings, so that the    *)
(* code's str.startswith and str.split("/", 1)[0] are modelled by what     *)
(* they do on the characters rather than assumed.                          *)
(***************************************************************************)
EXTENDS Naturals, Sequences, SequencesExt

CONSTANTS
    ModulePath, \* the constant MODULE of gen-deps-md.py (a keyword in TLA+)
    Chars       \* the characters paths are made of, "/" and "." among them

ASSUME CharsAssumption == {"/", "."} \subseteq Chars

ASSUME ModuleAssumption == ModulePath \in Seq(Chars) /\ ModulePath # <<>>

(* The paths over the alphabet. *)
Path == Seq(Chars)

(***************************************************************************)
(* Python's s.startswith(pre): pre is a prefix of s, at any character.     *)
(***************************************************************************)
StartsWith(s, pre) == IsPrefix(pre, s)

(***************************************************************************)
(* dep.split("/", 1)[0]: the text before the first "/", or the whole path  *)
(* when it has none.                                                       *)
(***************************************************************************)
FirstSegment(s) ==
    LET slash == SelectInSeq(s, LAMBDA c : c = "/")
    IN  IF slash = 0 THEN s ELSE SubSeq(s, 1, slash - 1)

(* The test '"." in first'. *)
HasDot(seg) == \E n \in 1..Len(seg) : seg[n] = "."

(***************************************************************************)
(* The classes of one dependency edge.  "self" is the edge the code drops  *)
(* (dep == imp_path inside the internal branch).                           *)
(***************************************************************************)
Classes == {"internal", "self", "third", "stdlib"}

(* Mutant: the self-edge test of line 47 left out. *)
ClassifyNoSelfTest(dep, imp) ==
    IF StartsWith(dep, ModulePath) THEN "internal"
    ELSE IF HasDot(FirstSegment(dep)) THEN "third" ELSE "stdlib"

(***************************************************************************)
(* The branch lines 46-55 take for dependency dep of package imp.  The     *)
(* self test is made only in the internal branch, as in the code.          *)
(***************************************************************************)
Classify(dep, imp) ==
    IF StartsWith(dep, ModulePath)
    THEN IF dep # imp THEN "internal" ELSE "self"
    ELSE IF HasDot(FirstSegment(dep)) THEN "third" ELSE "stdlib"

(***************************************************************************)
(* The scope rule the specification states (section 4.2): the path starts *)
(* with the module path followed by the end of the string or a "/".  The   *)
(* code does not implement it; properties use it to compare.               *)
(***************************************************************************)
InScopeAtBoundary(s) ==
    /\ StartsWith(s, ModulePath)
    /\ Len(s) = Len(ModulePath) \/ s[Len(ModulePath) + 1] = "/"
=============================================================================
