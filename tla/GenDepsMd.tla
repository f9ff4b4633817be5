------------------------------ MODULE GenDepsMd ------------------------------
(***************************************************************************)
(* The whole of tools/gen-deps-md.py: main() calls run_go_list()          *)
(* (GoListStream), builds the three dependency maps from its records       *)
(* (DepGraph) and renders and prints the report (DepReport).  The three    *)
(* run one after the other in one thread, handing over through the shared *)
(* variables packages (the decoded list), the maps, and pc.                *)
(***************************************************************************)
EXTENDS DepReport

CONSTANTS
    Objects,    \* the JSON objects the go command's output may hold
    Outputs     \* the texts it may print

ASSUME ObjectsAssumption == Objects \subseteq Record

VARIABLES
    buf,        \* stdout of the go command
    i           \* the decoder's offset into it

Stream == INSTANCE GoListStream WITH Payloads <- Objects, ScalarValue <- NotObject

(* The go command prints a stream of the decoder's tokens (GoListStream). *)
ASSUME OutputTextAssumption == Outputs \subseteq Seq(Stream!Char)

allVars == <<buf, i, packages, pc, buildVars, renderVars>>

(* Line 34 starts the program: nothing has run yet. *)
MainInit ==
    /\ Stream!StreamInit
    /\ BuildInit
    /\ RenderInit

(* The program has ended: printed, or stopped by an exception. *)
Ended == pc \in {"done", "exit", "decode_error", "crash"}

MainNext ==
    \/ Stream!StreamNext /\ UNCHANGED <<buildVars, renderVars>>
    \/ BuildNext /\ UNCHANGED <<buf, i, renderVars>>
    \/ RenderNext /\ UNCHANGED <<buf, i, packages, buildVars>>

MainSpec ==
    /\ MainInit
    /\ [][MainNext \/ (Ended /\ UNCHANGED allVars)]_allVars
    /\ WF_allVars(MainNext)
-----------------------------------------------------------------------------
MainTypeOK ==
    /\ Stream!StreamDataOK
    /\ BuildTypeOK
    /\ RenderTypeOK
    /\ pc \in {"list", "loop", "ws", "value", "pkgs", "deps", "sort", "render",
              "done", "exit", "decode_error", "crash"}

(***************************************************************************)
(* The program always ends (under the weak fairness of its single thread): *)
(* the decoder's offset and the two loop counters only move forward.       *)
(***************************************************************************)
Terminates == <>Ended

(***************************************************************************)
(* Spec section 4.2 and scenario 1: every record in the module's scope is  *)
(* a node of the graph, and so a section of the report, even when it has   *)
(* no dependencies.  The code's package list is the keys of the maps       *)
(* (line 57), which a package without dependencies never becomes.          *)
(***************************************************************************)
EveryPackageReported ==
    pc = "done" =>
      \A n \in 1..Len(packages) :
        InCodeScope(packages[n]) =>
          \E m \in 1..Len(report) : report[m].pkg = packages[n].path
=============================================================================
