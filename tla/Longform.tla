------------------------------ MODULE Longform ------------------------------
(***************************************************************************)
(* scripts/generate_longform.py: a static HTML overview of num_pages      *)
(* pages, each combining one entry of six content lists chosen by a fixed  *)
(* stride through the list (lines 606-657), joined and written to          *)
(* dist/ktl_longform_ru.html (lines 659-894).  The lists' texts are left   *)
(* out: an entry is its index, and a page is the record of the indices it *)
(* shows, which is all the choice of content depends on.                   *)
(***************************************************************************)
EXTENDS Naturals, Sequences, FiniteSets

(* The lengths of the six content lists, as written in the script. *)
NFeatures == 18
NUseCases == 18
NCommandSets == 20
NMetrics == 15
NInsights == 12
NTags == 30

(* num_pages = 100 (line 603). *)
NumPages == 100

VARIABLES
    page,       \* the loop variable of line 606 (the next page to render)
    sections,   \* the list of rendered pages
    written     \* the HTML file has been written (lines 890-894)

lfVars == <<page, sections, written>>

(* Mutant: the chip offsets of line 612 stepping by 15. *)
PageContentTagStride15(p) ==
    [feature |-> (p - 1) % NFeatures,
     useCase |-> ((p - 1) * 3) % NUseCases,
     commandSet |-> ((p - 1) * 5) % NCommandSets,
     metric |-> ((p - 1) * 7) % NMetrics,
     insight |-> ((p - 1) * 11) % NInsights,
     tags |-> [o \in 0..2 |-> ((p - 1) + o * 15) % NTags]]

(* Mutant: the metric of line 610 stepping by 5. *)
PageContentMetricStride5(p) ==
    [feature |-> (p - 1) % NFeatures,
     useCase |-> ((p - 1) * 3) % NUseCases,
     commandSet |-> ((p - 1) * 5) % NCommandSets,
     metric |-> ((p - 1) * 5) % NMetrics,
     insight |-> ((p - 1) * 11) % NInsights,
     tags |-> [o \in 0..2 |-> ((p - 1) + o * 13) % NTags]]

(***************************************************************************)
(* Lines 607-612: the entries page p shows.  Python's % on non-negative    *)
(* operands is TLA+'s %.  Indices are 0-based, as the list subscripts.     *)
(***************************************************************************)
PageContent(p) ==
    [feature |-> (p - 1) % NFeatures,
     useCase |-> ((p - 1) * 3) % NUseCases,
     commandSet |-> ((p - 1) * 5) % NCommandSets,
     metric |-> ((p - 1) * 7) % NMetrics,
     insight |-> ((p - 1) * 11) % NInsights,
     tags |-> [o \in 0..2 |-> ((p - 1) + o * 13) % NTags]]

LfInit ==
    /\ page = 1
    /\ sections = <<>>
    /\ written = FALSE

(* Mutant: the page loop running to num_pages + 1. *)
RenderPagePastEnd ==
    /\ page <= NumPages + 1
    /\ sections' = Append(sections, PageContent(page))
    /\ page' = page + 1
    /\ UNCHANGED written

(* Lines 606-657: one page section is rendered and appended. *)
RenderPage ==
    /\ page <= NumPages
    /\ sections' = Append(sections, PageContent(page))
    /\ page' = page + 1
    /\ UNCHANGED written

(* Lines 659-894: the sections are joined, the file written, a line printed. *)
WriteFile ==
    /\ page > NumPages
    /\ ~written
    /\ written' = TRUE
    /\ UNCHANGED <<page, sections>>

LfNext == RenderPage \/ WriteFile

(* After the last line the script has ended. *)
LfEnded == written /\ UNCHANGED lfVars

(* The script runs to its end. *)
LfSpec == LfInit /\ [][LfNext \/ LfEnded]_lfVars /\ WF_lfVars(LfNext)
-----------------------------------------------------------------------------
LfTypeOK ==
    /\ page \in 1..(NumPages + 1)
    /\ sections \in Seq([feature : Nat, useCase : Nat, commandSet : Nat,
                         metric : Nat, insight : Nat, tags : [0..2 -> Nat]])
    /\ written \in BOOLEAN

(* The indices of one field shown on some page. *)
Shown(f) == {sections[n][f] : n \in 1..Len(sections)}

(***************************************************************************)
(* No page shows the same chip twice: the three strides 0, 13 and 26 of    *)
(* line 612 stay distinct modulo the number of tags.                       *)
(***************************************************************************)
TagsDistinct ==
    \A n \in 1..Len(sections) :
      \A a, b \in 0..2 : a # b => sections[n].tags[a] # sections[n].tags[b]

(***************************************************************************)
(* Once the file is written, every feature, metric, insight and chip tag   *)
(* the script defines has appeared on some page: the strides of lines      *)
(* 607 and 610-612 visit the whole of their lists within num_pages.        *)
(***************************************************************************)
RotationCovers ==
    written =>
      /\ Shown("feature") = 0..(NFeatures - 1)
      /\ Shown("metric") = 0..(NMetrics - 1)
      /\ Shown("insight") = 0..(NInsights - 1)
      /\ UNION {{sections[n].tags[o] : o \in 0..2} : n \in 1..Len(sections)}
           = 0..(NTags - 1)

(***************************************************************************)
(* Every use case and every command set the script defines appears in the *)
(* document.  Lines 608-609 step by 3 through 18 use cases and by 5        *)
(* through 20 command sets, so only 6 and 4 of them can ever be chosen.    *)
(***************************************************************************)
UseCasesAndCommandsShown ==
    written =>
      /\ Shown("useCase") = 0..(NUseCases - 1)
      /\ Shown("commandSet") = 0..(NCommandSets - 1)
=============================================================================
