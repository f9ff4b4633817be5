--------------------------- MODULE LongformProofs ---------------------------
(***************************************************************************)
(* Proofs about the page loop of scripts/generate_longform.py.  The        *)
(* invariant LInv says that the sections rendered so far are exactly the   *)
(* pages 1..page-1, each with the content its strides choose; the chip and *)
(* rotation properties then follow from arithmetic modulo the list sizes.  *)
(***************************************************************************)
EXTENDS Longform, TLAPS

Page == [feature : Nat, useCase : Nat, commandSet : Nat,
         metric : Nat, insight : Nat, tags : [0..2 -> Nat]]

LInv ==
    /\ LfTypeOK
    /\ Len(sections) = page - 1
    /\ \A n \in 1..Len(sections) : sections[n] = PageContent(n)
    /\ written => page = NumPages + 1

(* Every page's content is a record of indices. *)
LEMMA PageContentType ==
    ASSUME NEW p \in Nat \ {0}
    PROVE  PageContent(p) \in Page
BY DEF PageContent, Page, NFeatures, NUseCases, NCommandSets, NMetrics,
       NInsights, NTags

LEMMA LInvInit == LfInit => LInv
<1> SUFFICES ASSUME LfInit PROVE LInv
  OBVIOUS
<1>1. sections \in Seq(Page) /\ Len(sections) = 0
  BY DEF LfInit
<1>2. page \in 1..(NumPages + 1) /\ Len(sections) = page - 1
  BY <1>1 DEF LfInit, NumPages
<1>3. written \in BOOLEAN /\ ~written
  BY DEF LfInit
<1>. QED
  BY <1>1, <1>2, <1>3 DEF LInv, LfTypeOK, Page

LEMMA LInvStep == LInv /\ [LfNext \/ LfEnded]_lfVars => LInv'
<1> SUFFICES ASSUME LInv, [LfNext \/ LfEnded]_lfVars PROVE LInv'
  OBVIOUS
<1>0. /\ sections \in Seq(Page)
      /\ page \in 1..(NumPages + 1)
      /\ written \in BOOLEAN
      /\ Len(sections) = page - 1
      /\ \A n \in 1..Len(sections) : sections[n] = PageContent(n)
      /\ written => page = NumPages + 1
  BY DEF LInv, LfTypeOK, Page
<1>. SUFFICES /\ sections' \in Seq(Page)
              /\ page' \in 1..(NumPages + 1)
              /\ written' \in BOOLEAN
              /\ Len(sections') = page' - 1
              /\ \A n \in 1..Len(sections') : sections'[n] = PageContent(n)
              /\ written' => page' = NumPages + 1
  BY DEF LInv, LfTypeOK, Page
<1>1. CASE RenderPage
  <2>1. PageContent(page) \in Page
    BY <1>0, PageContentType DEF NumPages
  <2>2. sections' \in Seq(Page) /\ Len(sections') = Len(sections) + 1
    BY <1>0, <1>1, <2>1 DEF RenderPage
  <2>3. \A n \in 1..Len(sections') : sections'[n] = PageContent(n)
    BY <1>0, <1>1, <2>2 DEF RenderPage
  <2>4. page' \in 1..(NumPages + 1) /\ Len(sections') = page' - 1
    BY <1>0, <1>1, <2>2 DEF RenderPage, NumPages
  <2>5. written' \in BOOLEAN /\ (written' => page' = NumPages + 1)
    BY <1>0, <1>1 DEF RenderPage, NumPages
  <2>. QED
    BY <2>2, <2>3, <2>4, <2>5
<1>2. CASE WriteFile
  <2>1. page = NumPages + 1
    BY <1>0, <1>2 DEF WriteFile, NumPages
  <2>. QED
    BY <1>0, <1>2, <2>1 DEF WriteFile
<1>3. CASE LfEnded \/ UNCHANGED lfVars
  BY <1>0, <1>3 DEF LfEnded, lfVars
<1>. QED
  BY <1>1, <1>2, <1>3 DEF LfNext

(* The script's variables keep their types on every run. *)
THEOREM LfTypeCorrect == LfSpec => []LfTypeOK
BY LInvInit, LInvStep, PTL DEF LfSpec, LInv

(***************************************************************************)
(* The chip offsets 0, 13 and 26 of line 612 are distinct modulo 30.       *)
(***************************************************************************)
LEMMA ChipsDistinct ==
    ASSUME NEW p \in Nat \ {0}
    PROVE  \A a, b \in 0..2 : a # b => PageContent(p).tags[a] # PageContent(p).tags[b]
BY DEF PageContent, NTags

(* No page of the document shows the same chip twice. *)
THEOREM ChipsNeverRepeat == LfSpec => []TagsDistinct
<1>1. LInv => TagsDistinct
  BY ChipsDistinct DEF LInv, TagsDistinct
<1>. QED
  BY LInvInit, LInvStep, <1>1, PTL DEF LfSpec

(***************************************************************************)
(* The strides 1, 7, 11 and 1 of lines 607 and 610-612 are invertible      *)
(* modulo 18, 15, 12 and 30 (7 * 13 = 91 = 1 mod 15, 11 * 11 = 121 = 1     *)
(* mod 12), so within 100 pages every entry of those lists is chosen.      *)
(***************************************************************************)
LEMMA FeatureHit ==
    ASSUME NEW i \in 0..(NFeatures - 1)
    PROVE  \E n \in 1..NumPages : PageContent(n).feature = i
<1>1. i + 1 \in 1..NumPages /\ PageContent(i + 1).feature = i
  BY DEF PageContent, NFeatures, NumPages
<1>. QED
  BY <1>1

LEMMA MetricHit ==
    ASSUME NEW i \in 0..(NMetrics - 1)
    PROVE  \E n \in 1..NumPages : PageContent(n).metric = i
<1>1. ((13 * i) % 15) + 1 \in 1..NumPages
  BY DEF NMetrics, NumPages
<1>2. PageContent(((13 * i) % 15) + 1).metric = i
  BY DEF PageContent, NMetrics
<1>. QED
  BY <1>1, <1>2

LEMMA InsightHit ==
    ASSUME NEW i \in 0..(NInsights - 1)
    PROVE  \E n \in 1..NumPages : PageContent(n).insight = i
<1>1. ((11 * i) % 12) + 1 \in 1..NumPages
  BY DEF NInsights, NumPages
<1>2. PageContent(((11 * i) % 12) + 1).insight = i
  BY DEF PageContent, NInsights
<1>. QED
  BY <1>1, <1>2

LEMMA TagHit ==
    ASSUME NEW i \in 0..(NTags - 1)
    PROVE  \E n \in 1..NumPages : PageContent(n).tags[0] = i
<1>1. i + 1 \in 1..NumPages /\ PageContent(i + 1).tags[0] = i
  BY DEF PageContent, NTags, NumPages
<1>. QED
  BY <1>1

(* In the written state the sections are exactly the pages 1..NumPages. *)
LEMMA WrittenPages ==
    ASSUME LInv, written
    PROVE  /\ Len(sections) = NumPages
           /\ \A n \in 1..NumPages : sections[n] = PageContent(n)
<1>1. page = NumPages + 1 /\ page \in Nat
  BY DEF LInv, LfTypeOK, NumPages
<1>2. Len(sections) = NumPages
  BY <1>1 DEF LInv, NumPages
<1>. QED
  BY <1>2 DEF LInv

(***************************************************************************)
(* Once the HTML file is written, every feature, metric, insight and chip  *)
(* tag of the script's lists has been shown on some page (the rotation of  *)
(* lines 607 and 610-612 within num_pages = 100).                          *)
(***************************************************************************)
THEOREM RotationComplete == LfSpec => []RotationCovers
<1>1. LInv => RotationCovers
  <2> SUFFICES ASSUME LInv, written
               PROVE  RotationCovers
    BY DEF RotationCovers
  <2>1. /\ Len(sections) = NumPages
        /\ \A n \in 1..NumPages : sections[n] = PageContent(n)
    BY WrittenPages
  <2>2. Shown("feature") = 0..(NFeatures - 1)
    <3>1. \A n \in 1..NumPages : PageContent(n).feature \in 0..(NFeatures - 1)
      BY DEF PageContent, NFeatures, NumPages
    <3>. QED
      BY <2>1, <3>1, FeatureHit DEF Shown
  <2>3. Shown("metric") = 0..(NMetrics - 1)
    <3>1. \A n \in 1..NumPages : PageContent(n).metric \in 0..(NMetrics - 1)
      BY DEF PageContent, NMetrics, NumPages
    <3>. QED
      BY <2>1, <3>1, MetricHit DEF Shown
  <2>4. Shown("insight") = 0..(NInsights - 1)
    <3>1. \A n \in 1..NumPages : PageContent(n).insight \in 0..(NInsights - 1)
      BY DEF PageContent, NInsights, NumPages
    <3>. QED
      BY <2>1, <3>1, InsightHit DEF Shown
  <2>5. UNION {{sections[n].tags[o] : o \in 0..2} : n \in 1..Len(sections)}
          = 0..(NTags - 1)
    <3>1. \A n \in 1..NumPages : \A o \in 0..2 :
            PageContent(n).tags[o] \in 0..(NTags - 1)
      BY DEF PageContent, NTags, NumPages
    <3>2. \A i \in 0..(NTags - 1) : \E n \in 1..NumPages :
            \E o \in 0..2 : PageContent(n).tags[o] = i
      BY TagHit
    <3>3. \A n \in 1..Len(sections) : \A o \in 0..2 :
            sections[n].tags[o] \in 0..(NTags - 1)
      BY <2>1, <3>1
    <3>4. \A i \in 0..(NTags - 1) : \E n \in 1..Len(sections) :
            \E o \in 0..2 : sections[n].tags[o] = i
      BY <2>1, <3>2
    <3>5. UNION {{sections[n].tags[o] : o \in 0..2} : n \in 1..Len(sections)}
            \subseteq 0..(NTags - 1)
      <4> SUFFICES ASSUME NEW x \in UNION {{sections[n].tags[o] : o \in 0..2} :
                                                n \in 1..Len(sections)}
                   PROVE  x \in 0..(NTags - 1)
        OBVIOUS
      <4>1. PICK n \in 1..Len(sections), o \in 0..2 : x = sections[n].tags[o]
        OBVIOUS
      <4>. QED
        BY <3>3, <4>1
    <3>6. 0..(NTags - 1)
            \subseteq UNION {{sections[n].tags[o] : o \in 0..2} : n \in 1..Len(sections)}
      <4> SUFFICES ASSUME NEW i \in 0..(NTags - 1)
                   PROVE  \E n \in 1..Len(sections), o \in 0..2 :
                            i = sections[n].tags[o]
        OBVIOUS
      <4>. QED
        BY <3>4
    <3>. QED
      BY <3>5, <3>6, Zenon
  <2>. QED
    BY <2>2, <2>3, <2>4, <2>5 DEF RotationCovers
<1>. QED
  BY LInvInit, LInvStep, <1>1, PTL DEF LfSpec

=============================================================================
