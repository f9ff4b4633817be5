--------------------------- MODULE DepReportProofs ---------------------------
(***************************************************************************)
(* Proofs about the report renderer of tools/gen-deps-md.py: Python's str *)
(* ordering (PathLess) is a strict total order on import paths, and so     *)
(* sorted() of a finite set of paths (Sorted) lists the set, each path     *)
(* once, in ascending order.  These are the facts lines 57 and 74-76 rely  *)
(* on; GenDepsMdProofs uses them for the whole program.                    *)
(***************************************************************************)
EXTENDS DepReport, FiniteSetTheorems, SequenceTheorems, WellFoundedInduction, TLAPS

USE CodePointAssumption, IdsAssumption, IdsFiniteAssumption

(***************************************************************************)
(* s < t at position n: s and t agree before n, t goes on at n, and s has  *)
(* either ended there or holds a character with a smaller code point.      *)
(***************************************************************************)
LexBelow(s, t, n) ==
    /\ n \in 1..(Len(s) + 1)
    /\ n <= Len(t)
    /\ \A j \in 1..(n - 1) : s[j] = t[j]
    /\ n = Len(s) + 1 \/ CodePoint[s[n]] < CodePoint[t[n]]

(* Two prefixes of the same length are equal when their characters are. *)
LEMMA PrefixAgree ==
    ASSUME NEW s \in Path, NEW t \in Path, NEW n \in 0..Len(s), n <= Len(t)
    PROVE  SubSeq(s, 1, n) = SubSeq(t, 1, n) <=> \A j \in 1..n : s[j] = t[j]
<1>1. /\ SubSeq(s, 1, n) \in Seq(Chars) /\ Len(SubSeq(s, 1, n)) = n
      /\ \A j \in 1..n : SubSeq(s, 1, n)[j] = s[j]
  BY SubSeqProperties DEF Path
<1>2. /\ SubSeq(t, 1, n) \in Seq(Chars) /\ Len(SubSeq(t, 1, n)) = n
      /\ \A j \in 1..n : SubSeq(t, 1, n)[j] = t[j]
  BY SubSeqProperties DEF Path
<1>3. (\A j \in 1..n : s[j] = t[j]) => SubSeq(s, 1, n) = SubSeq(t, 1, n)
  BY <1>1, <1>2, SeqEqual
<1>. QED
  BY <1>1, <1>2, <1>3

(* PathLess is the first-difference comparison. *)
LEMMA PathLessLex ==
    ASSUME NEW s \in Path, NEW t \in Path
    PROVE  PathLess(s, t) <=> \E n \in Nat : LexBelow(s, t, n)
<1>1. ASSUME IsStrictPrefix(s, t) PROVE \E n \in Nat : LexBelow(s, t, n)
  <2>1. Len(s) <= Len(t) /\ SubSeq(s, 1, Len(s)) = SubSeq(t, 1, Len(s)) /\ s # t
    BY <1>1 DEF IsStrictPrefix, IsPrefix
  <2>2. \A j \in 1..Len(s) : s[j] = t[j]
    BY <2>1, PrefixAgree
  <2>3. Len(s) # Len(t)
    BY <2>1, <2>2, SeqEqual DEF Path
  <2>. QED
    BY <2>1, <2>2, <2>3 DEF LexBelow
<1>2. ASSUME NEW n \in 1..Len(s), n <= Len(t),
             SubSeq(s, 1, n - 1) = SubSeq(t, 1, n - 1),
             CodePoint[s[n]] < CodePoint[t[n]]
      PROVE  LexBelow(s, t, n)
  BY <1>2, PrefixAgree DEF LexBelow
<1>3. ASSUME NEW n \in Nat, LexBelow(s, t, n) PROVE PathLess(s, t)
  <2>1. \A j \in 1..(n - 1) : s[j] = t[j]
    BY <1>3 DEF LexBelow
  <2>2. CASE n = Len(s) + 1
    <3>1. SubSeq(s, 1, Len(s)) = SubSeq(t, 1, Len(s))
      BY <1>3, <2>1, <2>2, PrefixAgree DEF LexBelow
    <3>2. s # t
      BY <1>3, <2>2 DEF LexBelow
    <3>3. Len(s) <= Len(t)
      BY <1>3, <2>2 DEF LexBelow
    <3>4. IsStrictPrefix(s, t)
      BY <3>1, <3>2, <3>3 DEF IsStrictPrefix, IsPrefix
    <3>. QED
      BY <3>4 DEF PathLess
  <2>3. CASE n # Len(s) + 1
    <3>1. n \in 1..Len(s) /\ n <= Len(t) /\ CodePoint[s[n]] < CodePoint[t[n]]
      BY <1>3, <2>3 DEF LexBelow
    <3>2. SubSeq(s, 1, n - 1) = SubSeq(t, 1, n - 1)
      BY <1>3, <2>1, <3>1, PrefixAgree DEF LexBelow
    <3>. QED
      BY <3>1, <3>2, Zenon DEF PathLess
  <2>. QED
    BY <2>2, <2>3
<1>. QED
  BY <1>1, <1>2, <1>3 DEF PathLess
(* A non-empty set of naturals has a least element. *)
LEMMA LeastNat ==
    ASSUME NEW T \in SUBSET Nat, T # {}
    PROVE  \E x \in T : \A y \in T : x <= y
<1>1. PICK x \in T : \A y \in T : <<y, x>> \notin OpToRel(<, Nat)
  BY WFMin, NatLessThanWellFounded
<1>2. \A y \in T : ~(y < x)
  BY <1>1 DEF OpToRel
<1>. QED
  BY <1>2

(* No path is below itself. *)
LEMMA PathLessIrrefl ==
    ASSUME NEW s \in Path
    PROVE  ~PathLess(s, s)
<1> SUFFICES ASSUME PathLess(s, s) PROVE FALSE
  OBVIOUS
<1>1. PICK n \in Nat : LexBelow(s, s, n)
  BY PathLessLex
<1>2. n \in 1..Len(s) /\ CodePoint[s[n]] < CodePoint[s[n]]
  BY <1>1 DEF LexBelow
<1>3. CodePoint[s[n]] \in Nat
  BY <1>2 DEF Path
<1>. QED
  BY <1>2, <1>3

(* str ordering is transitive. *)
LEMMA PathLessTrans ==
    ASSUME NEW s \in Path, NEW t \in Path, NEW u \in Path,
           PathLess(s, t), PathLess(t, u)
    PROVE  PathLess(s, u)
<1>1. PICK n1 \in Nat : LexBelow(s, t, n1)
  BY PathLessLex
<1>2. PICK n2 \in Nat : LexBelow(t, u, n2)
  BY PathLessLex
<1>3. \A a \in Path : \A j \in 1..Len(a) : CodePoint[a[j]] \in Nat
  BY DEF Path
<1>4. CASE n1 < n2
  <2>1. LexBelow(s, u, n1)
    BY <1>1, <1>2, <1>3, <1>4 DEF LexBelow
  <2>. QED
    BY <2>1, PathLessLex
<1>5. CASE n2 < n1
  <2>1. LexBelow(s, u, n2)
    BY <1>1, <1>2, <1>3, <1>5 DEF LexBelow
  <2>. QED
    BY <2>1, PathLessLex
<1>6. CASE n1 = n2
  <2>1. LexBelow(s, u, n1)
    BY <1>1, <1>2, <1>3, <1>6 DEF LexBelow
  <2>. QED
    BY <2>1, PathLessLex
<1>. QED
  BY <1>4, <1>5, <1>6

(* Of two different paths, one is below the other. *)
LEMMA PathLessTotal ==
    ASSUME NEW s \in Path, NEW t \in Path, s # t
    PROVE  PathLess(s, t) \/ PathLess(t, s)
<1> DEFINE D == {n \in 1..(Len(s) + 1) : n > Len(t) \/ n > Len(s) \/ s[n] # t[n]}
<1>1. PICK n \in D : \A m \in D : n <= m
  <2>1. D \in SUBSET Nat /\ Len(s) + 1 \in D
    OBVIOUS
  <2>. QED
    BY <2>1, LeastNat
<1>2. \A j \in 1..(n - 1) : j <= Len(s) /\ j <= Len(t) /\ s[j] = t[j]
  BY <1>1
<1>3. CASE n <= Len(s) /\ n <= Len(t)
  <2>1. s[n] # t[n] /\ s[n] \in Chars /\ t[n] \in Chars
    BY <1>1, <1>3 DEF Path
  <2>2. CodePoint[s[n]] < CodePoint[t[n]] \/ CodePoint[t[n]] < CodePoint[s[n]]
    BY <2>1
  <2>3. LexBelow(s, t, n) \/ LexBelow(t, s, n)
    BY <1>2, <1>3, <2>2 DEF LexBelow
  <2>. QED
    BY <2>3, PathLessLex
<1>4. CASE n > Len(s) /\ n <= Len(t)
  <2>1. LexBelow(s, t, n)
    BY <1>1, <1>2, <1>4 DEF LexBelow
  <2>. QED
    BY <2>1, PathLessLex
<1>5. CASE n > Len(t) /\ n <= Len(s)
  <2>1. n = Len(t) + 1
    BY <1>2, <1>5
  <2>2. LexBelow(t, s, n)
    BY <1>1, <1>2, <1>5, <2>1 DEF LexBelow
  <2>. QED
    BY <2>2, PathLessLex
<1>6. CASE n > Len(s) /\ n > Len(t)
  <2>1. Len(s) = Len(t) /\ \A j \in 1..Len(s) : s[j] = t[j]
    BY <1>1, <1>2, <1>6
  <2>. QED
    BY <2>1, SeqEqual DEF Path
<1>. QED
  BY <1>3, <1>4, <1>5, <1>6
(* The paths of S below x, and their number: x's place in sorted(S). *)
Below(S, x) == {y \in S : PathLess(y, x)}
Rank(S, x) == Cardinality(Below(S, x))

(* A path of S has between 0 and |S| - 1 paths of S below it. *)
LEMMA RankRange ==
    ASSUME NEW S \in SUBSET Path, IsFiniteSet(S), NEW x \in S
    PROVE  /\ IsFiniteSet(Below(S, x))
           /\ Rank(S, x) \in 0..(Cardinality(S) - 1)
<1>1. Below(S, x) \subseteq S \ {x}
  BY PathLessIrrefl DEF Below
<1>2. IsFiniteSet(S \ {x}) /\ Cardinality(S \ {x}) = Cardinality(S) - 1
  BY FS_RemoveElement
<1>3. IsFiniteSet(Below(S, x))
      /\ Cardinality(Below(S, x)) <= Cardinality(S) - 1
  BY <1>1, <1>2, FS_Subset
<1>4. Cardinality(Below(S, x)) \in Nat
  BY <1>3, FS_CardinalityType
<1>. QED
  BY <1>3, <1>4 DEF Rank

(* A path below another has fewer paths below it. *)
LEMMA RankMonotone ==
    ASSUME NEW S \in SUBSET Path, IsFiniteSet(S), NEW x \in S, NEW y \in S,
           PathLess(x, y)
    PROVE  Rank(S, x) < Rank(S, y)
<1>1. Below(S, x) \subseteq Below(S, y) \ {x}
  <2>1. \A z \in Below(S, x) : PathLess(z, y)
    BY PathLessTrans DEF Below
  <2>. QED
    BY <2>1, PathLessIrrefl DEF Below
<1>2. x \in Below(S, y)
  BY DEF Below
<1>3. IsFiniteSet(Below(S, y))
  BY RankRange
<1>4. IsFiniteSet(Below(S, y) \ {x})
      /\ Cardinality(Below(S, y) \ {x}) = Cardinality(Below(S, y)) - 1
  BY <1>2, <1>3, FS_RemoveElement
<1>5. Cardinality(Below(S, x)) <= Cardinality(Below(S, y) \ {x})
  BY <1>1, <1>4, FS_Subset
<1>6. Cardinality(Below(S, y)) \in Nat
  BY <1>3, FS_CardinalityType
<1>7. Cardinality(Below(S, x)) \in Nat
  BY RankRange, FS_CardinalityType
<1>. QED
  BY <1>4, <1>5, <1>6, <1>7 DEF Rank

(* Different paths of S have different ranks. *)
LEMMA RankInjective ==
    ASSUME NEW S \in SUBSET Path, IsFiniteSet(S), NEW x \in S, NEW y \in S,
           x # y
    PROVE  Rank(S, x) # Rank(S, y)
<1>1. PathLess(x, y) \/ PathLess(y, x)
  BY PathLessTotal
<1>. QED
  BY <1>1, RankMonotone, RankRange

(* Every place 0..|S| - 1 is the rank of some path of S. *)
LEMMA RankOnto ==
    ASSUME NEW S \in SUBSET Path, IsFiniteSet(S),
           NEW m \in 0..(Cardinality(S) - 1)
    PROVE  \E x \in S : Rank(S, x) = m
<1> DEFINE n == Cardinality(S)
           f == [x \in S |-> Rank(S, x)]
<1>1. n \in Nat
  BY FS_CardinalityType
<1>2. f \in Injection(S, 0..(n - 1))
  <2>1. f \in [S -> 0..(n - 1)]
    BY RankRange
  <2>2. IsInjective(f)
    BY RankInjective DEF IsInjective
  <2>. QED
    BY <2>1, <2>2 DEF Injection
<1>3. IsFiniteSet(0..(n - 1)) /\ Cardinality(0..(n - 1)) = n
  BY <1>1, FS_Interval
<1>4. f \in Surjection(S, 0..(n - 1))
  BY <1>2, <1>3, FS_Injection
<1>. QED
  BY <1>4 DEF Surjection
(* Entry m of sorted(S) is the path of S with m - 1 paths below it. *)
LEMMA SortedEntry ==
    ASSUME NEW S \in SUBSET Path, IsFiniteSet(S),
           NEW m \in 1..Cardinality(S)
    PROVE  Sorted(S)[m] \in S /\ Rank(S, Sorted(S)[m]) = m - 1
<1>1. \E x \in S : Rank(S, x) = m - 1
  BY RankOnto, FS_CardinalityType
<1>. QED
  BY <1>1 DEF Sorted, Rank, Below

(***************************************************************************)
(* What lines 57 and 74-76 rely on: sorted() of a finite set of paths      *)
(* lists every path of the set exactly once, in strictly ascending str     *)
(* order, and nothing else.                                                *)
(***************************************************************************)
LEMMA SortedSpec ==
    ASSUME NEW S \in SUBSET Path, IsFiniteSet(S)
    PROVE  /\ Sorted(S) \in Seq(S)
           /\ Len(Sorted(S)) = Cardinality(S)
           /\ Ascending(Sorted(S))
           /\ {Sorted(S)[m] : m \in 1..Len(Sorted(S))} = S
<1> DEFINE n == Cardinality(S)
           s == Sorted(S)
<1>1. n \in Nat
  BY FS_CardinalityType
<1>2. s \in [1..n -> S]
  BY SortedEntry DEF Sorted
<1>3. s \in Seq(S) /\ Len(s) = n
  BY <1>1, <1>2
<1>4. Ascending(s)
  <2> SUFFICES ASSUME NEW a \in 1..Len(s), NEW b \in 1..Len(s), a < b
               PROVE  PathLess(s[a], s[b])
    BY DEF Ascending
  <2>1. s[a] \in S /\ s[b] \in S /\ Rank(S, s[a]) = a - 1 /\ Rank(S, s[b]) = b - 1
    BY <1>3, SortedEntry
  <2>2. s[a] # s[b]
    BY <2>1
  <2>3. ~PathLess(s[b], s[a])
    BY <2>1, RankMonotone
  <2>. QED
    BY <2>1, <2>2, <2>3, PathLessTotal
<1>5. {s[m] : m \in 1..Len(s)} = S
  <2>1. \A m \in 1..Len(s) : s[m] \in S
    BY <1>2, <1>3
  <2>2. ASSUME NEW x \in S PROVE \E m \in 1..Len(s) : s[m] = x
    <3>1. Rank(S, x) \in 0..(n - 1)
      BY RankRange
    <3> DEFINE m == Rank(S, x) + 1
    <3>2. m \in 1..Len(s) /\ Rank(S, s[m]) = Rank(S, x) /\ s[m] \in S
      BY <1>3, <3>1, SortedEntry
    <3>3. s[m] = x
      BY <3>2, RankInjective
    <3>. QED
      BY <3>2, <3>3
  <2>. QED
    BY <2>1, <2>2
<1>. QED
  BY <1>3, <1>4, <1>5
-----------------------------------------------------------------------------
(***************************************************************************)
(* Section(p) with the three maps as parameters, so that a step that       *)
(* leaves the maps alone visibly leaves every rendered section alone.      *)
(***************************************************************************)
SectionOf(I, T, St, p) ==
    LET tp == Sorted(T[p])
    IN  [pkg |-> p,
         internal |-> Sorted(I[p]),
         third |-> SubSeq(tp, 1, IF Len(tp) < Cap THEN Len(tp) ELSE Cap),
         more |-> IF Len(tp) > Cap THEN Len(tp) - Cap ELSE NoMarker,
         stdlib |-> Cardinality(St[p])]

LEMMA SectionAsOf ==
    ASSUME NEW p
    PROVE  Section(p) = SectionOf(internal, third, stdlib, p)
BY DEF Section, SectionOf

(* A set of paths of the graph is finite. *)
LEMMA IdsSubsetFinite ==
    ASSUME NEW S \in SUBSET Ids
    PROVE  IsFiniteSet(S) /\ S \in SUBSET Path
BY FS_Subset

(* What TruncationCorrect asks of section s for maps I, T and St. *)
SectionRight(s, I, T, St) ==
    LET all == T[s.pkg]
        shown == {s.third[m] : m \in 1..Len(s.third)}
    IN  /\ Ascending(s.internal)
        /\ {s.internal[m] : m \in 1..Len(s.internal)} = I[s.pkg]
        /\ Ascending(s.third)
        /\ shown \subseteq all
        /\ \A x \in shown, y \in all \ shown : PathLess(x, y)
        /\ IF Cardinality(all) > Cap
           THEN Len(s.third) = Cap /\ s.more = Cardinality(all) - Cap
           ELSE shown = all /\ s.more = NoMarker
        /\ s.stdlib = Cardinality(St[s.pkg])

(***************************************************************************)
(* Lines 74-101 render a section as TruncationCorrect says: internal and   *)
(* third-party dependencies in ascending order, the first min(cap, k)      *)
(* third-party ones and all below the rest, the marker exactly when        *)
(* k > cap, and the standard-library count.                                *)
(***************************************************************************)
LEMMA SectionCorrect ==
    ASSUME NEW I \in [Ids -> SUBSET Ids], NEW T \in [Ids -> SUBSET Ids],
           NEW St \in [Ids -> SUBSET Ids], NEW p \in Ids
    PROVE  /\ SectionOf(I, T, St, p) \in Sect
           /\ SectionOf(I, T, St, p).pkg = p
           /\ SectionRight(SectionOf(I, T, St, p), I, T, St)
<1> DEFINE tp == Sorted(T[p])
           c == IF Len(tp) < Cap THEN Len(tp) ELSE Cap
           s == SectionOf(I, T, St, p)
           shown == {s.third[m] : m \in 1..Len(s.third)}
<1>1. /\ Sorted(I[p]) \in Seq(I[p]) /\ Ascending(Sorted(I[p]))
      /\ {Sorted(I[p])[m] : m \in 1..Len(Sorted(I[p]))} = I[p]
  BY IdsSubsetFinite, SortedSpec
<1>2. /\ tp \in Seq(T[p]) /\ Len(tp) = Cardinality(T[p]) /\ Ascending(tp)
      /\ {tp[m] : m \in 1..Len(tp)} = T[p]
  BY IdsSubsetFinite, SortedSpec
<1>3. c \in 0..Len(tp) /\ Cap \in Nat
  BY <1>2, CapAssumption
<1>4. /\ s.third = SubSeq(tp, 1, c)
      /\ s.third \in Seq(T[p]) /\ Len(s.third) = c
      /\ \A j \in 1..c : s.third[j] = tp[j]
  <2>1. \A j \in 1..c : tp[j] \in T[p]
    BY <1>2, <1>3
  <2>2. /\ SubSeq(tp, 1, c) \in Seq(T[p]) /\ Len(SubSeq(tp, 1, c)) = c
        /\ \A j \in 1..c : SubSeq(tp, 1, c)[j] = tp[j]
    BY <1>3, <2>1, SubSeqProperties
  <2>. QED
    BY <2>2 DEF SectionOf
<1>5. s \in Sect
  <2>1. Sorted(I[p]) \in Seq(Ids) /\ s.third \in Seq(Ids)
    BY <1>1, <1>4
  <2>2. Cardinality(St[p]) \in Nat
    BY IdsSubsetFinite, FS_CardinalityType
  <2>3. (IF Len(tp) > Cap THEN Len(tp) - Cap ELSE NoMarker) \in Nat \cup {NoMarker}
    BY <1>3
  <2>. QED
    BY <2>1, <2>2, <2>3 DEF SectionOf, Sect
<1>6. Ascending(s.third)
  BY <1>2, <1>3, <1>4 DEF Ascending
<1>7. shown = {tp[j] : j \in 1..c}
  BY <1>4
<1>8. ASSUME NEW a \in 1..c, NEW y \in T[p] \ shown
      PROVE  PathLess(tp[a], y)
  <2>1. PICK b \in 1..Len(tp) : tp[b] = y
    BY <1>2
  <2>2. b > c
    <3> SUFFICES ASSUME b <= c PROVE FALSE
      BY <1>3
    <3>1. tp[b] \in {tp[j] : j \in 1..c}
      BY <1>3
    <3>. QED
      BY <1>7, <2>1, <3>1
  <2>3. a \in 1..Len(tp) /\ a < b
    BY <1>3, <2>2
  <2>4. \A a1, b1 \in 1..Len(tp) : a1 < b1 => PathLess(tp[a1], tp[b1])
    BY <1>2 DEF Ascending
  <2>. QED
    BY <2>1, <2>3, <2>4
<1>10. \A x \in shown, y \in T[p] \ shown : PathLess(x, y)
  <2> SUFFICES ASSUME NEW x \in shown, NEW y \in T[p] \ shown
               PROVE  PathLess(x, y)
    OBVIOUS
  <2>1. PICK a \in 1..c : x = tp[a]
    BY <1>7
  <2>. QED
    BY <1>8, <2>1
<1>9. IF Cardinality(T[p]) > Cap
      THEN Len(s.third) = Cap /\ s.more = Cardinality(T[p]) - Cap
      ELSE shown = T[p] /\ s.more = NoMarker
  <2>1. CASE Cardinality(T[p]) > Cap
    BY <1>2, <1>3, <1>4, <2>1 DEF SectionOf
  <2>2. CASE ~(Cardinality(T[p]) > Cap)
    <3>1. c = Len(tp)
      BY <1>2, <1>3, <2>2
    <3>2. shown = T[p]
      BY <1>2, <1>7, <3>1
    <3>. QED
      BY <1>2, <2>2, <3>2 DEF SectionOf
  <2>. QED
    BY <2>1, <2>2
<1>11. s.pkg = p /\ s.internal = Sorted(I[p]) /\ s.stdlib = Cardinality(St[p])
  BY DEF SectionOf
<1>12. /\ Ascending(s.internal)
       /\ {s.internal[m] : m \in 1..Len(s.internal)} = I[p]
  BY <1>1, <1>11
<1>13. /\ T[s.pkg] = T[p] /\ I[s.pkg] = I[p] /\ St[s.pkg] = St[p]
  BY <1>11
<1>14. shown \subseteq T[p]
  BY <1>4
<1>. QED
  BY <1>5, <1>6, <1>9, <1>10, <1>11, <1>12, <1>13, <1>14 DEF SectionRight
=============================================================================
