------------------------- MODULE GoListStreamProofs -------------------------
(***************************************************************************)
(* Proofs about run_go_list() of tools/gen-deps-md.py (GoListStream).      *)
(* raw_decode's end offset is the least offset after i where the bracket   *)
(* depth returns to its value at i; the least element exists because < is  *)
(* well founded on Nat (WFMin of WellFoundedInduction).                    *)
(***************************************************************************)
EXTENDS GoListStream, FiniteSetTheorems, TLAPS

(* Every nonempty set of naturals has a least element. *)
LEMMA NatMin ==
    ASSUME NEW T \in SUBSET Nat, T # {}
    PROVE  \E x \in T : \A y \in T : x <= y
<1>1. PICK x \in T : \A y \in T : ~(<<y, x>> \in OpToRel(<, Nat))
  BY NatLessThanWellFounded, WFMin
<1>2. \A y \in T : ~(y < x)
  BY <1>1 DEF OpToRel
<1>. QED
  BY <1>2

(* The offsets after at where the depth is back to its value at at. *)
Closers(b, at) == {e \in (at + 1)..Len(b) : Depth(b, e) = Depth(b, at)}

(* The closing offset ValueEnd picks: the first of them. *)
Close(b, at) == CHOOSE e \in Closers(b, at) : \A f \in Closers(b, at) : e <= f

LEMMA CloseIsFirst ==
    ASSUME NEW b \in Seq(Char), NEW at \in Nat, Closers(b, at) # {}
    PROVE  /\ Close(b, at) \in Closers(b, at)
           /\ \A f \in Closers(b, at) : Close(b, at) <= f
<1>1. Closers(b, at) \in SUBSET Nat
  BY DEF Closers
<1>2. \E x \in Closers(b, at) : \A y \in Closers(b, at) : x <= y
  BY <1>1, NatMin
<1>. QED
  BY <1>2 DEF Close

(* ValueEnd by cases, with its closer named. *)
LEMMA ValueEndCases ==
    ASSUME NEW b, NEW at
    PROVE  ValueEnd(b, at) =
             CASE b[at + 1].kind = "scalar" -> at + 1
               [] /\ b[at + 1].kind = "open" /\ Closers(b, at) # {}
                  /\ \A n \in (at + 1)..Close(b, at) : b[n].kind # "space"
                  -> Close(b, at)
               [] OTHER -> -1
BY DEF ValueEnd, Closers, Close

(* raw_decode either raises or returns an offset past at within the text. *)
LEMMA ValueEndRange ==
    ASSUME NEW b \in Seq(Char), NEW at \in 0..(Len(b) - 1)
    PROVE  ValueEnd(b, at) = -1 \/ ValueEnd(b, at) \in (at + 1)..Len(b)
<1>1. Closers(b, at) # {} => Close(b, at) \in (at + 1)..Len(b)
  <2> HAVE Closers(b, at) # {}
  <2>. QED
    BY CloseIsFirst DEF Closers
<1>. QED
  BY <1>1, ValueEndCases
-----------------------------------------------------------------------------
(* How one character moves the bracket depth. *)
Delta(c) == IF c.kind = "open" THEN 1 ELSE IF c.kind = "close" THEN -1 ELSE 0

(* The offsets of the first e characters that have a given kind. *)
KindUpTo(b, e, k) == {n \in 1..e : b[n].kind = k}

LEMMA KindUpToFinite ==
    ASSUME NEW b, NEW e \in Nat, NEW k
    PROVE  /\ IsFiniteSet(KindUpTo(b, e, k))
           /\ Cardinality(KindUpTo(b, e, k)) \in Nat
<1>1. IsFiniteSet(1..e)
  BY FS_Interval
<1>2. KindUpTo(b, e, k) \subseteq 1..e
  BY DEF KindUpTo
<1>3. IsFiniteSet(KindUpTo(b, e, k))
  BY <1>1, <1>2, FS_Subset
<1>. QED
  BY <1>3, FS_CardinalityType

LEMMA KindUpToStep ==
    ASSUME NEW b \in Seq(Char), NEW e \in 0..(Len(b) - 1), NEW k
    PROVE  /\ IsFiniteSet(KindUpTo(b, e, k))
           /\ Cardinality(KindUpTo(b, e + 1, k))
                = Cardinality(KindUpTo(b, e, k)) + (IF b[e + 1].kind = k THEN 1 ELSE 0)
<1>1. IsFiniteSet(KindUpTo(b, e, k)) /\ Cardinality(KindUpTo(b, e, k)) \in Nat
  BY KindUpToFinite
<1>2. CASE b[e + 1].kind = k
  <2>1. KindUpTo(b, e + 1, k) = KindUpTo(b, e, k) \cup {e + 1}
    BY <1>2 DEF KindUpTo
  <2>2. e + 1 \notin KindUpTo(b, e, k)
    BY DEF KindUpTo
  <2>. QED
    BY <1>1, <1>2, <2>1, <2>2, FS_AddElement
<1>3. CASE b[e + 1].kind # k
  <2>1. KindUpTo(b, e + 1, k) = KindUpTo(b, e, k)
    BY <1>3 DEF KindUpTo
  <2>. QED
    BY <1>1, <1>3, <2>1
<1>. QED
  BY <1>1, <1>2, <1>3

LEMMA DepthZero ==
    ASSUME NEW b
    PROVE  Depth(b, 0) = 0
BY FS_EmptySet DEF Depth

LEMMA DepthInt ==
    ASSUME NEW b \in Seq(Char), NEW e \in 0..Len(b)
    PROVE  Depth(b, e) \in Int
<1>1. /\ Cardinality(KindUpTo(b, e, "open")) \in Nat
      /\ Cardinality(KindUpTo(b, e, "close")) \in Nat
  BY KindUpToFinite
<1>. QED
  BY <1>1 DEF Depth, KindUpTo

(* Depth after e + 1 characters: the depth after e, moved by character e+1. *)
LEMMA DepthStep ==
    ASSUME NEW b \in Seq(Char), NEW e \in 0..(Len(b) - 1)
    PROVE  Depth(b, e + 1) = Depth(b, e) + Delta(b[e + 1])
<1>1. Depth(b, e) = Cardinality(KindUpTo(b, e, "open"))
                      - Cardinality(KindUpTo(b, e, "close"))
  BY DEF Depth, KindUpTo
<1>2. Depth(b, e + 1) = Cardinality(KindUpTo(b, e + 1, "open"))
                          - Cardinality(KindUpTo(b, e + 1, "close"))
  BY DEF Depth, KindUpTo
<1>3. /\ Cardinality(KindUpTo(b, e, "open")) \in Nat
      /\ Cardinality(KindUpTo(b, e, "close")) \in Nat
  BY KindUpToFinite
<1>. QED
  BY <1>1, <1>2, <1>3, KindUpToStep DEF Delta

(* A character moves the depth by at most one. *)
LEMMA DeltaRange ==
    ASSUME NEW c
    PROVE  Delta(c) \in {-1, 0, 1}
BY DEF Delta

(***************************************************************************)
(* Inside an object that starts at depth 0, the depth stays above 0 until  *)
(* the closer ValueEnd picks: a dip to 0 or below would have to pass       *)
(* through 0 at an earlier offset, which would then be the first closer.   *)
(***************************************************************************)
LEMMA InsideValue ==
    ASSUME NEW b \in Seq(Char), NEW at \in 0..(Len(b) - 1),
           Depth(b, at) = 0, b[at + 1].kind = "open", Closers(b, at) # {}
    PROVE  \A e \in (at + 1)..(Close(b, at) - 1) : Depth(b, e) > 0
<1> DEFINE c == Close(b, at)
           T == {e \in (at + 1)..(c - 1) : Depth(b, e) <= 0}
<1>1. c \in (at + 1)..Len(b) /\ Depth(b, c) = 0 /\ \A f \in Closers(b, at) : c <= f
  BY CloseIsFirst DEF Closers
<1>2. Depth(b, at + 1) = 1
  BY DepthStep, DeltaRange DEF Delta
<1>3. \A e \in (at + 1)..(c - 1) : Depth(b, e) \in Int
  BY <1>1, DepthInt
<1> SUFFICES ASSUME T # {} PROVE FALSE
  BY <1>3
<1>4. PICK e0 \in T : \A y \in T : e0 <= y
  <2>1. T \in SUBSET Nat
    BY <1>1
  <2>. QED
    BY <2>1, NatMin
<1>5. e0 # at + 1
  BY <1>2, <1>4
<1>6. Depth(b, e0 - 1) > 0
  <2>0. e0 \in (at + 1)..(c - 1)
    OBVIOUS
  <2>1. e0 - 1 \in (at + 1)..(c - 1) /\ e0 - 1 \notin T
    BY <1>1, <1>4, <1>5, <2>0
  <2>. QED
    BY <2>1, <1>1, DepthInt
<1>7. Depth(b, e0) = Depth(b, e0 - 1) + Delta(b[e0])
  <2>1. e0 - 1 \in 0..(Len(b) - 1)
    BY <1>1, <1>4, <1>5
  <2>. QED
    BY <2>1, DepthStep
<1>8. Depth(b, e0) = 0
  <2>1. Depth(b, e0) <= 0 /\ e0 - 1 \in 0..Len(b) /\ e0 \in 0..Len(b)
    BY <1>1, <1>4
  <2>2. Depth(b, e0 - 1) \in Int /\ Depth(b, e0) \in Int
    BY <2>1, DepthInt
  <2>3. Delta(b[e0]) \in {-1, 0, 1}
    BY DeltaRange
  <2>. QED
    BY <2>1, <2>2, <2>3, <1>6, <1>7
<1>9. e0 \in Closers(b, at)
  BY <1>1, <1>4, <1>8 DEF Closers
<1>. QED
  BY <1>1, <1>4, <1>9

(***************************************************************************)
(* What one successful raw_decode at an offset of depth 0 reads: the value *)
(* ends within the text back at depth 0, never going below 0 and holding   *)
(* no non-JSON whitespace, and it adds exactly one top-level value, the    *)
(* one that starts at at + 1.                                              *)
(***************************************************************************)
TopUpTo(b, e) == {n \in TopStarts(b) : n <= e}

LEMMA ValueRead ==
    ASSUME NEW b \in Seq(Char), NEW at \in 0..(Len(b) - 1),
           Depth(b, at) = 0, ValueEnd(b, at) # -1
    PROVE  /\ ValueEnd(b, at) \in (at + 1)..Len(b)
           /\ Depth(b, ValueEnd(b, at)) = 0
           /\ \A e \in (at + 1)..ValueEnd(b, at) : Depth(b, e) >= 0
           /\ \A n \in (at + 1)..ValueEnd(b, at) : b[n].kind # "space"
           /\ TopUpTo(b, ValueEnd(b, at)) = TopUpTo(b, at) \cup {at + 1}
<1>0. Depth(b, at + 1) = Depth(b, at) + Delta(b[at + 1])
  BY DepthStep
<1>1. CASE b[at + 1].kind = "scalar"
  <2>1. ValueEnd(b, at) = at + 1
    BY <1>1, ValueEndCases
  <2>2. Depth(b, at + 1) = 0
    BY <1>0, <1>1 DEF Delta
  <2>3. at + 1 \in TopStarts(b)
    BY <1>1 DEF TopStarts
  <2>4. TopUpTo(b, at + 1) = TopUpTo(b, at) \cup {at + 1}
    BY <2>3 DEF TopUpTo, TopStarts
  <2>. QED
    BY <1>1, <2>1, <2>2, <2>4
<1>2. CASE b[at + 1].kind # "scalar"
  <2>1. /\ b[at + 1].kind = "open" /\ Closers(b, at) # {}
        /\ \A n \in (at + 1)..Close(b, at) : b[n].kind # "space"
        /\ ValueEnd(b, at) = Close(b, at)
    BY <1>2, ValueEndCases
  <2> DEFINE c == Close(b, at)
  <2>2. c \in (at + 1)..Len(b) /\ Depth(b, c) = 0
    BY <2>1, CloseIsFirst DEF Closers
  <2>3. \A e \in (at + 1)..(c - 1) : Depth(b, e) > 0
    BY <2>1, InsideValue
  <2>4. \A e \in (at + 1)..c : Depth(b, e) >= 0
    BY <2>2, <2>3, DepthInt
  <2>5. at + 1 \in TopStarts(b)
    BY <2>1 DEF TopStarts
  <2>6. \A n \in (at + 2)..c : n \notin TopStarts(b)
    <3> TAKE n \in (at + 2)..c
    <3>1. n - 1 \in (at + 1)..(c - 1)
      BY <2>2
    <3>. QED
      BY <3>1, <2>3 DEF TopStarts
  <2>7. TopUpTo(b, c) = TopUpTo(b, at) \cup {at + 1}
    <3>1. TopStarts(b) \subseteq 1..Len(b)
      BY DEF TopStarts
    <3>. QED
      BY <2>2, <2>5, <2>6, <3>1 DEF TopUpTo
  <2>. QED
    BY <2>1, <2>2, <2>4, <2>7
<1>. QED
  BY <1>1, <1>2

(***************************************************************************)
(* raw_decode raises at an offset of depth 0 that holds no whitespace only *)
(* when the text is not a stream of complete values: a stray closer takes  *)
(* the depth below 0, an object that is never closed leaves the end of the *)
(* text above 0, and non-JSON whitespace inside an object sits at depth    *)
(* above 0.                                                                *)
(***************************************************************************)
LEMMA DecodeErrorIllFormed ==
    ASSUME NEW b \in Seq(Char), NEW at \in 0..(Len(b) - 1),
           Depth(b, at) = 0, b[at + 1].kind \notin IsSpace,
           ValueEnd(b, at) = -1
    PROVE  ~WellFormed(b)
<1>0. b[at + 1].kind \in {"scalar", "close", "open"}
  BY DEF Char, IsSpace
<1>1. CASE b[at + 1].kind = "scalar"
  BY <1>1, ValueEndCases
<1>2. CASE b[at + 1].kind = "close"
  <2>1. Depth(b, at + 1) = -1
    BY <1>2, DepthStep DEF Delta
  <2>. QED
    BY <2>1 DEF WellFormed
<1>3. CASE b[at + 1].kind = "open" /\ Closers(b, at) = {}
  <2>1. Len(b) \in (at + 1)..Len(b) /\ Len(b) \notin Closers(b, at)
    BY <1>3
  <2>. QED
    BY <2>1 DEF Closers, WellFormed
<1>4. CASE b[at + 1].kind = "open" /\ Closers(b, at) # {}
  <2>2. Close(b, at) \in (at + 1)..Len(b)
    BY <1>4, CloseIsFirst DEF Closers
  <2>1. PICK n \in (at + 1)..Close(b, at) : b[n].kind = "space"
    <3>1. ValueEnd(b, at) # Close(b, at)
      BY <2>2
    <3>. QED
      BY <1>4, <3>1, ValueEndCases
  <2>3. n # at + 1
    BY <1>4, <2>1
  <2>4. n - 1 \in (at + 1)..(Close(b, at) - 1)
    BY <2>2, <2>3
  <2>5. Depth(b, n - 1) > 0
    BY <1>4, <2>4, InsideValue
  <2>. QED
    BY <2>1, <2>2, <2>4, <2>5 DEF WellFormed
<1>. QED
  BY <1>0, <1>1, <1>2, <1>3, <1>4

(***************************************************************************)
(* f lists the set S of offsets in ascending order, one entry per element. *)
(***************************************************************************)
Listing(f, S, L) ==
    /\ f \in [1..L -> S]
    /\ \A m1, m2 \in 1..L : m1 < m2 => f[m1] < f[m2]
    /\ \A s \in S : \E m \in 1..L : f[m] = s

(* A strictly increasing listing is injective and keeps its order. *)
LEMMA ListingMonotone ==
    ASSUME NEW S \in SUBSET Int, NEW L \in Nat, NEW f, Listing(f, S, L)
    PROVE  /\ f \in [1..L -> Int]
           /\ \A a, c \in 1..L : a <= c <=> f[a] <= f[c]
           /\ \A a, c \in 1..L : f[a] = f[c] => a = c
<1>1. f \in [1..L -> S] /\ \A m1, m2 \in 1..L : m1 < m2 => f[m1] < f[m2]
  BY DEF Listing
<1>2. f \in [1..L -> Int]
  BY <1>1
<1>3. \A a, c \in 1..L : a <= c <=> f[a] <= f[c]
  <2> TAKE a, c \in 1..L
  <2>1. CASE a < c
    BY <1>1, <1>2, <2>1
  <2>2. CASE a = c
    BY <1>2, <2>2
  <2>3. CASE c < a
    BY <1>1, <1>2, <2>3
  <2>. QED
    BY <2>1, <2>2, <2>3
<1>. QED
  BY <1>2, <1>3

(* A listing extended by an offset above all of S lists S with it. *)
LEMMA ListingExtend ==
    ASSUME NEW S \in SUBSET Int, NEW L \in Nat, NEW f, NEW x \in Int,
           Listing(f, S, L), \A s \in S : s < x
    PROVE  Listing([m \in 1..(L + 1) |-> IF m <= L THEN f[m] ELSE x],
                   S \cup {x}, L + 1)
<1> DEFINE g == [m \in 1..(L + 1) |-> IF m <= L THEN f[m] ELSE x]
<1>1. /\ f \in [1..L -> S]
      /\ \A m1, m2 \in 1..L : m1 < m2 => f[m1] < f[m2]
      /\ \A s \in S : \E m \in 1..L : f[m] = s
  BY DEF Listing
<1>2. g \in [1..(L + 1) -> S \cup {x}]
  BY <1>1
<1>3. \A m1, m2 \in 1..(L + 1) : m1 < m2 => g[m1] < g[m2]
  <2> TAKE m1, m2 \in 1..(L + 1)
  <2> HAVE m1 < m2
  <2>1. m1 \in 1..L
    OBVIOUS
  <2>2. CASE m2 <= L
    BY <1>1, <2>1, <2>2
  <2>3. CASE m2 = L + 1
    <3>1. g[m1] = f[m1] /\ g[m2] = x
      BY <2>1, <2>3
    <3>2. f[m1] \in S
      BY <1>1, <2>1
    <3>. QED
      BY <3>1, <3>2
  <2>. QED
    BY <2>2, <2>3
<1>4. \A s \in S \cup {x} : \E m \in 1..(L + 1) : g[m] = s
  BY <1>1
<1>. QED
  BY <1>2, <1>3, <1>4 DEF Listing

(* A listing of S counts S, and the entry m has m - 1 elements below it. *)
LEMMA ListingCount ==
    ASSUME NEW S \in SUBSET Int, NEW L \in Nat, NEW f, Listing(f, S, L)
    PROVE  /\ IsFiniteSet(S)
           /\ Cardinality(S) = L
           /\ \A m \in 1..L : Cardinality({x \in S : x < f[m]}) = m - 1
<1>0. /\ f \in [1..L -> S]
      /\ \A s \in S : \E m \in 1..L : f[m] = s
  BY DEF Listing
<1>a. /\ f \in [1..L -> Int]
      /\ \A a, c \in 1..L : a <= c <=> f[a] <= f[c]
      /\ \A a, c \in 1..L : f[a] = f[c] => a = c
  BY ListingMonotone
<1>1. f \in Bijection(1..L, S)
  BY <1>0, <1>a DEF Bijection, Injection, Surjection, IsInjective
<1>2. IsFiniteSet(S) /\ Cardinality(S) = L
  <2>1. IsFiniteSet(1..L) /\ Cardinality(1..L) = L
    BY FS_Interval
  <2>. QED
    BY <1>1, <2>1, FS_Bijection DEF ExistsBijection
<1>3. ASSUME NEW m \in 1..L
      PROVE  Cardinality({x \in S : x < f[m]}) = m - 1
  <2> DEFINE g == [j \in 1..(m - 1) |-> f[j]]
             B == {x \in S : x < f[m]}
  <2>1. g \in Bijection(1..(m - 1), B)
    <3>1. g \in [1..(m - 1) -> B]
      <4>1. ASSUME NEW j \in 1..(m - 1)
            PROVE  f[j] \in B
        <5>1. f[j] \in S /\ f[j] <= f[m] /\ f[j] # f[m]
          BY <1>0, <1>a
        <5>. QED
          BY <5>1, <1>a
      <4>. QED
        BY <4>1
    <3>2. IsInjective(g)
      BY <1>a DEF IsInjective
    <3>3. \A x \in B : \E j \in 1..(m - 1) : g[j] = x
      <4> TAKE x \in B
      <4>1. PICK j \in 1..L : f[j] = x
        BY <1>0
      <4>2. ~(f[m] <= f[j])
        BY <4>1, <1>0, <1>a
      <4>3. j < m
        BY <4>2, <1>a
      <4>. QED
        BY <4>1, <4>3
    <3>. QED
      BY <3>1, <3>2, <3>3 DEF Bijection, Injection, Surjection
  <2>2. m - 1 \in Nat
    OBVIOUS
  <2>. QED
    BY <2>1, <2>2, FS_CountingElements DEF ExistsBijection
<1>. QED
  BY <1>2, <1>3

(* The values a listing of the top-level starts picks are TopValues. *)
LEMMA ListingTopValues ==
    ASSUME NEW b \in Seq(Char), NEW X, NEW p \in Seq(X), NEW f,
           Listing(f, TopStarts(b), Len(p)),
           \A m \in 1..Len(p) : p[m] = b[f[m]].val
    PROVE  p = TopValues(b)
<1> DEFINE S == TopStarts(b)
           nth(m) == CHOOSE n \in S : Cardinality({x \in S : x < n}) = m - 1
<1>1. S \in SUBSET Int
  BY DEF TopStarts
<1>2. /\ IsFiniteSet(S)
      /\ Cardinality(S) = Len(p)
      /\ \A m \in 1..Len(p) : Cardinality({x \in S : x < f[m]}) = m - 1
  <2>1. Len(p) \in Nat
    OBVIOUS
  <2>. QED
    BY <1>1, <2>1, ListingCount
<1>3. ASSUME NEW m \in 1..Len(p)
      PROVE  nth(m) = f[m]
  <2>1. f[m] \in S
    BY DEF Listing
  <2>2. nth(m) \in S /\ Cardinality({x \in S : x < nth(m)}) = m - 1
    BY <1>2, <2>1
  <2>3. PICK m2 \in 1..Len(p) : f[m2] = nth(m)
    BY <2>2 DEF Listing
  <2>4. m2 = m
    <3>1. Cardinality({x \in S : x < f[m2]}) = m2 - 1
      BY <1>2
    <3>2. {x \in S : x < f[m2]} = {x \in S : x < nth(m)}
      BY <2>3
    <3>3. Cardinality({x \in S : x < nth(m)}) = m2 - 1
      BY <3>1, <3>2
    <3>4. m2 - 1 = m - 1
      BY <2>2, <3>3
    <3>. QED
      BY <3>4
  <2>. QED
    BY <2>3, <2>4
<1>4. TopValues(b) = [m \in 1..Len(p) |-> b[nth(m)].val]
  BY <1>2 DEF TopValues
<1>5. p = [m \in 1..Len(p) |-> b[f[m]].val]
  OBVIOUS
<1>. QED
  BY <1>3, <1>4, <1>5

-----------------------------------------------------------------------------
(* StreamTypeOK with the offsets the control states imply. *)
TInv ==
    /\ StreamTypeOK
    /\ pc = "list" => i = 0
    /\ pc = "value" => i < Len(buf)

LEMMA StreamTypeInit == StreamInit => TInv
BY DEF StreamInit, TInv, StreamTypeOK, StreamDataOK

LEMMA StreamTypeStep ==
    TInv /\ [StreamNext \/ StreamStopped]_streamVars => TInv'
<1> SUFFICES ASSUME TInv, [StreamNext \/ StreamStopped]_streamVars
             PROVE  TInv'
  OBVIOUS
<1> USE DEF TInv, StreamTypeOK, StreamDataOK
<1>1. CASE ListSucceeds
  BY <1>1, OutputsAssumption DEF ListSucceeds
<1>2. CASE DecodeValue
  <2>1. i \in 0..(Len(buf) - 1) /\ buf[i + 1] \in Char
    BY <1>2 DEF DecodeValue
  <2>2. ValueEnd(buf, i) \in (i + 1)..Len(buf)
    BY <1>2, <2>1, ValueEndRange DEF DecodeValue
  <2>3. buf[i + 1].val \in Payloads \cup {ScalarValue}
    BY <2>1 DEF Char
  <2>. QED
    BY <1>2, <2>2, <2>3 DEF DecodeValue
<1>3. CASE SkipWs
  BY <1>3 DEF SkipWs
<1>4. CASE ListFails \/ LoopEnter \/ LoopExit \/ BreakAtEnd \/ WsDone
             \/ DecodeFails
  BY <1>4 DEF ListFails, LoopEnter, LoopExit, BreakAtEnd, WsDone, DecodeFails
<1>5. CASE StreamStopped \/ UNCHANGED streamVars
  BY <1>5 DEF StreamStopped, streamVars
<1>. QED
  BY <1>1, <1>2, <1>3, <1>4, <1>5 DEF StreamNext

(* The decoder's offset stays within the text and its list holds decoded *)
(* values, on every run of run_go_list.                                  *)
THEOREM StreamTypeCorrect == StreamSpec => []StreamTypeOK
BY StreamTypeInit, StreamTypeStep, PTL DEF StreamSpec, TInv
-----------------------------------------------------------------------------
(***************************************************************************)
(* The inductive invariant behind DecodeExact.  While the loop of lines    *)
(* 21-29 runs, the text read so far, buf[1..i], is itself a stream of      *)
(* complete values: its depth is back to 0, it never went below 0, it has  *)
(* no non-JSON whitespace inside a value, and packages lists, in order,    *)
(* the values that start at depth 0 within it (f gives their offsets).     *)
(***************************************************************************)
PrefixRead(b, j, p) ==
    /\ Depth(b, j) = 0
    /\ \A e \in 0..j : Depth(b, e) >= 0
    /\ \A n \in 1..j : b[n].kind = "space" => Depth(b, n - 1) = 0
    /\ \E f \in [1..Len(p) -> TopUpTo(b, j)] :
         /\ Listing(f, TopUpTo(b, j), Len(p))
         /\ \A m \in 1..Len(p) : p[m] = b[f[m]].val

DInv ==
    /\ TInv
    /\ pc = "list" => packages = <<>>
    /\ pc \in {"loop", "ws", "value", "pkgs"} => PrefixRead(buf, i, packages)
    /\ pc = "value" => buf[i + 1].kind \notin IsSpace
    /\ pc = "pkgs" => i = Len(buf)
    /\ pc = "decode_error" => ~WellFormed(buf)

(* Nothing is read yet: the empty prefix and the empty list (line 20). *)
LEMMA PrefixEmpty ==
    ASSUME NEW b \in Seq(Char)
    PROVE  PrefixRead(b, 0, <<>>)
<1> DEFINE f0 == [m \in 1..0 |-> 0]
<1>0. Len(<<>>) = 0 /\ 1..0 = {}
  OBVIOUS
<1>1. TopUpTo(b, 0) = {}
  BY DEF TopUpTo, TopStarts
<1>2. f0 \in [1..Len(<<>>) -> TopUpTo(b, 0)]
  BY <1>0, <1>1
<1>3. Listing(f0, TopUpTo(b, 0), Len(<<>>))
  BY <1>0, <1>1, <1>2, Zenon DEF Listing
<1>4. \E f \in [1..Len(<<>>) -> TopUpTo(b, 0)] :
         /\ Listing(f, TopUpTo(b, 0), Len(<<>>))
         /\ \A m \in 1..Len(<<>>) : <<>>[m] = b[f[m]].val
  <2>1. \A m \in 1..Len(<<>>) : <<>>[m] = b[f0[m]].val
    BY <1>0
  <2>. QED
    BY <1>2, <1>3, <2>1, Zenon
<1>5. Depth(b, 0) = 0 /\ \A e \in 0..0 : Depth(b, e) >= 0
  BY DepthZero
<1>6. \A n \in 1..0 : b[n].kind = "space" => Depth(b, n - 1) = 0
  OBVIOUS
<1>. QED
  BY <1>4, <1>5, <1>6, Zenon DEF PrefixRead

(* Skipping a whitespace character at depth 0 (lines 23-24). *)
LEMMA PrefixSkip ==
    ASSUME NEW b \in Seq(Char), NEW at \in 0..(Len(b) - 1), NEW p,
           PrefixRead(b, at, p), b[at + 1].kind \in IsSpace
    PROVE  PrefixRead(b, at + 1, p)
<1>1. Depth(b, at + 1) = 0
  BY DepthStep DEF PrefixRead, Delta, IsSpace
<1>2. \A e \in 0..(at + 1) : Depth(b, e) >= 0
  BY <1>1 DEF PrefixRead
<1>3. \A n \in 1..(at + 1) : b[n].kind = "space" => Depth(b, n - 1) = 0
  BY DEF PrefixRead
<1>4. TopUpTo(b, at + 1) = TopUpTo(b, at)
  BY DEF TopUpTo, TopStarts, IsSpace
<1>. QED
  BY <1>1, <1>2, <1>3, <1>4 DEF PrefixRead

(* Decoding the value at a depth-0 offset (lines 27-29). *)
LEMMA PrefixDecode ==
    ASSUME NEW b \in Seq(Char), NEW at \in 0..(Len(b) - 1),
           NEW X, NEW p \in Seq(X),
           PrefixRead(b, at, p), ValueEnd(b, at) # -1
    PROVE  PrefixRead(b, ValueEnd(b, at), Append(p, b[at + 1].val))
<1> DEFINE ve == ValueEnd(b, at)
           q  == Append(p, b[at + 1].val)
<1>0. Depth(b, at) = 0
  BY DEF PrefixRead
<1>1. /\ ve \in (at + 1)..Len(b)
      /\ Depth(b, ve) = 0
      /\ \A e \in (at + 1)..ve : Depth(b, e) >= 0
      /\ \A n \in (at + 1)..ve : b[n].kind # "space"
      /\ TopUpTo(b, ve) = TopUpTo(b, at) \cup {at + 1}
  BY <1>0, ValueRead
<1>2. \A e \in 0..ve : Depth(b, e) >= 0
  BY <1>1 DEF PrefixRead
<1>3. \A n \in 1..ve : b[n].kind = "space" => Depth(b, n - 1) = 0
  BY <1>1 DEF PrefixRead
<1>4. PICK f \in [1..Len(p) -> TopUpTo(b, at)] :
        /\ Listing(f, TopUpTo(b, at), Len(p))
        /\ \A m \in 1..Len(p) : p[m] = b[f[m]].val
  BY DEF PrefixRead
<1> DEFINE g == [m \in 1..(Len(p) + 1) |-> IF m <= Len(p) THEN f[m] ELSE at + 1]
<1>5. TopUpTo(b, at) \in SUBSET Int /\ \A s \in TopUpTo(b, at) : s < at + 1
  BY DEF TopUpTo, TopStarts
<1>6. Listing(g, TopUpTo(b, ve), Len(q))
  <2>0. Len(p) \in Nat /\ at + 1 \in Int
    OBVIOUS
  <2>1. Listing(g, TopUpTo(b, at) \cup {at + 1}, Len(p) + 1)
    BY <1>4, <1>5, <2>0, ListingExtend
  <2>2. Len(q) = Len(p) + 1
    OBVIOUS
  <2>. QED
    BY <2>1, <2>2, <1>1
<1>7. g \in [1..Len(q) -> TopUpTo(b, ve)]
  BY <1>6 DEF Listing
<1>8. \A m \in 1..Len(q) : q[m] = b[g[m]].val
  BY <1>4
<1>. QED
  BY <1>1, <1>2, <1>3, <1>6, <1>7, <1>8 DEF PrefixRead

(* The whole text read: it is well formed and the list is its values. *)
LEMMA PrefixWhole ==
    ASSUME NEW b \in Seq(Char), NEW X, NEW p \in Seq(X),
           PrefixRead(b, Len(b), p)
    PROVE  WellFormed(b) /\ p = TopValues(b)
<1>1. TopUpTo(b, Len(b)) = TopStarts(b)
  BY DEF TopUpTo, TopStarts
<1>2. PICK f \in [1..Len(p) -> TopStarts(b)] :
        /\ Listing(f, TopStarts(b), Len(p))
        /\ \A m \in 1..Len(p) : p[m] = b[f[m]].val
  BY <1>1 DEF PrefixRead
<1>3. WellFormed(b)
  BY DEF PrefixRead, WellFormed
<1>. QED
  BY <1>2, <1>3, ListingTopValues
LEMMA DInvInit == StreamInit => DInv
BY StreamTypeInit DEF StreamInit, DInv

LEMMA DInvStep == DInv /\ [StreamNext \/ StreamStopped]_streamVars => DInv'
<1> SUFFICES ASSUME DInv, [StreamNext \/ StreamStopped]_streamVars
             PROVE  DInv'
  OBVIOUS
<1>0. TInv' /\ buf \in Seq(Char) /\ i \in 0..Len(buf)
      /\ packages \in Seq(Payloads \cup {ScalarValue})
  BY StreamTypeStep DEF DInv, TInv, StreamTypeOK, StreamDataOK
<1>1. CASE ListSucceeds
  <2>1. buf' \in Seq(Char) /\ i' = 0 /\ packages' = <<>>
    BY <1>1, OutputsAssumption DEF ListSucceeds, DInv, TInv
  <2>2. PrefixRead(buf', i', packages')
    BY <2>1, PrefixEmpty
  <2>. QED
    BY <1>0, <1>1, <2>2 DEF ListSucceeds, DInv
<1>2. CASE ListFails
  BY <1>0, <1>2 DEF ListFails, DInv
<1>3. CASE LoopEnter
  BY <1>0, <1>3 DEF LoopEnter, DInv
<1>4. CASE LoopExit \/ BreakAtEnd
  BY <1>0, <1>4 DEF LoopExit, BreakAtEnd, DInv
<1>5. CASE SkipWs
  <2>1. i \in 0..(Len(buf) - 1) /\ PrefixRead(buf, i, packages)
    BY <1>0, <1>5 DEF SkipWs, DInv
  <2>2. PrefixRead(buf, i + 1, packages)
    BY <1>0, <1>5, <2>1, PrefixSkip DEF SkipWs
  <2>. QED
    BY <1>0, <1>5, <2>2 DEF SkipWs, DInv
<1>6. CASE WsDone
  BY <1>0, <1>6 DEF WsDone, DInv
<1>7. CASE DecodeValue
  <2>1. i \in 0..(Len(buf) - 1) /\ PrefixRead(buf, i, packages)
    BY <1>0, <1>7 DEF DecodeValue, DInv, TInv
  <2>2. PrefixRead(buf, ValueEnd(buf, i), Append(packages, buf[i + 1].val))
    BY <1>0, <1>7, <2>1, PrefixDecode DEF DecodeValue
  <2>. QED
    BY <1>0, <1>7, <2>2 DEF DecodeValue, DInv
<1>8. CASE DecodeFails
  <2>1. i \in 0..(Len(buf) - 1) /\ Depth(buf, i) = 0
        /\ buf[i + 1].kind \notin IsSpace
    BY <1>0, <1>8 DEF DecodeFails, DInv, TInv, PrefixRead
  <2>2. ~WellFormed(buf)
    BY <1>0, <1>8, <2>1, DecodeErrorIllFormed DEF DecodeFails
  <2>. QED
    BY <1>0, <1>8, <2>2 DEF DecodeFails, DInv
<1>9. CASE StreamStopped \/ UNCHANGED streamVars
  BY <1>0, <1>9 DEF StreamStopped, streamVars, DInv
<1>. QED
  BY <1>1, <1>2, <1>3, <1>4, <1>5, <1>6, <1>7, <1>8, <1>9 DEF StreamNext

LEMMA DInvDecodeExact == DInv => DecodeExact
<1> SUFFICES ASSUME DInv PROVE DecodeExact
  OBVIOUS
<1>1. pc = "pkgs" => WellFormed(buf) /\ packages = TopValues(buf)
  <2> SUFFICES ASSUME pc = "pkgs"
               PROVE  WellFormed(buf) /\ packages = TopValues(buf)
    OBVIOUS
  <2>1. buf \in Seq(Char) /\ packages \in Seq(Payloads \cup {ScalarValue})
        /\ PrefixRead(buf, Len(buf), packages)
    BY DEF DInv, TInv, StreamTypeOK, StreamDataOK
  <2>. QED
    BY <2>1, PrefixWhole
<1>. QED
  BY <1>1 DEF DInv, DecodeExact

(***************************************************************************)
(* Decoding is exact on every run of run_go_list: when the loop of lines   *)
(* 21-29 returns, its list holds the text's top-level values in order and  *)
(* the text is a stream of complete values, and raw_decode raises only on *)
(* a text that is not one.                                                 *)
(***************************************************************************)
THEOREM DecodeCorrect == StreamSpec => []DecodeExact
BY DInvInit, DInvStep, DInvDecodeExact, PTL DEF StreamSpec
====
