-------------------------- MODULE EppicMacroProofs --------------------------
(***************************************************************************)
(* Proofs about EppicMacro for every family of texts and every depth of the *)
(* input stack: the types, that the marks of the macros follow the buffers,  *)
(* and that a load leaves the host's defines as they were.                   *)
(*                                                                         *)
(* One invariant serves all three, for a set N of names: whatever defines,   *)
(* undefines or binds a name has it from a text, so that texts that keep to  *)
(* N leave every other name alone.  N is Names for the types, and all but   *)
(* the names of the host's defines for the rest.                            *)
(***************************************************************************)
EXTENDS EppicMacro, SequenceTheorems, FiniteSetTheorems, WellFoundedInduction, TLAPS

-----------------------------------------------------------------------------
(* Numbers and sequences.                                                  *)

LEMMA LeastNumber ==
    ASSUME NEW I \in SUBSET Nat, I # {}
    PROVE  Min(I) \in I /\ \A i \in I : Min(I) <= i
<1> DEFINE R == {p \in Nat \X Nat : p[1] < p[2]}
<1>1. OpToRel(<, Nat) = R
  BY Zenon DEF OpToRel
<1>2. IsWellFoundedOn(R, Nat)
  BY Zenon, <1>1, NatLessThanWellFounded
<1>3. PICK x \in I : \A y \in I : ~ (<<y, x>> \in R)
  <2> HIDE DEF R
  <2>1. QED
    BY <1>2, WFMin
<1>4. \A y \in I : x <= y
  <2>1. TAKE y \in I
  <2>2. x \in Nat /\ y \in Nat
    OBVIOUS
  <2>3. y < x => <<y, x>> \in R
    BY <2>2
  <2>4. QED
    BY <1>3, <2>2, <2>3
<1>5. QED
  BY <1>4 DEF Min

\* The least index at which a claim fails.
LEMMA FirstFailure ==
    ASSUME NEW n \in Nat, NEW Bad \in SUBSET (0..n), Bad # {}
    PROVE  \E k \in Bad : \A j \in 0..n : j < k => j \notin Bad
<1>1. Bad \in SUBSET Nat
  OBVIOUS
<1>2. PICK k \in Bad : \A i \in Bad : k <= i
  BY <1>1, LeastNumber
<1>3. \A j \in 0..n : j < k => j \notin Bad
  BY <1>2
<1>4. QED
  BY <1>2, <1>3

\* A set that a fold starts in and no step leaves has all of it.
LEMMA StaysIn ==
    ASSUME NEW S, NEW n \in Nat, NEW f, f[0] \in S,
           \A k \in 1..n : f[k - 1] \in S => f[k] \in S
    PROVE  \A k \in 0..n : f[k] \in S
<1> DEFINE Bad == {k \in 0..n : f[k] \notin S}
<1>1. SUFFICES ASSUME Bad # {} PROVE FALSE
  OBVIOUS
<1>2. PICK k \in Bad : \A j \in 0..n : j < k => j \notin Bad
  <2>1. Bad \in SUBSET (0..n)
    OBVIOUS
  <2> HIDE DEF Bad
  <2>2. QED
    BY <1>1, <2>1, FirstFailure
<1>3. k # 0 /\ k \in 1..n /\ k - 1 \in 0..n /\ k - 1 < k
  OBVIOUS
<1>4. f[k - 1] \in S
  BY <1>2, <1>3
<1>5. QED
  BY <1>3, <1>4

\* A fold of n steps with the step function g.
Folded(f, n, a, g) == f = [k \in 0..n |-> IF k = 0 THEN a ELSE g[<<f[k - 1], k>>]]

LEMMA FoldExists ==
    ASSUME NEW a, NEW g, NEW n \in Nat
    PROVE  \E f : Folded(f, n, a, g)
<1> DEFINE Bad == {m \in 0..n : ~ \E f : Folded(f, m, a, g)}
<1>1. SUFFICES ASSUME Bad # {} PROVE FALSE
  OBVIOUS
<1>2. PICK m \in Bad : \A j \in 0..n : j < m => j \notin Bad
  <2>1. Bad \in SUBSET (0..n)
    OBVIOUS
  <2> HIDE DEF Bad
  <2>2. QED
    BY <1>1, <2>1, FirstFailure
<1>3. m \in 0..n /\ ~ \E f : Folded(f, m, a, g)
  OBVIOUS
<1>4. CASE m = 0
  <2> DEFINE h == [k \in 0..0 |-> a]
  <2>1. Folded(h, 0, a, g)
    BY DEF Folded
  <2>2. QED
    BY <1>3, <1>4, <2>1
<1>5. CASE m # 0
  <2>1. m - 1 \in 0..n /\ m - 1 < m
    BY <1>3, <1>5
  <2>2. PICK f : Folded(f, m - 1, a, g)
    BY <1>2, <2>1
  <2> DEFINE h == [k \in 0..m |-> IF k = 0 THEN a ELSE g[<<f[k - 1], k>>]]
  <2>3. \A k \in 0..m - 1 : h[k] = f[k]
    <3>1. TAKE k \in 0..m - 1
    <3>2. k \in 0..m
      BY <1>3
    <3>3. f[k] = IF k = 0 THEN a ELSE g[<<f[k - 1], k>>]
      BY <2>2 DEF Folded
    <3>4. QED
      BY <3>2, <3>3
  <2>4. \A k \in 0..m : k # 0 => h[k - 1] = f[k - 1]
    <3>1. TAKE k \in 0..m
    <3>2. k # 0 => k - 1 \in 0..m - 1
      BY <1>3
    <3>3. QED
      BY <2>3, <3>2
  <2>5. h = [k \in 0..m |-> IF k = 0 THEN a ELSE g[<<h[k - 1], k>>]]
    <3> HIDE DEF h
    <3>1. h = [k \in 0..m |-> IF k = 0 THEN a ELSE g[<<f[k - 1], k>>]]
      BY DEF h
    <3>2. QED
      BY <2>4, <3>1
  <2> HIDE DEF h
  <2>6. Folded(h, m, a, g)
    BY <2>5 DEF Folded
  <2>7. QED
    BY <1>3, <2>6
<1>6. QED
  BY <1>4, <1>5

\* A finite set of numbers has an nth one, which Nth chooses.
LEMMA NthIsThere ==
    ASSUME NEW S \in SUBSET Nat, IsFiniteSet(S), NEW n \in 1..Cardinality(S)
    PROVE  Nth(S, n) \in S
<1> DEFINE Below(i) == {j \in S : j < i}
           Rank(k) == \E i \in S : Cardinality(Below(i)) = k - 1
           c == Cardinality(S)
           Bad == {k \in 1..c : ~Rank(k)}
<1>1. c \in Nat
  BY FS_CardinalityType
<1>2. SUFFICES Bad = {}
  <2>1. ASSUME Bad = {} PROVE Rank(n)
    BY <2>1
  <2>2. ASSUME Rank(n) PROVE Nth(S, n) \in S
    BY <2>2 DEF Nth
  <2>3. QED
    BY <2>1, <2>2
<1>3. SUFFICES ASSUME Bad # {} PROVE FALSE
  OBVIOUS
<1>4. PICK k \in Bad : \A j \in 0..c : j < k => j \notin Bad
  <2>1. Bad \in SUBSET (0..c)
    OBVIOUS
  <2> HIDE DEF Bad, c
  <2>2. QED
    BY <1>1, <1>3, <2>1, FirstFailure
<1>5. k \in 1..c /\ ~Rank(k)
  OBVIOUS
<1>6. \A i : IsFiniteSet(Below(i)) /\ Cardinality(Below(i)) \in Nat
  <2>1. TAKE i
  <2>2. Below(i) \in SUBSET S
    OBVIOUS
  <2> HIDE DEF Below
  <2>3. QED
    BY <2>2, FS_Subset, FS_CardinalityType
<1>7. CASE k = 1
  <2>1. S # {}
    BY <1>5, FS_EmptySet
  <2>2. PICK i \in S : \A j \in S : i <= j
    BY <2>1, LeastNumber
  <2>3. Below(i) = {}
    <3>1. \A j \in S : ~ (j < i)
      <4>1. TAKE j \in S
      <4>2. i \in Nat /\ j \in Nat /\ i <= j
        BY <2>2
      <4>3. QED
        BY <4>2
    <3>2. QED
      BY <3>1
  <2>4. Cardinality(Below(i)) = k - 1
    BY <1>7, <2>3, FS_EmptySet
  <2>5. QED
    BY <1>5, <2>2, <2>4
<1>8. CASE k # 1
  <2>1. k - 1 \in 1..c /\ k - 1 \in 0..c /\ k - 1 < k /\ k - 1 \notin Bad
    BY <1>1, <1>4, <1>5, <1>8
  <2>2. PICK i \in S : Cardinality(Below(i)) = k - 2
    BY <2>1
  <2> DEFINE Upto == Below(i) \cup {i}
             T == {j \in S : j > i}
  <2>3. Cardinality(Upto) = k - 1
    <3>1. i \notin Below(i)
      BY <2>2
    <3>2. Cardinality(Upto) = Cardinality(Below(i)) + 1
      BY <1>6, <3>1, FS_AddElement
    <3>3. QED
      BY <1>5, <2>2, <3>2
  <2>4. T # {}
    <3>1. SUFFICES ASSUME T = {} PROVE FALSE
      OBVIOUS
    <3>2. \A j \in S : j < i \/ j = i
      <4>1. TAKE j \in S
      <4>2. i \in Nat /\ j \in Nat /\ ~ (j > i)
        BY <2>2, <3>1
      <4>3. QED
        BY <4>2
    <3>3. Upto = S
      BY <2>2, <3>2
    <3>4. c = k - 1
      BY <2>3, <3>3
    <3> HIDE DEF c
    <3>5. QED
      BY <1>1, <1>5, <3>4
  <2>5. PICK m \in T : \A j \in T : m <= j
    <3>1. T \in SUBSET Nat
      OBVIOUS
    <3> HIDE DEF T
    <3>2. QED
      BY <2>4, <3>1, LeastNumber
  <2>6. Below(m) = Upto
    <3>1. m \in S /\ m > i /\ \A j \in S : j > i => m <= j
      BY <2>5
    <3>2. \A j \in S : j < m <=> (j < i \/ j = i)
      <4>1. TAKE j \in S
      <4>2. i \in Nat /\ j \in Nat /\ m \in Nat /\ (j > i => m <= j)
        BY <2>2, <3>1
      <4>3. QED
        BY <3>1, <4>2
    <3>3. QED
      BY <2>2, <3>2
  <2>7. QED
    BY <1>5, <2>3, <2>5, <2>6
<1>9. QED
  BY <1>7, <1>8

\* The parts of a sequence are sequences of the same things.
LEMMA PartIsSeq ==
    ASSUME NEW S, NEW s \in Seq(S), NEW a \in Int, NEW b \in Int, 1 <= a, b <= Len(s)
    PROVE  SubSeq(s, a, b) \in Seq(S)
<1>1. \A i \in a..b : s[i] \in S
  BY LenProperties, ElementOfSeq
<1>2. QED
  BY <1>1, SubSeqProperties

LEMMA BehindIsSeq ==
    ASSUME NEW S, NEW s \in Seq(S), NEW i \in 0..Len(s)
    PROVE  /\ SubSeq(s, i + 1, Len(s)) \in Seq(S)
           /\ Len(SubSeq(s, i + 1, Len(s))) = Len(s) - i
           /\ \A k \in 1..Len(s) - i : SubSeq(s, i + 1, Len(s))[k] = s[i + k]
<1> DEFINE n == Len(s)
           b == SubSeq(s, i + 1, n)
<1>1. n \in Nat /\ \A k \in i + 1..n : s[k] \in S
  BY LenProperties, ElementOfSeq
<1> HIDE DEF n
<1>2. i \in 0..n /\ i \in Nat
  BY DEF n
<1>3. /\ b \in Seq(S) /\ Len(b) = IF i + 1 <= n THEN n - (i + 1) + 1 ELSE 0
      /\ \A k \in 1..n - (i + 1) + 1 : b[k] = s[i + 1 + k - 1]
  BY <1>1, <1>2, SubSeqProperties
<1> HIDE DEF b
<1>4. n - (i + 1) + 1 = n - i /\ (i + 1 <= n \/ n - i = 0)
  BY <1>1, <1>2
<1>5. \A k \in 1..n - i : i + 1 + k - 1 = i + k
  BY <1>1, <1>2
<1>6. Len(b) = n - i
  BY <1>3, <1>4
<1>7. QED
  BY <1>3, <1>4, <1>5, <1>6 DEF b, n

LEMMA TailIsSeq ==
    ASSUME NEW S, NEW s \in Seq(S), s # << >>
    PROVE  Tail(s) \in Seq(S) /\ Len(Tail(s)) = Len(s) - 1 /\ Len(s) >= 1
BY LenProperties, HeadTailProperties, EmptySeq

LEMMA ReverseIsSeq ==
    ASSUME NEW S, NEW s \in Seq(S)
    PROVE  Reverse(s) \in Seq(S) /\ Len(Reverse(s)) = Len(s)
<1>1. Len(s) \in Nat /\ \A i \in 1..Len(s) : s[Len(s) - i + 1] \in S
  BY LenProperties, ElementOfSeq
<1>2. Reverse(s) \in [1..Len(s) -> S]
  BY <1>1 DEF Reverse
<1>3. QED
  BY <1>1, <1>2

LEMMA GreatestNumber ==
    ASSUME NEW n \in Nat, NEW I \in SUBSET (0..n), I # {}
    PROVE  Max(I) \in I /\ \A i \in I : i <= Max(I)
<1> DEFINE D == {k \in 0..n : n - k \in I}
<1>1. PICK i \in I : TRUE
  OBVIOUS
<1>2. n - i \in D
  BY <1>1
<1>3. D \in SUBSET Nat /\ D # {}
  BY <1>2
<1>4. PICK m \in D : \A k \in D : m <= k
  <2> HIDE DEF D
  <2>1. QED
    BY <1>3, LeastNumber
<1>5. n - m \in I /\ \A k \in I : k <= n - m
  <2>1. m \in 0..n /\ n - m \in I
    BY <1>4
  <2>2. ASSUME NEW k \in I PROVE k <= n - m
    <3>1. k \in 0..n /\ n - k \in 0..n /\ n - (n - k) = k
      OBVIOUS
    <3>2. n - k \in D
      BY <3>1
    <3>3. m <= n - k
      BY <1>4, <3>2
    <3>4. QED
      BY <2>1, <3>1, <3>3
  <2>3. QED
    BY <2>1, <2>2
<1>6. \E x \in I : \A k \in I : x >= k
  <2> DEFINE x == n - m
  <2>1. x \in I /\ \A k \in I : x \in 0..n /\ k \in 0..n /\ k <= x
    BY <1>5
  <2> HIDE DEF x
  <2>2. QED
    BY <2>1
<1>7. Max(I) \in I /\ \A k \in I : Max(I) >= k
  BY <1>6 DEF Max
<1> DEFINE x == Max(I)
<1>8. x \in I /\ \A k \in I : x >= k
  BY <1>7
<1> HIDE DEF x
<1>9. \A k \in I : k <= x
  <2>1. TAKE k \in I
  <2>2. x \in 0..n /\ k \in 0..n /\ x >= k
    BY <1>8
  <2>3. QED
    BY <2>2
<1>10. QED
  BY <1>8, <1>9 DEF x

StepByStep(f, n, a, g) == f[0] = a /\ \A k \in 1..n : f[k] = g[<<f[k - 1], k>>]

LEMMA FoldRuns ==
    ASSUME NEW a, NEW g, NEW n \in Nat
    PROVE  \E f : Folded(f, n, a, g) /\ StepByStep(f, n, a, g)
<1>1. PICK f : Folded(f, n, a, g)
  BY FoldExists
<1>2. \A k \in 0..n : f[k] = IF k = 0 THEN a ELSE g[<<f[k - 1], k>>]
  BY <1>1 DEF Folded
<1>3. 0 \in 0..n /\ \A k \in 1..n : k \in 0..n /\ k # 0
  OBVIOUS
<1>4. f[0] = a /\ \A k \in 1..n : f[k] = g[<<f[k - 1], k>>]
  BY <1>2, <1>3
<1>5. QED
  BY <1>1, <1>4 DEF StepByStep

-----------------------------------------------------------------------------
(* The list of macros.                                                     *)

\* The place of the match, and of the macro compared before it.
Match(ms, sup, name) == Min(FoundAt(ms, sup, name))
Before(ms, sup, name) ==
    Max({0} \cup {j \in 1..Match(ms, sup, name) - 1 : ~Hidden(ms[j], sup)})

LEMMA MatchInside ==
    ASSUME NEW S, NEW ms \in Seq(S), NEW sup, NEW name, FoundAt(ms, sup, name) # {}
    PROVE  /\ Match(ms, sup, name) \in 1..Len(ms)
           /\ Match(ms, sup, name) \in FoundAt(ms, sup, name)
           /\ Before(ms, sup, name) \in 0..Match(ms, sup, name) - 1
<1> DEFINE i == Match(ms, sup, name)
           I == {0} \cup {j \in 1..i - 1 : ~Hidden(ms[j], sup)}
<1>1. Len(ms) \in Nat /\ DOMAIN ms = 1..Len(ms)
  BY LenProperties
<1>2. FoundAt(ms, sup, name) \in SUBSET Nat /\ FoundAt(ms, sup, name) \subseteq DOMAIN ms
  BY <1>1 DEF FoundAt
<1>3. i \in FoundAt(ms, sup, name)
  BY <1>2, LeastNumber DEF Match
<1>4. i \in 1..Len(ms)
  BY <1>1, <1>2, <1>3
<1> HIDE DEF i
<1>5. I \in SUBSET (0..i - 1) /\ I # {} /\ i - 1 \in Nat
  BY <1>1, <1>4
<1>6. Max(I) \in 0..i - 1
  <2> HIDE DEF I
  <2>1. QED
    BY <1>5, GreatestNumber
<1>7. QED
  BY <1>3, <1>4, <1>6 DEF i, Before

LEMMA TakenOffTyped ==
    ASSUME NEW S, NEW ms \in Seq(S), NEW sup, NEW name
    PROVE  TakenOff(ms, sup, name) \in Seq(S)
<1> DEFINE i == Match(ms, sup, name)
           prev == Before(ms, sup, name)
<1>1. CASE FoundAt(ms, sup, name) = {}
  BY <1>1 DEF TakenOff
<1>2. CASE FoundAt(ms, sup, name) # {}
  <2>1. Len(ms) \in Nat
    BY LenProperties
  <2>2. i \in 1..Len(ms) /\ prev \in 0..i - 1
    BY <1>2, MatchInside
  <2>3. TakenOff(ms, sup, name) = SubSeq(ms, 1, prev) \o SubSeq(ms, i + 1, Len(ms))
    BY <1>2, Zenon DEF TakenOff, Match, Before
  <2> HIDE DEF i, prev
  <2>4. SubSeq(ms, 1, prev) \in Seq(S) /\ SubSeq(ms, i + 1, Len(ms)) \in Seq(S)
    BY <2>1, <2>2, PartIsSeq
  <2>5. QED
    BY <2>3, <2>4, ConcatProperties
<1>3. QED
  BY <1>1, <1>2

LEMMA GetmacFinds ==
    ASSUME NEW S, NEW ms \in Seq(S), NEW sup, NEW name,
           eppic_getmac(ms, sup, name) # NoMac
    PROVE  \E i \in DOMAIN ms : /\ eppic_getmac(ms, sup, name) = ms[i]
                                /\ ms[i] \in S /\ ms[i].name = name /\ ~Hidden(ms[i], sup)
<1>1. FoundAt(ms, sup, name) # {}
  BY DEF eppic_getmac
<1>2. Match(ms, sup, name) \in FoundAt(ms, sup, name)
  BY <1>1, MatchInside
<1>3. eppic_getmac(ms, sup, name) = ms[Match(ms, sup, name)]
  BY <1>1 DEF eppic_getmac, Match
<1> DEFINE i == Match(ms, sup, name)
<1>4. i \in DOMAIN ms /\ ms[i].name = name /\ ~Hidden(ms[i], sup)
  BY <1>2 DEF FoundAt
<1>5. ms[i] \in S
  BY <1>4, ElementOfSeq, LenProperties
<1>6. QED
  BY <1>3, <1>4, <1>5

\* Behind what is taken off, the list stays as it is.
LEMMA TakenFromFront ==
    ASSUME NEW S, NEW new \in Seq(S), NEW old \in Seq(S), NEW sup, NEW name,
           \A i \in DOMAIN old : old[i].name # name
    PROVE  TakenOff(new \o old, sup, name) = TakenOff(new, sup, name) \o old
<1> DEFINE ms == new \o old
           i == Match(new, sup, name)
           prev == Before(new, sup, name)
<1>1. /\ Len(new) \in Nat /\ DOMAIN new = 1..Len(new)
      /\ Len(old) \in Nat /\ DOMAIN old = 1..Len(old)
  BY LenProperties
<1>2. /\ ms \in Seq(S) /\ Len(ms) = Len(new) + Len(old) /\ DOMAIN ms = 1..Len(ms)
      /\ \A k \in 1..Len(new) : ms[k] = new[k]
      /\ \A k \in 1..Len(old) : ms[Len(new) + k] = old[k]
  <2>1. ms \in Seq(S) /\ Len(ms) = Len(new) + Len(old)
    BY ConcatProperties
  <2>2. \A k \in 1..Len(new) + Len(old) :
          ms[k] = IF k <= Len(new) THEN new[k] ELSE old[k - Len(new)]
    BY ConcatProperties
  <2>3. DOMAIN ms = 1..Len(ms)
    BY <2>1, LenProperties
  <2>4. \A k \in 1..Len(new) : ms[k] = new[k]
    BY <1>1, <2>2
  <2>5. \A k \in 1..Len(old) : ms[Len(new) + k] = old[k]
    <3>1. TAKE k \in 1..Len(old)
    <3>2. /\ Len(new) + k \in 1..Len(new) + Len(old) /\ ~ (Len(new) + k <= Len(new))
          /\ (Len(new) + k) - Len(new) = k
      BY <1>1
    <3>3. QED
      BY <2>2, <3>2
  <2>6. QED
    BY <2>1, <2>3, <2>4, <2>5
<1> HIDE DEF ms
<1>3. FoundAt(ms, sup, name) = FoundAt(new, sup, name)
  <2>1. ASSUME NEW k \in DOMAIN ms, ms[k].name = name PROVE k \in DOMAIN new
    <3>1. SUFFICES ASSUME k \notin DOMAIN new PROVE FALSE
      OBVIOUS
    <3>2. k - Len(new) \in 1..Len(old) /\ Len(new) + (k - Len(new)) = k
      BY <1>1, <1>2, <3>1
    <3>3. ms[k] = old[k - Len(new)]
      BY <1>2, <3>2
    <3>4. QED
      BY <1>1, <2>1, <3>2, <3>3
  <2>2. DOMAIN new \subseteq DOMAIN ms /\ \A k \in DOMAIN new : ms[k] = new[k]
    BY <1>1, <1>2
  <2>3. QED
    BY <2>1, <2>2 DEF FoundAt
<1>4. CASE FoundAt(new, sup, name) = {}
  BY <1>3, <1>4 DEF TakenOff, ms
<1>5. CASE FoundAt(new, sup, name) # {}
  <2>1. i \in 1..Len(new) /\ prev \in 0..i - 1
    BY <1>5, MatchInside
  <2>2. Match(ms, sup, name) = i
    BY <1>3 DEF Match
  <2> HIDE DEF i
  <2>3. {j \in 1..i - 1 : ~Hidden(ms[j], sup)} = {j \in 1..i - 1 : ~Hidden(new[j], sup)}
    <3>1. \A j \in 1..i - 1 : ms[j] = new[j]
      BY <1>1, <1>2, <2>1
    <3>2. QED
      BY <3>1
  <2>4. Before(ms, sup, name) = prev
    BY <2>2, <2>3 DEF Before, i
  <2>5. TakenOff(new, sup, name) = SubSeq(new, 1, prev) \o SubSeq(new, i + 1, Len(new))
    BY <1>5, Zenon DEF TakenOff, Match, Before, i
  <2>6. TakenOff(ms, sup, name) =
          SubSeq(ms, 1, Before(ms, sup, name)) \o SubSeq(ms, Match(ms, sup, name) + 1, Len(ms))
    BY <1>3, <1>5, Zenon DEF TakenOff, Match, Before
  <2> HIDE DEF prev
  <2> DEFINE a == SubSeq(new, 1, prev)
             b == SubSeq(new, i + 1, Len(new))
             c == SubSeq(ms, i + 1, Len(ms))
  <2>7. a \in Seq(S) /\ b \in Seq(S) /\ c \in Seq(S)
    BY <1>1, <1>2, <2>1, PartIsSeq
  <2>8. SubSeq(ms, 1, prev) = a
    <3>1. /\ Len(a) = prev /\ \A k \in 1..prev : a[k] = new[1 + k - 1]
      BY <1>1, <2>1, ElementOfSeq, SubSeqProperties
    <3>2. /\ SubSeq(ms, 1, prev) \in Seq(S) /\ Len(SubSeq(ms, 1, prev)) = prev
          /\ \A k \in 1..prev : SubSeq(ms, 1, prev)[k] = ms[1 + k - 1]
      BY <1>1, <1>2, <2>1, ElementOfSeq, SubSeqProperties
    <3>3. \A k \in 1..prev : 1 + k - 1 = k /\ new[k] = ms[k]
      BY <1>1, <1>2, <2>1
    <3> HIDE DEF a
    <3>4. QED
      BY <2>7, <3>1, <3>2, <3>3, SeqEqual
  <2>9. c = b \o old
    <3>1. /\ Len(b) = Len(new) - i
          /\ \A k \in 1..Len(new) - i : b[k] = new[i + k]
      <4>1. i \in 0..Len(new)
        BY <1>1, <2>1
      <4>2. QED
        BY <4>1, BehindIsSeq
    <3>2. /\ Len(c) = Len(ms) - i
          /\ \A k \in 1..Len(ms) - i : c[k] = ms[i + k]
      <4>1. i \in 0..Len(ms)
        BY <1>1, <1>2, <2>1
      <4>2. QED
        BY <1>2, <4>1, BehindIsSeq
    <3> HIDE DEF b, c
    <3>3. /\ b \o old \in Seq(S) /\ Len(b \o old) = Len(ms) - i
      <4>1. b \o old \in Seq(S) /\ Len(b \o old) = Len(b) + Len(old)
        BY <2>7, ConcatProperties
      <4>2. (Len(new) - i) + Len(old) = Len(ms) - i
        BY <1>1, <1>2, <2>1
      <4>3. QED
        BY <3>1, <4>1, <4>2
    <3>4. \A k \in 1..Len(b) + Len(old) :
            (b \o old)[k] = IF k <= Len(b) THEN b[k] ELSE old[k - Len(b)]
      BY <2>7, ConcatProperties
    <3>5. ASSUME NEW k \in 1..Len(ms) - i PROVE c[k] = (b \o old)[k]
      <4>1. c[k] = ms[i + k] /\ k \in 1..Len(b) + Len(old)
        BY <1>1, <1>2, <2>1, <3>1, <3>2
      <4>2. CASE k <= Len(b)
        <5>1. i + k \in 1..Len(new) /\ k \in 1..Len(new) - i
          BY <1>1, <2>1, <3>1, <4>2
        <5>2. QED
          BY <1>2, <3>1, <3>4, <4>1, <4>2, <5>1
      <4>3. CASE ~ (k <= Len(b))
        <5>1. k - Len(b) \in 1..Len(old) /\ Len(new) + (k - Len(b)) = i + k
          BY <1>1, <1>2, <2>1, <3>1, <4>3
        <5>2. ms[i + k] = old[k - Len(b)]
          BY <1>2, <5>1
        <5>3. QED
          BY <3>4, <4>1, <4>3, <5>2
      <4>4. QED
        BY <4>2, <4>3
    <3>6. QED
      BY <2>7, <3>2, <3>3, <3>5, SeqEqual
  <2>10. TakenOff(ms, sup, name) = a \o c
    BY <2>2, <2>4, <2>6, <2>8
  <2> HIDE DEF a, b, c
  <2>11. (a \o b) \o old = a \o (b \o old)
    <3>1. a \in Seq(S) /\ b \in Seq(S) /\ old \in Seq(S)
      BY <2>7
    <3>2. QED
      BY ONLY <3>1, ConcatAssociative
  <2>12. TakenOff(new, sup, name) = a \o b
    BY <2>5 DEF a, b
  <2>13. QED
    BY <2>9, <2>10, <2>11, <2>12 DEF ms
<1>6. QED
  BY <1>4, <1>5

-----------------------------------------------------------------------------
(* What is known of the macros and the buffers.  In the texts over N, every   *)
(* name that is defined, undefined or bound is in N.                        *)

Over(N) == {item \in Items : Touched(item) \subseteq N}

\* The macros of such texts, with identities up to n.
Known(N, n) ==
    {x \in MacsOf(Over(N)) :
        /\ x.id \in 1..n /\ x.m \in 1..n /\ Range(x.ps) \subseteq N
        /\ x.issub => ~x.fn
        /\ ~x.issub => x.m = x.id}

Bufs(N, n) ==
    {b \in [done : {"file", "popmac", "popsub", "expr"}, mac : Known(N, n) \cup {NoMac},
            rest : Seq(Over(N))] :
        b.done \in {"popmac", "popsub"} => b.mac # NoMac}

\* What a buffer's donefunc works on; L are the lists that the macros may be.
States(L, n) == [macs : L, sup : SUBSET (1..n), ok : BOOLEAN]
Closed(L, N, n) ==
    /\ L \subseteq Seq(Known(N, n))
    /\ \A ms \in L, sup \in SUBSET (1..n), p \in N : TakenOff(ms, sup, p) \in L

LEMMA PopmacStays ==
    ASSUME NEW N, NEW n \in Nat, NEW L, Closed(L, N, n),
           NEW s \in States(L, n), NEW m \in Known(N, n)
    PROVE  eppic_popmac(s, m) \in States(L, n) /\ eppic_popmac(s, m).sup = s.sup
<1> DEFINE S == {t \in States(L, n) : t.sup = s.sup}
           c == Len(m.ps)
           g == [q \in S \X (1..c) |-> SubOff(q[1], m.ps[q[2]])]
           after == CHOOSE after : after = [k \in 0..c |->
                        IF k = 0 THEN s ELSE SubOff(after[k - 1], m.ps[k])]
<1>1. m.ps \in Seq(Names) /\ c \in Nat /\ \A k \in 1..c : m.ps[k] \in N
  <2>1. m.ps \in Seq(Names) /\ Range(m.ps) \subseteq N
    BY DEF Known, MacsOf
  <2>2. c \in Nat /\ DOMAIN m.ps = 1..c
    BY <2>1, LenProperties
  <2>3. QED
    BY <2>1, <2>2 DEF Range
<1>2. ASSUME NEW t \in S, NEW k \in 1..c PROVE SubOff(t, m.ps[k]) \in S
  <2>1. TakenOff(t.macs, t.sup, m.ps[k]) \in L
    BY <1>1 DEF Closed, States
  <2>2. /\ SubOff(t, m.ps[k]).macs = TakenOff(t.macs, t.sup, m.ps[k])
        /\ SubOff(t, m.ps[k]).sup = t.sup
        /\ SubOff(t, m.ps[k]) = [t EXCEPT !.macs = TakenOff(t.macs, t.sup, m.ps[k]),
                                          !.ok = t.ok /\ FoundAt(t.macs, t.sup, m.ps[k]) # {}]
    BY DEF SubOff, States
  <2>3. (t.ok /\ FoundAt(t.macs, t.sup, m.ps[k]) # {}) \in BOOLEAN
    BY DEF States
  <2>4. QED
    BY <2>1, <2>2, <2>3 DEF States
<1>3. \E f : f = [k \in 0..c |-> IF k = 0 THEN s ELSE SubOff(f[k - 1], m.ps[k])]
  <2>1. PICK f : Folded(f, c, s, g) /\ StepByStep(f, c, s, g)
    <3>1. c \in Nat
      BY <1>1
    <3> HIDE DEF c, g
    <3>2. QED
      BY <3>1, FoldRuns
  <2>2. f[0] = s /\ \A k \in 1..c : f[k] = g[<<f[k - 1], k>>]
    BY <2>1 DEF StepByStep
  <2>3. \A k \in 1..c : f[k - 1] \in S => f[k] = SubOff(f[k - 1], m.ps[k]) /\ f[k] \in S
    BY <1>2, <2>2
  <2>4. s \in S
    OBVIOUS
  <2> HIDE DEF S, g
  <2>5. \A k \in 0..c : f[k] \in S
    BY <1>1, <2>2, <2>3, <2>4, StaysIn
  <2>6. \A k \in 0..c : k # 0 => k \in 1..c /\ k - 1 \in 0..c
    BY <1>1
  <2>7. \A k \in 0..c : k # 0 => g[<<f[k - 1], k>>] = SubOff(f[k - 1], m.ps[k])
    BY <2>2, <2>3, <2>5, <2>6
  <2>8. f = [k \in 0..c |-> IF k = 0 THEN s ELSE g[<<f[k - 1], k>>]]
    BY <2>1 DEF Folded
  <2>9. f = [k \in 0..c |-> IF k = 0 THEN s ELSE SubOff(f[k - 1], m.ps[k])]
    BY <2>7, <2>8
  <2>10. QED
    BY <2>9
<1>4. after = [k \in 0..c |-> IF k = 0 THEN s ELSE SubOff(after[k - 1], m.ps[k])]
  BY <1>3, Zenon
<1>5. eppic_popmac(s, m) = after[c]
  BY DEF eppic_popmac, Through
<1> HIDE DEF after
<1>6. after[0] = s /\ \A k \in 1..c : after[k] = SubOff(after[k - 1], m.ps[k])
  BY <1>1, <1>4
<1>7. \A k \in 1..c : after[k - 1] \in S => after[k] \in S
  BY <1>2, <1>6
<1>8. s \in S
  OBVIOUS
<1> HIDE DEF S, c
<1>9. \A k \in 0..c : after[k] \in S
  BY <1>1, <1>6, <1>7, <1>8, StaysIn
<1>10. c \in 0..c
  BY <1>1
<1>11. QED
  BY <1>5, <1>9, <1>10 DEF S

LEMMA PoppedStays ==
    ASSUME NEW N, NEW n \in Nat, NEW L, Closed(L, N, n),
           NEW s \in States(L, n), NEW b \in Bufs(N, n)
    PROVE  /\ Popped(s, b) \in States(L, n)
           /\ Popped(s, b).sup = IF b.done = "popsub" THEN s.sup \ {b.mac.m} ELSE s.sup
<1>1. b.done \in {"popmac", "popsub"} => b.mac \in Known(N, n)
  BY DEF Bufs
<1>2. CASE b.done = "popmac"
  BY <1>1, <1>2, PopmacStays DEF Popped
<1>3. CASE b.done = "popsub"
  <2>1. Popped(s, b) = [s EXCEPT !.sup = s.sup \ {b.mac.m}]
    BY <1>3 DEF Popped, eppic_popsub
  <2>2. QED
    BY <1>3, <2>1 DEF States
<1>4. CASE b.done \notin {"popmac", "popsub"}
  BY <1>4 DEF Popped
<1>5. QED
  BY <1>2, <1>3, <1>4

LEMMA AllPoppedStays ==
    ASSUME NEW N, NEW n \in Nat, NEW L, Closed(L, N, n),
           NEW s \in States(L, n), NEW bufs \in Seq(Bufs(N, n))
    PROVE  Through(Popped, s, bufs) \in States(L, n)
<1> DEFINE S == States(L, n)
           c == Len(bufs)
           g == [q \in S \X (1..c) |-> Popped(q[1], bufs[q[2]])]
           after == CHOOSE after : after = [k \in 0..c |->
                        IF k = 0 THEN s ELSE Popped(after[k - 1], bufs[k])]
<1>1. c \in Nat /\ \A k \in 1..c : bufs[k] \in Bufs(N, n)
  BY LenProperties, ElementOfSeq
<1>2. ASSUME NEW t \in S, NEW k \in 1..c PROVE Popped(t, bufs[k]) \in S
  BY <1>1, PoppedStays
<1>3. \E f : f = [k \in 0..c |-> IF k = 0 THEN s ELSE Popped(f[k - 1], bufs[k])]
  <2>1. PICK f : Folded(f, c, s, g) /\ StepByStep(f, c, s, g)
    <3>1. c \in Nat
      BY <1>1
    <3> HIDE DEF c, g
    <3>2. QED
      BY <3>1, FoldRuns
  <2>2. f[0] = s /\ \A k \in 1..c : f[k] = g[<<f[k - 1], k>>]
    BY <2>1 DEF StepByStep
  <2>3. \A k \in 1..c : f[k - 1] \in S => f[k] = Popped(f[k - 1], bufs[k]) /\ f[k] \in S
    <3> HIDE DEF S
    <3>1. QED
      BY <1>2, <2>2
  <2>4. s \in S
    OBVIOUS
  <2> HIDE DEF S, g
  <2>5. \A k \in 0..c : f[k] \in S
    BY <1>1, <2>2, <2>3, <2>4, StaysIn
  <2>6. \A k \in 0..c : k # 0 => k \in 1..c /\ k - 1 \in 0..c
    BY <1>1
  <2>7. \A k \in 0..c : k # 0 => g[<<f[k - 1], k>>] = Popped(f[k - 1], bufs[k])
    BY <2>2, <2>3, <2>5, <2>6
  <2>8. f = [k \in 0..c |-> IF k = 0 THEN s ELSE g[<<f[k - 1], k>>]]
    BY <2>1 DEF Folded
  <2>9. f = [k \in 0..c |-> IF k = 0 THEN s ELSE Popped(f[k - 1], bufs[k])]
    BY <2>7, <2>8
  <2>10. QED
    BY <2>9
<1>4. after = [k \in 0..c |-> IF k = 0 THEN s ELSE Popped(after[k - 1], bufs[k])]
  BY <1>3, Zenon
<1>5. Through(Popped, s, bufs) = after[c]
  BY DEF Through
<1> HIDE DEF after
<1>6. after[0] = s /\ \A k \in 1..c : after[k] = Popped(after[k - 1], bufs[k])
  BY <1>1, <1>4
<1>7. \A k \in 1..c : after[k - 1] \in S => after[k] \in S
  BY <1>2, <1>6
<1>8. s \in S
  OBVIOUS
<1> HIDE DEF S, c
<1>9. \A k \in 0..c : after[k] \in S
  BY <1>1, <1>6, <1>7, <1>8, StaysIn
<1>10. c \in 0..c
  BY <1>1
<1>11. QED
  BY <1>5, <1>9, <1>10 DEF S

\* The macros that texts over N add to the host's defines, and the lists they make:
\* if N has no name of those, they stay at the end of the list.
Added(N, n) == {x \in Known(N, n) : x.name \in N /\ x.id > Len(Api)}
Apart(N) == N \cap HostNames = {}
Lists(N, n) ==
    IF Apart(N) THEN {new \o ApiMacs : new \in Seq(Added(N, n))} ELSE Seq(Known(N, n))

LEMMA MacKnown ==
    ASSUME NEW N, NEW n \in Nat, NEW id \in 1..n, NEW name \in Names, NEW fn \in BOOLEAN,
           NEW ps \in Seq(Names), Range(ps) \subseteq N, NEW items \in Seq(Over(N))
    PROVE  Mac(id, name, fn, ps, items) \in Known(N, n)
<1> DEFINE x == Mac(id, name, fn, ps, items)
<1>1. x \in MacsOf(Over(N))
  BY DEF MacsOf, Mac
<1>2. x.id = id /\ x.m = id /\ x.ps = ps /\ x.issub = FALSE
  BY DEF Mac
<1> HIDE DEF x
<1>3. QED
  BY <1>1, <1>2 DEF Known, x

LEMMA NoParams ==
    ASSUME NEW N
    PROVE  << >> \in Seq(Names) /\ Range(<< >>) \subseteq N
<1>1. DOMAIN << >> = {}
  OBVIOUS
<1>2. QED
  BY <1>1, EmptySeq DEF Range

LEMMA PlainIsOver ==
    ASSUME NEW N
    PROVE  Plain \subseteq Over(N) /\ Seq(Plain) \subseteq Seq(Over(N))
<1>1. Plain \subseteq Over(N)
  BY DEF Plain, Over, Items, Touched
<1>2. QED
  BY <1>1, SeqMonotonic

LEMMA ApiKnown ==
    ASSUME NEW N, NEW n \in Nat, Len(Api) <= n
    PROVE  /\ ApiMacs \in Seq(Known(N, n)) /\ Len(Api) \in Nat /\ Len(ApiMacs) = Len(Api)
           /\ DOMAIN ApiMacs = DOMAIN Api /\ DOMAIN Api = 1..Len(Api)
           /\ \A i \in DOMAIN Api : /\ ApiMacs[i].id = i /\ ~ApiMacs[i].fn
                                    /\ ApiMacs[i].name \in HostNames
<1> DEFINE A == [name : Names, text : Seq(Plain)]
<1>1. Api \in Seq(A)
  BY MacroAssumption
<1>2. Len(Api) \in Nat /\ DOMAIN Api = 1..Len(Api) /\ \A i \in 1..Len(Api) : Api[i] \in A
  <2> HIDE DEF A
  <2>1. QED
    BY <1>1, LenProperties, ElementOfSeq
<1>3. \A i \in 1..Len(Api) : Api[i].name \in Names /\ Api[i].text \in Seq(Over(N))
  BY <1>2, PlainIsOver
<1>4. \A i \in 1..Len(Api) : ApiMacs[i] = Mac(i, Api[i].name, FALSE, << >>, Api[i].text)
  BY <1>2 DEF ApiMacs
<1>5. ASSUME NEW i \in 1..Len(Api)
      PROVE  /\ ApiMacs[i] \in Known(N, n) /\ ApiMacs[i].id = i /\ ApiMacs[i].fn = FALSE
             /\ ApiMacs[i].name = Api[i].name
  <2> DEFINE x == Mac(i, Api[i].name, FALSE, << >>, Api[i].text)
  <2>1. i \in 1..n
    BY <1>2
  <2>2. x \in Known(N, n)
    BY <1>3, <2>1, NoParams, MacKnown
  <2>3. x.id = i /\ x.name = Api[i].name /\ x.fn = FALSE
    BY DEF Mac
  <2>4. ApiMacs[i] = x
    BY <1>4
  <2> HIDE DEF x
  <2>5. QED
    BY <2>2, <2>3, <2>4
<1>6. DOMAIN ApiMacs = 1..Len(Api) /\ ApiMacs \in [1..Len(Api) -> Known(N, n)]
  <2>1. ApiMacs = [i \in DOMAIN Api |-> ApiMacs[i]]
    BY DEF ApiMacs
  <2>2. QED
    BY <1>2, <1>5, <2>1
<1>7. ApiMacs \in Seq(Known(N, n)) /\ Len(ApiMacs) = Len(Api)
  BY <1>2, <1>6
<1>8. \A i \in DOMAIN Api : /\ ApiMacs[i].id = i /\ ~ApiMacs[i].fn
                            /\ ApiMacs[i].name \in HostNames
  BY <1>2, <1>5 DEF HostNames
<1>9. QED
  BY <1>2, <1>6, <1>7, <1>8

LEMMA KnownGrows ==
    ASSUME NEW N, NEW n \in Nat, NEW m \in Nat, n <= m
    PROVE  /\ Known(N, n) \subseteq Known(N, m) /\ Added(N, n) \subseteq Added(N, m)
           /\ Bufs(N, n) \subseteq Bufs(N, m)
<1>1. \A i \in 1..n : i \in 1..m
  OBVIOUS
<1>2. Known(N, n) \subseteq Known(N, m)
  BY <1>1 DEF Known
<1>3. Added(N, n) \subseteq Added(N, m)
  BY <1>2 DEF Added
<1>4. Bufs(N, n) \subseteq Bufs(N, m)
  BY <1>2 DEF Bufs
<1>5. QED
  BY <1>2, <1>3, <1>4

LEMMA ListsKnown ==
    ASSUME NEW N, NEW n \in Nat, Len(Api) <= n
    PROVE  Lists(N, n) \subseteq Seq(Known(N, n)) /\ ApiMacs \in Lists(N, n)
<1>1. ApiMacs \in Seq(Known(N, n))
  BY ApiKnown
<1>2. Added(N, n) \subseteq Known(N, n)
  BY DEF Added
<1>3. \A new \in Seq(Added(N, n)) : new \o ApiMacs \in Seq(Known(N, n))
  <2>1. TAKE new \in Seq(Added(N, n))
  <2>2. new \in Seq(Known(N, n))
    BY <1>2, SeqMonotonic
  <2>3. QED
    BY <1>1, <2>2, ConcatProperties
<1>4. << >> \o ApiMacs = ApiMacs /\ << >> \in Seq(Added(N, n))
  BY <1>1, ConcatEmptySeq, EmptySeq
<1>5. CASE Apart(N)
  <2>1. Lists(N, n) = {new \o ApiMacs : new \in Seq(Added(N, n))}
    BY <1>5 DEF Lists
  <2>2. QED
    BY <1>3, <1>4, <2>1
<1>6. CASE ~Apart(N)
  BY <1>1, <1>6 DEF Lists
<1>7. QED
  BY <1>5, <1>6

LEMMA ListsGrow ==
    ASSUME NEW N, NEW n \in Nat, NEW m \in Nat, n <= m
    PROVE  Lists(N, n) \subseteq Lists(N, m)
<1>1. Known(N, n) \subseteq Known(N, m) /\ Added(N, n) \subseteq Added(N, m)
  BY KnownGrows
<1>2. Seq(Known(N, n)) \subseteq Seq(Known(N, m)) /\ Seq(Added(N, n)) \subseteq Seq(Added(N, m))
  BY <1>1, SeqMonotonic
<1>3. QED
  BY <1>2 DEF Lists

LEMMA ListsClosed ==
    ASSUME NEW N, NEW n \in Nat, Len(Api) <= n
    PROVE  Closed(Lists(N, n), N, n)
<1>1. Lists(N, n) \subseteq Seq(Known(N, n))
  BY ListsKnown
<1>2. ASSUME NEW ms \in Lists(N, n), NEW sup \in SUBSET (1..n), NEW p \in N
      PROVE  TakenOff(ms, sup, p) \in Lists(N, n)
  <2>1. CASE ~Apart(N)
    BY <1>2, <2>1, TakenOffTyped DEF Lists
  <2>2. CASE Apart(N)
    <3>1. PICK new \in Seq(Added(N, n)) : ms = new \o ApiMacs
      BY <2>2 DEF Lists
    <3>2. new \in Seq(Known(N, n)) /\ ApiMacs \in Seq(Known(N, n))
      <4>1. Added(N, n) \subseteq Known(N, n)
        BY DEF Added
      <4>2. QED
        BY <3>1, <4>1, ApiKnown, SeqMonotonic
    <3>3. \A i \in DOMAIN ApiMacs : ApiMacs[i].name # p
      BY <2>2, ApiKnown DEF Apart
    <3>4. TakenOff(ms, sup, p) = TakenOff(new, sup, p) \o ApiMacs
      BY <3>1, <3>2, <3>3, TakenFromFront
    <3>5. TakenOff(new, sup, p) \in Seq(Added(N, n))
      BY <3>1, TakenOffTyped
    <3>6. QED
      BY <2>2, <3>4, <3>5 DEF Lists
  <2>3. QED
    BY <2>1, <2>2
<1>3. QED
  BY <1>1, <1>2 DEF Closed

LEMMA ListsOpen ==
    ASSUME NEW N, NEW n \in Nat, Len(Api) <= n,
           NEW ms \in Lists(N, n), NEW front \in Seq(Added(N, n))
    PROVE  front \o ms \in Lists(N, n)
<1>1. Added(N, n) \subseteq Known(N, n)
  BY DEF Added
<1>2. front \in Seq(Known(N, n))
  BY <1>1, SeqMonotonic
<1>3. CASE ~Apart(N)
  <2>1. ms \in Seq(Known(N, n))
    BY <1>3 DEF Lists
  <2>2. QED
    BY <1>2, <1>3, <2>1, ConcatProperties DEF Lists
<1>4. CASE Apart(N)
  <2>1. PICK new \in Seq(Added(N, n)) : ms = new \o ApiMacs
    BY <1>4 DEF Lists
  <2>2. new \in Seq(Known(N, n)) /\ ApiMacs \in Seq(Known(N, n))
    BY <1>1, <2>1, ApiKnown, SeqMonotonic
  <2>3. front \o ms = (front \o new) \o ApiMacs
    <3> DEFINE K == Known(N, n)
               old == ApiMacs
    <3>1. front \in Seq(K) /\ new \in Seq(K) /\ old \in Seq(K)
      BY <1>2, <2>2
    <3> HIDE DEF K, old
    <3>2. front \o (new \o old) = (front \o new) \o old
      BY <3>1, ConcatAssociative
    <3>3. QED
      BY <2>1, <3>2 DEF old
  <2>4. front \o new \in Seq(Added(N, n))
    BY <2>1, ConcatProperties
  <2>5. QED
    BY <1>4, <2>3, <2>4 DEF Lists
<1>5. QED
  BY <1>3, <1>4

\* The text of an enumerator.
LEMMA OneIsOver ==
    ASSUME NEW N
    PROVE  <<[k |-> "name", n |-> "1"]>> \in Seq(Over(N))
<1> DEFINE e == [k |-> "name", n |-> "1"]
<1>1. "1" \in Names
  BY MacroAssumption
<1>2. e \in Plain
  BY <1>1 DEF Plain
<1>3. e \in Over(N)
  BY <1>2, PlainIsOver
<1> HIDE DEF e
<1>4. <<e>> \in Seq(Over(N))
  BY <1>3
<1>5. QED
  BY <1>4 DEF e

LEMMA NewmacStays ==
    ASSUME NEW N, NEW n \in Nat, Len(Api) <= n, NEW ms \in Lists(N, n),
           NEW sup \in SUBSET (1..n), NEW x \in Added(N, n)
    PROVE  eppic_newmac(ms, sup, x) \in Lists(N, n)
<1>1. x.name \in N
  BY DEF Added
<1>2. TakenOff(ms, sup, x.name) \in Lists(N, n)
  BY <1>1, ListsClosed DEF Closed
<1>3. <<x>> \in Seq(Added(N, n))
  OBVIOUS
<1>4. QED
  BY <1>2, <1>3, ListsOpen DEF eppic_newmac

\* What an enumerator becomes, and a set of lists that eppic_newmac does not leave
\* with any of them.
Enumerator(ns, id, i) == Mac(id + i, ns[i], FALSE, << >>, <<[k |-> "name", n |-> "1"]>>)

LEMMA EnumeratorsIn ==
    ASSUME NEW S, NEW sup, NEW id, NEW T, NEW ns \in Seq(T), NEW ms \in S,
           \A t \in S, k \in 1..Len(ns) : eppic_newmac(t, sup, Enumerator(ns, id, k)) \in S
    PROVE  Enumerators(ms, sup, ns, id) \in S
<1> DEFINE c == Len(ns)
           one(i) == Mac(id + i, ns[i], FALSE, << >>, <<[k |-> "name", n |-> "1"]>>)
           es == [i \in DOMAIN ns |-> i]
           g == [q \in S \X (1..c) |-> eppic_newmac(q[1], sup, one(es[q[2]]))]
           after == CHOOSE after : after = [k \in 0..c |->
                        IF k = 0 THEN ms ELSE eppic_newmac(after[k - 1], sup, one(es[k]))]
<1>1. c \in Nat /\ DOMAIN ns = 1..c
  BY LenProperties
<1>2. Len(es) = c /\ \A k \in 1..c : es[k] = k
  BY <1>1
<1>3. ASSUME NEW t \in S, NEW k \in 1..c PROVE eppic_newmac(t, sup, one(es[k])) \in S
  <2>1. one(k) = Enumerator(ns, id, k)
    BY DEF Enumerator
  <2>2. es[k] = k
    BY <1>2
  <2> HIDE DEF one, es
  <2>3. QED
    BY <2>1, <2>2
<1> HIDE DEF one, es
<1>4. \E f : f = [k \in 0..c |-> IF k = 0 THEN ms ELSE eppic_newmac(f[k - 1], sup, one(es[k]))]
  <2>1. PICK f : Folded(f, c, ms, g) /\ StepByStep(f, c, ms, g)
    <3>1. c \in Nat
      BY <1>1
    <3> HIDE DEF c, g
    <3>2. QED
      BY <3>1, FoldRuns
  <2>2. f[0] = ms /\ \A k \in 1..c : f[k] = g[<<f[k - 1], k>>]
    BY <2>1 DEF StepByStep
  <2>3. \A k \in 1..c : f[k - 1] \in S =>
            f[k] = eppic_newmac(f[k - 1], sup, one(es[k])) /\ f[k] \in S
    BY <1>3, <2>2
  <2> HIDE DEF g
  <2>4. \A k \in 0..c : f[k] \in S
    BY <1>1, <2>2, <2>3, StaysIn
  <2>5. \A k \in 0..c : k # 0 => k \in 1..c /\ k - 1 \in 0..c
    BY <1>1
  <2>6. \A k \in 0..c : k # 0 => g[<<f[k - 1], k>>] = eppic_newmac(f[k - 1], sup, one(es[k]))
    BY <2>2, <2>3, <2>4, <2>5
  <2>7. f = [k \in 0..c |-> IF k = 0 THEN ms ELSE g[<<f[k - 1], k>>]]
    BY <2>1 DEF Folded
  <2>8. f = [k \in 0..c |-> IF k = 0 THEN ms ELSE eppic_newmac(f[k - 1], sup, one(es[k]))]
    BY <2>6, <2>7
  <2>9. QED
    BY <2>8
<1>5. after = [k \in 0..c |->
            IF k = 0 THEN ms ELSE eppic_newmac(after[k - 1], sup, one(es[k]))]
  BY <1>4, Zenon
<1>6. Enumerators(ms, sup, ns, id) = after[c]
  BY <1>2, Zenon DEF Enumerators, Through, one, es
<1> HIDE DEF after
<1>7. after[0] = ms /\ \A k \in 1..c : after[k] = eppic_newmac(after[k - 1], sup, one(es[k]))
  BY <1>1, <1>5
<1>8. \A k \in 1..c : after[k - 1] \in S => after[k] \in S
  BY <1>3, <1>7
<1> HIDE DEF c
<1>9. \A k \in 0..c : after[k] \in S
  BY <1>1, <1>7, <1>8, StaysIn
<1>10. c \in 0..c
  BY <1>1
<1>11. QED
  BY <1>6, <1>9, <1>10

LEMMA EnumeratorsStay ==
    ASSUME NEW N \in SUBSET Names, NEW id \in Nat, Len(Api) <= id,
           NEW ns \in Seq(Names), Range(ns) \subseteq N,
           NEW sup \in SUBSET (1..id), NEW ms \in Lists(N, id)
    PROVE  Enumerators(ms, sup, ns, id) \in Lists(N, id + Len(ns))
<1> DEFINE c == Len(ns)
           S == Lists(N, id + c)
<1>1. /\ c \in Nat /\ id + c \in Nat /\ id <= id + c /\ Len(Api) <= id + c
      /\ DOMAIN ns = 1..c /\ Len(Api) \in Nat
  BY LenProperties, ApiKnown
<1>2. ms \in S
  BY <1>1, ListsGrow
<1>3. ASSUME NEW k \in 1..c PROVE Enumerator(ns, id, k) \in Added(N, id + c)
  <2> DEFINE one == Enumerator(ns, id, k)
  <2>1. ns[k] \in N /\ ns[k] \in Names /\ id + k \in 1..id + c
    BY <1>1 DEF Range
  <2>2. <<[k |-> "name", n |-> "1"]>> \in Seq(Over(N))
    BY OneIsOver
  <2>3. one \in Known(N, id + c)
    BY <1>1, <2>1, <2>2, NoParams, MacKnown DEF Enumerator
  <2>4. one.name = ns[k] /\ one.id = id + k
    BY DEF Mac, Enumerator
  <2> HIDE DEF one
  <2>5. one \in Added(N, id + c)
    BY <1>1, <2>1, <2>3, <2>4 DEF Added
  <2>6. QED
    BY <2>5 DEF one
<1>4. sup \in SUBSET (1..id + c)
  <2>1. \A i \in 1..id : i \in 1..id + c
    BY <1>1
  <2>2. QED
    BY <2>1
<1>5. \A t \in S, k \in 1..c : eppic_newmac(t, sup, Enumerator(ns, id, k)) \in S
  <2>1. SUFFICES ASSUME NEW t \in S, NEW k \in 1..c
                 PROVE  eppic_newmac(t, sup, Enumerator(ns, id, k)) \in S
    OBVIOUS
  <2> HIDE DEF c
  <2>2. QED
    BY <1>1, <1>3, <1>4, NewmacStays
<1> HIDE DEF S
<1>6. Enumerators(ms, sup, ns, id) \in S
  BY <1>2, <1>5, EnumeratorsIn
<1>7. QED
  BY <1>6 DEF S

-----------------------------------------------------------------------------
(* Arguments and conditional blocks are parts of the texts.                 *)

LEMMA ArgEndInside ==
    ASSUME NEW S, NEW r \in Seq(S), NEW m, Len(m.ps) \in Nat,
           Closings(r) # {}, ~MissingArgs(m, r), NEW i \in 1..Len(m.ps)
    PROVE  ArgEnd(m, r, i) \in 1..Len(r)
<1>1. Len(r) \in Nat /\ DOMAIN r = 1..Len(r)
  BY LenProperties
<1>2. Closings(r) \in SUBSET Nat /\ Closings(r) \subseteq 1..Len(r)
  BY <1>1 DEF Closings
<1>3. Min(Closings(r)) \in Closings(r)
  BY <1>2, LeastNumber
<1>4. CASE i = Len(m.ps)
  BY <1>2, <1>3, <1>4 DEF ArgEnd
<1>5. CASE i # Len(m.ps)
  <2> DEFINE end == Min(Closings(r) \cup {Len(r) + 1})
  <2>1. end \in 1..Len(r) + 1
    <3> DEFINE I == Closings(r) \cup {Len(r) + 1}
    <3>1. I \in SUBSET Nat /\ I # {} /\ I \subseteq 1..Len(r) + 1
      BY <1>1, <1>2
    <3> HIDE DEF I
    <3>2. Min(I) \in I
      BY <3>1, LeastNumber
    <3>3. QED
      BY <3>1, <3>2 DEF I
  <2> HIDE DEF end
  <2>2. Commas(r) = {j \in 1..end - 1 : Mark(r, j, ",") /\ Depth(r, j) = 0}
    BY DEF Commas, end
  <2>3. Commas(r) \subseteq 1..Len(r) /\ Commas(r) \in SUBSET Nat
    <3>1. \A j \in 1..end - 1 : j \in 1..Len(r) /\ j \in Nat
      BY <1>1, <2>1
    <3>2. Commas(r) \subseteq 1..end - 1
      BY <2>2
    <3> DEFINE I == 1..end - 1
    <3>3. Commas(r) \subseteq I /\ \A j \in I : j \in 1..Len(r) /\ j \in Nat
      BY <3>1, <3>2
    <3> HIDE DEF I
    <3>4. QED
      BY <3>3
  <2>4. IsFiniteSet(Commas(r))
    <3>1. IsFiniteSet(1..Len(r))
      BY <1>1, FS_Interval
    <3>2. QED
      BY <2>3, <3>1, FS_Subset
  <2>5. Cardinality(Commas(r)) \in Nat
    BY <2>4, FS_CardinalityType
  <2>6. i \in 1..Cardinality(Commas(r))
    <3>1. ~ (Cardinality(Commas(r)) < Len(m.ps) - 1)
      BY DEF MissingArgs
    <3>2. QED
      BY <1>5, <2>5, <3>1
  <2>7. Nth(Commas(r), i) \in Commas(r)
    BY <2>3, <2>4, <2>6, NthIsThere
  <2>8. ArgEnd(m, r, i) = Nth(Commas(r), i)
    BY <1>5 DEF ArgEnd
  <2>9. QED
    BY <2>3, <2>7, <2>8
<1>6. QED
  BY <1>4, <1>5

LEMMA ArgsAreParts ==
    ASSUME NEW S, NEW r \in Seq(S), NEW m, Len(m.ps) \in Nat, DOMAIN m.ps = 1..Len(m.ps),
           Closings(r) # {}, ~MissingArgs(m, r)
    PROVE  \A i \in DOMAIN m.ps : Args(m, r)[i] \in Seq(S)
<1>1. SUFFICES ASSUME NEW i \in 1..Len(m.ps) PROVE Args(m, r)[i] \in Seq(S)
  OBVIOUS
<1> DEFINE a == IF i = 1 THEN 1 ELSE ArgEnd(m, r, i - 1) + 1
           b == ArgEnd(m, r, i) - 1
<1>2. Len(r) \in Nat
  BY LenProperties
<1>3. ArgEnd(m, r, i) \in 1..Len(r)
  BY ArgEndInside
<1>4. i # 1 => ArgEnd(m, r, i - 1) \in 1..Len(r)
  <2>1. i # 1 => i - 1 \in 1..Len(m.ps)
    OBVIOUS
  <2>2. QED
    BY <2>1, ArgEndInside
<1>5. a \in Int /\ b \in Int /\ 1 <= a /\ b <= Len(r)
  BY <1>2, <1>3, <1>4
<1>6. Args(m, r)[i] = SubSeq(r, a, b)
  BY DEF Args
<1> HIDE DEF a, b
<1>7. QED
  BY <1>5, <1>6, PartIsSeq

LEMMA SubMacTyped ==
    ASSUME NEW I, NEW id \in Nat, NEW name \in Names, NEW items \in Seq(I), NEW m, m.id \in Nat
    PROVE  SubMac(id, name, items, m) \in MacsOf(I)
<1> DEFINE x == m.id
<1>1. x \in Nat /\ << >> \in Seq(Names)
  BY EmptySeq
<1>2. SubMac(id, name, items, m) = [id |-> id, name |-> name, fn |-> FALSE, ps |-> << >>,
                                    text |-> items, issub |-> TRUE, m |-> x]
  BY DEF SubMac
<1> HIDE DEF x
<1>3. QED
  BY <1>1, <1>2 DEF MacsOf

LEMMA SubsAreAdded ==
    ASSUME NEW N, NEW n \in Nat, Len(Api) <= n, NEW m \in Known(N, n),
           N \subseteq Names, NEW args, \A i \in DOMAIN m.ps : args[i] \in Seq(Over(N))
    PROVE  /\ Subs(m, args, n) \in Seq(Added(N, n + Len(m.ps)))
           /\ Len(m.ps) \in Nat /\ DOMAIN m.ps = 1..Len(m.ps)
           /\ \A i \in DOMAIN Subs(m, args, n) :
                Subs(m, args, n)[i].issub /\ Subs(m, args, n)[i].m = m.id
<1> DEFINE c == Len(m.ps)
           sub(i) == SubMac(n + i, m.ps[i], args[i], m)
           subs == [i \in DOMAIN m.ps |-> sub(i)]
           T == {x \in Added(N, n + c) : x.issub /\ x.m = m.id}
<1>1. /\ m.ps \in Seq(Names) /\ c \in Nat /\ DOMAIN m.ps = 1..c
      /\ m.id \in 1..n /\ Range(m.ps) \subseteq N
  <2>1. m.ps \in Seq(Names) /\ Range(m.ps) \subseteq N /\ m.id \in 1..n
    BY DEF Known, MacsOf
  <2>2. QED
    BY <2>1, LenProperties
<1>2. ASSUME NEW i \in 1..c PROVE sub(i) \in T
  <2>1. /\ m.ps[i] \in N /\ m.ps[i] \in Names /\ n + i \in 1..n + c /\ n + i \in Nat
        /\ m.id \in 1..n + c /\ m.id \in Nat
    BY <1>1 DEF Range
  <2>2. args[i] \in Seq(Over(N))
    BY <1>1
  <2>3. /\ sub(i) = [id |-> n + i, name |-> m.ps[i], fn |-> FALSE, ps |-> << >>,
                     text |-> args[i], issub |-> TRUE, m |-> m.id]
    BY DEF SubMac
  <2>4. << >> \in Seq(Names) /\ Range(<< >>) \subseteq N
    BY NoParams
  <2>5. sub(i) \in MacsOf(Over(N))
    BY <2>1, <2>2, SubMacTyped
  <2>6. /\ sub(i).id = n + i /\ sub(i).name = m.ps[i] /\ sub(i).fn = FALSE
        /\ sub(i).ps = << >> /\ sub(i).issub = TRUE /\ sub(i).m = m.id
    BY <2>3
  <2> HIDE DEF sub
  <2>7. sub(i) \in Known(N, n + c)
    BY <2>1, <2>4, <2>5, <2>6 DEF Known
  <2>8. n + i > Len(Api)
    BY <1>1, ApiKnown
  <2> HIDE DEF c
  <2>9. QED
    BY <2>1, <2>6, <2>7, <2>8 DEF Added
<1>3. subs \in [1..c -> T]
  BY <1>1, <1>2
<1>4. subs \in Seq(T)
  BY <1>1, <1>3
<1>5. Subs(m, args, n) = Reverse(subs)
  BY DEF Subs
<1> HIDE DEF subs
<1>6. Subs(m, args, n) \in Seq(T)
  BY <1>4, <1>5, ReverseIsSeq
<1>7. \A i \in DOMAIN Subs(m, args, n) : Subs(m, args, n)[i] \in T
  BY <1>6, LenProperties, ElementOfSeq
<1>8. T \subseteq Added(N, n + c)
  OBVIOUS
<1>9. Subs(m, args, n) \in Seq(Added(N, n + c))
  BY <1>6, <1>8, SeqMonotonic
<1>10. QED
  BY <1>1, <1>7, <1>9

\* What an item holds, by its kind.
LEMMA ItemFields ==
    ASSUME NEW N, NEW item \in Over(N)
    PROVE  /\ item.k \in {"name", "mark", "undef", "include"} => item.n \in Names
           /\ item.k = "undef" => item.n \in N
           /\ item.k = "enum" => item.ns \in Seq(Names) /\ Range(item.ns) \subseteq N
           /\ item.k \in {"if", "elif", "else"} => item.cond \in Conditions
<1>1. item \in Items /\ Touched(item) \subseteq N
  BY DEF Over
<1>2. item.k \in {"name", "mark", "undef", "include"} => item.n \in Names
  BY <1>1 DEF Items, Plain
<1>3. item.k = "enum" => item.ns \in Seq(Names)
  BY <1>1 DEF Items, Plain
<1>4. item.k \in {"if", "elif", "else"} => item.cond \in Conditions
  BY <1>1 DEF Items, Plain
<1>5. item.k = "undef" => item.n \in N
  BY <1>1 DEF Touched
<1>6. item.k = "enum" => Range(item.ns) \subseteq N
  BY <1>1 DEF Touched
<1>7. QED
  BY <1>2, <1>3, <1>4, <1>5, <1>6

LEMMA DefineFields ==
    ASSUME NEW N, NEW item \in Over(N), item.k = "define"
    PROVE  /\ item.n \in N /\ item.n \in Names /\ item.fn \in BOOLEAN
           /\ item.ps \in Seq(Names) /\ Range(item.ps) \subseteq N
           /\ item.text \in Seq(Over(N))
<1>1. item \in Items /\ Touched(item) \subseteq N
  BY DEF Over
<1>2. item \in [k : {"define"}, n : Names, fn : BOOLEAN, ps : Seq(Names), text : Seq(Plain)]
  BY <1>1 DEF Items, Plain
<1>3. item.n \in N /\ Range(item.ps) \subseteq N
  BY <1>1 DEF Touched
<1>4. QED
  BY <1>2, <1>3, PlainIsOver

LEMMA CondFields ==
    ASSUME NEW cond \in Conditions
    PROVE  /\ cond.t \in {"else", "ifdef", "ifndef", "expr"}
           /\ cond.t = "expr" => cond.text \in Seq(Plain)
BY DEF Conditions

\* The ends of the blocks of an #if lie in the text.
LEMMA BlocksInside ==
    ASSUME NEW S, NEW ts \in Seq(S), ~MalformedIf(ts)
    PROVE  /\ Min(Endifs(ts)) \in 1..Len(ts)
           /\ NextBlocks(ts) \subseteq 1..Len(ts) /\ NextBlocks(ts) \in SUBSET Nat
           /\ \A i \in NextBlocks(ts) : ts[i].k \in {"elif", "else"}
           /\ IsFiniteSet(NextBlocks(ts)) /\ Cardinality(NextBlocks(ts)) \in Nat
<1>1. Len(ts) \in Nat /\ DOMAIN ts = 1..Len(ts)
  BY LenProperties
<1>2. Endifs(ts) # {}
  BY DEF MalformedIf
<1>3. Endifs(ts) \in SUBSET Nat /\ Endifs(ts) \subseteq 1..Len(ts)
  BY <1>1 DEF Endifs
<1>4. Min(Endifs(ts)) \in 1..Len(ts)
  BY <1>2, <1>3, LeastNumber
<1> DEFINE end == Min(Endifs(ts) \cup {Len(ts) + 1})
<1>5. end \in 1..Len(ts) + 1
  <2> DEFINE I == Endifs(ts) \cup {Len(ts) + 1}
  <2>1. I \in SUBSET Nat /\ I # {} /\ I \subseteq 1..Len(ts) + 1
    BY <1>1, <1>3
  <2> HIDE DEF I
  <2>2. Min(I) \in I
    BY <2>1, LeastNumber
  <2>3. QED
    BY <2>1, <2>2 DEF I
<1> HIDE DEF end
<1>6. NextBlocks(ts) = {i \in 1..end - 1 : Kind(ts, i, {"elif", "else"}) /\ Level(ts, i) = 0}
  BY DEF NextBlocks, end
<1>7. NextBlocks(ts) \subseteq 1..Len(ts) /\ NextBlocks(ts) \in SUBSET Nat
  <2> DEFINE I == 1..end - 1
  <2>1. \A j \in I : j \in 1..Len(ts) /\ j \in Nat
    BY <1>1, <1>5
  <2>2. NextBlocks(ts) \subseteq I
    BY <1>6
  <2> HIDE DEF I
  <2>3. QED
    BY <2>1, <2>2
<1>8. \A i \in NextBlocks(ts) : ts[i].k \in {"elif", "else"}
  BY <1>6 DEF Kind
<1>9. IsFiniteSet(NextBlocks(ts))
  <2>1. IsFiniteSet(1..Len(ts))
    BY <1>1, FS_Interval
  <2>2. QED
    BY <1>7, <2>1, FS_Subset
<1>10. Cardinality(NextBlocks(ts)) \in Nat
  BY <1>9, FS_CardinalityType
<1>11. QED
  BY <1>4, <1>7, <1>8, <1>9, <1>10

LEMMA BlocksTyped ==
    ASSUME NEW N, NEW ts \in Seq(Over(N)), ~MalformedIf(ts), NEW cond \in Conditions
    PROVE  /\ Alternatives(cond, ts) \in Seq([cond : Conditions, body : Seq(Over(N))])
           /\ Alternatives(cond, ts) # << >>
           /\ SubSeq(ts, Min(Endifs(ts)) + 1, Len(ts)) \in Seq(Over(N))
<1> DEFINE starts == NextBlocks(ts)
           c == Cardinality(starts)
           end == Min(Endifs(ts))
           directive(n) == IF n = 1 THEN 0 ELSE Nth(starts, n - 1)
           next(n) == IF n > c THEN end ELSE Nth(starts, n)
           block(n) == [cond |-> IF n = 1 THEN cond ELSE ts[directive(n)].cond,
                        body |-> SubSeq(ts, directive(n) + 1, next(n) - 1)]
           B == [cond : Conditions, body : Seq(Over(N))]
<1>1. /\ Len(ts) \in Nat /\ end \in 1..Len(ts) /\ c \in Nat
      /\ starts \subseteq 1..Len(ts) /\ starts \in SUBSET Nat /\ IsFiniteSet(starts)
      /\ \A i \in starts : ts[i].k \in {"elif", "else"}
  BY BlocksInside, LenProperties
<1> HIDE DEF end, starts
<1>2. \A n \in 1..c : Nth(starts, n) \in starts
  BY <1>1, NthIsThere
<1>3. Alternatives(cond, ts) = [n \in 1..c + 1 |-> block(n)]
  BY DEF Alternatives, starts, end
<1>4. ASSUME NEW n \in 1..c + 1 PROVE block(n) \in B
  <2>1. n # 1 => n - 1 \in 1..c
    BY <1>1
  <2>2. n # 1 => directive(n) \in starts
    BY <1>2, <2>1
  <2>3. directive(n) \in 0..Len(ts) /\ (n # 1 => directive(n) \in 1..Len(ts))
    <3>1. CASE n = 1
      BY <1>1, <3>1
    <3>2. CASE n # 1
      <4> DEFINE d == directive(n)
      <4>1. d \in starts
        BY <2>2, <3>2
      <4> HIDE DEF d
      <4>2. d \in 1..Len(ts) /\ d \in 0..Len(ts)
        BY <1>1, <4>1
      <4>3. QED
        BY <3>2, <4>2 DEF d
    <3>3. QED
      BY <3>1, <3>2
  <2>4. n # 1 => ts[directive(n)].cond \in Conditions
    <3>1. SUFFICES ASSUME n # 1 PROVE ts[directive(n)].cond \in Conditions
      OBVIOUS
    <3>2. ts[directive(n)].k \in {"elif", "else"}
      BY <1>1, <2>2, <3>1
    <3> DEFINE d == directive(n)
    <3>3. d \in 1..Len(ts) /\ ts[d].k \in {"elif", "else"}
      BY <2>3, <3>1, <3>2
    <3> HIDE DEF directive, d
    <3>4. ts[d] \in Over(N)
      BY <3>3, ElementOfSeq
    <3>5. ts[d].cond \in Conditions
      BY <3>3, <3>4, ItemFields
    <3>6. QED
      BY <3>5 DEF d
  <2>5. next(n) \in 1..Len(ts)
    <3>1. CASE n > c
      BY <1>1, <3>1
    <3>2. CASE ~ (n > c)
      <4>1. n \in 1..c
        BY <1>1, <3>2
      <4>2. Nth(starts, n) \in 1..Len(ts)
        BY <1>1, <1>2, <4>1
      <4>3. QED
        BY <3>2, <4>2
    <3>3. QED
      BY <3>1, <3>2
  <2> DEFINE a == directive(n) + 1
             b == next(n) - 1
  <2>6. a \in Int /\ b \in Int /\ 1 <= a /\ b <= Len(ts)
    <3> HIDE DEF directive, next
    <3>1. QED
      BY <1>1, <2>3, <2>5
  <2>7. block(n) = [cond |-> IF n = 1 THEN cond ELSE ts[directive(n)].cond, body |-> SubSeq(ts, a, b)]
    OBVIOUS
  <2> HIDE DEF a, b, directive, next, block
  <2>8. SubSeq(ts, a, b) \in Seq(Over(N))
    BY <2>6, PartIsSeq
  <2>9. QED
    BY <2>4, <2>7, <2>8
<1> HIDE DEF block
<1>5. Alternatives(cond, ts) \in Seq(B) /\ Alternatives(cond, ts) # << >>
  <2>1. Alternatives(cond, ts) \in [1..c + 1 -> B]
    BY <1>3, <1>4
  <2>2. c + 1 \in Nat /\ 1 \in 1..c + 1
    BY <1>1
  <2> HIDE DEF B, c
  <2>3. Alternatives(cond, ts) \in Seq(B)
    BY <2>1, <2>2
  <2>4. DOMAIN Alternatives(cond, ts) # {}
    BY <2>1, <2>2
  <2>5. QED
    BY <2>3, <2>4
<1>6. SubSeq(ts, end + 1, Len(ts)) \in Seq(Over(N))
  <2>1. end \in 0..Len(ts)
    BY <1>1
  <2>2. QED
    BY <2>1, BehindIsSeq
<1>7. QED
  BY <1>5, <1>6 DEF end

-----------------------------------------------------------------------------
(* The stack of buffers.                                                   *)

LEMMA BufferFields ==
    ASSUME NEW N, NEW n, NEW b \in Bufs(N, n), NEW t \in Seq(Over(N))
    PROVE  /\ b.rest \in Seq(Over(N))
           /\ b.done \in {"popmac", "popsub"} => b.mac \in Known(N, n)
           /\ [b EXCEPT !.rest = t] \in Bufs(N, n) /\ [b EXCEPT !.rest = t].done = b.done
           /\ [b EXCEPT !.rest = t].mac = b.mac
<1>1. /\ b.rest \in Seq(Over(N))
      /\ b.done \in {"popmac", "popsub"} => b.mac \in Known(N, n)
  BY DEF Bufs
<1>2. /\ [b EXCEPT !.rest = t] \in Bufs(N, n) /\ [b EXCEPT !.rest = t].done = b.done
      /\ [b EXCEPT !.rest = t].mac = b.mac
  BY DEF Bufs
<1>3. QED
  BY <1>1, <1>2

LEMMA BufferTyped ==
    ASSUME NEW N, NEW n, NEW t \in Seq(Over(N)), NEW m
    PROVE  /\ Buffer("file", NoMac, t) \in Bufs(N, n) /\ Buffer("file", NoMac, t).done = "file"
           /\ Buffer("expr", NoMac, t) \in Bufs(N, n) /\ Buffer("expr", NoMac, t).done = "expr"
           /\ m \in Known(N, n) =>
                /\ Buffer("popmac", m, t) \in Bufs(N, n)
                /\ Buffer("popsub", m, t) \in Bufs(N, n)
           /\ Buffer("popmac", m, t).done = "popmac" /\ Buffer("popmac", m, t).mac = m
           /\ Buffer("popsub", m, t).done = "popsub" /\ Buffer("popsub", m, t).mac = m
<1>1. Over(N) \subseteq Items
  BY DEF Over
<1>2. \A x \in MacsOf(Over(N)) : x \in MacsOf(Items)
  <2>1. \A u \in Seq(Over(N)) : u \in Seq(Items)
    BY <1>1, SeqMonotonic
  <2>2. QED
    BY <2>1 DEF MacsOf
<1>3. m \in Known(N, n) => m # NoMac
  BY <1>2, MacroAssumption DEF Known
<1>4. /\ Buffer("file", NoMac, t) \in Bufs(N, n) /\ Buffer("file", NoMac, t).done = "file"
      /\ Buffer("expr", NoMac, t) \in Bufs(N, n) /\ Buffer("expr", NoMac, t).done = "expr"
  BY DEF Bufs, Buffer
<1>5. m \in Known(N, n) => /\ Buffer("popmac", m, t) \in Bufs(N, n)
                           /\ Buffer("popsub", m, t) \in Bufs(N, n)
  BY <1>3 DEF Bufs, Buffer
<1>6. /\ Buffer("popmac", m, t).done = "popmac" /\ Buffer("popmac", m, t).mac = m
      /\ Buffer("popsub", m, t).done = "popsub" /\ Buffer("popsub", m, t).mac = m
  BY DEF Buffer
<1>7. QED
  BY <1>4, <1>5, <1>6

\* The stack with a buffer more, with the first one taken off, with another rest of it.
Pushed(b, bufs) == <<b>> \o bufs
Rested(t, bufs) == <<[bufs[1] EXCEPT !.rest = t]>> \o Tail(bufs)

LEMMA PushedIs ==
    ASSUME NEW S, NEW b \in S, NEW bufs \in Seq(S)
    PROVE  /\ Pushed(b, bufs) \in Seq(S) /\ Len(Pushed(b, bufs)) = Len(bufs) + 1
           /\ Len(bufs) \in Nat /\ Pushed(b, bufs)[1] = b
           /\ \A i \in 1..Len(bufs) : Pushed(b, bufs)[i + 1] = bufs[i]
           /\ \A i \in 2..Len(bufs) + 1 : Pushed(b, bufs)[i] = bufs[i - 1]
<1>1. Len(bufs) \in Nat
  BY LenProperties
<1>2. <<b>> \in Seq(S) /\ Len(<<b>>) = 1 /\ <<b>>[1] = b
  OBVIOUS
<1>3. /\ Pushed(b, bufs) \in Seq(S) /\ Len(Pushed(b, bufs)) = 1 + Len(bufs)
      /\ \A i \in 1..1 + Len(bufs) : Pushed(b, bufs)[i] = IF i <= 1 THEN b ELSE bufs[i - 1]
  <2> DEFINE u == <<b>>
  <2>1. u \in Seq(S) /\ Len(u) = 1 /\ u[1] = b
    BY <1>2
  <2> HIDE DEF u
  <2>2. /\ u \o bufs \in Seq(S) /\ Len(u \o bufs) = Len(u) + Len(bufs)
        /\ \A i \in 1..Len(u) + Len(bufs) :
                (u \o bufs)[i] = IF i <= Len(u) THEN u[i] ELSE bufs[i - Len(u)]
    BY <2>1, ConcatProperties
  <2>3. \A i \in 1..1 + Len(bufs) : i <= 1 => i = 1
    BY <1>1
  <2>4. QED
    BY <2>1, <2>2, <2>3 DEF Pushed, u
<1>4. Pushed(b, bufs)[1] = b
  <2>1. 1 \in 1..1 + Len(bufs)
    BY <1>1
  <2>2. QED
    BY <1>3, <2>1
<1>5. \A i \in 1..Len(bufs) : Pushed(b, bufs)[i + 1] = bufs[i]
  <2>1. \A i \in 1..Len(bufs) : i + 1 \in 1..1 + Len(bufs) /\ ~ (i + 1 <= 1) /\ (i + 1) - 1 = i
    BY <1>1
  <2>2. QED
    BY <1>3, <2>1
<1>6. \A i \in 2..Len(bufs) + 1 : Pushed(b, bufs)[i] = bufs[i - 1]
  <2>1. \A i \in 2..Len(bufs) + 1 : i \in 1..1 + Len(bufs) /\ ~ (i <= 1)
    BY <1>1
  <2>2. QED
    BY <1>3, <2>1
<1>7. Len(Pushed(b, bufs)) = Len(bufs) + 1
  BY <1>1, <1>3
<1>8. QED
  BY <1>1, <1>3, <1>4, <1>5, <1>6, <1>7

LEMMA RestedIs ==
    ASSUME NEW N, NEW n, NEW bufs \in Seq(Bufs(N, n)), bufs # << >>, NEW t \in Seq(Over(N))
    PROVE  /\ Rested(t, bufs) \in Seq(Bufs(N, n)) /\ Len(Rested(t, bufs)) = Len(bufs)
           /\ Len(bufs) \in Nat \ {0} /\ DOMAIN bufs = 1..Len(bufs)
           /\ DOMAIN Rested(t, bufs) = 1..Len(bufs)
           /\ \A i \in 1..Len(bufs) : /\ Rested(t, bufs)[i].done = bufs[i].done
                                      /\ Rested(t, bufs)[i].mac = bufs[i].mac
<1>1. Len(bufs) \in Nat \ {0} /\ DOMAIN bufs = 1..Len(bufs)
  BY LenProperties, EmptySeq
<1> DEFINE e == [bufs[1] EXCEPT !.rest = t]
           u == Tail(bufs)
<1>2. bufs[1] \in Bufs(N, n)
  <2>1. 1 \in 1..Len(bufs)
    BY <1>1
  <2>2. QED
    BY <2>1, ElementOfSeq
<1>3. e \in Bufs(N, n) /\ e.done = bufs[1].done /\ e.mac = bufs[1].mac
  BY <1>2, BufferFields
<1>4. /\ u \in Seq(Bufs(N, n)) /\ Len(u) = Len(bufs) - 1
      /\ \A i \in 1..Len(u) : u[i] = bufs[i + 1]
  BY HeadTailProperties
<1> HIDE DEF e, u
<1>5. /\ Pushed(e, u) \in Seq(Bufs(N, n)) /\ Len(Pushed(e, u)) = Len(u) + 1
      /\ Pushed(e, u)[1] = e /\ \A i \in 2..Len(u) + 1 : Pushed(e, u)[i] = u[i - 1]
  BY <1>3, <1>4, PushedIs
<1>6. Rested(t, bufs) = Pushed(e, u)
  BY DEF Rested, Pushed, e, u
<1>7. ASSUME NEW i \in 1..Len(bufs)
      PROVE  Pushed(e, u)[i].done = bufs[i].done /\ Pushed(e, u)[i].mac = bufs[i].mac
  <2>1. CASE i = 1
    BY <1>3, <1>5, <2>1
  <2>2. CASE i # 1
    <3>1. i \in 2..Len(u) + 1 /\ i - 1 \in 1..Len(u) /\ (i - 1) + 1 = i
      BY <1>1, <1>4, <2>2
    <3>2. Pushed(e, u)[i] = bufs[i]
      BY <1>4, <1>5, <3>1
    <3>3. QED
      BY <3>2
  <2>3. QED
    BY <2>1, <2>2
<1>8. Len(u) + 1 = Len(bufs)
  BY <1>1, <1>4
<1>9. DOMAIN Pushed(e, u) = 1..Len(bufs)
  BY <1>5, <1>8, LenProperties
<1>10. QED
  BY <1>1, <1>5, <1>6, <1>7, <1>8, <1>9

\* At most one expression is being read, above the buffer with its #if; while it is,
\* and only with a buffer to put the block in, there are blocks to decide.
Exprs(bufs) == {i \in DOMAIN bufs : bufs[i].done = "expr"}
Shaped(bufs, left) ==
    /\ left # << >> => bufs # << >>
    /\ Exprs(bufs) # {} => left # << >>
    /\ \A i, j \in Exprs(bufs) : i = j
    /\ \A i \in Exprs(bufs) : i < Len(bufs)

LEMMA ShapedEmpty ==
    Shaped(<< >>, << >>)
<1>1. DOMAIN << >> = {}
  OBVIOUS
<1>2. QED
  BY <1>1 DEF Shaped, Exprs

LEMMA ShapedPush ==
    ASSUME NEW S, NEW bufs \in Seq(S), NEW b \in S, NEW left, Shaped(bufs, left),
           b.done = "expr" => left # << >> /\ Exprs(bufs) = {}
    PROVE  Shaped(Pushed(b, bufs), left)
<1> DEFINE p == Pushed(b, bufs)
           c == Len(bufs)
<1>1. /\ p \in Seq(S) /\ Len(p) = c + 1 /\ c \in Nat /\ p[1] = b
      /\ \A i \in 2..c + 1 : p[i] = bufs[i - 1]
  BY PushedIs
<1>2. DOMAIN p = 1..c + 1 /\ DOMAIN bufs = 1..c
  BY <1>1, LenProperties
<1> HIDE DEF p
<1>3. \A i \in Exprs(p) : i \in 1..c + 1 /\ (i = 1 => b.done = "expr")
                           /\ (i # 1 => i - 1 \in Exprs(bufs))
  <2>1. SUFFICES ASSUME NEW i \in Exprs(p)
                 PROVE  i \in 1..c + 1 /\ (i = 1 => b.done = "expr")
                           /\ (i # 1 => i - 1 \in Exprs(bufs))
    OBVIOUS
  <2>2. i \in 1..c + 1 /\ p[i].done = "expr"
    BY <1>2 DEF Exprs
  <2>3. i # 1 => i \in 2..c + 1 /\ i - 1 \in 1..c
    BY <1>1, <2>2
  <2> HIDE DEF c
  <2>4. i # 1 => bufs[i - 1].done = "expr"
    BY <1>1, <2>2, <2>3
  <2>5. i = 1 => b.done = "expr"
    BY <1>1, <2>2
  <2>6. QED
    BY <1>2, <2>2, <2>3, <2>4, <2>5 DEF Exprs
<1>4. left # << >> => p # << >>
  BY <1>1, EmptySeq
<1>5. Exprs(p) # {} => left # << >>
  BY <1>3 DEF Shaped
<1>6. ASSUME NEW i \in Exprs(p), NEW j \in Exprs(p) PROVE i = j
  <2>1. CASE i = 1 \/ j = 1
    BY <1>3, <2>1
  <2>2. CASE i # 1 /\ j # 1
    <3>1. i - 1 \in Exprs(bufs) /\ j - 1 \in Exprs(bufs)
      BY <1>3, <2>2
    <3>2. i - 1 = j - 1
      BY <3>1 DEF Shaped
    <3>3. i \in Int /\ j \in Int
      BY <1>1, <1>3
    <3>4. QED
      BY <3>2, <3>3
  <2>3. QED
    BY <2>1, <2>2
<1>7. ASSUME NEW i \in Exprs(p) PROVE i < c + 1
  <2>1. CASE i = 1
    <3>1. bufs # << >>
      BY <1>3, <2>1 DEF Shaped
    <3>2. c # 0
      BY <3>1, EmptySeq
    <3>3. QED
      BY <1>1, <2>1, <3>2
  <2>2. CASE i # 1
    <3>1. i - 1 < c
      BY <1>3, <2>2 DEF Shaped
    <3>2. i \in 1..c + 1
      BY <1>3
    <3>3. QED
      BY <1>1, <3>1, <3>2
  <2>3. QED
    BY <2>1, <2>2
<1>8. QED
  BY <1>1, <1>4, <1>5, <1>6, <1>7 DEF Shaped, p

\* What is below the current buffer, when that is read to its end.
LEMMA ShapedPop ==
    ASSUME NEW S, NEW bufs \in Seq(S), bufs # << >>, NEW left, Shaped(bufs, left)
    PROVE  /\ bufs[1].done # "expr" /\ (left = << >> \/ Exprs(bufs) # {}) => Shaped(Tail(bufs), left)
           /\ bufs[1].done = "expr" =>
                left # << >> /\ Tail(bufs) # << >> /\ Exprs(Tail(bufs)) = {}
<1> DEFINE p == Tail(bufs)
           c == Len(bufs)
<1>1. /\ p \in Seq(S) /\ Len(p) = c - 1 /\ c \in Nat \ {0}
      /\ \A i \in 1..c - 1 : p[i] = bufs[i + 1]
  BY HeadTailProperties, EmptySeq
<1>2. DOMAIN p = 1..c - 1 /\ DOMAIN bufs = 1..c
  BY <1>1, LenProperties
<1> HIDE DEF p
<1>3. \A i \in Exprs(p) : i \in 1..c - 1 /\ i + 1 \in Exprs(bufs)
  <2>1. SUFFICES ASSUME NEW i \in Exprs(p)
                 PROVE  i \in 1..c - 1 /\ i + 1 \in Exprs(bufs)
    OBVIOUS
  <2>2. i \in 1..c - 1 /\ p[i].done = "expr"
    BY <1>2 DEF Exprs
  <2>3. i + 1 \in 1..c /\ bufs[i + 1].done = "expr"
    BY <1>1, <2>2
  <2>4. QED
    BY <1>2, <2>2, <2>3 DEF Exprs
<1>4. ASSUME bufs[1].done # "expr", left = << >> \/ Exprs(bufs) # {}
      PROVE  Shaped(p, left)
  <2>1. left # << >> => p # << >>
    <3>1. SUFFICES ASSUME left # << >> PROVE p # << >>
      OBVIOUS
    <3>2. PICK i \in Exprs(bufs) : TRUE
      BY <1>4, <3>1
    <3>3. i < c /\ i \in 1..c
      BY <1>2 DEF Shaped, Exprs
    <3>4. Len(p) # 0
      <4>1. i # 1
        BY <1>4 DEF Exprs
      <4>2. QED
        BY <1>1, <3>3, <4>1
    <3>5. QED
      BY <3>4, EmptySeq
  <2>2. Exprs(p) # {} => left # << >>
    BY <1>3 DEF Shaped
  <2>3. \A i, j \in Exprs(p) : i = j
    <3>1. SUFFICES ASSUME NEW i \in Exprs(p), NEW j \in Exprs(p) PROVE i = j
      OBVIOUS
    <3>2. i + 1 = j + 1
      BY <1>3 DEF Shaped
    <3>3. i \in Int /\ j \in Int
      BY <1>3
    <3>4. QED
      BY <3>2, <3>3
  <2>4. \A i \in Exprs(p) : i < Len(p)
    <3>1. SUFFICES ASSUME NEW i \in Exprs(p) PROVE i < Len(p)
      OBVIOUS
    <3>2. i + 1 < c /\ i \in 1..c - 1
      BY <1>3 DEF Shaped
    <3>3. QED
      BY <1>1, <3>2
  <2>5. QED
    BY <2>1, <2>2, <2>3, <2>4 DEF Shaped
<1>5. ASSUME bufs[1].done = "expr"
      PROVE  left # << >> /\ p # << >> /\ Exprs(p) = {}
  <2>1. 1 \in Exprs(bufs)
    BY <1>1, <1>2, <1>5 DEF Exprs
  <2>2. left # << >> /\ 1 < c
    BY <2>1 DEF Shaped
  <2>3. Len(p) # 0
    BY <1>1, <2>2
  <2>4. p # << >>
    BY <2>3, EmptySeq
  <2>5. \A i \in Exprs(p) : FALSE
    <3>1. SUFFICES ASSUME NEW i \in Exprs(p) PROVE FALSE
      OBVIOUS
    <3>2. i + 1 = 1 /\ i \in 1..c - 1
      BY <1>3, <2>1 DEF Shaped
    <3>3. QED
      BY <1>1, <3>2
  <2>6. QED
    BY <2>2, <2>4, <2>5
<1>6. QED
  BY <1>4, <1>5 DEF p

\* Another rest of the current buffer, and with it blocks to decide where there were none.
LEMMA ShapedRest ==
    ASSUME NEW N, NEW n, NEW bufs \in Seq(Bufs(N, n)), bufs # << >>, NEW t \in Seq(Over(N)),
           NEW left, NEW bs, Shaped(bufs, left), bs # << >> \/ left = << >> \/ Exprs(bufs) = {}
    PROVE  Shaped(Rested(t, bufs), bs)
<1> DEFINE p == Rested(t, bufs)
           c == Len(bufs)
<1>1. /\ p \in Seq(Bufs(N, n)) /\ Len(p) = c /\ c \in Nat \ {0}
      /\ DOMAIN p = 1..c /\ DOMAIN bufs = 1..c
      /\ \A i \in 1..c : p[i].done = bufs[i].done
  BY RestedIs
<1> HIDE DEF p
<1>2. Exprs(p) = Exprs(bufs)
  BY <1>1 DEF Exprs
<1>3. p # << >>
  BY <1>1, EmptySeq
<1>4. Exprs(p) # {} => bs # << >>
  BY <1>2 DEF Shaped
<1>5. QED
  BY <1>1, <1>2, <1>3, <1>4 DEF Shaped, p

-----------------------------------------------------------------------------
(* What a load keeps.                                                      *)

\* The texts keep to N.
Heard(N) == Files \subseteq Seq(Over(N)) /\ Range(Included) \subseteq Seq(Over(N))

Callable(N, n) == {x \in Known(N, n) : x.fn}
Blocks(N) == [cond : Conditions, body : Seq(Over(N))]

Fit(N, ms, sup, bufs, cs, left, n) ==
    /\ n \in Nat /\ Len(Api) <= n
    /\ ms \in Lists(N, n) /\ sup \in SUBSET (1..n)
    /\ bufs \in Seq(Bufs(N, n)) /\ Len(bufs) <= MAXIN
    /\ cs \in Seq(Callable(N, n))
    /\ left \in Seq(Blocks(N)) /\ Shaped(bufs, left)

FirstApi == IF Api = << >> THEN 0 ELSE 1

Good(N) ==
    /\ Fit(N, macs, supressed, inlist, calls, alts, made)
    /\ out \in Seq(Names) /\ ppout \in Seq(Names)
    /\ status \in {"idle", "parsing", "hung", "crashed"}
    /\ result \in {"none", "ok", "error"}
    /\ nloads \in 0..MaxLoads /\ tag \in 0..made
    /\ status = "idle" => inlist = << >> /\ calls = << >> /\ alts = << >>
    /\ Apart(N) =>
        /\ status = "idle" => macs = ApiMacs
        /\ status = "parsing" => tag = FirstApi

LEMMA FitGrows ==
    ASSUME NEW N, NEW ms, NEW sup, NEW bufs, NEW cs, NEW left, NEW n, NEW m \in Nat, n <= m,
           Fit(N, ms, sup, bufs, cs, left, n)
    PROVE  Fit(N, ms, sup, bufs, cs, left, m)
<1>1. n \in Nat /\ Len(Api) <= n /\ Len(Api) \in Nat
  BY ApiKnown DEF Fit
<1>2. /\ Known(N, n) \subseteq Known(N, m) /\ Bufs(N, n) \subseteq Bufs(N, m)
      /\ Lists(N, n) \subseteq Lists(N, m)
  BY <1>1, KnownGrows, ListsGrow
<1>3. Callable(N, n) \subseteq Callable(N, m)
  BY <1>2 DEF Callable
<1>4. bufs \in Seq(Bufs(N, m)) /\ cs \in Seq(Callable(N, m))
  BY <1>2, <1>3, SeqMonotonic DEF Fit
<1>5. sup \in SUBSET (1..m)
  <2>1. \A i \in 1..n : i \in 1..m
    BY <1>1
  <2>2. sup \in SUBSET (1..n)
    BY DEF Fit
  <2>3. QED
    BY <2>1, <2>2
<1>6. Len(Api) <= m
  BY <1>1
<1>7. QED
  BY <1>2, <1>4, <1>5, <1>6 DEF Fit

LEMMA FitPush ==
    ASSUME NEW N, NEW ms, NEW sup, NEW bufs, NEW cs, NEW left, NEW n,
           Fit(N, ms, sup, bufs, cs, left, n), Len(bufs) # MAXIN, NEW b \in Bufs(N, n),
           b.done = "expr" => left # << >> /\ Exprs(bufs) = {}
    PROVE  Fit(N, ms, sup, Pushed(b, bufs), cs, left, n)
<1>1. bufs \in Seq(Bufs(N, n)) /\ Shaped(bufs, left) /\ Len(bufs) <= MAXIN
  BY DEF Fit
<1>2. /\ Pushed(b, bufs) \in Seq(Bufs(N, n)) /\ Len(Pushed(b, bufs)) = Len(bufs) + 1
      /\ Len(bufs) \in Nat
  BY <1>1, PushedIs
<1>3. Shaped(Pushed(b, bufs), left)
  BY <1>1, ShapedPush
<1>4. MAXIN \in Nat
  BY MacroAssumption
<1>5. Len(bufs) + 1 <= MAXIN
  BY <1>1, <1>2, <1>4
<1>6. QED
  BY <1>2, <1>3, <1>5 DEF Fit

LEMMA FitRest ==
    ASSUME NEW N, NEW ms, NEW sup, NEW bufs, NEW cs, NEW left, NEW n,
           Fit(N, ms, sup, bufs, cs, left, n), bufs # << >>, NEW t \in Seq(Over(N)),
           NEW bs \in Seq(Blocks(N)), bs # << >> \/ left = << >> \/ Exprs(bufs) = {}
    PROVE  /\ Fit(N, ms, sup, Rested(t, bufs), cs, bs, n)
           /\ Len(Rested(t, bufs)) = Len(bufs)
<1>1. bufs \in Seq(Bufs(N, n)) /\ Shaped(bufs, left) /\ Len(bufs) <= MAXIN
  BY DEF Fit
<1>2. Rested(t, bufs) \in Seq(Bufs(N, n)) /\ Len(Rested(t, bufs)) = Len(bufs)
  BY <1>1, RestedIs
<1>3. Shaped(Rested(t, bufs), bs)
  BY <1>1, ShapedRest
<1>4. QED
  BY <1>1, <1>2, <1>3 DEF Fit

\* The flush takes the list back to the macro that was first when the load began.
LEMMA Flushed ==
    ASSUME NEW N, NEW n \in Nat, Len(Api) <= n, NEW ms \in Lists(N, n), NEW mtag \in 0..n,
           Apart(N) => mtag = FirstApi
    PROVE  /\ ~TagLost(ms, mtag) => eppic_flushmacs(ms, mtag) \in Lists(N, n)
           /\ Apart(N) => ~TagLost(ms, mtag) /\ eppic_flushmacs(ms, mtag) = ApiMacs
<1> DEFINE c == Len(ms)
           I == {i \in 1..c : ms[i].id = mtag}
           K == Known(N, n)
<1>1. ms \in Seq(K) /\ c \in Nat /\ DOMAIN ms = 1..c
  BY ListsKnown, LenProperties
<1>2. /\ ApiMacs \in Seq(K) /\ Len(Api) \in Nat /\ Len(ApiMacs) = Len(Api)
      /\ DOMAIN Api = 1..Len(Api)
      /\ \A i \in DOMAIN Api : ApiMacs[i].id = i
      /\ ApiMacs \in Lists(N, n)
  BY ApiKnown, ListsKnown
<1>3. SelectInSeq(ms, LAMBDA m : m.id = mtag) = IF I # {} THEN Min(I) ELSE 0
  BY DEF SelectInSeq
<1>4. CASE mtag = 0
  <2>1. eppic_flushmacs(ms, mtag) = << >> /\ ~TagLost(ms, mtag)
    BY <1>4 DEF eppic_flushmacs, TagLost
  <2>2. CASE Apart(N)
    <3>1. Api = << >>
      BY <1>4, <2>2 DEF FirstApi
    <3>2. Len(ApiMacs) = 0
      BY <1>2, <3>1
    <3>3. ApiMacs = << >>
      BY <1>2, <3>2, EmptySeq
    <3>4. QED
      BY <1>2, <2>1, <3>3
  <2>3. CASE ~Apart(N)
    BY <2>1, <2>3, EmptySeq DEF Lists
  <2>4. QED
    BY <2>2, <2>3
<1>5. CASE mtag # 0
  <2>1. eppic_flushmacs(ms, mtag) =
            SubSeq(ms, IF I # {} THEN Min(I) ELSE 0, c)
    BY <1>3, <1>5 DEF eppic_flushmacs
  <2>2. TagLost(ms, mtag) <=> I = {}
    BY <1>1, <1>5 DEF TagLost
  <2>3. I # {} => Min(I) \in I /\ \A i \in I : Min(I) <= i
    <3>1. I \in SUBSET Nat
      OBVIOUS
    <3> HIDE DEF I
    <3>2. QED
      BY <3>1, LeastNumber
  <2>4. CASE ~Apart(N)
    <3>1. SUFFICES ASSUME I # {} PROVE eppic_flushmacs(ms, mtag) \in Lists(N, n)
      BY <2>2, <2>4
    <3>2. Min(I) \in 1..c
      BY <2>3, <3>1
    <3> DEFINE x == Min(I)
    <3>3. x \in Int /\ 1 <= x /\ c \in Int /\ c <= Len(ms)
      BY <1>1, <3>2
    <3>4. eppic_flushmacs(ms, mtag) = SubSeq(ms, x, c)
      BY <2>1, <3>1
    <3> HIDE DEF x, c, K
    <3>5. SubSeq(ms, x, c) \in Seq(K)
      BY <1>1, <3>3, PartIsSeq
    <3>6. QED
      BY <2>4, <3>4, <3>5 DEF Lists, K
  <2>5. CASE Apart(N)
    <3>1. Api # << >> /\ mtag = 1
      BY <1>5, <2>5 DEF FirstApi
    <3>2. Len(Api) # 0
      <4>1. Api \in Seq([name : Names, text : Seq(Plain)])
        BY MacroAssumption
      <4>2. QED
        BY <3>1, <4>1, EmptySeq
    <3>3. PICK new \in Seq(Added(N, n)) : ms = new \o ApiMacs
      BY <2>5 DEF Lists
    <3> DEFINE d == Len(new)
    <3>4. /\ d \in Nat /\ \A i \in 1..d : new[i] \in Added(N, n)
      BY LenProperties, ElementOfSeq
    <3>5. new \in Seq(K)
      <4>1. Added(N, n) \subseteq K
        BY DEF Added
      <4>2. QED
        BY <4>1, SeqMonotonic
    <3>6. /\ c = d + Len(Api)
          /\ \A i \in 1..d + Len(Api) : ms[i] = IF i <= d THEN new[i] ELSE ApiMacs[i - d]
      <4> HIDE DEF K
      <4>1. /\ Len(new \o ApiMacs) = Len(new) + Len(ApiMacs)
            /\ \A i \in 1..Len(new) + Len(ApiMacs) :
                 (new \o ApiMacs)[i] = IF i <= Len(new) THEN new[i] ELSE ApiMacs[i - Len(new)]
        BY <1>2, <3>5, ConcatProperties
      <4>2. Len(ApiMacs) = Len(Api)
        BY <1>2
      <4>3. QED
        BY <3>3, <4>1, <4>2
    <3> HIDE DEF d, c
    <3>7. \A i \in 1..d : ms[i].id # 1
      <4>1. \A i \in 1..d : i \in 1..d + Len(Api) /\ i <= d
        BY <1>2, <3>4
      <4>2. \A i \in 1..d : ms[i] \in Added(N, n)
        BY <3>4, <3>6, <4>1
      <4>3. \A i \in 1..d : ms[i].id \in 1..n /\ ms[i].id > Len(Api)
        BY <4>2 DEF Added, Known
      <4>4. QED
        BY <1>2, <3>2, <4>3
    <3>8. d + 1 \in 1..c /\ ms[d + 1].id = 1
      <4>1. d + 1 \in 1..d + Len(Api) /\ ~ (d + 1 <= d) /\ (d + 1) - d = 1 /\ 1 \in 1..Len(Api)
        BY <1>2, <3>2, <3>4
      <4>2. ms[d + 1] = ApiMacs[1]
        BY <3>6, <4>1
      <4>3. QED
        BY <1>2, <3>6, <4>1, <4>2
    <3>9. d + 1 \in I
      BY <3>1, <3>8
    <3>10. Min(I) = d + 1
      <4>1. Min(I) \in 1..c /\ ms[Min(I)].id = 1 /\ Min(I) <= d + 1
        BY <2>3, <3>1, <3>9
      <4> DEFINE x == Min(I)
      <4>2. x \in 1..c /\ ms[x].id = 1 /\ x <= d + 1
        BY <4>1
      <4> HIDE DEF x
      <4>3. x \notin 1..d
        BY <3>7, <4>2
      <4>4. x = d + 1
        BY <3>4, <4>2, <4>3
      <4>5. QED
        BY <4>4 DEF x
    <3>11. SubSeq(ms, d + 1, c) = ApiMacs
      <4> DEFINE t == SubSeq(ms, d + 1, c)
      <4>1. d \in 0..c
        BY <1>2, <3>4, <3>6
      <4>2. /\ t \in Seq(K) /\ Len(t) = c - d
            /\ \A k \in 1..c - d : t[k] = ms[d + k]
        BY <1>1, <4>1, BehindIsSeq DEF c
      <4> HIDE DEF t
      <4>3. Len(t) = Len(ApiMacs)
        BY <1>2, <3>4, <3>6, <4>2
      <4>4. ASSUME NEW k \in 1..Len(t) PROVE t[k] = ApiMacs[k]
        <5>1. /\ k \in 1..c - d /\ d + k \in 1..d + Len(Api) /\ ~ (d + k <= d)
              /\ (d + k) - d = k
          BY <1>2, <3>4, <3>6, <4>2
        <5>2. QED
          BY <3>6, <4>2, <5>1
      <4>5. QED
        BY <1>2, <4>2, <4>3, <4>4, SeqEqual DEF t
    <3>12. eppic_flushmacs(ms, mtag) = ApiMacs
      <4>1. I # {}
        BY <3>9
      <4>2. (IF I # {} THEN Min(I) ELSE 0) = d + 1
        BY <3>10, <4>1
      <4> HIDE DEF I
      <4>3. QED
        BY <2>1, <3>11, <4>2
    <3>13. QED
      BY <1>2, <2>2, <3>9, <3>12
  <2>6. QED
    BY <2>4, <2>5
<1>6. QED
  BY <1>4, <1>5

LEMMA FitEmpty ==
    ASSUME NEW N, NEW ms, NEW sup, NEW n \in Nat, Len(Api) <= n,
           ms \in Lists(N, n), sup \in SUBSET (1..n)
    PROVE  Fit(N, ms, sup, << >>, << >>, << >>, n)
<1>1. MAXIN \in Nat /\ Len(<< >>) = 0
  BY MacroAssumption, EmptySeq
<1>2. Len(<< >>) <= MAXIN
  BY <1>1
<1>3. /\ << >> \in Seq(Bufs(N, n)) /\ << >> \in Seq(Callable(N, n))
      /\ << >> \in Seq(Blocks(N))
  BY EmptySeq
<1>4. QED
  BY <1>2, <1>3, ShapedEmpty DEF Fit

LEMMA LeaveStays ==
    ASSUME NEW N, Good(N), status = "parsing", NEW ms \in Lists(N, made),
           NEW sup \in SUBSET (1..made), NEW ok \in BOOLEAN, NEW how \in {"ok", "error"},
           Leave(ms, sup, ok, how)
    PROVE  Good(N)'
<1>1. /\ made \in Nat /\ Len(Api) <= made /\ tag \in 0..made
      /\ Apart(N) => tag = FirstApi
  BY DEF Good, Fit
<1>2. /\ ~TagLost(ms, tag) => eppic_flushmacs(ms, tag) \in Lists(N, made)
      /\ Apart(N) => ~TagLost(ms, tag) /\ eppic_flushmacs(ms, tag) = ApiMacs
  BY <1>1, Flushed
<1>3. /\ status' = IF ~ok \/ TagLost(ms, tag) THEN "crashed" ELSE "idle"
      /\ macs' = IF TagLost(ms, tag) THEN ms ELSE eppic_flushmacs(ms, tag)
      /\ supressed' = sup /\ result' = how
      /\ inlist' = << >> /\ calls' = << >> /\ alts' = << >>
      /\ out' = out /\ ppout' = ppout /\ tag' = tag /\ made' = made /\ nloads' = nloads
  BY DEF Leave
<1>4. macs' \in Lists(N, made)
  BY <1>2, <1>3
<1>5. Fit(N, macs', supressed', inlist', calls', alts', made')
  BY <1>1, <1>3, <1>4, FitEmpty
<1>6. /\ out' \in Seq(Names) /\ ppout' \in Seq(Names)
      /\ status' \in {"idle", "crashed"} /\ result' \in {"none", "ok", "error"}
      /\ nloads' \in 0..MaxLoads /\ tag' \in 0..made'
  BY <1>3 DEF Good
<1>7. Apart(N) => macs' = ApiMacs
  BY <1>2, <1>3
<1>8. QED
  BY <1>3, <1>5, <1>6, <1>7 DEF Good

LEMMA AbortStays ==
    ASSUME NEW N, Good(N), status = "parsing", NEW ms \in Lists(N, made),
           NEW sup \in SUBSET (1..made), NEW bufs \in Seq(Bufs(N, made)),
           Abort(ms, sup, bufs)
    PROVE  Good(N)'
<1> DEFINE a == [macs |-> ms, sup |-> sup, ok |-> TRUE]
<1>1. made \in Nat /\ Len(Api) <= made
  BY DEF Good, Fit
<1>2. Closed(Lists(N, made), N, made)
  BY <1>1, ListsClosed
<1>3. a \in States(Lists(N, made), made)
  BY DEF States
<1>4. PICK s \in {Through(Popped, a, bufs)} : Leave(s.macs, s.sup, s.ok, "error")
  BY DEF Abort
<1> HIDE DEF a
<1>5. s \in States(Lists(N, made), made)
  BY <1>1, <1>2, <1>3, <1>4, AllPoppedStays
<1>6. s.macs \in Lists(N, made) /\ s.sup \in SUBSET (1..made) /\ s.ok \in BOOLEAN
  BY <1>5 DEF States
<1>7. QED
  BY <1>4, <1>6, LeaveStays

LEMMA ErrorStays ==
    ASSUME NEW N, Good(N), status = "parsing", eppic_error
    PROVE  Good(N)'
<1>1. /\ macs \in Lists(N, made) /\ supressed \in SUBSET (1..made)
      /\ inlist \in Seq(Bufs(N, made))
  BY DEF Good, Fit
<1>2. QED
  BY <1>1, AbortStays DEF eppic_error

LEMMA StillGood ==
    ASSUME NEW N, Good(N), status = "parsing", made' \in Nat, made <= made',
           Fit(N, macs', supressed', inlist', calls', alts', made'),
           out' \in Seq(Names), ppout' \in Seq(Names),
           status' = status, result' = result, tag' = tag, nloads' = nloads
    PROVE  Good(N)'
<1>1. tag' \in 0..made'
  <2>1. tag \in 0..made /\ made \in Nat
    BY DEF Good, Fit
  <2>2. QED
    BY <2>1
<1>2. QED
  BY <1>1 DEF Good

\* The lexer at an item: the text goes on behind it.
LEMMA AtItemReads ==
    ASSUME NEW N, Good(N), NEW kinds, AtItem(kinds)
    PROVE  /\ status = "parsing" /\ inlist # << >> /\ Item \in Over(N) /\ Item.k \in kinds
           /\ Tail(Top.rest) \in Seq(Over(N)) /\ Advanced = Rested(Tail(Top.rest), inlist)
           /\ Fit(N, macs, supressed, Advanced, calls, alts, made)
           /\ Len(Advanced) = Len(inlist)
           /\ Exprs(inlist) # {} \/ alts = << >>
<1>1. /\ status = "parsing" /\ (alts = << >> \/ Inpp) /\ inlist # << >> /\ Top.rest # << >>
      /\ Item.k \in kinds
  BY DEF AtItem, Lexing
<1>2. /\ Fit(N, macs, supressed, inlist, calls, alts, made) /\ inlist \in Seq(Bufs(N, made))
      /\ alts \in Seq(Blocks(N))
  BY DEF Good, Fit
<1>3. Exprs(inlist) # {} \/ alts = << >>
  BY <1>1 DEF Inpp, Exprs
<1>4. Top \in Bufs(N, made)
  <2>1. Len(inlist) \in Nat \ {0}
    BY <1>1, <1>2, EmptySeq
  <2>2. 1 \in 1..Len(inlist)
    BY <2>1
  <2>3. QED
    BY <1>2, <2>2, ElementOfSeq DEF Top
<1>5. Top.rest \in Seq(Over(N))
  <2>1. << >> \in Seq(Over(N))
    BY EmptySeq
  <2>2. QED
    BY <1>4, <2>1, BufferFields
<1>6. Item \in Over(N) /\ Tail(Top.rest) \in Seq(Over(N))
  <2>1. Len(Top.rest) \in Nat \ {0}
    BY <1>1, <1>5, EmptySeq
  <2>2. 1 \in 1..Len(Top.rest)
    BY <2>1
  <2>3. Item \in Over(N)
    BY <1>5, <2>2, ElementOfSeq DEF Item
  <2>4. QED
    BY <1>1, <1>5, <2>3, TailIsSeq
<1>7. Advanced = Rested(Tail(Top.rest), inlist)
  BY DEF Advanced, Rested, Top
<1>8. /\ Fit(N, macs, supressed, Advanced, calls, alts, made)
      /\ Len(Advanced) = Len(inlist)
  <2> DEFINE t == Tail(Top.rest)
  <2>1. t \in Seq(Over(N)) /\ Advanced = Rested(t, inlist)
    BY <1>6, <1>7
  <2> HIDE DEF t
  <2>2. /\ Fit(N, macs, supressed, Rested(t, inlist), calls, alts, made)
        /\ Len(Rested(t, inlist)) = Len(inlist)
    BY <1>1, <1>2, <2>1, FitRest
  <2>3. QED
    BY <2>1, <2>2
<1>9. QED
  BY <1>1, <1>3, <1>6, <1>7, <1>8

LEMMA TokenTyped ==
    ASSUME NEW N, Good(N), NEW n \in Names, Token(n)
    PROVE  out' \in Seq(Names) /\ ppout' \in Seq(Names)
<1>1. out \in Seq(Names) /\ ppout \in Seq(Names)
  BY DEF Good
<1>2. Append(out, n) \in Seq(Names) /\ Append(ppout, n) \in Seq(Names)
  BY <1>1, AppendProperties
<1>3. QED
  BY <1>1, <1>2 DEF Token

LEMMA KnownFields ==
    ASSUME NEW N, NEW n, NEW x \in Known(N, n)
    PROVE  /\ x.id \in 1..n /\ x.m \in 1..n /\ x.text \in Seq(Over(N)) /\ x.fn \in BOOLEAN
           /\ x.ps \in Seq(Names) /\ Range(x.ps) \subseteq N /\ x.issub \in BOOLEAN
BY DEF Known, MacsOf

LEMMA TextBuffer ==
    ASSUME NEW N, NEW n, NEW m \in Known(N, n), NEW how \in {"popmac", "popsub"}
    PROVE  /\ Buffer(how, m, m.text) \in Bufs(N, n)
           /\ Buffer(how, m, m.text).done = how /\ Buffer(how, m, m.text).mac = m
           /\ m # NoMac
<1> DEFINE t == m.text
<1>1. t \in Seq(Over(N))
  BY KnownFields
<1> HIDE DEF t
<1>2. /\ Buffer("popmac", m, t) \in Bufs(N, n) /\ Buffer("popsub", m, t) \in Bufs(N, n)
  BY <1>1, BufferTyped
<1>3. Buffer(how, m, t).done = how /\ Buffer(how, m, t).mac = m
  BY DEF Buffer
<1>4. Buffer(how, m, t) \in Bufs(N, n)
  BY <1>2
<1>5. m # NoMac
  BY <1>3, <1>4 DEF Bufs
<1>6. QED
  BY <1>3, <1>4, <1>5 DEF t

LEMMA FitPop ==
    ASSUME NEW N, NEW ms, NEW sup, NEW bufs, NEW cs, NEW left, NEW n,
           Fit(N, ms, sup, bufs, cs, left, n), bufs # << >>,
           left = << >> \/ Exprs(bufs) # {}
    PROVE  /\ bufs[1] \in Bufs(N, n) /\ Tail(bufs) \in Seq(Bufs(N, n))
           /\ Fit(N, ms, sup, Tail(bufs), cs, left, n)
           /\ bufs[1].done = "expr" => left # << >> /\ Tail(bufs) # << >> /\ Exprs(Tail(bufs)) = {}
<1>1. bufs \in Seq(Bufs(N, n)) /\ Shaped(bufs, left) /\ Len(bufs) <= MAXIN /\ MAXIN \in Nat
  BY MacroAssumption DEF Fit
<1>2. Tail(bufs) \in Seq(Bufs(N, n)) /\ Len(Tail(bufs)) = Len(bufs) - 1 /\ Len(bufs) \in Nat
  BY <1>1, TailIsSeq, LenProperties
<1>3. bufs[1] \in Bufs(N, n)
  <2>1. 1 \in 1..Len(bufs)
    BY <1>1, EmptySeq
  <2>2. QED
    BY <1>1, <2>1, ElementOfSeq
<1>4. bufs[1].done = "expr" => left # << >> /\ Tail(bufs) # << >> /\ Exprs(Tail(bufs)) = {}
  BY <1>1, ShapedPop
<1>5. Shaped(Tail(bufs), left)
  <2>1. CASE bufs[1].done # "expr"
    BY <1>1, <2>1, ShapedPop
  <2>2. CASE bufs[1].done = "expr"
    BY <1>4, <2>2 DEF Shaped
  <2>3. QED
    BY <2>1, <2>2
<1>6. Len(Tail(bufs)) <= MAXIN
  BY <1>1, <1>2
<1>7. QED
  BY <1>2, <1>3, <1>4, <1>5, <1>6 DEF Fit

\* A block is decided: read, or passed over.
LEMMA FitDecide ==
    ASSUME NEW N, NEW ms, NEW sup, NEW bufs, NEW cs, NEW left, NEW n,
           Fit(N, ms, sup, bufs, cs, left, n), bufs # << >>, left # << >>, Exprs(bufs) = {}
    PROVE  /\ Fit(N, ms, sup, Rested(left[1].body \o bufs[1].rest, bufs), cs, << >>, n)
           /\ Fit(N, ms, sup, bufs, cs, Tail(left), n)
<1>1. left \in Seq(Blocks(N)) /\ bufs \in Seq(Bufs(N, n))
  BY DEF Fit
<1>2. left[1].body \in Seq(Over(N))
  <2>1. 1 \in 1..Len(left)
    <3> DEFINE d == Len(left)
    <3>1. d \in Nat \ {0}
      BY <1>1, EmptySeq
    <3> HIDE DEF d
    <3>2. 1 \in 1..d
      BY <3>1
    <3>3. QED
      BY <3>2 DEF d
  <2>2. left[1] \in Blocks(N)
    BY <1>1, <2>1, ElementOfSeq
  <2>3. QED
    BY <2>2 DEF Blocks
<1>3. bufs[1].rest \in Seq(Over(N))
  <2>1. 1 \in 1..Len(bufs)
    BY <1>1, EmptySeq
  <2>2. bufs[1] \in Bufs(N, n)
    BY <1>1, <2>1, ElementOfSeq
  <2>3. << >> \in Seq(Over(N))
    BY EmptySeq
  <2>4. QED
    BY <2>2, <2>3, BufferFields
<1> DEFINE t == left[1].body \o bufs[1].rest
<1>4. t \in Seq(Over(N))
  BY <1>2, <1>3, ConcatProperties
<1>5. << >> \in Seq(Blocks(N))
  BY EmptySeq
<1> HIDE DEF t
<1>6. Fit(N, ms, sup, Rested(t, bufs), cs, << >>, n)
  BY <1>4, <1>5, FitRest
<1>7. Fit(N, ms, sup, bufs, cs, Tail(left), n)
  <2>1. Tail(left) \in Seq(Blocks(N))
    BY <1>1, TailIsSeq
  <2>2. Shaped(bufs, Tail(left))
    BY DEF Shaped
  <2>3. QED
    BY <2>1, <2>2 DEF Fit
<1>8. QED
  BY <1>6, <1>7 DEF t

LEMMA BeginLoadGood ==
    ASSUME NEW N, Heard(N), Good(N), BeginLoad
    PROVE  Good(N)'
<1>1. /\ status = "idle" /\ nloads < MaxLoads /\ text' \in Files
      /\ inlist' = <<Buffer("file", NoMac, text')>>
      /\ tag' = (IF macs = << >> THEN 0 ELSE macs[1].id)
      /\ status' = "parsing" /\ result' = "none" /\ out' = << >> /\ ppout' = << >>
      /\ nloads' = nloads + 1 /\ macs' = macs /\ supressed' = supressed
      /\ calls' = calls /\ alts' = alts /\ made' = made
  BY DEF BeginLoad
<1>2. /\ Fit(N, macs, supressed, << >>, calls, alts, made)
      /\ made \in Nat /\ Len(Api) <= made /\ macs \in Lists(N, made)
  BY <1>1 DEF Good, Fit
<1>3. Fit(N, macs', supressed', inlist', calls', alts', made')
  <2> DEFINE b == Buffer("file", NoMac, text')
  <2>1. text' \in Seq(Over(N))
    BY <1>1 DEF Heard
  <2>2. b \in Bufs(N, made) /\ b.done = "file"
    BY <2>1, BufferTyped
  <2>3. MAXIN # Len(<< >>)
    BY MacroAssumption, EmptySeq
  <2> HIDE DEF b
  <2>4. Fit(N, macs, supressed, Pushed(b, << >>), calls, alts, made)
    BY <1>2, <2>2, <2>3, FitPush
  <2>5. Pushed(b, << >>) = <<b>>
    <3>1. <<b>> \in Seq(Bufs(N, made))
      BY <2>2
    <3>2. QED
      BY <3>1, ConcatEmptySeq DEF Pushed
  <2>6. QED
    BY <1>1, <2>4, <2>5 DEF b
<1>4. tag' \in 0..made'
  <2>1. CASE macs = << >>
    BY <1>1, <1>2, <2>1
  <2>2. CASE macs # << >>
    <3>1. macs \in Seq(Known(N, made))
      BY <1>2, ListsKnown
    <3>2. 1 \in 1..Len(macs)
      BY <2>2, <3>1, EmptySeq
    <3>3. macs[1] \in Known(N, made)
      BY <3>1, <3>2, ElementOfSeq
    <3>4. macs[1].id \in 1..made
      BY <3>3, KnownFields
    <3>5. QED
      BY <1>1, <1>2, <2>2, <3>4
  <2>3. QED
    BY <2>1, <2>2
<1>5. Apart(N) => tag' = FirstApi
  <2>1. SUFFICES ASSUME Apart(N) PROVE tag' = FirstApi
    OBVIOUS
  <2>2. macs = ApiMacs
    BY <1>1, <2>1 DEF Good
  <2>3. /\ Len(ApiMacs) = Len(Api) /\ ApiMacs \in Seq(Known(N, made))
        /\ DOMAIN Api = 1..Len(Api) /\ \A i \in DOMAIN Api : ApiMacs[i].id = i
    BY <1>2, ApiKnown
  <2>4. Api \in Seq([name : Names, text : Seq(Plain)])
    BY MacroAssumption
  <2>5. CASE Api = << >>
    <3>1. ApiMacs = << >>
      BY <2>3, <2>5, EmptySeq
    <3>2. QED
      BY <1>1, <2>2, <2>5, <3>1 DEF FirstApi
  <2>6. CASE Api # << >>
    <3>1. Len(Api) \in Nat \ {0}
      BY <2>4, <2>6, EmptySeq
    <3>2. ApiMacs # << >>
      BY <2>3, <3>1, EmptySeq
    <3>3. ApiMacs[1].id = 1
      BY <2>3, <3>1
    <3>4. QED
      BY <1>1, <2>2, <2>6, <3>2, <3>3 DEF FirstApi
  <2>7. QED
    BY <2>5, <2>6
<1>6. out' \in Seq(Names) /\ ppout' \in Seq(Names)
  BY <1>1, EmptySeq
<1>7. nloads' \in 0..MaxLoads
  <2>1. nloads \in 0..MaxLoads /\ MaxLoads \in Nat
    BY MacroAssumption DEF Good
  <2>2. QED
    BY <1>1, <2>1
<1>8. status' = "parsing" /\ result' = "none"
  BY <1>1
<1>9. QED
  BY <1>3, <1>4, <1>5, <1>6, <1>7, <1>8 DEF Good

LEMMA PopBufferGood ==
    ASSUME NEW N, Good(N), PopBuffer
    PROVE  Good(N)'
<1> DEFINE a == [macs |-> macs, sup |-> supressed, ok |-> TRUE]
<1>1. /\ status = "parsing" /\ (alts = << >> \/ Exprs(inlist) # {}) /\ inlist # << >>
      /\ Top.done # "expr"
  BY DEF PopBuffer, Lexing, Inpp, Exprs
<1>2. /\ Fit(N, macs, supressed, inlist, calls, alts, made) /\ made \in Nat /\ Len(Api) <= made
      /\ macs \in Lists(N, made) /\ supressed \in SUBSET (1..made)
  BY DEF Good, Fit
<1>3. /\ Top \in Bufs(N, made) /\ Tail(inlist) \in Seq(Bufs(N, made))
      /\ Fit(N, macs, supressed, Tail(inlist), calls, alts, made)
  BY <1>1, <1>2, FitPop DEF Top
<1>4. PICK s \in {Popped(a, Top)} :
        \/ /\ s.ok
           /\ macs' = s.macs /\ supressed' = s.sup /\ inlist' = Tail(inlist)
           /\ UNCHANGED <<calls, alts, out, ppout, status, result, tag, made, text, nloads>>
        \/ ~s.ok /\ Abort(s.macs, s.sup, Tail(inlist))
  BY DEF PopBuffer
<1>5. a \in States(Lists(N, made), made)
  BY <1>2 DEF States
<1>6. Closed(Lists(N, made), N, made)
  BY <1>2, ListsClosed
<1> HIDE DEF a
<1>7. s \in States(Lists(N, made), made)
  <2> DEFINE L == Lists(N, made)
             b == Top
  <2>1. Closed(L, N, made) /\ a \in States(L, made) /\ b \in Bufs(N, made) /\ made \in Nat
    BY <1>2, <1>3, <1>5, <1>6
  <2> HIDE DEF L, b
  <2>2. Popped(a, b) \in States(L, made)
    BY <2>1, PoppedStays
  <2>3. QED
    BY <1>4, <2>2 DEF L, b
<1>8. s.macs \in Lists(N, made) /\ s.sup \in SUBSET (1..made)
  BY <1>7 DEF States
<1>9. CASE ~s.ok /\ Abort(s.macs, s.sup, Tail(inlist))
  BY <1>1, <1>3, <1>8, <1>9, AbortStays
<1>10. CASE /\ macs' = s.macs /\ supressed' = s.sup /\ inlist' = Tail(inlist)
            /\ UNCHANGED <<calls, alts, out, ppout, status, result, tag, made, text, nloads>>
  <2>1. Fit(N, s.macs, s.sup, Tail(inlist), calls, alts, made)
    BY <1>3, <1>8 DEF Fit
  <2>2. Fit(N, macs', supressed', inlist', calls', alts', made')
    BY <1>10, <2>1
  <2>3. out' \in Seq(Names) /\ ppout' \in Seq(Names)
    BY <1>10 DEF Good
  <2>4. made' = made /\ made' \in Nat /\ made <= made'
    BY <1>2, <1>10
  <2>5. QED
    BY <1>1, <1>10, <2>2, <2>3, <2>4, StillGood
<1>11. QED
  BY <1>4, <1>9, <1>10

LEMMA EndParseGood ==
    ASSUME NEW N, Good(N), EndParse
    PROVE  Good(N)'
<1>1. /\ status = "parsing"
      /\ Leave(macs, supressed, TRUE, IF calls = << >> THEN "ok" ELSE "error")
  BY DEF EndParse, Lexing
<1>2. macs \in Lists(N, made) /\ supressed \in SUBSET (1..made)
  BY DEF Good, Fit
<1>3. (IF calls = << >> THEN "ok" ELSE "error") \in {"ok", "error"} /\ TRUE \in BOOLEAN
  OBVIOUS
<1>4. QED
  BY <1>1, <1>2, <1>3, LeaveStays

\* The macro that a name stands for, and where its text goes.
LEMMA FoundKnown ==
    ASSUME NEW N, NEW ms, NEW sup, NEW bufs, NEW cs, NEW left, NEW n, NEW name,
           Fit(N, ms, sup, bufs, cs, left, n), eppic_getmac(ms, sup, name) # NoMac
    PROVE  /\ eppic_getmac(ms, sup, name) \in Known(N, n)
           /\ \E i \in DOMAIN ms : eppic_getmac(ms, sup, name) = ms[i]
           /\ ~Hidden(eppic_getmac(ms, sup, name), sup)
<1>1. ms \in Seq(Known(N, n))
  BY ListsKnown DEF Fit
<1>2. PICK i \in DOMAIN ms : /\ eppic_getmac(ms, sup, name) = ms[i]
                             /\ ms[i] \in Known(N, n) /\ ms[i].name = name /\ ~Hidden(ms[i], sup)
  BY <1>1, GetmacFinds
<1>3. QED
  BY <1>2

LEMMA ChkmacvarGood ==
    ASSUME NEW N, Good(N), eppic_chkmacvar
    PROVE  Good(N)'
<1> DEFINE m == eppic_getmac(macs, supressed, Item.n)
           b == Buffer("popsub", m, m.text)
<1>1. AtItem({"name"})
  BY DEF eppic_chkmacvar
<1>2. /\ status = "parsing" /\ inlist # << >> /\ Item.n \in Names
      /\ Fit(N, macs, supressed, Advanced, calls, alts, made) /\ Len(Advanced) = Len(inlist)
  BY <1>1, AtItemReads, ItemFields
<1>3. /\ Fit(N, macs, supressed, inlist, calls, alts, made) /\ made \in Nat /\ made <= made
      /\ macs \in Lists(N, made) /\ supressed \in SUBSET (1..made)
      /\ inlist \in Seq(Bufs(N, made)) /\ calls \in Seq(Callable(N, made))
      /\ out \in Seq(Names) /\ ppout \in Seq(Names)
  BY DEF Good, Fit
<1>4. m # NoMac => m \in Known(N, made)
  BY <1>3, FoundKnown
<1> HIDE DEF m
<1>5. m # NoMac => Hides(m) \in SUBSET (1..made)
  <2>1. m # NoMac => m.m \in 1..made
    BY <1>4, KnownFields
  <2>2. QED
    BY <1>3, <2>1 DEF Hides
<1>6. \/ m = NoMac /\ calls = << >> /\ Token(Item.n) /\ inlist' = Advanced
         /\ UNCHANGED <<macs, supressed, calls, alts, status, result, tag, made, text, nloads>>
      \/ eppic_error
      \/ /\ m # NoMac /\ ~Full /\ supressed' = Hides(m) /\ inlist' = <<b>> \o Advanced
         /\ UNCHANGED <<macs, calls, alts, out, ppout, status, result, tag, made, text, nloads>>
      \/ m # NoMac /\ Abort(macs, Hides(m), inlist)
      \/ /\ m # NoMac /\ m.fn /\ calls' = <<m>> \o calls /\ inlist' = Advanced
         /\ UNCHANGED <<macs, supressed, alts, out, ppout, status, result, tag, made, text, nloads>>
  BY DEF eppic_chkmacvar, m
<1>7. CASE eppic_error
  BY <1>2, <1>7, ErrorStays
<1>8. CASE m # NoMac /\ Abort(macs, Hides(m), inlist)
  BY <1>2, <1>3, <1>5, <1>8, AbortStays
<1>9. CASE Token(Item.n) /\ inlist' = Advanced
           /\ UNCHANGED <<macs, supressed, calls, alts, status, result, tag, made, text, nloads>>
  <2>1. out' \in Seq(Names) /\ ppout' \in Seq(Names)
    BY <1>2, <1>9, TokenTyped
  <2>2. Fit(N, macs', supressed', inlist', calls', alts', made')
    BY <1>2, <1>9
  <2>3. made' \in Nat /\ made <= made'
    BY <1>3, <1>9
  <2>4. QED
    BY <1>2, <1>9, <2>1, <2>2, <2>3, StillGood
<1>10. CASE /\ m # NoMac /\ ~Full /\ supressed' = Hides(m) /\ inlist' = <<b>> \o Advanced
            /\ UNCHANGED <<macs, calls, alts, out, ppout, status, result, tag, made, text, nloads>>
  <2>1. b \in Bufs(N, made) /\ b.done = "popsub"
    BY <1>4, <1>10, TextBuffer
  <2> HIDE DEF b
  <2>2. Len(Advanced) # MAXIN
    BY <1>2, <1>10 DEF Full
  <2>3. Fit(N, macs, supressed, Pushed(b, Advanced), calls, alts, made)
    BY <1>2, <2>1, <2>2, FitPush
  <2>4. Fit(N, macs, Hides(m), Pushed(b, Advanced), calls, alts, made)
    BY <1>5, <1>10, <2>3 DEF Fit
  <2>5. Fit(N, macs', supressed', inlist', calls', alts', made')
    BY <1>10, <2>4 DEF Pushed
  <2>6. made' \in Nat /\ made <= made' /\ out' \in Seq(Names) /\ ppout' \in Seq(Names)
    BY <1>3, <1>10
  <2>7. QED
    BY <1>2, <1>10, <2>5, <2>6, StillGood
<1>11. CASE /\ m # NoMac /\ m.fn /\ calls' = <<m>> \o calls /\ inlist' = Advanced
            /\ UNCHANGED <<macs, supressed, alts, out, ppout, status, result, tag, made, text, nloads>>
  <2>1. m \in Callable(N, made)
    BY <1>4, <1>11 DEF Callable
  <2>2. calls' \in Seq(Callable(N, made))
    BY <1>3, <1>11, <2>1, PushedIs DEF Pushed
  <2>3. Fit(N, macs, supressed, Advanced, calls', alts, made)
    BY <1>2, <2>2 DEF Fit
  <2>4. Fit(N, macs', supressed', inlist', calls', alts', made')
    BY <1>11, <2>3
  <2>5. made' \in Nat /\ made <= made' /\ out' \in Seq(Names) /\ ppout' \in Seq(Names)
    BY <1>3, <1>11
  <2>6. QED
    BY <1>2, <1>11, <2>4, <2>5, StillGood
<1>12. QED
  BY <1>6, <1>7, <1>8, <1>9, <1>10, <1>11

LEMMA LexMarkGood ==
    ASSUME NEW N, Good(N), LexMark
    PROVE  Good(N)'
<1>1. AtItem({"mark"})
  BY DEF LexMark
<1>2. /\ status = "parsing" /\ Item.n \in Names
      /\ Fit(N, macs, supressed, Advanced, calls, alts, made)
  BY <1>1, AtItemReads, ItemFields
<1>3. \/ Token(Item.n) /\ inlist' = Advanced
         /\ UNCHANGED <<macs, supressed, calls, alts, status, result, tag, made, text, nloads>>
      \/ eppic_error
  BY DEF LexMark
<1>4. CASE eppic_error
  BY <1>2, <1>4, ErrorStays
<1>5. CASE Token(Item.n) /\ inlist' = Advanced
           /\ UNCHANGED <<macs, supressed, calls, alts, status, result, tag, made, text, nloads>>
  <2>1. out' \in Seq(Names) /\ ppout' \in Seq(Names)
    BY <1>2, <1>5, TokenTyped
  <2>2. Fit(N, macs', supressed', inlist', calls', alts', made')
    BY <1>2, <1>5
  <2>3. made' \in Nat /\ made <= made'
    <3>1. made \in Nat
      BY DEF Good, Fit
    <3>2. QED
      BY <1>5, <3>1
  <2>4. QED
    BY <1>2, <1>5, <2>1, <2>2, <2>3, StillGood
<1>6. QED
  BY <1>3, <1>4, <1>5

LEMMA ClosingInside ==
    ASSUME NEW S, NEW r \in Seq(S), Closings(r) # {}
    PROVE  Min(Closings(r)) \in 1..Len(r)
<1>1. Len(r) \in Nat /\ DOMAIN r = 1..Len(r)
  BY LenProperties
<1>2. Closings(r) \in SUBSET Nat /\ Closings(r) \subseteq 1..Len(r)
  BY <1>1 DEF Closings
<1>3. Min(Closings(r)) \in Closings(r)
  BY <1>2, LeastNumber
<1>4. QED
  BY <1>2, <1>3

LEMMA PushmacGood ==
    ASSUME NEW N \in SUBSET Names, Good(N), eppic_pushmac
    PROVE  Good(N)'
<1> DEFINE m == calls[1]
           r == Tail(Top.rest)
           t == SubSeq(r, Min(Closings(r)) + 1, Len(r))
           b == Buffer("popmac", m, m.text)
           subs == Subs(m, Args(m, r), made)
<1>1. AtItem({"mark"}) /\ calls # << >>
  BY DEF eppic_pushmac
<1>2. /\ status = "parsing" /\ inlist # << >> /\ r \in Seq(Over(N))
      /\ alts = << >> \/ Exprs(inlist) # {}
  BY <1>1, AtItemReads
<1>3. /\ Fit(N, macs, supressed, inlist, calls, alts, made) /\ made \in Nat /\ Len(Api) <= made
      /\ macs \in Lists(N, made) /\ supressed \in SUBSET (1..made)
      /\ inlist \in Seq(Bufs(N, made)) /\ calls \in Seq(Callable(N, made))
      /\ alts \in Seq(Blocks(N)) /\ out \in Seq(Names) /\ ppout \in Seq(Names)
  BY DEF Good, Fit
<1>4. m \in Known(N, made) /\ Tail(calls) \in Seq(Callable(N, made))
  <2>1. Len(calls) \in Nat \ {0}
    BY <1>1, <1>3, EmptySeq
  <2>2. 1 \in 1..Len(calls)
    BY <2>1
  <2>3. m \in Callable(N, made)
    BY <1>3, <2>2, ElementOfSeq
  <2>4. QED
    BY <1>1, <1>3, <2>3, TailIsSeq DEF Callable
<1>5. \/ /\ status' = "hung"
         /\ UNCHANGED <<macs, supressed, inlist, calls, alts, out, ppout, result,
                        tag, made, text, nloads>>
      \/ eppic_error
      \/ /\ Closings(r) # {} /\ ~MissingArgs(m, r) /\ ~Full
         /\ inlist' = <<b>> \o (<<[Top EXCEPT !.rest = t]>> \o Tail(inlist))
         /\ macs' = subs \o macs
         /\ made' = made + Len(m.ps)
         /\ calls' = Tail(calls)
         /\ UNCHANGED <<supressed, alts, out, ppout, status, result, tag, text, nloads>>
  BY DEF eppic_pushmac
<1> HIDE DEF m, r, b, subs, t
<1>6. CASE eppic_error
  BY <1>2, <1>6, ErrorStays
<1>7. CASE /\ status' = "hung"
           /\ UNCHANGED <<macs, supressed, inlist, calls, alts, out, ppout, result,
                          tag, made, text, nloads>>
  <2>1. Fit(N, macs', supressed', inlist', calls', alts', made')
    BY <1>3, <1>7
  <2>2. /\ result \in {"none", "ok", "error"} /\ nloads \in 0..MaxLoads /\ tag \in 0..made
    BY DEF Good
  <2>3. status' # "idle" /\ status' # "parsing" /\ status' \in {"idle", "parsing", "hung", "crashed"}
    BY <1>7
  <2>4. /\ out' \in Seq(Names) /\ ppout' \in Seq(Names)
        /\ result' \in {"none", "ok", "error"} /\ nloads' \in 0..MaxLoads /\ tag' \in 0..made'
    BY <1>3, <1>7, <2>2
  <2>5. QED
    BY <2>1, <2>3, <2>4 DEF Good
<1>8. CASE /\ Closings(r) # {} /\ ~MissingArgs(m, r) /\ ~Full
           /\ inlist' = <<b>> \o (<<[Top EXCEPT !.rest = t]>> \o Tail(inlist))
           /\ macs' = subs \o macs
           /\ made' = made + Len(m.ps)
           /\ calls' = Tail(calls)
           /\ UNCHANGED <<supressed, alts, out, ppout, status, result, tag, text, nloads>>
  <2> DEFINE after == Rested(t, inlist)
             new == made + Len(m.ps)
  <2>1. t \in Seq(Over(N))
    <3> DEFINE e == Min(Closings(r))
    <3>1. e \in 1..Len(r)
      BY <1>2, <1>8, ClosingInside
    <3>2. Len(r) \in Nat
      BY <1>2, LenProperties
    <3> HIDE DEF e
    <3>3. e \in 0..Len(r)
      BY <3>1, <3>2
    <3>4. SubSeq(r, e + 1, Len(r)) \in Seq(Over(N))
      BY <1>2, <3>3, BehindIsSeq
    <3>5. QED
      BY <3>4 DEF e, t
  <2>2. Fit(N, macs, supressed, after, calls, alts, made) /\ Len(after) = Len(inlist)
    <3>1. alts # << >> \/ alts = << >>
      OBVIOUS
    <3>2. QED
      BY <1>2, <1>3, <2>1, <3>1, FitRest
  <2>3. b \in Bufs(N, made) /\ b.done = "popmac"
    BY <1>4, TextBuffer DEF b
  <2> HIDE DEF after
  <2>4. Len(after) # MAXIN
    BY <1>8, <2>2 DEF Full
  <2>5. Fit(N, macs, supressed, Pushed(b, after), calls, alts, made)
    BY <2>2, <2>3, <2>4, FitPush
  <2>6. Fit(N, macs, supressed, Pushed(b, after), Tail(calls), alts, made)
    BY <1>4, <2>5 DEF Fit
  <2>7. /\ subs \in Seq(Added(N, made + Len(m.ps)))
        /\ Len(m.ps) \in Nat /\ DOMAIN m.ps = 1..Len(m.ps)
    <3>1. m.ps \in Seq(Names)
      BY <1>4, KnownFields
    <3>2. Len(m.ps) \in Nat /\ DOMAIN m.ps = 1..Len(m.ps)
      BY <3>1, LenProperties
    <3>3. \A i \in DOMAIN m.ps : Args(m, r)[i] \in Seq(Over(N))
      BY <1>2, <1>8, <3>2, ArgsAreParts
    <3> DEFINE args == Args(m, r)
    <3>4. \A i \in DOMAIN m.ps : args[i] \in Seq(Over(N))
      BY <3>3
    <3> HIDE DEF args
    <3>5. Subs(m, args, made) \in Seq(Added(N, made + Len(m.ps)))
      BY <1>3, <1>4, <3>4, SubsAreAdded
    <3>6. QED
      BY <3>2, <3>5 DEF subs, args
  <2>8. new \in Nat /\ made <= new /\ Len(Api) <= new
    BY <1>3, <2>7, ApiKnown
  <2>9. Fit(N, macs, supressed, Pushed(b, after), Tail(calls), alts, new)
    BY <2>6, <2>8, FitGrows
  <2> HIDE DEF new
  <2>10. subs \o macs \in Lists(N, new)
    <3>1. macs \in Lists(N, new)
      BY <2>9 DEF Fit
    <3>2. QED
      BY <2>7, <2>8, <3>1, ListsOpen DEF new
  <2>11. Fit(N, subs \o macs, supressed, Pushed(b, after), Tail(calls), alts, new)
    BY <2>9, <2>10 DEF Fit
  <2>12. inlist' = Pushed(b, after)
    BY <1>8 DEF Pushed, Rested, Top, after
  <2>13. Fit(N, macs', supressed', inlist', calls', alts', made')
    BY <1>8, <2>11, <2>12 DEF new
  <2>14. made' \in Nat /\ made <= made' /\ out' \in Seq(Names) /\ ppout' \in Seq(Names)
    BY <1>3, <1>8, <2>8 DEF new
  <2>15. QED
    BY <1>2, <1>8, <2>13, <2>14, StillGood
<1>9. QED
  BY <1>5, <1>6, <1>7, <1>8

LEMMA DefineGood ==
    ASSUME NEW N \in SUBSET Names, Good(N), eppic_define
    PROVE  Good(N)'
<1> DEFINE x == Mac(made + 1, Item.n, Item.fn, Item.ps, Item.text)
<1>1. /\ AtItem({"define"}) /\ macs' = eppic_newmac(macs, supressed, x)
      /\ made' = made + 1 /\ inlist' = Advanced
      /\ UNCHANGED <<supressed, calls, alts, out, ppout, status, result, tag, text, nloads>>
  BY DEF eppic_define
<1>2. /\ status = "parsing" /\ Item \in Over(N) /\ Item.k = "define"
      /\ Fit(N, macs, supressed, Advanced, calls, alts, made)
  BY <1>1, AtItemReads
<1>3. made \in Nat /\ Len(Api) <= made /\ Len(Api) \in Nat
  BY ApiKnown DEF Good, Fit
<1>4. made + 1 \in Nat /\ made <= made + 1 /\ Len(Api) <= made + 1 /\ made + 1 \in 1..made + 1
  BY <1>3
<1>5. x \in Added(N, made + 1)
  <2>1. /\ Item.n \in N /\ Item.n \in Names /\ Item.fn \in BOOLEAN
        /\ Item.ps \in Seq(Names) /\ Range(Item.ps) \subseteq N
        /\ Item.text \in Seq(Over(N))
    BY <1>2, DefineFields
  <2>2. x \in Known(N, made + 1)
    BY <1>4, <2>1, MacKnown
  <2>3. x.name = Item.n /\ x.id = made + 1
    BY DEF Mac
  <2> HIDE DEF x
  <2>4. made + 1 > Len(Api)
    BY <1>3
  <2>5. QED
    BY <2>1, <2>2, <2>3, <2>4 DEF Added
<1> HIDE DEF x
<1>6. Fit(N, macs, supressed, Advanced, calls, alts, made + 1)
  BY <1>2, <1>4, FitGrows
<1>7. eppic_newmac(macs, supressed, x) \in Lists(N, made + 1)
  <2>1. macs \in Lists(N, made + 1) /\ supressed \in SUBSET (1..made + 1)
    BY <1>6 DEF Fit
  <2>2. QED
    BY <1>4, <1>5, <2>1, NewmacStays
<1>8. Fit(N, eppic_newmac(macs, supressed, x), supressed, Advanced, calls, alts, made + 1)
  BY <1>6, <1>7 DEF Fit
<1>9. Fit(N, macs', supressed', inlist', calls', alts', made')
  BY <1>1, <1>8
<1>10. out' \in Seq(Names) /\ ppout' \in Seq(Names)
  BY <1>1 DEF Good
<1>11. made' \in Nat /\ made <= made'
  BY <1>1, <1>4
<1>12. QED
  BY <1>1, <1>2, <1>9, <1>10, <1>11, StillGood

LEMMA UndefineGood ==
    ASSUME NEW N, Good(N), eppic_undefine
    PROVE  Good(N)'
<1>1. /\ AtItem({"undef"}) /\ macs' = TakenOff(macs, supressed, Item.n)
      /\ inlist' = Advanced
      /\ UNCHANGED <<supressed, calls, alts, out, ppout, status, result, tag, made, text, nloads>>
  BY DEF eppic_undefine
<1>2. /\ status = "parsing" /\ Item \in Over(N) /\ Item.k = "undef"
      /\ Fit(N, macs, supressed, Advanced, calls, alts, made)
  BY <1>1, AtItemReads
<1>3. /\ made \in Nat /\ Len(Api) <= made /\ macs \in Lists(N, made)
      /\ supressed \in SUBSET (1..made)
  BY DEF Good, Fit
<1>4. Item.n \in N
  BY <1>2, ItemFields
<1>5. TakenOff(macs, supressed, Item.n) \in Lists(N, made)
  BY <1>3, <1>4, ListsClosed DEF Closed
<1>6. Fit(N, TakenOff(macs, supressed, Item.n), supressed, Advanced, calls, alts, made)
  BY <1>2, <1>5 DEF Fit
<1>7. Fit(N, macs', supressed', inlist', calls', alts', made')
  BY <1>1, <1>6
<1>8. out' \in Seq(Names) /\ ppout' \in Seq(Names)
  BY <1>1 DEF Good
<1>9. made' \in Nat /\ made <= made'
  BY <1>1, <1>3
<1>10. QED
  BY <1>1, <1>2, <1>7, <1>8, <1>9, StillGood

LEMMA IncludeGood ==
    ASSUME NEW N, Heard(N), Good(N), eppic_include
    PROVE  Good(N)'
<1> DEFINE t == Included[Item.n]
           b == Buffer("file", NoMac, t)
<1>1. /\ AtItem({"include"})
      /\ \/ /\ inlist' = Advanced
            /\ UNCHANGED <<macs, supressed, calls, alts, out, ppout, status, result, tag,
                           made, text, nloads>>
         \/ /\ Item.n \in DOMAIN Included /\ ~Full /\ inlist' = <<b>> \o Advanced
            /\ UNCHANGED <<macs, supressed, calls, alts, out, ppout, status, result, tag,
                           made, text, nloads>>
         \/ eppic_error
  BY DEF eppic_include
<1>2. /\ status = "parsing" /\ Fit(N, macs, supressed, Advanced, calls, alts, made)
      /\ Len(Advanced) = Len(inlist)
  BY <1>1, AtItemReads
<1>3. /\ made \in Nat /\ out \in Seq(Names) /\ ppout \in Seq(Names)
  BY DEF Good, Fit
<1> HIDE DEF b
<1>4. CASE eppic_error
  BY <1>2, <1>4, ErrorStays
<1>5. CASE /\ inlist' = Advanced
           /\ UNCHANGED <<macs, supressed, calls, alts, out, ppout, status, result, tag,
                          made, text, nloads>>
  <2>1. Fit(N, macs', supressed', inlist', calls', alts', made')
    BY <1>2, <1>5
  <2>2. made' \in Nat /\ made <= made' /\ out' \in Seq(Names) /\ ppout' \in Seq(Names)
    BY <1>3, <1>5
  <2>3. QED
    BY <1>2, <1>5, <2>1, <2>2, StillGood
<1>6. CASE /\ Item.n \in DOMAIN Included /\ ~Full /\ inlist' = <<b>> \o Advanced
           /\ UNCHANGED <<macs, supressed, calls, alts, out, ppout, status, result, tag,
                          made, text, nloads>>
  <2>1. t \in Seq(Over(N))
    BY <1>6 DEF Heard, Range
  <2> HIDE DEF t
  <2>2. b \in Bufs(N, made) /\ b.done = "file"
    BY <2>1, BufferTyped DEF b
  <2>3. Len(Advanced) # MAXIN
    BY <1>2, <1>6 DEF Full
  <2>4. Fit(N, macs, supressed, Pushed(b, Advanced), calls, alts, made)
    BY <1>2, <2>2, <2>3, FitPush
  <2>5. Fit(N, macs', supressed', inlist', calls', alts', made')
    BY <1>6, <2>4 DEF Pushed
  <2>6. made' \in Nat /\ made <= made' /\ out' \in Seq(Names) /\ ppout' \in Seq(Names)
    BY <1>3, <1>6
  <2>7. QED
    BY <1>2, <1>6, <2>5, <2>6, StillGood
<1>7. QED
  BY <1>1, <1>4, <1>5, <1>6

LEMMA PushenumsGood ==
    ASSUME NEW N \in SUBSET Names, Good(N), eppic_pushenums
    PROVE  Good(N)'
<1> DEFINE l == Enumerators(macs, supressed, Item.ns, made)
           new == made + Len(Item.ns)
<1>1. /\ AtItem({"enum"})
      /\ \/ eppic_error
         \/ /\ macs' = l /\ made' = new /\ inlist' = Advanced
            /\ UNCHANGED <<supressed, calls, alts, out, ppout, status, result, tag, text, nloads>>
  BY DEF eppic_pushenums
<1>2. /\ status = "parsing" /\ Item \in Over(N) /\ Item.k = "enum"
      /\ Fit(N, macs, supressed, Advanced, calls, alts, made)
  BY <1>1, AtItemReads
<1>3. /\ made \in Nat /\ Len(Api) <= made /\ macs \in Lists(N, made)
      /\ supressed \in SUBSET (1..made) /\ out \in Seq(Names) /\ ppout \in Seq(Names)
  BY DEF Good, Fit
<1>4. CASE eppic_error
  BY <1>2, <1>4, ErrorStays
<1>5. CASE /\ macs' = l /\ made' = new /\ inlist' = Advanced
           /\ UNCHANGED <<supressed, calls, alts, out, ppout, status, result, tag, text, nloads>>
  <2>1. Item.ns \in Seq(Names) /\ Range(Item.ns) \subseteq N
    BY <1>2, ItemFields
  <2>2. new \in Nat /\ made <= new
    BY <1>3, <2>1, LenProperties
  <2>3. l \in Lists(N, new)
    BY <1>3, <2>1, EnumeratorsStay
  <2> HIDE DEF l, new
  <2>4. Fit(N, macs, supressed, Advanced, calls, alts, new)
    BY <1>2, <2>2, FitGrows
  <2>5. Fit(N, l, supressed, Advanced, calls, alts, new)
    BY <2>3, <2>4 DEF Fit
  <2>6. Fit(N, macs', supressed', inlist', calls', alts', made')
    BY <1>5, <2>5
  <2>7. made' \in Nat /\ made <= made' /\ out' \in Seq(Names) /\ ppout' \in Seq(Names)
    BY <1>3, <1>5, <2>2
  <2>8. QED
    BY <1>2, <1>5, <2>6, <2>7, StillGood
<1>6. QED
  BY <1>1, <1>4, <1>5

LEMMA ZapifGood ==
    ASSUME NEW N, Good(N), eppic_zapif
    PROVE  Good(N)'
<1> DEFINE ts == Tail(Top.rest)
           t == SubSeq(ts, Min(Endifs(ts)) + 1, Len(ts))
           bs == Alternatives(Item.cond, ts)
<1>1. /\ AtItem({"if"})
      /\ \/ eppic_error
         \/ /\ ~MalformedIf(ts) /\ alts' = bs
            /\ inlist' = <<[Top EXCEPT !.rest = t]>> \o Tail(inlist)
            /\ UNCHANGED <<macs, supressed, calls, out, ppout, status, result, tag,
                           made, text, nloads>>
  BY DEF eppic_zapif
<1>2. /\ status = "parsing" /\ inlist # << >> /\ Item \in Over(N) /\ Item.k = "if"
      /\ ts \in Seq(Over(N))
  BY <1>1, AtItemReads
<1>3. /\ Fit(N, macs, supressed, inlist, calls, alts, made)
      /\ made \in Nat /\ out \in Seq(Names) /\ ppout \in Seq(Names)
  BY DEF Good, Fit
<1>4. CASE eppic_error
  BY <1>2, <1>4, ErrorStays
<1>5. CASE /\ ~MalformedIf(ts) /\ alts' = bs
           /\ inlist' = <<[Top EXCEPT !.rest = t]>> \o Tail(inlist)
           /\ UNCHANGED <<macs, supressed, calls, out, ppout, status, result, tag,
                          made, text, nloads>>
  <2> HIDE DEF ts
  <2>1. Item.cond \in Conditions
    BY <1>2, ItemFields
  <2>2. bs \in Seq(Blocks(N)) /\ bs # << >> /\ t \in Seq(Over(N))
    <3> DEFINE c == Item.cond
    <3>1. c \in Conditions
      BY <2>1
    <3> HIDE DEF c
    <3>2. /\ Alternatives(c, ts) \in Seq([cond : Conditions, body : Seq(Over(N))])
          /\ Alternatives(c, ts) # << >> /\ t \in Seq(Over(N))
      BY <1>2, <1>5, <3>1, BlocksTyped
    <3>3. QED
      BY <3>2 DEF Blocks, c
  <2> HIDE DEF bs, t
  <2>3. Fit(N, macs, supressed, Rested(t, inlist), calls, bs, made)
    BY <1>2, <1>3, <2>2, FitRest
  <2>4. inlist' = Rested(t, inlist)
    BY <1>5 DEF Rested, Top
  <2>5. Fit(N, macs', supressed', inlist', calls', alts', made')
    BY <1>5, <2>3, <2>4
  <2>6. made' \in Nat /\ made <= made' /\ out' \in Seq(Names) /\ ppout' \in Seq(Names)
    BY <1>3, <1>5
  <2>7. QED
    BY <1>2, <1>5, <2>5, <2>6, StillGood
<1>6. QED
  BY <1>1, <1>4, <1>5

LEMMA StrayDirectiveGood ==
    ASSUME NEW N, Good(N), StrayDirective
    PROVE  Good(N)'
<1>1. AtItem({"elif", "else", "endif"}) /\ eppic_error
  BY DEF StrayDirective
<1>2. status = "parsing"
  BY <1>1 DEF AtItem, Lexing
<1>3. QED
  BY <1>1, <1>2, ErrorStays

\* One block is decided, with the stack that it would be read from.
LEMMA DecideGood ==
    ASSUME NEW N, Good(N), status = "parsing", NEW bufs, bufs # << >>, Exprs(bufs) = {},
           alts # << >>, Fit(N, macs, supressed, bufs, calls, alts, made),
           NEW b \in BOOLEAN, Decide(b, bufs),
           UNCHANGED <<macs, supressed, calls, out, ppout, status, result, tag, made,
                       text, nloads>>
    PROVE  Good(N)'
<1>1. /\ alts' = IF b THEN << >> ELSE Tail(alts)
      /\ inlist' = IF b THEN Rested(alts[1].body \o bufs[1].rest, bufs) ELSE bufs
  BY DEF Decide, Reading, Rested
<1>2. /\ Fit(N, macs, supressed, Rested(alts[1].body \o bufs[1].rest, bufs), calls, << >>, made)
      /\ Fit(N, macs, supressed, bufs, calls, Tail(alts), made)
  BY FitDecide
<1>3. Fit(N, macs, supressed, inlist', calls, alts', made)
  BY <1>1, <1>2
<1>4. Fit(N, macs', supressed', inlist', calls', alts', made')
  BY <1>3
<1>5. made' \in Nat /\ made <= made' /\ out' \in Seq(Names) /\ ppout' \in Seq(Names)
  <2>1. made \in Nat /\ out \in Seq(Names) /\ ppout \in Seq(Names)
    BY DEF Good, Fit
  <2>2. QED
    BY <2>1
<1>6. QED
  BY <1>4, <1>5, StillGood

LEMMA TryBlockGood ==
    ASSUME NEW N, Good(N), TryBlock
    PROVE  Good(N)'
<1> DEFINE cond == alts[1].cond
           yes == cond.t = "else" \/ (cond.t = "ifdef") =
                    (eppic_getmac(macs, supressed, cond.n) # NoMac)
           b == Buffer("expr", NoMac, cond.text)
<1>1. /\ status = "parsing" /\ alts # << >> /\ Exprs(inlist) = {}
  BY DEF TryBlock, Inpp, Exprs
<1>2. \/ /\ Decide(yes, inlist)
         /\ UNCHANGED <<macs, supressed, calls, out, ppout, status, result, tag,
                        made, text, nloads>>
      \/ /\ cond.t = "expr" /\ ~Full /\ inlist' = <<b>> \o inlist /\ ppout' = << >>
         /\ UNCHANGED <<macs, supressed, calls, alts, out, status, result, tag,
                        made, text, nloads>>
      \/ eppic_error
  BY DEF TryBlock
<1>3. /\ Fit(N, macs, supressed, inlist, calls, alts, made) /\ inlist # << >>
      /\ made \in Nat /\ out \in Seq(Names) /\ alts \in Seq(Blocks(N))
  BY <1>1 DEF Good, Fit, Shaped
<1>4. yes \in BOOLEAN
  OBVIOUS
<1> HIDE DEF yes
<1>5. CASE eppic_error
  BY <1>1, <1>5, ErrorStays
<1>6. CASE /\ Decide(yes, inlist)
           /\ UNCHANGED <<macs, supressed, calls, out, ppout, status, result, tag,
                          made, text, nloads>>
  BY <1>1, <1>3, <1>4, <1>6, DecideGood
<1>7. CASE /\ cond.t = "expr" /\ ~Full /\ inlist' = <<b>> \o inlist /\ ppout' = << >>
           /\ UNCHANGED <<macs, supressed, calls, alts, out, status, result, tag,
                          made, text, nloads>>
  <2>1. cond \in Conditions
    <3> DEFINE d == Len(alts)
    <3>1. d \in Nat \ {0}
      BY <1>1, <1>3, EmptySeq
    <3> HIDE DEF d
    <3>2. 1 \in 1..d
      BY <3>1
    <3>3. alts[1] \in Blocks(N)
      BY <1>3, <3>2, ElementOfSeq DEF d
    <3>4. QED
      BY <3>3 DEF Blocks
  <2>2. cond.text \in Seq(Plain)
    <3> HIDE DEF cond
    <3>1. QED
      BY <1>7, <2>1, CondFields
  <2>3. cond.text \in Seq(Over(N))
    BY <2>2, PlainIsOver
  <2>4. b \in Bufs(N, made)
    <3> DEFINE u == cond.text
    <3>1. u \in Seq(Over(N))
      BY <2>3
    <3> HIDE DEF u
    <3>2. Buffer("expr", NoMac, u) \in Bufs(N, made)
      BY <3>1, BufferTyped
    <3>3. QED
      BY <3>2 DEF u
  <2> HIDE DEF b
  <2>5. Len(inlist) # MAXIN
    BY <1>7 DEF Full
  <2>6. Fit(N, macs, supressed, Pushed(b, inlist), calls, alts, made)
    BY <1>1, <1>3, <2>4, <2>5, FitPush
  <2>7. Fit(N, macs', supressed', inlist', calls', alts', made')
    BY <1>7, <2>6 DEF Pushed
  <2>8. made' \in Nat /\ made <= made' /\ out' \in Seq(Names) /\ ppout' \in Seq(Names)
    BY <1>3, <1>7, EmptySeq
  <2>9. QED
    BY <1>1, <1>7, <2>7, <2>8, StillGood
<1>8. QED
  BY <1>2, <1>5, <1>6, <1>7

LEMMA EndExpressionGood ==
    ASSUME NEW N, Good(N), EndExpression
    PROVE  Good(N)'
<1>1. /\ status = "parsing" /\ inlist # << >> /\ inlist[1].done = "expr"
      /\ alts = << >> \/ Exprs(inlist) # {}
  BY DEF EndExpression, Lexing, Inpp, Exprs, Top
<1>2. \/ /\ Decide(ppout[1] = "1", Tail(inlist))
         /\ UNCHANGED <<macs, supressed, calls, out, ppout, status, result, tag, made,
                        text, nloads>>
      \/ eppic_error
  BY DEF EndExpression
<1>3. CASE eppic_error
  BY <1>1, <1>3, ErrorStays
<1>4. CASE /\ Decide(ppout[1] = "1", Tail(inlist))
           /\ UNCHANGED <<macs, supressed, calls, out, ppout, status, result, tag, made,
                          text, nloads>>
  <2>1. Fit(N, macs, supressed, inlist, calls, alts, made)
    BY DEF Good
  <2> DEFINE bufs == Tail(inlist)
             b == ppout[1] = "1"
  <2>2. /\ Fit(N, macs, supressed, bufs, calls, alts, made)
        /\ alts # << >> /\ bufs # << >> /\ Exprs(bufs) = {}
    BY <1>1, <2>1, FitPop
  <2>3. b \in BOOLEAN
    OBVIOUS
  <2>4. Decide(b, bufs)
    BY <1>4
  <2> HIDE DEF bufs, b
  <2>5. QED
    BY <1>1, <1>4, <2>2, <2>3, <2>4, DecideGood
<1>5. QED
  BY <1>2, <1>3, <1>4

LEMMA InitGood ==
    ASSUME NEW N, Init
    PROVE  Good(N)
<1>1. Len(Api) \in Nat /\ ApiMacs \in Lists(N, Len(Api))
  <2>1. Len(Api) \in Nat
    BY ApiKnown
  <2>2. Len(Api) <= Len(Api)
    BY <2>1
  <2>3. QED
    BY <2>1, <2>2, ListsKnown
<1> DEFINE n == Len(Api)
<1>2. n \in Nat /\ Len(Api) <= n /\ ApiMacs \in Lists(N, n) /\ {} \in SUBSET (1..n)
  BY <1>1
<1>3. Fit(N, ApiMacs, {}, << >>, << >>, << >>, n)
  <2> HIDE DEF n
  <2>1. QED
    BY <1>2, FitEmpty
<1>4. /\ macs = ApiMacs /\ supressed = {} /\ inlist = << >> /\ calls = << >> /\ alts = << >>
      /\ out = << >> /\ ppout = << >> /\ status = "idle" /\ result = "none"
      /\ tag = 0 /\ made = n /\ nloads = 0
  BY DEF Init
<1>5. Fit(N, macs, supressed, inlist, calls, alts, made)
  BY <1>3, <1>4
<1>6. /\ out \in Seq(Names) /\ ppout \in Seq(Names) /\ tag \in 0..made /\ nloads \in 0..MaxLoads
  BY <1>2, <1>4, EmptySeq, MacroAssumption
<1> HIDE DEF n
<1>7. QED
  BY <1>4, <1>5, <1>6 DEF Good

LEMMA NextGood ==
    ASSUME NEW N \in SUBSET Names, Heard(N), Good(N), [Next]_vars
    PROVE  Good(N)'
<1>1. CASE BeginLoad
  BY <1>1, BeginLoadGood
<1>2. CASE PopBuffer
  BY <1>2, PopBufferGood
<1>3. CASE EndParse
  BY <1>3, EndParseGood
<1>4. CASE eppic_chkmacvar
  BY <1>4, ChkmacvarGood
<1>5. CASE LexMark
  BY <1>5, LexMarkGood
<1>6. CASE eppic_pushmac
  BY <1>6, PushmacGood
<1>7. CASE eppic_define
  BY <1>7, DefineGood
<1>8. CASE eppic_undefine
  BY <1>8, UndefineGood
<1>9. CASE eppic_include
  BY <1>9, IncludeGood
<1>10. CASE eppic_pushenums
  BY <1>10, PushenumsGood
<1>11. CASE eppic_zapif
  BY <1>11, ZapifGood
<1>12. CASE StrayDirective
  BY <1>12, StrayDirectiveGood
<1>13. CASE TryBlock
  BY <1>13, TryBlockGood
<1>14. CASE EndExpression
  BY <1>14, EndExpressionGood
<1>15. CASE UNCHANGED vars
  BY <1>15 DEF vars, Good
<1>16. QED
  BY <1>1, <1>2, <1>3, <1>4, <1>5, <1>6, <1>7, <1>8, <1>9, <1>10, <1>11, <1>12, <1>13,
     <1>14, <1>15 DEF Next, Step

\* Every text of items keeps to all names.
LEMMA AllHeard ==
    Names \in SUBSET Names /\ Heard(Names)
<1>1. Items \subseteq Over(Names)
  <2>1. SUFFICES ASSUME NEW item \in Items PROVE Touched(item) \subseteq Names
    BY DEF Over
  <2>2. CASE item.k = "define"
    <3>1. item \in [k : {"define"}, n : Names, fn : BOOLEAN, ps : Seq(Names), text : Seq(Plain)]
      BY <2>2 DEF Items, Plain
    <3>2. item.n \in Names /\ item.ps \in Seq(Names)
      BY <3>1
    <3>3. Range(item.ps) \subseteq Names
      BY <3>2, RangeOfSeq
    <3>4. QED
      BY <2>2, <3>2, <3>3 DEF Touched
  <2>3. CASE item.k = "undef"
    BY <2>3 DEF Items, Plain, Touched
  <2>4. CASE item.k = "enum"
    <3>1. item.ns \in Seq(Names)
      BY <2>4 DEF Items, Plain
    <3>2. Range(item.ns) \subseteq Names
      BY <3>1, RangeOfSeq
    <3>3. QED
      BY <2>4, <3>2 DEF Touched
  <2>5. CASE item.k \notin {"define", "undef", "enum"}
    BY <2>5 DEF Touched
  <2>6. QED
    BY <2>2, <2>3, <2>4, <2>5
<1>2. \A t \in Seq(Items) : t \in Seq(Over(Names))
  BY <1>1, SeqMonotonic
<1>3. QED
  BY <1>2, MacroAssumption DEF Heard

\* Texts that leave the host's names alone keep to the others.
Others == Names \ HostNames

LEMMA OthersHeard ==
    ASSUME HostUntouched
    PROVE  Others \in SUBSET Names /\ Heard(Others) /\ Apart(Others)
<1>1. ASSUME NEW t \in Files \cup Range(Included) PROVE t \in Seq(Over(Others))
  <2>1. t \in Seq(Items) /\ t \in Seq(Over(Names))
    BY MacroAssumption, AllHeard DEF Heard
  <2>2. Len(t) \in Nat /\ t \in [1..Len(t) -> Items]
    BY <2>1, LenProperties
  <2>3. \A i \in 1..Len(t) : t[i] \in Over(Others)
    <3>1. SUFFICES ASSUME NEW i \in 1..Len(t) PROVE t[i] \in Over(Others)
      OBVIOUS
    <3>2. t[i] \in Items /\ t[i] \in Over(Names)
      BY <2>1, ElementOfSeq
    <3>3. t[i] \in Range(t)
      BY <2>2 DEF Range
    <3>4. Touched(t[i]) \cap HostNames = {}
      BY <3>3 DEF HostUntouched
    <3>5. Touched(t[i]) \subseteq Names
      BY <3>2 DEF Over
    <3>6. QED
      BY <3>2, <3>4, <3>5 DEF Over, Others
  <2>4. t \in [1..Len(t) -> Over(Others)]
    BY <2>2, <2>3
  <2>5. QED
    BY <2>2, <2>4
<1>2. Apart(Others)
  BY DEF Apart, Others
<1>3. Others \in SUBSET Names
  BY DEF Others
<1>4. QED
  BY <1>1, <1>2, <1>3 DEF Heard

-----------------------------------------------------------------------------
LEMMA GoodIsTyped ==
    ASSUME Good(Names)
    PROVE  TypeOK
<1> DEFINE K == Known(Names, made)
<1>1. /\ macs \in Lists(Names, made) /\ supressed \in SUBSET (1..made)
      /\ inlist \in Seq(Bufs(Names, made)) /\ Len(inlist) <= MAXIN
      /\ calls \in Seq(Callable(Names, made)) /\ alts \in Seq(Blocks(Names))
      /\ out \in Seq(Names) /\ ppout \in Seq(Names)
      /\ status \in {"idle", "parsing", "hung", "crashed"}
      /\ result \in {"none", "ok", "error"}
      /\ nloads \in 0..MaxLoads /\ tag \in 0..made /\ made \in Nat /\ Len(Api) <= made
  BY DEF Good, Fit
<1>2. macs \in Seq(K)
  BY <1>1, ListsKnown
<1>3. Over(Names) \subseteq Items
  BY DEF Over
<1>4. \A u \in Seq(Over(Names)) : u \in Seq(Items)
  BY <1>3, SeqMonotonic
<1>5. K \subseteq MacsOf(Items)
  BY <1>4 DEF Known, MacsOf
<1>6. macs \in Seq(MacsOf(Items))
  BY <1>2, <1>5, SeqMonotonic
<1>7. \A i \in DOMAIN macs : macs[i].id \in 1..made /\ macs[i].m \in 1..made
  <2>1. \A i \in DOMAIN macs : macs[i] \in K
    BY <1>2, LenProperties, ElementOfSeq
  <2>2. \A x \in K : x.id \in 1..made /\ x.m \in 1..made
    BY KnownFields
  <2> HIDE DEF K
  <2>3. QED
    BY <2>1, <2>2
<1>8. Bufs(Names, made) \subseteq BuffersOf(Items)
  <2>1. SUFFICES ASSUME NEW b \in Bufs(Names, made) PROVE b \in BuffersOf(Items)
    OBVIOUS
  <2>2. b \in [done : {"file", "popmac", "popsub", "expr"}, mac : K \cup {NoMac},
               rest : Seq(Over(Names))]
    BY DEF Bufs
  <2>3. K \cup {NoMac} \subseteq MacsOf(Items) \cup {NoMac}
    BY <1>5
  <2> HIDE DEF K
  <2>4. QED
    BY <1>4, <2>2, <2>3 DEF BuffersOf
<1>9. inlist \in Seq(BuffersOf(Items))
  BY <1>1, <1>8, SeqMonotonic
<1>10. \A i \in DOMAIN inlist : inlist[i].done \in {"popmac", "popsub"} => inlist[i].mac # NoMac
  <2>1. \A i \in DOMAIN inlist : inlist[i] \in Bufs(Names, made)
    BY <1>1, LenProperties, ElementOfSeq
  <2>2. QED
    BY <2>1 DEF Bufs
<1>11. calls \in Seq(MacsOf(Items)) /\ \A i \in DOMAIN calls : calls[i].fn
  <2>1. Callable(Names, made) \subseteq MacsOf(Items)
    BY <1>5 DEF Callable
  <2>2. \A i \in DOMAIN calls : calls[i] \in Callable(Names, made)
    BY <1>1, LenProperties, ElementOfSeq
  <2>3. calls \in Seq(MacsOf(Items))
    BY <1>1, <2>1, SeqMonotonic
  <2>4. QED
    BY <2>2, <2>3 DEF Callable
<1>12. alts \in Seq([cond : Conditions, body : Seq(Items)])
  <2>1. Blocks(Names) \subseteq [cond : Conditions, body : Seq(Items)]
    BY <1>4 DEF Blocks
  <2>2. QED
    BY <1>1, <2>1, SeqMonotonic
<1> HIDE DEF K
<1>13. QED
  BY <1>1, <1>6, <1>7, <1>9, <1>10, <1>11, <1>12 DEF TypeOK

(***************************************************************************)
(* The types, whatever the texts are: the input stack keeps its limit, the  *)
(* buffers with a macro have one, the marks are those of macros that were   *)
(* made (eppic_input.c, eppic_define.c).                                    *)
(***************************************************************************)
THEOREM MacroTypes == Spec => []TypeOK
<1>1. Init => Good(Names)
  BY InitGood
<1>2. Good(Names) /\ [Next]_vars => Good(Names)'
  BY AllHeard, NextGood
<1>3. Good(Names) => TypeOK
  BY GoodIsTyped
<1>4. QED
  BY <1>1, <1>2, <1>3, PTL DEF Spec

(***************************************************************************)
(* A load leaves nothing behind: whatever its texts do with other names,    *)
(* wherever they stop with an error and however deep the stack is then, the *)
(* host's defines are what they were and no buffer, call or block is left    *)
(* (eppic_newfile, eppic_flushmacs, eppic_popallin).                         *)
(***************************************************************************)
THEOREM NothingStays ==
    ASSUME HostUntouched
    PROVE  Spec => []NoResidue
<1>1. Init => Good(Others)
  BY InitGood
<1>2. Good(Others) /\ [Next]_vars => Good(Others)'
  BY OthersHeard, NextGood
<1>3. Good(Others) => NoResidue
  BY OthersHeard DEF Good, NoResidue
<1>4. QED
  BY <1>1, <1>2, <1>3, PTL DEF Spec

-----------------------------------------------------------------------------
(* The marks.  A mark on a macro with parameters is that of one popsub       *)
(* buffer, which took it when the parameter was not hidden: so no two        *)
(* parameters of a macro are being read, and what pops last unmarks.  Marks  *)
(* of other macros do not get in the way, since an identity is never that of *)
(* a macro with parameters and of one without.                              *)

Plainly(x) == ~x.issub /\ ~x.fn
Unlike(Z) == \A x, y \in Z : x.m = y.m => (Plainly(x) <=> Plainly(y))

Bearing(bufs) == {i \in DOMAIN bufs : bufs[i].done \in {"popmac", "popsub"}}
Subbing(bufs) == {i \in DOMAIN bufs : bufs[i].done = "popsub"}
Held(ms, cs, bufs) == Range(ms) \cup Range(cs) \cup {bufs[i].mac : i \in Bearing(bufs)}

Marking(bufs, sup) ==
    /\ \A i \in Subbing(bufs) : /\ ~bufs[i].mac.fn
                                /\ bufs[i].mac.issub => bufs[i].mac.m \in sup
    /\ \A i, j \in Subbing(bufs) :
            bufs[i].mac.issub /\ bufs[j].mac.issub /\ bufs[i].mac.m = bufs[j].mac.m => i = j
Marked(ms, bufs, sup) ==
    \A f \in Range(ms) : f.fn /\ f.id \in sup =>
        \E i \in Subbing(bufs) : bufs[i].mac.m = f.id

Mirrored(ms, cs, bufs, sup) ==
    Unlike(Held(ms, cs, bufs)) /\ Marking(bufs, sup) /\ Marked(ms, bufs, sup)

LEMMA PushedPlaces ==
    ASSUME NEW S, NEW b \in S, NEW bufs \in Seq(S)
    PROVE  /\ 1 \in DOMAIN Pushed(b, bufs) /\ Pushed(b, bufs)[1] = b
           /\ \A i \in DOMAIN Pushed(b, bufs) :
                i # 1 => i - 1 \in DOMAIN bufs /\ Pushed(b, bufs)[i] = bufs[i - 1] /\ i \in Int
           /\ \A i \in DOMAIN bufs : /\ i + 1 \in DOMAIN Pushed(b, bufs)
                                     /\ Pushed(b, bufs)[i + 1] = bufs[i]
<1> DEFINE c == Len(bufs)
           p == Pushed(b, bufs)
<1>1. /\ p \in Seq(S) /\ Len(p) = c + 1 /\ c \in Nat /\ p[1] = b
      /\ \A i \in 1..c : p[i + 1] = bufs[i]
      /\ \A i \in 2..c + 1 : p[i] = bufs[i - 1]
  <2>1. /\ Pushed(b, bufs) \in Seq(S) /\ Len(Pushed(b, bufs)) = Len(bufs) + 1
        /\ Len(bufs) \in Nat /\ Pushed(b, bufs)[1] = b
    BY PushedIs
  <2>2. \A i \in 1..Len(bufs) : Pushed(b, bufs)[i + 1] = bufs[i]
    BY PushedIs
  <2>3. \A i \in 2..Len(bufs) + 1 : Pushed(b, bufs)[i] = bufs[i - 1]
    BY PushedIs
  <2>4. QED
    BY <2>1, <2>2, <2>3
<1>2. DOMAIN p = 1..c + 1 /\ DOMAIN bufs = 1..c
  BY <1>1, LenProperties
<1> HIDE DEF p, c
<1>3. 1 \in 1..c + 1 /\ \A i \in 1..c : i + 1 \in 1..c + 1
  BY <1>1
<1>4. \A i \in 1..c + 1 : i # 1 => i \in 2..c + 1 /\ i - 1 \in 1..c /\ i \in Int
  BY <1>1
<1>5. QED
  BY <1>1, <1>2, <1>3, <1>4 DEF p

LEMMA TailPlaces ==
    ASSUME NEW S, NEW bufs \in Seq(S), bufs # << >>
    PROVE  /\ 1 \in DOMAIN bufs
           /\ \A i \in DOMAIN Tail(bufs) : /\ i + 1 \in DOMAIN bufs /\ i + 1 # 1 /\ i \in Int
                                           /\ Tail(bufs)[i] = bufs[i + 1]
           /\ \A i \in DOMAIN bufs : i # 1 =>
                /\ i - 1 \in DOMAIN Tail(bufs) /\ Tail(bufs)[i - 1] = bufs[i]
<1> DEFINE c == Len(bufs)
           p == Tail(bufs)
<1>1. /\ p \in Seq(S) /\ Len(p) = c - 1 /\ c \in Nat \ {0}
      /\ \A i \in 1..c - 1 : p[i] = bufs[i + 1]
  BY HeadTailProperties, EmptySeq
<1>2. DOMAIN p = 1..c - 1 /\ DOMAIN bufs = 1..c
  BY <1>1, LenProperties
<1> HIDE DEF p, c
<1>3. 1 \in 1..c /\ \A i \in 1..c - 1 : i + 1 \in 1..c /\ i + 1 # 1 /\ i \in Int
  BY <1>1
<1>4. \A i \in 1..c : i # 1 => i - 1 \in 1..c - 1 /\ (i - 1) + 1 = i
  BY <1>1
<1>5. \A i \in 1..c : i # 1 => p[i - 1] = bufs[i]
  BY <1>1, <1>4
<1>6. QED
  BY <1>1, <1>2, <1>3, <1>4, <1>5 DEF p

LEMMA UnlikeLess ==
    ASSUME NEW Z, NEW Y, Unlike(Z), Y \subseteq Z
    PROVE  Unlike(Y)
BY DEF Unlike

LEMMA HeldPush ==
    ASSUME NEW S, NEW b \in S, NEW bufs \in Seq(S), NEW ms, NEW cs,
           b.done \in {"popmac", "popsub"} => b.mac \in Held(ms, cs, bufs)
    PROVE  Held(ms, cs, Pushed(b, bufs)) \subseteq Held(ms, cs, bufs)
<1> DEFINE p == Pushed(b, bufs)
<1>1. ASSUME NEW i \in Bearing(p) PROVE p[i].mac \in Held(ms, cs, bufs)
  <2>1. i \in DOMAIN p /\ p[i].done \in {"popmac", "popsub"}
    BY DEF Bearing
  <2>2. CASE i = 1
    <3>1. p[i] = b
      BY <2>2, PushedPlaces
    <3>2. QED
      BY <2>1, <3>1
  <2>3. CASE i # 1
    <3>1. i - 1 \in DOMAIN bufs /\ p[i] = bufs[i - 1]
      BY <2>1, <2>3, PushedPlaces
    <3> DEFINE j == i - 1
    <3>2. j \in DOMAIN bufs /\ p[i] = bufs[j]
      BY <3>1
    <3> HIDE DEF j, p
    <3>3. j \in Bearing(bufs)
      BY <2>1, <3>2 DEF Bearing
    <3>4. QED
      BY <3>2, <3>3 DEF Held
  <2>4. QED
    BY <2>2, <2>3
<1> HIDE DEF p
<1>2. Held(ms, cs, p) \subseteq Held(ms, cs, bufs)
  BY <1>1 DEF Held
<1>3. QED
  BY <1>2 DEF p

LEMMA HeldPop ==
    ASSUME NEW S, NEW bufs \in Seq(S), bufs # << >>, NEW ms, NEW cs
    PROVE  /\ Held(ms, cs, Tail(bufs)) \subseteq Held(ms, cs, bufs)
           /\ bufs[1].done \in {"popmac", "popsub"} => bufs[1].mac \in Held(ms, cs, bufs)
<1> DEFINE p == Tail(bufs)
<1>1. ASSUME NEW i \in Bearing(p) PROVE p[i].mac \in Held(ms, cs, bufs)
  <2>1. i \in DOMAIN p /\ p[i].done \in {"popmac", "popsub"}
    BY DEF Bearing
  <2> DEFINE j == i + 1
  <2>2. j \in DOMAIN bufs /\ p[i] = bufs[j]
    BY <2>1, TailPlaces
  <2> HIDE DEF j, p
  <2>3. j \in Bearing(bufs)
    BY <2>1, <2>2 DEF Bearing
  <2>4. QED
    BY <2>2, <2>3 DEF Held
<1>2. bufs[1].done \in {"popmac", "popsub"} => bufs[1].mac \in Held(ms, cs, bufs)
  <2>1. 1 \in DOMAIN bufs
    BY TailPlaces
  <2>2. QED
    BY <2>1 DEF Held, Bearing
<1> HIDE DEF p
<1>3. Held(ms, cs, p) \subseteq Held(ms, cs, bufs)
  BY <1>1 DEF Held
<1>4. QED
  BY <1>2, <1>3 DEF p

\* The text of a macro is pushed, or of a file, or an expression.
LEMMA MirroredPush ==
    ASSUME NEW S, NEW b \in S, NEW bufs \in Seq(S), NEW ms, NEW cs, NEW sup,
           Mirrored(ms, cs, bufs, sup), b.done # "popsub",
           b.done = "popmac" => b.mac \in Held(ms, cs, bufs)
    PROVE  Mirrored(ms, cs, Pushed(b, bufs), sup)
<1> DEFINE p == Pushed(b, bufs)
<1>1. Unlike(Held(ms, cs, p))
  <2>1. Held(ms, cs, p) \subseteq Held(ms, cs, bufs)
    BY HeldPush
  <2>2. QED
    BY <2>1, UnlikeLess DEF Mirrored
<1>2. \A i \in Subbing(p) : i \in Int /\ i - 1 \in Subbing(bufs) /\ p[i] = bufs[i - 1]
  <2>1. SUFFICES ASSUME NEW i \in Subbing(p)
                 PROVE  i \in Int /\ i - 1 \in Subbing(bufs) /\ p[i] = bufs[i - 1]
    OBVIOUS
  <2>2. i \in DOMAIN p /\ p[i].done = "popsub"
    BY DEF Subbing
  <2>3. p[1] = b
    BY PushedPlaces
  <2>4. i # 1
    BY <2>2, <2>3
  <2>5. i \in Int /\ i - 1 \in DOMAIN bufs /\ p[i] = bufs[i - 1]
    BY <2>2, <2>4, PushedPlaces
  <2> HIDE DEF p
  <2>6. QED
    BY <2>2, <2>5 DEF Subbing
<1>3. \A i \in Subbing(bufs) : i + 1 \in Subbing(p) /\ p[i + 1] = bufs[i]
  <2>1. SUFFICES ASSUME NEW i \in Subbing(bufs)
                 PROVE  i + 1 \in Subbing(p) /\ p[i + 1] = bufs[i]
    OBVIOUS
  <2>2. i \in DOMAIN bufs /\ bufs[i].done = "popsub"
    BY DEF Subbing
  <2>3. i + 1 \in DOMAIN p /\ p[i + 1] = bufs[i]
    BY <2>2, PushedPlaces
  <2> HIDE DEF p
  <2>4. QED
    BY <2>2, <2>3 DEF Subbing
<1> HIDE DEF p
<1>4. Marking(p, sup)
  <2>1. \A i \in Subbing(p) : /\ ~p[i].mac.fn
                              /\ p[i].mac.issub => p[i].mac.m \in sup
    BY <1>2 DEF Mirrored, Marking
  <2>2. ASSUME NEW i \in Subbing(p), NEW j \in Subbing(p),
               p[i].mac.issub, p[j].mac.issub, p[i].mac.m = p[j].mac.m
        PROVE  i = j
    <3>1. i - 1 = j - 1
      BY <1>2, <2>2 DEF Mirrored, Marking
    <3>2. i \in Int /\ j \in Int
      BY <1>2
    <3>3. QED
      BY <3>1, <3>2
  <2>3. QED
    BY <2>1, <2>2 DEF Marking
<1>5. Marked(ms, p, sup)
  <2>1. SUFFICES ASSUME NEW f \in Range(ms), f.fn, f.id \in sup
                 PROVE  \E i \in Subbing(p) : p[i].mac.m = f.id
    BY DEF Marked
  <2>2. PICK i \in Subbing(bufs) : bufs[i].mac.m = f.id
    BY <2>1 DEF Mirrored, Marked
  <2>3. i + 1 \in Subbing(p) /\ p[i + 1].mac.m = f.id
    BY <1>3, <2>2
  <2>4. QED
    BY <2>3
<1>6. QED
  BY <1>1, <1>4, <1>5 DEF Mirrored, p

\* The substitution of a parameter, or the text of a macro without any, is pushed.
LEMMA MirroredSub ==
    ASSUME NEW S, NEW b \in S, NEW bufs \in Seq(S), NEW ms, NEW cs, NEW sup,
           Mirrored(ms, cs, bufs, sup), b.done = "popsub", b.mac \in Held(ms, cs, bufs),
           ~b.mac.fn, ~Hidden(b.mac, sup)
    PROVE  Mirrored(ms, cs, Pushed(b, bufs), sup \cup {b.mac.m})
<1> DEFINE p == Pushed(b, bufs)
           now == sup \cup {b.mac.m}
<1>1. Unlike(Held(ms, cs, p))
  <2>1. Held(ms, cs, p) \subseteq Held(ms, cs, bufs)
    BY HeldPush
  <2>2. QED
    BY <2>1, UnlikeLess DEF Mirrored
<1>2. \A i \in Subbing(p) : \/ i = 1
                            \/ i \in Int /\ i - 1 \in Subbing(bufs) /\ p[i] = bufs[i - 1]
  <2>1. SUFFICES ASSUME NEW i \in Subbing(p), i # 1
                 PROVE  i \in Int /\ i - 1 \in Subbing(bufs) /\ p[i] = bufs[i - 1]
    OBVIOUS
  <2>2. i \in DOMAIN p /\ p[i].done = "popsub"
    BY DEF Subbing
  <2>3. i \in Int /\ i - 1 \in DOMAIN bufs /\ p[i] = bufs[i - 1]
    BY <2>1, <2>2, PushedPlaces
  <2> HIDE DEF p
  <2>4. QED
    BY <2>2, <2>3 DEF Subbing
<1>3. \A i \in Subbing(bufs) : i + 1 \in Subbing(p) /\ p[i + 1] = bufs[i]
  <2>1. SUFFICES ASSUME NEW i \in Subbing(bufs)
                 PROVE  i + 1 \in Subbing(p) /\ p[i + 1] = bufs[i]
    OBVIOUS
  <2>2. i \in DOMAIN bufs /\ bufs[i].done = "popsub"
    BY DEF Subbing
  <2>3. i + 1 \in DOMAIN p /\ p[i + 1] = bufs[i]
    BY <2>2, PushedPlaces
  <2> HIDE DEF p
  <2>4. QED
    BY <2>2, <2>3 DEF Subbing
<1>4. p[1] = b /\ 1 \in Subbing(p)
  <2>1. 1 \in DOMAIN p /\ p[1] = b
    BY PushedPlaces
  <2> HIDE DEF p
  <2>2. QED
    BY <2>1 DEF Subbing
<1> HIDE DEF p
<1>5. b.mac.issub => b.mac.m \notin sup
  BY DEF Hidden
<1>6. Marking(p, now)
  <2>1. ASSUME NEW i \in Subbing(p)
        PROVE  ~p[i].mac.fn /\ (p[i].mac.issub => p[i].mac.m \in now)
    <3>1. CASE i = 1
      BY <1>4, <3>1
    <3>2. CASE i # 1
      BY <1>2, <3>2 DEF Mirrored, Marking
    <3>3. QED
      BY <3>1, <3>2
  <2>2. ASSUME NEW i \in Subbing(p), i # 1, p[i].mac.issub, b.mac.issub
        PROVE  p[i].mac.m # b.mac.m
    <3>1. p[i].mac.m \in sup
      BY <1>2, <2>2 DEF Mirrored, Marking
    <3>2. QED
      BY <1>5, <2>2, <3>1
  <2>3. ASSUME NEW i \in Subbing(p), NEW j \in Subbing(p),
               p[i].mac.issub, p[j].mac.issub, p[i].mac.m = p[j].mac.m
        PROVE  i = j
    <3>1. CASE i = 1 \/ j = 1
      BY <1>4, <2>2, <2>3, <3>1
    <3>2. CASE i # 1 /\ j # 1
      <4>1. i - 1 = j - 1
        BY <1>2, <2>3, <3>2 DEF Mirrored, Marking
      <4>2. i \in Int /\ j \in Int
        BY <1>2, <3>2
      <4>3. QED
        BY <4>1, <4>2
    <3>3. QED
      BY <3>1, <3>2
  <2> HIDE DEF now
  <2>4. QED
    BY <2>1, <2>3 DEF Marking
<1>7. Marked(ms, p, now)
  <2>1. SUFFICES ASSUME NEW f \in Range(ms), f.fn, f.id \in now
                 PROVE  \E i \in Subbing(p) : p[i].mac.m = f.id
    BY DEF Marked
  <2>2. CASE f.id = b.mac.m
    BY <1>4, <2>2
  <2>3. CASE f.id \in sup
    <3>1. PICK i \in Subbing(bufs) : bufs[i].mac.m = f.id
      BY <2>1, <2>3 DEF Mirrored, Marked
    <3>2. i + 1 \in Subbing(p) /\ p[i + 1].mac.m = f.id
      BY <1>3, <3>1
    <3>3. QED
      BY <3>2
  <2>4. QED
    BY <2>1, <2>2, <2>3
<1>8. QED
  BY <1>1, <1>6, <1>7 DEF Mirrored, p

\* Another rest of the current buffer changes nothing.
LEMMA MirroredRest ==
    ASSUME NEW N, NEW n, NEW bufs \in Seq(Bufs(N, n)), bufs # << >>, NEW t \in Seq(Over(N)),
           NEW ms, NEW cs, NEW sup, Mirrored(ms, cs, bufs, sup)
    PROVE  Mirrored(ms, cs, Rested(t, bufs), sup)
<1> DEFINE p == Rested(t, bufs)
<1>1. DOMAIN p = DOMAIN bufs
  BY RestedIs
<1>2. \A i \in DOMAIN bufs : p[i].done = bufs[i].done /\ p[i].mac = bufs[i].mac
  BY RestedIs
<1> HIDE DEF p
<1>3. Subbing(p) = Subbing(bufs) /\ Bearing(p) = Bearing(bufs)
  BY <1>1, <1>2 DEF Subbing, Bearing
<1>4. \A i \in Subbing(p) : p[i].mac = bufs[i].mac
  BY <1>1, <1>2 DEF Subbing
<1>5. \A i \in Bearing(p) : p[i].mac = bufs[i].mac
  BY <1>1, <1>2 DEF Bearing
<1>6. {p[i].mac : i \in Bearing(p)} = {bufs[i].mac : i \in Bearing(bufs)}
  BY <1>3, <1>5
<1>7. Held(ms, cs, p) = Held(ms, cs, bufs)
  BY <1>6 DEF Held
<1>8. Marking(p, sup)
  BY <1>3, <1>4 DEF Mirrored, Marking
<1>9. Marked(ms, p, sup)
  BY <1>3, <1>4 DEF Mirrored, Marked
<1>10. QED
  BY <1>7, <1>8, <1>9 DEF Mirrored, p

\* Macros come and go, and are called.
LEMMA MirroredNew ==
    ASSUME NEW ms, NEW cs, NEW bufs, NEW sup, Mirrored(ms, cs, bufs, sup),
           NEW ms2, NEW cs2, NEW X, Range(ms2) \subseteq Range(ms) \cup X,
           Range(cs2) \subseteq Range(ms) \cup Range(cs),
           Unlike(Held(ms, cs, bufs) \cup X), \A x \in X : x.fn => x.id \notin sup
    PROVE  Mirrored(ms2, cs2, bufs, sup)
<1>1. Held(ms2, cs2, bufs) \subseteq Held(ms, cs, bufs) \cup X
  BY DEF Held
<1>2. Unlike(Held(ms2, cs2, bufs))
  BY <1>1, UnlikeLess
<1>3. Marked(ms2, bufs, sup)
  BY DEF Mirrored, Marked
<1>4. QED
  BY <1>2, <1>3 DEF Mirrored

LEMMA MirroredLess ==
    ASSUME NEW ms, NEW cs, NEW bufs, NEW sup, Mirrored(ms, cs, bufs, sup),
           NEW ms2, NEW cs2, Range(ms2) \subseteq Range(ms),
           Range(cs2) \subseteq Range(ms) \cup Range(cs)
    PROVE  Mirrored(ms2, cs2, bufs, sup)
<1> DEFINE X == {}
<1>1. Held(ms, cs, bufs) \cup X = Held(ms, cs, bufs)
  OBVIOUS
<1>2. Unlike(Held(ms, cs, bufs) \cup X)
  BY <1>1 DEF Mirrored
<1>3. Range(ms2) \subseteq Range(ms) \cup X /\ \A x \in X : x.fn => x.id \notin sup
  OBVIOUS
<1> HIDE DEF X
<1>4. QED
  BY <1>2, <1>3, MirroredNew

\* The current buffer is read to its end.
LEMMA MirroredPop ==
    ASSUME NEW S, NEW bufs \in Seq(S), bufs # << >>, NEW ms, NEW cs, NEW sup,
           Mirrored(ms, cs, bufs, sup)
    PROVE  Mirrored(ms, cs, Tail(bufs),
                    IF bufs[1].done = "popsub" THEN sup \ {bufs[1].mac.m} ELSE sup)
<1> DEFINE p == Tail(bufs)
           now == IF bufs[1].done = "popsub" THEN sup \ {bufs[1].mac.m} ELSE sup
           Z == Held(ms, cs, bufs)
<1>1. Unlike(Held(ms, cs, p))
  <2>1. Held(ms, cs, p) \subseteq Z
    BY HeldPop
  <2>2. QED
    BY <2>1, UnlikeLess DEF Mirrored
<1>2. \A i \in Subbing(p) : /\ i \in Int /\ i + 1 \in Subbing(bufs) /\ i + 1 # 1
                            /\ p[i] = bufs[i + 1]
  <2>1. SUFFICES ASSUME NEW i \in Subbing(p)
                 PROVE  /\ i \in Int /\ i + 1 \in Subbing(bufs) /\ i + 1 # 1
                        /\ p[i] = bufs[i + 1]
    OBVIOUS
  <2>2. i \in DOMAIN p /\ p[i].done = "popsub"
    BY DEF Subbing
  <2>3. i \in Int /\ i + 1 \in DOMAIN bufs /\ i + 1 # 1 /\ p[i] = bufs[i + 1]
    BY <2>2, TailPlaces
  <2> HIDE DEF p
  <2>4. QED
    BY <2>2, <2>3 DEF Subbing
<1>3. \A i \in Subbing(bufs) : i # 1 => i - 1 \in Subbing(p) /\ p[i - 1] = bufs[i]
  <2>1. SUFFICES ASSUME NEW i \in Subbing(bufs), i # 1
                 PROVE  i - 1 \in Subbing(p) /\ p[i - 1] = bufs[i]
    OBVIOUS
  <2>2. i \in DOMAIN bufs /\ bufs[i].done = "popsub"
    BY DEF Subbing
  <2>3. i - 1 \in DOMAIN p /\ p[i - 1] = bufs[i]
    BY <2>1, <2>2, TailPlaces
  <2> HIDE DEF p
  <2>4. QED
    BY <2>2, <2>3 DEF Subbing
<1>4. bufs[1].done = "popsub" => 1 \in Subbing(bufs) /\ bufs[1].mac \in Z
  <2>1. 1 \in DOMAIN bufs
    BY TailPlaces
  <2>2. QED
    BY <2>1, HeldPop DEF Subbing
<1>5. \A i \in Subbing(bufs) : bufs[i].mac \in Z
  BY DEF Subbing, Held, Bearing
<1> HIDE DEF p, Z
<1>6. ASSUME NEW i \in Subbing(bufs), i # 1, bufs[i].mac.issub PROVE bufs[i].mac.m \in now
  <2>1. bufs[i].mac.m \in sup
    BY <1>6 DEF Mirrored, Marking
  <2>2. ASSUME bufs[1].done = "popsub" PROVE bufs[i].mac.m # bufs[1].mac.m
    <3>1. SUFFICES ASSUME bufs[i].mac.m = bufs[1].mac.m PROVE FALSE
      OBVIOUS
    <3>2. 1 \in Subbing(bufs) /\ ~bufs[1].mac.fn
      BY <1>4, <2>2 DEF Mirrored, Marking
    <3>3. CASE bufs[1].mac.issub
      BY <1>6, <3>1, <3>2, <3>3 DEF Mirrored, Marking
    <3>4. CASE ~bufs[1].mac.issub
      <4>1. Plainly(bufs[1].mac) /\ ~Plainly(bufs[i].mac)
        BY <1>6, <3>2, <3>4 DEF Plainly
      <4>2. bufs[1].mac \in Z /\ bufs[i].mac \in Z
        BY <1>4, <1>5, <2>2
      <4>3. Unlike(Z)
        BY DEF Mirrored, Z
      <4>4. QED
        BY <3>1, <4>1, <4>2, <4>3 DEF Unlike
    <3>5. QED
      BY <3>3, <3>4
  <2>3. QED
    BY <2>1, <2>2
<1>7. Marking(p, now)
  <2>1. ASSUME NEW i \in Subbing(p)
        PROVE  ~p[i].mac.fn /\ (p[i].mac.issub => p[i].mac.m \in now)
    <3> DEFINE j == i + 1
    <3>1. j \in Subbing(bufs) /\ j # 1 /\ p[i] = bufs[j]
      BY <1>2
    <3> HIDE DEF j, now
    <3>2. ~bufs[j].mac.fn
      BY <3>1 DEF Mirrored, Marking
    <3>3. QED
      BY <1>6, <3>1, <3>2
  <2>2. ASSUME NEW i \in Subbing(p), NEW j \in Subbing(p),
               p[i].mac.issub, p[j].mac.issub, p[i].mac.m = p[j].mac.m
        PROVE  i = j
    <3>1. i + 1 = j + 1
      BY <1>2, <2>2 DEF Mirrored, Marking
    <3>2. i \in Int /\ j \in Int
      BY <1>2
    <3>3. QED
      BY <3>1, <3>2
  <2> HIDE DEF now
  <2>3. QED
    BY <2>1, <2>2 DEF Marking
<1>8. Marked(ms, p, now)
  <2>1. SUFFICES ASSUME NEW f \in Range(ms), f.fn, f.id \in now
                 PROVE  \E i \in Subbing(p) : p[i].mac.m = f.id
    BY DEF Marked
  <2>2. f.id \in sup
    BY <2>1
  <2>3. PICK i \in Subbing(bufs) : bufs[i].mac.m = f.id
    BY <2>1, <2>2 DEF Mirrored, Marked
  <2>4. i # 1
    <3>1. SUFFICES ASSUME i = 1 PROVE FALSE
      OBVIOUS
    <3>2. bufs[1].done = "popsub" /\ bufs[1].mac.m = f.id
      BY <2>3, <3>1 DEF Subbing
    <3>3. QED
      BY <2>1, <3>2
  <2>5. i - 1 \in Subbing(p) /\ p[i - 1] = bufs[i]
    BY <1>3, <2>4
  <2>6. p[i - 1].mac.m = f.id
    BY <2>3, <2>5
  <2>7. QED
    BY <2>5, <2>6
<1>9. QED
  BY <1>1, <1>7, <1>8 DEF Mirrored, p

LEMMA HeldKnown ==
    ASSUME NEW N, NEW ms, NEW sup, NEW bufs, NEW cs, NEW left, NEW n,
           Fit(N, ms, sup, bufs, cs, left, n)
    PROVE  Held(ms, cs, bufs) \subseteq Known(N, n)
<1>1. ms \in Seq(Known(N, n)) /\ cs \in Seq(Callable(N, n)) /\ bufs \in Seq(Bufs(N, n))
  BY ListsKnown DEF Fit
<1>2. Range(ms) \subseteq Known(N, n)
  BY <1>1, RangeOfSeq
<1>3. Range(cs) \subseteq Callable(N, n)
  BY <1>1, RangeOfSeq
<1>4. \A i \in Bearing(bufs) : bufs[i].mac \in Known(N, n)
  <2>1. SUFFICES ASSUME NEW i \in Bearing(bufs) PROVE bufs[i].mac \in Known(N, n)
    OBVIOUS
  <2>2. i \in 1..Len(bufs) /\ bufs[i].done \in {"popmac", "popsub"}
    BY <1>1, LenProperties DEF Bearing
  <2>3. bufs[i] \in Bufs(N, n)
    BY <1>1, <2>2, ElementOfSeq
  <2>4. QED
    BY <2>2, <2>3 DEF Bufs
<1>5. QED
  BY <1>2, <1>3, <1>4 DEF Held, Callable

\* Lists lose macros, or get new ones at the front.
LEMMA TakenOffLess ==
    ASSUME NEW S, NEW ms \in Seq(S), NEW sup, NEW name
    PROVE  Range(TakenOff(ms, sup, name)) \subseteq Range(ms)
<1> DEFINE R == Range(ms)
<1>1. ms \in Seq(R)
  BY SeqOfRange
<1> HIDE DEF R
<1>2. TakenOff(ms, sup, name) \in Seq(R)
  BY <1>1, TakenOffTyped
<1>3. Range(TakenOff(ms, sup, name)) \subseteq R
  BY <1>2, RangeOfSeq
<1>4. QED
  BY <1>3 DEF R

LEMMA PoppedLess ==
    ASSUME NEW N, NEW n \in Nat, NEW ms \in Seq(Known(N, n)), NEW sup \in SUBSET (1..n),
           NEW b \in Bufs(N, n),
           NEW s, s = Popped([macs |-> ms, sup |-> sup, ok |-> TRUE], b)
    PROVE  /\ Range(s.macs) \subseteq Range(ms)
           /\ b.done = "popsub" => s.sup = sup \ {b.mac.m}
           /\ b.done # "popsub" => s.sup = sup
<1> DEFINE R == Range(ms)
           L == Seq(R)
           a == [macs |-> ms, sup |-> sup, ok |-> TRUE]
<1>1. ms \in L /\ R \subseteq Known(N, n)
  BY SeqOfRange, RangeOfSeq
<1> HIDE DEF R
<1>2. L \subseteq Seq(Known(N, n))
  BY <1>1, SeqMonotonic
<1>3. Closed(L, N, n)
  BY <1>2, TakenOffTyped DEF Closed
<1>4. a \in States(L, n) /\ a.sup = sup
  BY <1>1 DEF States
<1> HIDE DEF L, a
<1>5. Popped(a, b) \in States(L, n)
  BY <1>3, <1>4, PoppedStays
<1>6. Popped(a, b).sup = IF b.done = "popsub" THEN a.sup \ {b.mac.m} ELSE a.sup
  BY <1>3, <1>4, PoppedStays
<1>7. Popped(a, b).macs \in Seq(R)
  BY <1>5 DEF States, L
<1>8. Range(Popped(a, b).macs) \subseteq R
  BY <1>7, RangeOfSeq
<1>9. QED
  BY <1>4, <1>6, <1>8 DEF R, a

LEMMA NewmacRange ==
    ASSUME NEW S, NEW ms \in Seq(S), NEW sup, NEW x
    PROVE  Range(eppic_newmac(ms, sup, x)) \subseteq Range(ms) \cup {x}
<1> DEFINE t == TakenOff(ms, sup, x.name)
           Z == Range(ms) \cup {x}
<1>1. Range(t) \subseteq Range(ms)
  BY TakenOffLess
<1>2. t \in Seq(S)
  BY TakenOffTyped
<1>3. t \in Seq(Range(t))
  BY <1>2, SeqOfRange
<1> HIDE DEF t
<1>4. t \in Seq(Z)
  <2>1. Range(t) \subseteq Z
    BY <1>1
  <2> HIDE DEF Z
  <2>2. QED
    BY <1>3, <2>1, SeqMonotonic
<1>5. <<x>> \in Seq(Z)
  <2>1. x \in Z
    OBVIOUS
  <2> HIDE DEF Z
  <2>2. QED
    BY <2>1
<1> HIDE DEF Z
<1>6. <<x>> \o t \in Seq(Z)
  BY <1>4, <1>5, ConcatProperties
<1>7. Range(<<x>> \o t) \subseteq Z
  BY <1>6, RangeOfSeq
<1>8. QED
  BY <1>7 DEF eppic_newmac, t, Z

LEMMA EnumeratorsRange ==
    ASSUME NEW S, NEW ms \in Seq(S), NEW sup, NEW id, NEW T, NEW ns \in Seq(T)
    PROVE  Range(Enumerators(ms, sup, ns, id)) \subseteq
                Range(ms) \cup {Enumerator(ns, id, k) : k \in 1..Len(ns)}
<1> DEFINE Z == Range(ms) \cup {Enumerator(ns, id, k) : k \in 1..Len(ns)}
<1>1. ms \in Seq(Z)
  <2>1. ms \in Seq(Range(ms)) /\ Range(ms) \subseteq Z
    BY SeqOfRange
  <2> HIDE DEF Z
  <2>2. QED
    BY <2>1, SeqMonotonic
<1>2. \A k \in 1..Len(ns) : Enumerator(ns, id, k) \in Z
  OBVIOUS
<1> HIDE DEF Z
<1>3. \A t \in Seq(Z), k \in 1..Len(ns) :
            eppic_newmac(t, sup, Enumerator(ns, id, k)) \in Seq(Z)
  <2>1. SUFFICES ASSUME NEW t \in Seq(Z), NEW k \in 1..Len(ns)
                 PROVE  eppic_newmac(t, sup, Enumerator(ns, id, k)) \in Seq(Z)
    OBVIOUS
  <2> DEFINE x == Enumerator(ns, id, k)
  <2>2. x \in Z
    BY <1>2
  <2> HIDE DEF x
  <2>3. TakenOff(t, sup, x.name) \in Seq(Z) /\ <<x>> \in Seq(Z)
    BY <2>2, TakenOffTyped
  <2>4. eppic_newmac(t, sup, x) \in Seq(Z)
    BY <2>3, ConcatProperties DEF eppic_newmac
  <2>5. QED
    BY <2>4 DEF x
<1>4. Enumerators(ms, sup, ns, id) \in Seq(Z)
  <2> DEFINE L == Seq(Z)
  <2>1. ms \in L /\ \A t \in L, k \in 1..Len(ns) :
                        eppic_newmac(t, sup, Enumerator(ns, id, k)) \in L
    BY <1>1, <1>3
  <2> HIDE DEF L
  <2>2. Enumerators(ms, sup, ns, id) \in L
    BY <2>1, EnumeratorsIn
  <2>3. QED
    BY <2>2 DEF L
<1>5. Range(Enumerators(ms, sup, ns, id)) \subseteq Z
  BY <1>4, RangeOfSeq
<1>6. QED
  BY <1>5 DEF Z

\* New macros without parameters have identities of their own.
LEMMA UnlikeNew ==
    ASSUME NEW N, NEW n \in Nat, NEW Z \in SUBSET Known(N, n), Unlike(Z), NEW X,
           \A x \in X : x.m > n /\ \A y \in X : x.m = y.m => (Plainly(x) <=> Plainly(y))
    PROVE  Unlike(Z \cup X)
<1>1. \A z \in Z : z.m \in 1..n
  BY DEF Known
<1>2. \A z \in Z, x \in X : z.m # x.m
  BY <1>1
<1>3. QED
  BY <1>2 DEF Unlike

MarksKept == status \in {"idle", "parsing"} => Mirrored(macs, calls, inlist, supressed)

\* The host's defines, and nothing being read: that is what a load begins and ends with.
LEMMA MirroredApi ==
    ASSUME NEW sup
    PROVE  Mirrored(ApiMacs, << >>, << >>, sup)
<1>1. DOMAIN << >> = {}
  OBVIOUS
<1>2. Range(<< >>) = {} /\ Bearing(<< >>) = {} /\ Subbing(<< >>) = {}
  BY <1>1 DEF Range, Bearing, Subbing
<1>3. \A x \in Range(ApiMacs) : Plainly(x) /\ ~x.fn
  <2>1. \A i \in DOMAIN Api : ApiMacs[i] = Mac(i, Api[i].name, FALSE, << >>, Api[i].text)
    BY DEF ApiMacs
  <2>2. DOMAIN ApiMacs = DOMAIN Api
    BY DEF ApiMacs
  <2>3. \A i \in DOMAIN Api : ApiMacs[i].fn = FALSE /\ ApiMacs[i].issub = FALSE
    <3>1. SUFFICES ASSUME NEW i \in DOMAIN Api
                   PROVE  ApiMacs[i].fn = FALSE /\ ApiMacs[i].issub = FALSE
      OBVIOUS
    <3> DEFINE x == Mac(i, Api[i].name, FALSE, << >>, Api[i].text)
    <3>2. x.fn = FALSE /\ x.issub = FALSE
      BY DEF Mac
    <3>3. ApiMacs[i] = x
      BY <2>1
    <3> HIDE DEF x
    <3>4. QED
      BY <3>2, <3>3
  <2>4. QED
    BY <2>2, <2>3 DEF Range, Plainly
<1>4. Held(ApiMacs, << >>, << >>) = Range(ApiMacs)
  BY <1>2 DEF Held
<1>5. Unlike(Held(ApiMacs, << >>, << >>))
  BY <1>3, <1>4 DEF Unlike
<1>6. QED
  BY <1>2, <1>3, <1>5 DEF Mirrored, Marking, Marked

LEMMA EndMarked ==
    ASSUME NEW N, Apart(N), Good(N)', status' \in {"idle", "crashed"}
    PROVE  MarksKept'
<1>1. CASE status' = "idle"
  <2>1. macs' = ApiMacs /\ inlist' = << >> /\ calls' = << >>
    BY <1>1 DEF Good
  <2>2. Mirrored(macs', calls', inlist', supressed')
    BY <2>1, MirroredApi
  <2>3. QED
    BY <2>2 DEF MarksKept
<1>2. CASE status' = "crashed"
  BY <1>2 DEF MarksKept
<1>3. QED
  BY <1>1, <1>2

LEMMA AbortMarked ==
    ASSUME NEW N, Apart(N), Good(N)', NEW ms, NEW sup, NEW bufs, Abort(ms, sup, bufs)
    PROVE  MarksKept'
<1>1. PICK s \in {Through(Popped, [macs |-> ms, sup |-> sup, ok |-> TRUE], bufs)} :
            Leave(s.macs, s.sup, s.ok, "error")
  BY DEF Abort
<1>2. status' = IF ~s.ok \/ TagLost(s.macs, tag) THEN "crashed" ELSE "idle"
  BY <1>1 DEF Leave
<1>3. status' \in {"idle", "crashed"}
  BY <1>2
<1>4. QED
  BY <1>3, EndMarked

LEMMA AtItemMarked ==
    ASSUME NEW N, Good(N), MarksKept, NEW kinds, AtItem(kinds)
    PROVE  /\ Mirrored(macs, calls, inlist, supressed)
           /\ Mirrored(macs, calls, Advanced, supressed)
           /\ Advanced \in Seq(Bufs(N, made)) /\ inlist \in Seq(Bufs(N, made))
           /\ macs \in Seq(Known(N, made)) /\ made \in Nat /\ supressed \in SUBSET (1..made)
           /\ Held(macs, calls, Advanced) \subseteq Known(N, made)
<1>1. /\ status = "parsing" /\ inlist # << >> /\ Advanced = Rested(Tail(Top.rest), inlist)
      /\ Tail(Top.rest) \in Seq(Over(N))
      /\ Fit(N, macs, supressed, Advanced, calls, alts, made)
  BY AtItemReads
<1>2. /\ inlist \in Seq(Bufs(N, made)) /\ Advanced \in Seq(Bufs(N, made))
      /\ made \in Nat /\ supressed \in SUBSET (1..made)
  BY <1>1 DEF Good, Fit
<1>3. macs \in Seq(Known(N, made))
  BY <1>1, ListsKnown DEF Fit
<1>4. Mirrored(macs, calls, inlist, supressed)
  BY <1>1 DEF MarksKept
<1>5. Mirrored(macs, calls, Advanced, supressed)
  <2> DEFINE t == Tail(Top.rest)
  <2>1. t \in Seq(Over(N)) /\ Advanced = Rested(t, inlist)
    BY <1>1
  <2> HIDE DEF t
  <2>2. Mirrored(macs, calls, Rested(t, inlist), supressed)
    BY <1>1, <1>2, <1>4, <2>1, MirroredRest
  <2>3. QED
    BY <2>1, <2>2
<1>6. Held(macs, calls, Advanced) \subseteq Known(N, made)
  BY <1>1, HeldKnown
<1>7. QED
  BY <1>2, <1>3, <1>4, <1>5, <1>6

LEMMA BeginLoadMarked ==
    ASSUME NEW N, Good(N), MarksKept, BeginLoad
    PROVE  MarksKept'
<1> DEFINE b == Buffer("file", NoMac, text')
<1>1. /\ status = "idle" /\ inlist' = <<b>> /\ macs' = macs /\ calls' = calls
      /\ supressed' = supressed
  BY DEF BeginLoad
<1>2. inlist = << >> /\ Mirrored(macs, calls, inlist, supressed)
  BY <1>1 DEF Good, MarksKept
<1>3. b.done = "file"
  BY DEF Buffer
<1> HIDE DEF b
<1>4. << >> \in Seq({b}) /\ <<b>> \in Seq({b})
  BY EmptySeq
<1>5. Mirrored(macs, calls, Pushed(b, << >>), supressed)
  <2> DEFINE S == {b}
  <2>1. b \in S /\ << >> \in Seq(S) /\ Mirrored(macs, calls, << >>, supressed)
    BY <1>2, <1>4
  <2> HIDE DEF S
  <2>2. QED
    BY <1>3, <2>1, MirroredPush
<1>6. Pushed(b, << >>) = <<b>>
  BY <1>4, ConcatEmptySeq DEF Pushed
<1>7. Mirrored(macs', calls', inlist', supressed')
  BY <1>1, <1>5, <1>6
<1>8. QED
  BY <1>7 DEF MarksKept

LEMMA PopBufferMarked ==
    ASSUME NEW N, Apart(N), Good(N), MarksKept, PopBuffer, Good(N)'
    PROVE  MarksKept'
<1> DEFINE a == [macs |-> macs, sup |-> supressed, ok |-> TRUE]
<1>1. status = "parsing" /\ inlist # << >>
  BY DEF PopBuffer, Lexing
<1>2. /\ inlist \in Seq(Bufs(N, made)) /\ made \in Nat /\ supressed \in SUBSET (1..made)
      /\ macs \in Seq(Known(N, made))
  BY ListsKnown DEF Good, Fit
<1>3. inlist[1] \in Bufs(N, made)
  <2> DEFINE d == Len(inlist)
  <2>1. d \in Nat \ {0}
    BY <1>1, <1>2, EmptySeq
  <2> HIDE DEF d
  <2>2. 1 \in 1..d
    BY <2>1
  <2>3. QED
    BY <1>2, <2>2, ElementOfSeq DEF d
<1>4. PICK s \in {Popped(a, inlist[1])} :
        \/ /\ macs' = s.macs /\ supressed' = s.sup /\ inlist' = Tail(inlist)
           /\ UNCHANGED <<calls, alts, out, ppout, status, result, tag, made, text, nloads>>
        \/ Abort(s.macs, s.sup, Tail(inlist))
  BY DEF PopBuffer, Top
<1>5. CASE Abort(s.macs, s.sup, Tail(inlist))
  BY <1>5, AbortMarked
<1>6. CASE /\ macs' = s.macs /\ supressed' = s.sup /\ inlist' = Tail(inlist)
           /\ UNCHANGED <<calls, alts, out, ppout, status, result, tag, made, text, nloads>>
  <2> DEFINE sup == IF inlist[1].done = "popsub" THEN supressed \ {inlist[1].mac.m}
                    ELSE supressed
  <2>1. Range(macs') \subseteq Range(macs) /\ supressed' = sup
    <3> DEFINE b == inlist[1]
    <3>1. b \in Bufs(N, made)
      BY <1>3
    <3> HIDE DEF b
    <3>2. s = Popped([macs |-> macs, sup |-> supressed, ok |-> TRUE], b)
      BY <1>4 DEF b
    <3>3. Range(s.macs) \subseteq Range(macs)
      BY <1>2, <3>1, <3>2, PoppedLess
    <3>4. /\ b.done = "popsub" => s.sup = supressed \ {b.mac.m}
          /\ b.done # "popsub" => s.sup = supressed
      BY <1>2, <3>1, <3>2, PoppedLess
    <3>5. macs' = s.macs /\ supressed' = s.sup
      BY <1>6
    <3>6. QED
      BY <3>3, <3>4, <3>5 DEF b
  <2>2. Mirrored(macs, calls, inlist, supressed)
    BY <1>1 DEF MarksKept
  <2>3. Mirrored(macs, calls, Tail(inlist), sup)
    BY <1>1, <1>2, <2>2, MirroredPop
  <2> HIDE DEF sup
  <2>4. Range(calls) \subseteq Range(macs) \cup Range(calls)
    OBVIOUS
  <2>5. Mirrored(macs', calls, Tail(inlist), sup)
    <3> DEFINE u == Tail(inlist)
               ms2 == macs'
    <3>1. Mirrored(macs, calls, u, sup) /\ Range(ms2) \subseteq Range(macs)
      BY <2>1, <2>3
    <3> HIDE DEF u, ms2
    <3>2. Mirrored(ms2, calls, u, sup)
      BY <2>4, <3>1, MirroredLess
    <3>3. QED
      BY <3>2 DEF u, ms2
  <2>6. Mirrored(macs', calls', inlist', supressed')
    BY <1>6, <2>1, <2>5
  <2>7. QED
    BY <2>6 DEF MarksKept
<1>7. QED
  BY <1>4, <1>5, <1>6

LEMMA EndParseMarked ==
    ASSUME NEW N, Apart(N), EndParse, Good(N)'
    PROVE  MarksKept'
<1>1. status' = IF ~TRUE \/ TagLost(macs, tag) THEN "crashed" ELSE "idle"
  BY DEF EndParse, Leave
<1>2. status' \in {"idle", "crashed"}
  BY <1>1
<1>3. QED
  BY <1>2, EndMarked

\* Where only the text goes on.
LEMMA AdvancedMarked ==
    ASSUME NEW N, Good(N), MarksKept, NEW kinds, AtItem(kinds),
           macs' = macs, supressed' = supressed, calls' = calls, inlist' = Advanced
    PROVE  MarksKept'
<1>1. Mirrored(macs, calls, Advanced, supressed)
  BY AtItemMarked
<1>2. Mirrored(macs', calls', inlist', supressed')
  BY <1>1
<1>3. QED
  BY <1>2 DEF MarksKept

LEMMA ChkmacvarMarked ==
    ASSUME NEW N, Apart(N), Good(N), MarksKept, eppic_chkmacvar, Good(N)'
    PROVE  MarksKept'
<1> DEFINE m == eppic_getmac(macs, supressed, Item.n)
           b == Buffer("popsub", m, m.text)
<1>1. AtItem({"name"})
  BY DEF eppic_chkmacvar
<1>2. /\ Mirrored(macs, calls, Advanced, supressed) /\ Advanced \in Seq(Bufs(N, made))
      /\ Fit(N, macs, supressed, inlist, calls, alts, made)
      /\ Held(macs, calls, Advanced) \subseteq Known(N, made)
  BY <1>1, AtItemMarked DEF Good
<1>3. m # NoMac =>
        /\ m \in Known(N, made) /\ ~Hidden(m, supressed)
        /\ \E i \in DOMAIN macs : m = macs[i]
  <2> DEFINE n == Item.n
  <2>1. m = eppic_getmac(macs, supressed, n)
    OBVIOUS
  <2> HIDE DEF m, n
  <2>2. ASSUME m # NoMac
        PROVE  /\ m \in Known(N, made) /\ ~Hidden(m, supressed)
               /\ \E i \in DOMAIN macs : m = macs[i]
    <3>1. eppic_getmac(macs, supressed, n) # NoMac
      BY <2>1, <2>2
    <3>2. eppic_getmac(macs, supressed, n) \in Known(N, made)
      BY <1>2, <3>1, FoundKnown
    <3>3. \E i \in DOMAIN macs : eppic_getmac(macs, supressed, n) = macs[i]
      <4>1. macs \in Seq(Known(N, made))
        BY <1>1, AtItemMarked
      <4>2. PICK i \in DOMAIN macs : eppic_getmac(macs, supressed, n) = macs[i]
        BY <3>1, <4>1, GetmacFinds
      <4>3. QED
        BY <4>2
    <3>4. ~Hidden(eppic_getmac(macs, supressed, n), supressed)
      BY <1>2, <3>1, FoundKnown
    <3>5. QED
      BY <2>1, <3>2, <3>3, <3>4
  <2>3. QED
    BY <2>2
<1> HIDE DEF m
<1>4. m # NoMac => m \in Range(macs) /\ m \in Held(macs, calls, Advanced)
  BY <1>3 DEF Range, Held
<1>5. \/ /\ inlist' = Advanced
         /\ UNCHANGED <<macs, supressed, calls, alts, status, result, tag, made, text, nloads>>
      \/ eppic_error
      \/ /\ m # NoMac /\ ~m.fn /\ supressed' = Hides(m) /\ inlist' = <<b>> \o Advanced
         /\ UNCHANGED <<macs, calls, alts, out, ppout, status, result, tag, made, text, nloads>>
      \/ Abort(macs, Hides(m), inlist)
      \/ /\ m # NoMac /\ calls' = <<m>> \o calls /\ inlist' = Advanced
         /\ UNCHANGED <<macs, supressed, alts, out, ppout, status, result, tag, made, text, nloads>>
  BY DEF eppic_chkmacvar, m
<1>6. CASE eppic_error
  BY <1>6, AbortMarked DEF eppic_error
<1>7. CASE Abort(macs, Hides(m), inlist)
  BY <1>7, AbortMarked
<1>8. CASE /\ inlist' = Advanced
           /\ UNCHANGED <<macs, supressed, calls, alts, status, result, tag, made, text, nloads>>
  BY <1>1, <1>8, AdvancedMarked
<1>9. CASE /\ m # NoMac /\ ~m.fn /\ supressed' = Hides(m) /\ inlist' = <<b>> \o Advanced
           /\ UNCHANGED <<macs, calls, alts, out, ppout, status, result, tag, made, text, nloads>>
  <2>1. b \in Bufs(N, made) /\ b.done = "popsub" /\ b.mac = m
    BY <1>3, <1>9, TextBuffer
  <2> HIDE DEF b
  <2>2. /\ b.mac \in Held(macs, calls, Advanced) /\ ~b.mac.fn /\ ~Hidden(b.mac, supressed)
    BY <1>3, <1>4, <1>9, <2>1
  <2>3. Mirrored(macs, calls, Pushed(b, Advanced), supressed \cup {b.mac.m})
    BY <1>2, <2>1, <2>2, MirroredSub
  <2>4. Mirrored(macs', calls', inlist', supressed')
    BY <1>9, <2>1, <2>3 DEF Hides, Pushed
  <2>5. QED
    BY <2>4 DEF MarksKept
<1>10. CASE /\ m # NoMac /\ calls' = <<m>> \o calls /\ inlist' = Advanced
            /\ UNCHANGED <<macs, supressed, alts, out, ppout, status, result, tag, made, text, nloads>>
  <2>1. calls \in Seq(Known(N, made))
    <3>1. Callable(N, made) \subseteq Known(N, made)
      BY DEF Callable
    <3>2. calls \in Seq(Callable(N, made))
      BY <1>2 DEF Fit
    <3>3. QED
      BY <3>1, <3>2, SeqMonotonic
  <2>2. Range(<<m>> \o calls) \subseteq Range(macs) \cup Range(calls)
    <3>1. <<m>> \in Seq(Known(N, made)) /\ Range(<<m>>) = {m}
      <4>1. <<m>> \in Seq(Known(N, made))
        BY <1>3, <1>10
      <4>2. DOMAIN <<m>> = {1} /\ <<m>>[1] = m
        OBVIOUS
      <4>3. QED
        BY <4>1, <4>2 DEF Range
    <3>2. Range(<<m>> \o calls) = Range(<<m>>) \cup Range(calls)
      BY <2>1, <3>1, RangeConcatenation
    <3>3. QED
      BY <1>4, <1>10, <3>1, <3>2
  <2> DEFINE cs == <<m>> \o calls
  <2>3. Range(cs) \subseteq Range(macs) \cup Range(calls) /\ Range(macs) \subseteq Range(macs)
    BY <2>2
  <2> HIDE DEF cs
  <2>4. Mirrored(macs, cs, Advanced, supressed)
    BY <1>2, <2>3, MirroredLess
  <2>5. Mirrored(macs', calls', inlist', supressed')
    BY <1>10, <2>4 DEF cs
  <2>6. QED
    BY <2>5 DEF MarksKept
<1>11. QED
  BY <1>5, <1>6, <1>7, <1>8, <1>9, <1>10

LEMMA LexMarkMarked ==
    ASSUME NEW N, Apart(N), Good(N), MarksKept, LexMark, Good(N)'
    PROVE  MarksKept'
<1>1. AtItem({"mark"})
  BY DEF LexMark
<1>2. \/ /\ inlist' = Advanced
         /\ UNCHANGED <<macs, supressed, calls, alts, status, result, tag, made, text, nloads>>
      \/ eppic_error
  BY DEF LexMark
<1>3. CASE eppic_error
  BY <1>3, AbortMarked DEF eppic_error
<1>4. CASE /\ inlist' = Advanced
           /\ UNCHANGED <<macs, supressed, calls, alts, status, result, tag, made, text, nloads>>
  BY <1>1, <1>4, AdvancedMarked
<1>5. QED
  BY <1>2, <1>3, <1>4

\* The substitutions of a call are of a macro that is held already.
LEMMA SubsUnlike ==
    ASSUME NEW Z, Unlike(Z), NEW m \in Z, m.fn, m.m = m.id, NEW X,
           \A x \in X : x.issub /\ x.m = m.id
    PROVE  Unlike(Z \cup X)
<1>1. \A x \in X : ~Plainly(x) /\ x.m = m.m
  BY DEF Plainly
<1>2. ~Plainly(m)
  BY DEF Plainly
<1>3. \A z \in Z : z.m = m.m => ~Plainly(z)
  BY <1>2 DEF Unlike
<1>4. QED
  BY <1>1, <1>3 DEF Unlike

LEMMA PushmacMarked ==
    ASSUME NEW N \in SUBSET Names, Apart(N), Good(N), MarksKept, eppic_pushmac, Good(N)'
    PROVE  MarksKept'
<1> DEFINE m == calls[1]
           r == Tail(Top.rest)
           t == SubSeq(r, Min(Closings(r)) + 1, Len(r))
           b == Buffer("popmac", m, m.text)
           subs == Subs(m, Args(m, r), made)
<1>1. AtItem({"mark"}) /\ calls # << >>
  BY DEF eppic_pushmac
<1>2. /\ status = "parsing" /\ inlist # << >> /\ r \in Seq(Over(N))
  BY <1>1, AtItemReads
<1>3. /\ inlist \in Seq(Bufs(N, made)) /\ calls \in Seq(Callable(N, made))
      /\ Fit(N, macs, supressed, inlist, calls, alts, made)
      /\ made \in Nat /\ Len(Api) <= made /\ macs \in Seq(Known(N, made))
      /\ Mirrored(macs, calls, inlist, supressed)
  BY <1>2, ListsKnown DEF Good, Fit, MarksKept
<1>4. m \in Callable(N, made) /\ m \in Range(calls) /\ Range(Tail(calls)) \subseteq Range(calls)
  <2> DEFINE d == Len(calls)
             R == Range(calls)
  <2>1. d \in Nat \ {0} /\ DOMAIN calls = 1..d
    BY <1>1, <1>3, EmptySeq, LenProperties
  <2> HIDE DEF d
  <2>2. 1 \in 1..d
    BY <2>1
  <2>3. m \in Callable(N, made)
    BY <1>3, <2>2, ElementOfSeq DEF d
  <2>4. m \in Range(calls)
    BY <2>1, <2>2 DEF Range
  <2>5. calls \in Seq(R)
    BY <1>3, SeqOfRange
  <2> HIDE DEF R
  <2>6. Tail(calls) \in Seq(R)
    BY <1>1, <2>5, TailIsSeq
  <2>7. Range(Tail(calls)) \subseteq R
    BY <2>6, RangeOfSeq
  <2>8. QED
    BY <2>3, <2>4, <2>7 DEF R
<1>5. \/ status' = "hung"
      \/ eppic_error
      \/ /\ Closings(r) # {} /\ ~MissingArgs(m, r)
         /\ inlist' = <<b>> \o (<<[Top EXCEPT !.rest = t]>> \o Tail(inlist))
         /\ macs' = subs \o macs
         /\ calls' = Tail(calls)
         /\ supressed' = supressed
  BY DEF eppic_pushmac
<1> HIDE DEF m, r, b, subs, t
<1>6. CASE eppic_error
  BY <1>6, AbortMarked DEF eppic_error
<1>7. CASE status' = "hung"
  BY <1>7 DEF MarksKept
<1>8. CASE /\ Closings(r) # {} /\ ~MissingArgs(m, r)
           /\ inlist' = <<b>> \o (<<[Top EXCEPT !.rest = t]>> \o Tail(inlist))
           /\ macs' = subs \o macs
           /\ calls' = Tail(calls)
           /\ supressed' = supressed
  <2> DEFINE after == Rested(t, inlist)
             p == Pushed(b, after)
             X == Range(subs)
             ms2 == subs \o macs
             cs2 == Tail(calls)
  <2>1. t \in Seq(Over(N))
    <3> DEFINE e == Min(Closings(r))
    <3>1. e \in 1..Len(r)
      BY <1>2, <1>8, ClosingInside
    <3>2. Len(r) \in Nat
      BY <1>2, LenProperties
    <3> HIDE DEF e
    <3>3. e \in 0..Len(r)
      BY <3>1, <3>2
    <3>4. SubSeq(r, e + 1, Len(r)) \in Seq(Over(N))
      BY <1>2, <3>3, BehindIsSeq
    <3>5. QED
      BY <3>4 DEF e, t
  <2>2. Mirrored(macs, calls, after, supressed) /\ after \in Seq(Bufs(N, made))
    BY <1>2, <1>3, <2>1, MirroredRest, RestedIs
  <2>3. m \in Known(N, made) /\ m.fn
    BY <1>4 DEF Callable
  <2>4. b \in Bufs(N, made) /\ b.done = "popmac" /\ b.mac = m
    BY <2>3, TextBuffer DEF b
  <2> HIDE DEF after
  <2>5. b.mac \in Held(macs, calls, after)
    BY <1>4, <2>4 DEF Held
  <2>6. Mirrored(macs, calls, p, supressed)
    BY <2>2, <2>4, <2>5, MirroredPush
  <2> HIDE DEF p
  <2>7. subs \in Seq(Known(N, made + Len(m.ps))) /\ \A i \in DOMAIN subs : subs[i].issub /\ subs[i].m = m.id
    <3>1. \A i \in DOMAIN m.ps : Args(m, r)[i] \in Seq(Over(N))
      BY <1>2, <1>8, <2>3, KnownFields, LenProperties, ArgsAreParts
    <3> DEFINE args == Args(m, r)
               sb == Subs(m, args, made)
    <3>2. \A i \in DOMAIN m.ps : args[i] \in Seq(Over(N))
      BY <3>1
    <3> HIDE DEF args
    <3>3. sb \in Seq(Added(N, made + Len(m.ps)))
      BY <1>3, <2>3, <3>2, SubsAreAdded
    <3>4. \A i \in DOMAIN sb : sb[i].issub /\ sb[i].m = m.id
      BY <1>3, <2>3, <3>2, SubsAreAdded
    <3>5. subs = sb
      BY DEF subs, args
    <3> HIDE DEF sb
    <3>6. Added(N, made + Len(m.ps)) \subseteq Known(N, made + Len(m.ps))
      BY DEF Added
    <3>7. sb \in Seq(Known(N, made + Len(m.ps)))
      BY <3>3, <3>6, SeqMonotonic
    <3>8. QED
      BY <3>4, <3>5, <3>7
  <2>8. \A x \in X : x.issub /\ x.m = m.id /\ x \in Known(N, made + Len(m.ps))
    <3>1. \A i \in DOMAIN subs : subs[i] \in Known(N, made + Len(m.ps))
      BY <2>7, LenProperties, ElementOfSeq
    <3>2. QED
      BY <2>7, <3>1 DEF Range
  <2>9. \A x \in X : x.fn => x.id \notin supressed
    BY <2>8 DEF Known
  <2>10. Unlike(Held(macs, calls, p) \cup X)
    <3> DEFINE Z == Held(macs, calls, p)
    <3>1. Unlike(Z) /\ m \in Z
      BY <1>4, <2>6 DEF Mirrored, Held
    <3>2. m.fn /\ m.m = m.id
      BY <2>3 DEF Known
    <3>3. \A x \in X : x.issub /\ x.m = m.id
      BY <2>8
    <3> HIDE DEF Z, X
    <3>4. Unlike(Z \cup X)
      BY <3>1, <3>2, <3>3, SubsUnlike
    <3>5. QED
      BY <3>4 DEF Z
  <2>11. Range(ms2) \subseteq Range(macs) \cup X
    <3> DEFINE Z == Range(macs) \cup X
    <3>1. macs \in Seq(Range(macs)) /\ subs \in Seq(X)
      BY <1>3, <2>7, SeqOfRange
    <3>2. Range(macs) \subseteq Z /\ X \subseteq Z
      OBVIOUS
    <3> HIDE DEF X, Z
    <3>3. macs \in Seq(Z) /\ subs \in Seq(Z)
      BY <3>1, <3>2, SeqMonotonic
    <3>4. ms2 \in Seq(Z)
      BY <3>3, ConcatProperties
    <3>5. Range(ms2) \subseteq Z
      BY <3>4, RangeOfSeq
    <3>6. QED
      BY <3>5 DEF Z
  <2>12. Range(cs2) \subseteq Range(macs) \cup Range(calls)
    BY <1>4
  <2> HIDE DEF X, ms2, cs2
  <2>13. Mirrored(ms2, cs2, p, supressed)
    BY <2>6, <2>9, <2>10, <2>11, <2>12, MirroredNew
  <2>14. macs' = ms2 /\ calls' = cs2 /\ inlist' = p /\ supressed' = supressed
    BY <1>8 DEF ms2, cs2, p, after, Pushed, Rested, Top
  <2>15. QED
    BY <2>13, <2>14 DEF MarksKept
<1>9. QED
  BY <1>5, <1>6, <1>7, <1>8

LEMMA DefineMarked ==
    ASSUME NEW N \in SUBSET Names, Good(N), MarksKept, eppic_define
    PROVE  MarksKept'
<1> DEFINE x == Mac(made + 1, Item.n, Item.fn, Item.ps, Item.text)
           X == {x}
           ms2 == eppic_newmac(macs, supressed, x)
<1>1. /\ AtItem({"define"}) /\ macs' = ms2 /\ inlist' = Advanced
      /\ supressed' = supressed /\ calls' = calls
  BY DEF eppic_define
<1>2. /\ Mirrored(macs, calls, Advanced, supressed) /\ macs \in Seq(Known(N, made))
      /\ made \in Nat /\ supressed \in SUBSET (1..made)
      /\ Held(macs, calls, Advanced) \in SUBSET Known(N, made)
  BY <1>1, AtItemMarked
<1>3. x.m = made + 1 /\ x.id = made + 1
  BY DEF Mac
<1> HIDE DEF x
<1>4. \A z \in X : z.m > made /\ \A y \in X : z.m = y.m => (Plainly(z) <=> Plainly(y))
  BY <1>2, <1>3
<1>5. \A z \in X : z.fn => z.id \notin supressed
  BY <1>2, <1>3
<1>6. Range(ms2) \subseteq Range(macs) \cup X
  BY <1>2, NewmacRange
<1> HIDE DEF X, ms2
<1>7. Unlike(Held(macs, calls, Advanced) \cup X)
  <2> DEFINE Z == Held(macs, calls, Advanced)
  <2>1. Z \in SUBSET Known(N, made) /\ Unlike(Z)
    BY <1>2 DEF Mirrored
  <2> HIDE DEF Z
  <2>2. Unlike(Z \cup X)
    BY <1>2, <1>4, <2>1, UnlikeNew
  <2>3. QED
    BY <2>2 DEF Z
<1>8. Range(calls) \subseteq Range(macs) \cup Range(calls)
  OBVIOUS
<1>9. Mirrored(ms2, calls, Advanced, supressed)
  BY <1>2, <1>5, <1>6, <1>7, <1>8, MirroredNew
<1>10. Mirrored(macs', calls', inlist', supressed')
  BY <1>1, <1>9
<1>11. QED
  BY <1>10 DEF MarksKept

LEMMA UndefineMarked ==
    ASSUME NEW N, Good(N), MarksKept, eppic_undefine
    PROVE  MarksKept'
<1> DEFINE ms2 == TakenOff(macs, supressed, Item.n)
<1>1. /\ AtItem({"undef"}) /\ macs' = ms2 /\ inlist' = Advanced
      /\ supressed' = supressed /\ calls' = calls
  BY DEF eppic_undefine
<1>2. Mirrored(macs, calls, Advanced, supressed) /\ macs \in Seq(Known(N, made))
  BY <1>1, AtItemMarked
<1>3. Range(ms2) \subseteq Range(macs)
  BY <1>2, TakenOffLess
<1> HIDE DEF ms2
<1>4. Range(calls) \subseteq Range(macs) \cup Range(calls)
  OBVIOUS
<1>5. Mirrored(ms2, calls, Advanced, supressed)
  BY <1>2, <1>3, <1>4, MirroredLess
<1>6. Mirrored(macs', calls', inlist', supressed')
  BY <1>1, <1>5
<1>7. QED
  BY <1>6 DEF MarksKept

LEMMA IncludeMarked ==
    ASSUME NEW N, Apart(N), Heard(N), Good(N), MarksKept, eppic_include, Good(N)'
    PROVE  MarksKept'
<1> DEFINE t == Included[Item.n]
           b == Buffer("file", NoMac, t)
<1>1. AtItem({"include"})
  BY DEF eppic_include
<1>2. \/ /\ inlist' = Advanced
         /\ UNCHANGED <<macs, supressed, calls>>
      \/ /\ Item.n \in DOMAIN Included /\ inlist' = <<b>> \o Advanced
         /\ UNCHANGED <<macs, supressed, calls>>
      \/ eppic_error
  BY DEF eppic_include
<1>3. Mirrored(macs, calls, Advanced, supressed) /\ Advanced \in Seq(Bufs(N, made))
  BY <1>1, AtItemMarked
<1> HIDE DEF b
<1>4. CASE eppic_error
  BY <1>4, AbortMarked DEF eppic_error
<1>5. CASE inlist' = Advanced /\ UNCHANGED <<macs, supressed, calls>>
  BY <1>1, <1>5, AdvancedMarked
<1>6. CASE /\ Item.n \in DOMAIN Included /\ inlist' = <<b>> \o Advanced
           /\ UNCHANGED <<macs, supressed, calls>>
  <2>1. t \in Seq(Over(N))
    BY <1>6 DEF Heard, Range
  <2> HIDE DEF t
  <2>2. b \in Bufs(N, made) /\ b.done = "file"
    BY <2>1, BufferTyped DEF b
  <2>3. Mirrored(macs, calls, Pushed(b, Advanced), supressed)
    BY <1>3, <2>2, MirroredPush
  <2>4. Mirrored(macs', calls', inlist', supressed')
    BY <1>6, <2>3 DEF Pushed
  <2>5. QED
    BY <2>4 DEF MarksKept
<1>7. QED
  BY <1>2, <1>4, <1>5, <1>6

LEMMA PushenumsMarked ==
    ASSUME NEW N \in SUBSET Names, Apart(N), Good(N), MarksKept, eppic_pushenums, Good(N)'
    PROVE  MarksKept'
<1> DEFINE ns == Item.ns
           ms2 == Enumerators(macs, supressed, ns, made)
           X == {Enumerator(ns, made, k) : k \in 1..Len(ns)}
<1>1. AtItem({"enum"})
  BY DEF eppic_pushenums
<1>2. \/ eppic_error
      \/ macs' = ms2 /\ inlist' = Advanced /\ UNCHANGED <<supressed, calls>>
  BY DEF eppic_pushenums
<1>3. /\ Mirrored(macs, calls, Advanced, supressed) /\ macs \in Seq(Known(N, made))
      /\ made \in Nat /\ Held(macs, calls, Advanced) \in SUBSET Known(N, made)
  BY <1>1, AtItemMarked
<1>4. ns \in Seq(Names)
  BY <1>1, AtItemReads, ItemFields
<1> HIDE DEF ns
<1>5. CASE eppic_error
  BY <1>5, AbortMarked DEF eppic_error
<1>6. CASE macs' = ms2 /\ inlist' = Advanced /\ UNCHANGED <<supressed, calls>>
  <2>1. \A z \in X : z.m > made /\ Plainly(z) /\ ~z.fn
    <3>1. SUFFICES ASSUME NEW k \in 1..Len(ns)
                   PROVE  /\ Enumerator(ns, made, k).m > made
                          /\ Plainly(Enumerator(ns, made, k)) /\ ~Enumerator(ns, made, k).fn
      OBVIOUS
    <3> DEFINE x == Enumerator(ns, made, k)
    <3>2. x.m = made + k /\ x.fn = FALSE /\ x.issub = FALSE
      BY DEF Enumerator, Mac
    <3> HIDE DEF x
    <3>3. made + k > made
      BY <1>3, <1>4, LenProperties
    <3>4. x.m > made /\ Plainly(x) /\ ~x.fn
      BY <3>2, <3>3 DEF Plainly
    <3>5. QED
      BY <3>4 DEF x
  <2>2. Range(ms2) \subseteq Range(macs) \cup X
    BY <1>3, <1>4, EnumeratorsRange
  <2> HIDE DEF X, ms2
  <2>3. Unlike(Held(macs, calls, Advanced) \cup X)
    <3> DEFINE Z == Held(macs, calls, Advanced)
    <3>1. Z \in SUBSET Known(N, made) /\ Unlike(Z)
      BY <1>3 DEF Mirrored
    <3> HIDE DEF Z
    <3>2. Unlike(Z \cup X)
      BY <1>3, <2>1, <3>1, UnlikeNew
    <3>3. QED
      BY <3>2 DEF Z
  <2>4. Range(calls) \subseteq Range(macs) \cup Range(calls)
    OBVIOUS
  <2>5. \A z \in X : z.fn => z.id \notin supressed
    BY <2>1
  <2>6. Mirrored(ms2, calls, Advanced, supressed)
    BY <1>3, <2>2, <2>3, <2>4, <2>5, MirroredNew
  <2>7. Mirrored(macs', calls', inlist', supressed')
    BY <1>6, <2>6
  <2>8. QED
    BY <2>7 DEF MarksKept
<1>7. QED
  BY <1>2, <1>5, <1>6

LEMMA ZapifMarked ==
    ASSUME NEW N, Apart(N), Good(N), MarksKept, eppic_zapif, Good(N)'
    PROVE  MarksKept'
<1> DEFINE ts == Tail(Top.rest)
           t == SubSeq(ts, Min(Endifs(ts)) + 1, Len(ts))
<1>1. AtItem({"if"})
  BY DEF eppic_zapif
<1>2. \/ eppic_error
      \/ /\ ~MalformedIf(ts) /\ inlist' = <<[Top EXCEPT !.rest = t]>> \o Tail(inlist)
         /\ UNCHANGED <<macs, supressed, calls>>
  BY DEF eppic_zapif
<1>3. inlist # << >> /\ Item \in Over(N) /\ Item.k = "if" /\ ts \in Seq(Over(N))
  BY <1>1, AtItemReads
<1>4. inlist \in Seq(Bufs(N, made)) /\ Mirrored(macs, calls, inlist, supressed)
  BY <1>1, AtItemMarked
<1>5. CASE eppic_error
  BY <1>5, AbortMarked DEF eppic_error
<1>6. CASE /\ ~MalformedIf(ts) /\ inlist' = <<[Top EXCEPT !.rest = t]>> \o Tail(inlist)
           /\ UNCHANGED <<macs, supressed, calls>>
  <2> HIDE DEF ts
  <2>1. Item.cond \in Conditions
    BY <1>3, ItemFields
  <2>2. t \in Seq(Over(N))
    BY <1>3, <1>6, <2>1, BlocksTyped
  <2> HIDE DEF t
  <2>3. Mirrored(macs, calls, Rested(t, inlist), supressed)
    BY <1>3, <1>4, <2>2, MirroredRest
  <2>4. Mirrored(macs', calls', inlist', supressed')
    BY <1>6, <2>3 DEF Rested, Top
  <2>5. QED
    BY <2>4 DEF MarksKept
<1>7. QED
  BY <1>2, <1>5, <1>6

LEMMA StrayDirectiveMarked ==
    ASSUME NEW N, Apart(N), StrayDirective, Good(N)'
    PROVE  MarksKept'
BY AbortMarked DEF StrayDirective, eppic_error

\* The block that is read goes before the rest of the current buffer.
LEMMA DecideMarked ==
    ASSUME NEW N, NEW bufs, bufs # << >>, alts # << >>, status = "parsing",
           Fit(N, macs, supressed, bufs, calls, alts, made),
           Mirrored(macs, calls, bufs, supressed), NEW b \in BOOLEAN, Decide(b, bufs),
           macs' = macs, supressed' = supressed, calls' = calls
    PROVE  MarksKept'
<1> DEFINE t == alts[1].body \o bufs[1].rest
<1>1. inlist' = IF b THEN Rested(t, bufs) ELSE bufs
  BY DEF Decide, Reading, Rested
<1>2. bufs \in Seq(Bufs(N, made)) /\ alts \in Seq(Blocks(N))
  BY DEF Fit
<1>3. t \in Seq(Over(N))
  <2> DEFINE d == Len(alts)
             e == Len(bufs)
  <2>1. d \in Nat \ {0} /\ e \in Nat \ {0}
    BY <1>2, EmptySeq
  <2> HIDE DEF d, e
  <2>2. 1 \in 1..d /\ 1 \in 1..e
    BY <2>1
  <2>3. alts[1] \in Blocks(N) /\ bufs[1] \in Bufs(N, made)
    BY <1>2, <2>2, ElementOfSeq DEF d, e
  <2>4. alts[1].body \in Seq(Over(N)) /\ bufs[1].rest \in Seq(Over(N))
    BY <2>3 DEF Blocks, Bufs
  <2>5. QED
    BY <2>4, ConcatProperties
<1> HIDE DEF t
<1>4. Mirrored(macs, calls, Rested(t, bufs), supressed)
  BY <1>2, <1>3, MirroredRest
<1>5. Mirrored(macs', calls', inlist', supressed')
  BY <1>1, <1>4
<1>6. QED
  BY <1>5 DEF MarksKept

LEMMA TryBlockMarked ==
    ASSUME NEW N, Apart(N), Good(N), MarksKept, TryBlock, Good(N)'
    PROVE  MarksKept'
<1> DEFINE cond == alts[1].cond
           yes == cond.t = "else" \/ (cond.t = "ifdef") =
                    (eppic_getmac(macs, supressed, cond.n) # NoMac)
           b == Buffer("expr", NoMac, cond.text)
<1>1. status = "parsing" /\ alts # << >> /\ Exprs(inlist) = {}
  BY DEF TryBlock, Inpp, Exprs
<1>2. \/ Decide(yes, inlist) /\ UNCHANGED <<macs, supressed, calls>>
      \/ /\ cond.t = "expr" /\ inlist' = <<b>> \o inlist
         /\ UNCHANGED <<macs, supressed, calls>>
      \/ eppic_error
  BY DEF TryBlock
<1>3. /\ Fit(N, macs, supressed, inlist, calls, alts, made) /\ inlist # << >>
      /\ inlist \in Seq(Bufs(N, made)) /\ alts \in Seq(Blocks(N))
  BY <1>1 DEF Good, Fit, Shaped
<1>4. Mirrored(macs, calls, inlist, supressed) /\ yes \in BOOLEAN
  BY <1>1 DEF MarksKept
<1> HIDE DEF yes
<1>5. CASE eppic_error
  BY <1>5, AbortMarked DEF eppic_error
<1>6. CASE Decide(yes, inlist) /\ UNCHANGED <<macs, supressed, calls>>
  BY <1>1, <1>3, <1>4, <1>6, DecideMarked
<1>7. CASE /\ cond.t = "expr" /\ inlist' = <<b>> \o inlist
           /\ UNCHANGED <<macs, supressed, calls>>
  <2>1. b.done = "expr" /\ b \in {b}
    BY DEF Buffer
  <2> DEFINE S == Bufs(N, made) \cup {b}
  <2>2. b \in S /\ Bufs(N, made) \subseteq S
    OBVIOUS
  <2> HIDE DEF b, S
  <2>3. inlist \in Seq(S)
    BY <1>3, <2>2, SeqMonotonic
  <2>4. Mirrored(macs, calls, Pushed(b, inlist), supressed)
    BY <1>4, <2>1, <2>2, <2>3, MirroredPush
  <2>5. Mirrored(macs', calls', inlist', supressed')
    BY <1>7, <2>4 DEF Pushed
  <2>6. QED
    BY <2>5 DEF MarksKept
<1>8. QED
  BY <1>2, <1>5, <1>6, <1>7

LEMMA EndExpressionMarked ==
    ASSUME NEW N, Apart(N), Good(N), MarksKept, EndExpression, Good(N)'
    PROVE  MarksKept'
<1> DEFINE bufs == Tail(inlist)
           b == ppout[1] = "1"
<1>1. /\ status = "parsing" /\ inlist # << >> /\ inlist[1].done = "expr"
      /\ alts = << >> \/ Exprs(inlist) # {}
  BY DEF EndExpression, Lexing, Inpp, Exprs, Top
<1>2. \/ Decide(b, bufs) /\ UNCHANGED <<macs, supressed, calls>>
      \/ eppic_error
  BY DEF EndExpression
<1>3. CASE eppic_error
  BY <1>3, AbortMarked DEF eppic_error
<1>4. CASE Decide(b, bufs) /\ UNCHANGED <<macs, supressed, calls>>
  <2>1. Fit(N, macs, supressed, inlist, calls, alts, made)
    BY DEF Good
  <2>2. Fit(N, macs, supressed, bufs, calls, alts, made) /\ alts # << >> /\ bufs # << >>
    BY <1>1, <2>1, FitPop
  <2>3. b \in BOOLEAN
    OBVIOUS
  <2>4. Mirrored(macs, calls, inlist, supressed) /\ inlist \in Seq(Bufs(N, made))
    BY <1>1, <2>1 DEF MarksKept, Fit
  <2>5. Mirrored(macs, calls, bufs, supressed)
    <3> DEFINE sup == IF inlist[1].done = "popsub" THEN supressed \ {inlist[1].mac.m} ELSE supressed
    <3>1. Mirrored(macs, calls, bufs, sup)
      BY <1>1, <2>4, MirroredPop
    <3>2. sup = supressed
      BY <1>1
    <3> HIDE DEF sup
    <3>3. QED
      BY <3>1, <3>2
  <2> HIDE DEF bufs, b
  <2>6. QED
    BY <1>1, <1>4, <2>2, <2>3, <2>5, DecideMarked
<1>5. QED
  BY <1>2, <1>3, <1>4

LEMMA NextMarked ==
    ASSUME NEW N \in SUBSET Names, Apart(N), Heard(N), Good(N), MarksKept, [Next]_vars
    PROVE  MarksKept'
<1>0. Good(N)'
  BY NextGood
<1>1. CASE BeginLoad
  BY <1>1, BeginLoadMarked
<1>2. CASE PopBuffer
  BY <1>0, <1>2, PopBufferMarked
<1>3. CASE EndParse
  BY <1>0, <1>3, EndParseMarked
<1>4. CASE eppic_chkmacvar
  BY <1>0, <1>4, ChkmacvarMarked
<1>5. CASE LexMark
  BY <1>0, <1>5, LexMarkMarked
<1>6. CASE eppic_pushmac
  BY <1>0, <1>6, PushmacMarked
<1>7. CASE eppic_define
  BY <1>7, DefineMarked
<1>8. CASE eppic_undefine
  BY <1>8, UndefineMarked
<1>9. CASE eppic_include
  BY <1>0, <1>9, IncludeMarked
<1>10. CASE eppic_pushenums
  BY <1>0, <1>10, PushenumsMarked
<1>11. CASE eppic_zapif
  BY <1>0, <1>11, ZapifMarked
<1>12. CASE StrayDirective
  BY <1>0, <1>12, StrayDirectiveMarked
<1>13. CASE TryBlock
  BY <1>0, <1>13, TryBlockMarked
<1>14. CASE EndExpression
  BY <1>0, <1>14, EndExpressionMarked
<1>15. CASE UNCHANGED vars
  BY <1>15 DEF vars, MarksKept
<1>16. QED
  BY <1>1, <1>2, <1>3, <1>4, <1>5, <1>6, <1>7, <1>8, <1>9, <1>10, <1>11, <1>12, <1>13,
     <1>14, <1>15 DEF Next, Step

\* A mark is its buffer's, and a buffer of a parameter has its mark.
LEMMA MarksAreBuffers ==
    ASSUME NEW N, Good(N), MarksKept
    PROVE  MarksMirrorBuffers
<1>1. SUFFICES ASSUME status \in {"idle", "parsing"}, NEW i \in DOMAIN macs, macs[i].fn
               PROVE  macs[i].id \in supressed <=>
                        \E j \in DOMAIN inlist : /\ inlist[j].done = "popsub"
                                                 /\ inlist[j].mac.m = macs[i].id
  BY DEF MarksMirrorBuffers
<1> DEFINE f == macs[i]
<1>2. Mirrored(macs, calls, inlist, supressed)
  BY <1>1 DEF MarksKept
<1>3. f \in Range(macs) /\ f \in Held(macs, calls, inlist)
  BY DEF Range, Held
<1>4. f \in Known(N, made)
  BY <1>3, HeldKnown DEF Good
<1> HIDE DEF f
<1>5. f.fn /\ f.m = f.id /\ ~Plainly(f)
  BY <1>1, <1>4 DEF Known, Plainly, f
<1>6. ASSUME f.id \in supressed
      PROVE  \E j \in DOMAIN inlist : inlist[j].done = "popsub" /\ inlist[j].mac.m = f.id
  BY <1>2, <1>3, <1>5, <1>6 DEF Mirrored, Marked, Subbing
<1>7. ASSUME NEW j \in DOMAIN inlist, inlist[j].done = "popsub", inlist[j].mac.m = f.id
      PROVE  f.id \in supressed
  <2> DEFINE x == inlist[j].mac
  <2>1. j \in Subbing(inlist) /\ j \in Bearing(inlist)
    BY <1>7 DEF Subbing, Bearing
  <2>2. x \in Held(macs, calls, inlist) /\ ~x.fn /\ (x.issub => x.m \in supressed)
    BY <1>2, <2>1 DEF Mirrored, Marking, Held
  <2>3. x.m = f.m
    BY <1>5, <1>7
  <2> HIDE DEF x
  <2>4. ~Plainly(x)
    BY <1>2, <1>3, <1>5, <2>2, <2>3 DEF Mirrored, Unlike
  <2>5. x.m \in supressed
    BY <2>2, <2>4 DEF Plainly
  <2>6. QED
    BY <1>5, <2>3, <2>5
<1>8. QED
  BY <1>6, <1>7 DEF f

(***************************************************************************)
(* A macro with parameters is marked just while the substitution of one of  *)
(* them is being read, however the calls are nested, whatever is defined     *)
(* and undefined meanwhile, and whether the load ends well or is given up:    *)
(* what eppic_chkmacvar marks, eppic_popsub unmarks, also when it is          *)
(* eppic_popallin that calls it.                                            *)
(***************************************************************************)
THEOREM MarksFollowBuffers ==
    ASSUME HostUntouched
    PROVE  Spec => []MarksMirrorBuffers
<1> DEFINE Kept == Good(Others) /\ MarksKept
<1>1. Init => Kept
  <2>1. ASSUME Init PROVE MarksKept
    <3>1. macs = ApiMacs /\ calls = << >> /\ inlist = << >>
      BY <2>1 DEF Init
    <3>2. Mirrored(macs, calls, inlist, supressed)
      BY <3>1, MirroredApi
    <3>3. QED
      BY <3>2 DEF MarksKept
  <2>2. QED
    BY <2>1, InitGood
<1>2. Kept /\ [Next]_vars => Kept'
  BY OthersHeard, NextGood, NextMarked
<1>3. Kept => MarksMirrorBuffers
  BY MarksAreBuffers
<1>4. QED
  BY <1>1, <1>2, <1>3, PTL DEF Spec

=============================================================================
