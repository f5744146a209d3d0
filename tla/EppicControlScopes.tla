-------------------------- MODULE EppicControlScopes --------------------------
(***************************************************************************)
(* The scope levels of EppicControl.  Each frame remembers the level it was *)
(* opened at, a block in its local and the others in their entry of the jump *)
(* stack; whichever way a frame is left, the scopes go back to that level.   *)
(* From this: lookups stay in their function, scopes in use are alive and    *)
(* never change, and the two stacks implement StructuredControl.            *)
(***************************************************************************)
EXTENDS EppicControlProofs

Acts == [kind : Kinds, base : 0..MaxScopes]
ScopeTypes == {"FILE", "STAT", "AUTO", "PARSE", "NONE"}

\* The scopes that an activation itself has opened.
Opened(kind) ==
    IF kind \in {"enter", "statics"} THEN 1
    ELSE IF kind \in {"call", "block"} THEN 2 ELSE 0

\* The levels of the activations nest, from the residue of the load upwards.
Nested(a, o) ==
    /\ Residue <= Len(o)
    /\ Len(a) = 0 => Len(o) = Residue
    /\ Len(a) > 0 => a[1].base = Residue
    /\ \A k \in 1..Len(a) : Residue <= a[k].base /\ a[k].base + Opened(a[k].kind) <= Len(o)
    /\ \A k, m \in 1..Len(a) : k < m => a[k].base + Opened(a[k].kind) <= a[m].base

\* The file scopes are those the active functions opened, one each.
FilesOwned(a, o) ==
    /\ \A k \in 1..Len(a) : a[k].kind \in Functions => o[a[k].base + 1] = "FILE"
    /\ \A n \in 1..Len(o) : o[n] = "FILE" =>
        \E k \in 1..Len(a) : a[k].kind \in Functions /\ a[k].base + 1 = n
    /\ \A n \in 1..Residue : o[n] = "PARSE"

Shape(a, o) == Nested(a, o) /\ FilesOwned(a, o)

\* A jump off the stack leaves no entry; until then the levels have their shape.
SInv == JInv /\ (Len(jmps) > 0 => Mirrors(ctl, jmps) /\ Shape(Act, Types))

-----------------------------------------------------------------------------
(* Activations and scopes as sequences.                                     *)

LEMMA Constants == Residue \in Nat /\ MaxScopes \in Nat /\ Residue <= MaxScopes
BY ControlAssumption DEF ControlAssumption

\* An activation's base, and the scopes it opened, lie within the open scopes.
LEMMA ShapeAt ==
    ASSUME NEW a \in Seq(Acts), NEW o \in Seq(ScopeTypes), Shape(a, o), NEW k \in 1..Len(a)
    PROVE  /\ a[k].base \in Nat /\ a[k].kind \in Kinds /\ Opened(a[k].kind) \in {0, 1, 2}
           /\ Residue <= a[k].base /\ a[k].base + Opened(a[k].kind) <= Len(o)
           /\ a[k].kind \in Functions => a[k].base + 1 \in 1..Len(o)
<1>1. a[k] \in Acts /\ Len(o) \in Nat
  OBVIOUS
<1>2. a[k].base \in Nat /\ a[k].kind \in Kinds /\ Opened(a[k].kind) \in {0, 1, 2}
  BY <1>1, Constants DEF Acts, Opened
<1>3. Residue <= a[k].base /\ a[k].base + Opened(a[k].kind) <= Len(o)
  BY DEF Shape, Nested
<1>4. a[k].kind \in Functions => Opened(a[k].kind) \in {1, 2}
  BY DEF Functions, Opened
<1>5. QED
  BY <1>1, <1>2, <1>3, <1>4

\* Something opens on top, at the level in use, with at most one scope.
LEMMA ShapePush ==
    ASSUME NEW a \in Seq(Acts), NEW o \in Seq(ScopeTypes), Shape(a, o),
           NEW kind \in Kinds, Opened(kind) \in {0, 1}, Len(o) <= MaxScopes,
           NEW o2 \in Seq(ScopeTypes), Len(o2) = Len(o) + Opened(kind),
           \A i \in 1..Len(o) : o2[i] = o[i],
           Opened(kind) = 1 => (o2[Len(o) + 1] = "FILE" <=> kind = "enter")
    PROVE  /\ Append(a, [kind |-> kind, base |-> Len(o)]) \in Seq(Acts)
           /\ Shape(Append(a, [kind |-> kind, base |-> Len(o)]), o2)
<1> DEFINE x == [kind |-> kind, base |-> Len(o)]
           b == Append(a, x)
<1>1. x \in Acts /\ x.kind = kind /\ x.base = Len(o) /\ Len(o) \in Nat /\ Len(a) \in Nat
  BY DEF Acts
<1> HIDE DEF x
<1>2. /\ b \in Seq(Acts) /\ Len(b) = Len(a) + 1 /\ b[Len(a) + 1] = x
      /\ \A k \in 1..Len(a) : b[k] = a[k]
  BY <1>1, Appended
<1>3. \A k \in 1..Len(a) : a[k].base \in Nat /\ Opened(a[k].kind) \in {0, 1, 2}
  BY ShapeAt
<1> HIDE DEF b
<1>4. Nested(b, o2)
  <2>1. Residue <= Len(o2) /\ Len(b) # 0
    BY <1>1, <1>2, Constants DEF Shape, Nested
  <2>2. b[1].base = Residue
    <3>1. CASE Len(a) = 0
      BY <1>1, <1>2, <3>1 DEF Shape, Nested
    <3>2. CASE Len(a) > 0
      BY <1>1, <1>2, <3>2 DEF Shape, Nested
    <3>3. QED
      BY <1>1, <3>1, <3>2
  <2>3. ASSUME NEW k \in 1..Len(b)
        PROVE  Residue <= b[k].base /\ b[k].base + Opened(b[k].kind) <= Len(o2)
    <3>1. CASE k = Len(a) + 1
      BY <1>1, <1>2, <3>1 DEF Shape, Nested
    <3>2. CASE k \in 1..Len(a)
      <4>1. Residue <= a[k].base /\ a[k].base + Opened(a[k].kind) <= Len(o)
        BY <3>2, ShapeAt
      <4>2. b[k] = a[k] /\ Len(o) <= Len(o2)
        BY <1>1, <1>2, <3>2
      <4>3. a[k].base + Opened(a[k].kind) \in Nat /\ Len(o2) \in Nat
        BY <1>3, <3>2
      <4>4. QED
        BY <1>1, <4>1, <4>2, <4>3
    <3>3. QED
      BY <1>1, <1>2, <3>1, <3>2
  <2>4. ASSUME NEW k \in 1..Len(b), NEW m \in 1..Len(b), k < m
        PROVE  b[k].base + Opened(b[k].kind) <= b[m].base
    <3>1. CASE m = Len(a) + 1
      BY <1>1, <1>2, <1>3, <2>4, <3>1 DEF Shape, Nested
    <3>2. CASE m \in 1..Len(a)
      BY <1>1, <1>2, <2>4, <3>2 DEF Shape, Nested
    <3>3. QED
      BY <1>1, <1>2, <3>1, <3>2
  <2>5. QED
    BY <2>1, <2>2, <2>3, <2>4 DEF Nested
<1>5. FilesOwned(b, o2)
  <2>1. ASSUME NEW k \in 1..Len(b), b[k].kind \in Functions
        PROVE  o2[b[k].base + 1] = "FILE"
    <3>1. CASE k = Len(a) + 1
      BY <1>1, <1>2, <2>1, <3>1 DEF Opened, Functions
    <3>2. CASE k \in 1..Len(a)
      <4>1. a[k].base + 1 \in 1..Len(o)
        BY <1>2, <2>1, <3>2, ShapeAt
      <4>2. QED
        BY <1>2, <2>1, <3>2, <4>1 DEF Shape, FilesOwned
    <3>3. QED
      BY <1>1, <1>2, <3>1, <3>2
  <2>2. ASSUME NEW n \in 1..Len(o2), o2[n] = "FILE"
        PROVE  \E k \in 1..Len(b) : b[k].kind \in Functions /\ b[k].base + 1 = n
    <3>1. CASE n \in 1..Len(o)
      <4>1. PICK k \in 1..Len(a) : a[k].kind \in Functions /\ a[k].base + 1 = n
        BY <2>2, <3>1 DEF Shape, FilesOwned
      <4>2. QED
        BY <1>1, <1>2, <4>1
    <3>2. CASE n = Len(o) + 1
      <4>1. Opened(kind) = 1
        BY <1>1, <3>2
      <4>2. kind = "enter"
        BY <2>2, <3>2, <4>1
      <4>3. QED
        BY <1>1, <1>2, <3>2, <4>2 DEF Functions
    <3>3. QED
      BY <1>1, <3>1, <3>2
  <2>3. \A n \in 1..Residue : o2[n] = "PARSE"
    BY <1>1, Constants DEF Shape, Nested, FilesOwned
  <2>4. QED
    BY <2>1, <2>2, <2>3 DEF FilesOwned
<1>6. QED
  BY <1>2, <1>4, <1>5 DEF Shape, b, x


\* A function, or a block, goes on to its automatic scope.
LEMMA ShapeGrow ==
    ASSUME NEW a \in Seq(Acts), NEW o \in Seq(ScopeTypes), Shape(a, o), Len(a) > 0,
           NEW b \in Seq(Acts), Len(b) = Len(a),
           \A k \in 1..Len(a) - 1 : b[k] = a[k],
           b[Len(a)].base = a[Len(a)].base,
           \/ a[Len(a)].kind = "enter" /\ b[Len(a)].kind = "call"
           \/ a[Len(a)].kind = "statics" /\ b[Len(a)].kind = "block"
    PROVE  Shape(b, Append(o, "AUTO"))
<1> DEFINE p == Append(o, "AUTO")
           top == Len(a)
<1>1. /\ Len(a) \in Nat /\ Len(o) \in Nat /\ top \in 1..Len(a)
      /\ Len(p) = Len(o) + 1 /\ p[Len(o) + 1] = "AUTO"
      /\ \A i \in 1..Len(o) : p[i] = o[i]
  BY Appended DEF ScopeTypes
<1> HIDE DEF p
<1>2. \A k \in 1..Len(a) : a[k].base \in Nat /\ Opened(a[k].kind) \in {0, 1, 2}
  BY ShapeAt
<1>3. /\ Opened(a[top].kind) = 1 /\ Opened(b[top].kind) = 2
      /\ a[top].kind \in Functions <=> b[top].kind \in Functions
  BY DEF Opened, Functions
<1>4. ASSUME NEW k \in 1..Len(a)
      PROVE  /\ b[k].base = a[k].base
             /\ a[k].kind \in Functions <=> b[k].kind \in Functions
             /\ k # top => b[k] = a[k]
  <2>1. CASE k = top
    BY <1>3, <2>1
  <2>2. CASE k \in 1..Len(a) - 1
    BY <2>2
  <2>3. QED
    BY <1>1, <2>1, <2>2
<1>5. Nested(b, p)
  <2>1. Residue <= Len(p) /\ Len(b) # 0 /\ b[1].base = Residue
    BY <1>1, <1>4, Constants DEF Shape, Nested
  <2>2. ASSUME NEW k \in 1..Len(a)
        PROVE  Residue <= b[k].base /\ b[k].base + Opened(b[k].kind) <= Len(p)
    <3>1. Residue <= a[k].base /\ a[k].base + Opened(a[k].kind) <= Len(o)
      BY DEF Shape, Nested
    <3>2. CASE k = top
      BY <1>1, <1>2, <1>3, <1>4, <3>1, <3>2
    <3>3. CASE k # top
      BY <1>1, <1>2, <1>4, <3>1, <3>3
    <3>4. QED
      BY <3>2, <3>3
  <2>3. ASSUME NEW k \in 1..Len(a), NEW m \in 1..Len(a), k < m
        PROVE  b[k].base + Opened(b[k].kind) <= b[m].base
    <3>1. k # top
      BY <1>1, <2>3
    <3>2. QED
      BY <1>4, <2>3, <3>1 DEF Shape, Nested
  <2>4. QED
    BY <2>1, <2>2, <2>3 DEF Nested
<1>6. FilesOwned(b, p)
  <2>1. ASSUME NEW k \in 1..Len(a), a[k].kind \in Functions PROVE p[a[k].base + 1] = "FILE"
    <3>1. a[k].base + 1 \in 1..Len(o)
      BY <2>1, ShapeAt
    <3>2. QED
      BY <1>1, <2>1, <3>1 DEF Shape, FilesOwned
  <2>2. ASSUME NEW n \in 1..Len(p), p[n] = "FILE"
        PROVE  \E k \in 1..Len(b) : b[k].kind \in Functions /\ b[k].base + 1 = n
    <3>1. n \in 1..Len(o)
      BY <1>1, <2>2
    <3>2. PICK k \in 1..Len(a) : a[k].kind \in Functions /\ a[k].base + 1 = n
      BY <1>1, <2>2, <3>1 DEF Shape, FilesOwned
    <3>3. QED
      BY <1>4, <3>2
  <2>3. \A n \in 1..Residue : p[n] = "PARSE"
    BY <1>1, Constants DEF Shape, Nested, FilesOwned
  <2>4. QED
    BY <1>4, <2>1, <2>2, <2>3 DEF FilesOwned
<1>7. QED
  BY <1>5, <1>6 DEF Shape, p

\* An activation ends with everything inside it, and the scopes go back to its base.
LEMMA ShapeCut ==
    ASSUME NEW a \in Seq(Acts), NEW o \in Seq(ScopeTypes), Shape(a, o), NEW e \in 1..Len(a)
    PROVE  /\ a[e].base \in 0..Len(o)
           /\ Shape(SubSeq(a, 1, e - 1), SubSeq(o, 1, a[e].base))
<1> DEFINE b == SubSeq(a, 1, e - 1)
           h == a[e].base
           p == SubSeq(o, 1, h)
<1>1. Len(a) \in Nat /\ Len(o) \in Nat /\ e - 1 \in 0..Len(a)
  OBVIOUS
<1>2. \A k \in 1..Len(a) : a[k].base \in Nat /\ Opened(a[k].kind) \in {0, 1, 2}
  BY ShapeAt
<1>3. h \in 0..Len(o) /\ Residue <= h
  BY <1>1, <1>2 DEF Shape, Nested
<1>4. Len(b) = e - 1 /\ \A k \in 1..e - 1 : b[k] = a[k]
  BY <1>1, Prefix
<1>5. Len(p) = h /\ \A i \in 1..h : p[i] = o[i]
  BY <1>3, Prefix
<1> HIDE DEF b, h, p
<1>6. ASSUME NEW k \in 1..e - 1
      PROVE  k \in 1..Len(a) /\ a[k].base + Opened(a[k].kind) <= h
  BY <1>1 DEF Shape, Nested, h
<1>7. Nested(b, p)
  <2>1. Len(b) = 0 => Len(p) = Residue
    BY <1>1, <1>4, <1>5 DEF Shape, Nested, h
  <2>2. Len(b) > 0 => b[1].base = Residue
    BY <1>1, <1>4 DEF Shape, Nested
  <2>3. \A k \in 1..Len(b) : Residue <= b[k].base /\ b[k].base + Opened(b[k].kind) <= Len(p)
    BY <1>4, <1>5, <1>6 DEF Shape, Nested
  <2>4. \A k, m \in 1..Len(b) : k < m => b[k].base + Opened(b[k].kind) <= b[m].base
    BY <1>4, <1>6 DEF Shape, Nested
  <2>5. QED
    BY <1>3, <1>5, <2>1, <2>2, <2>3, <2>4 DEF Nested
<1>8. FilesOwned(b, p)
  <2>1. ASSUME NEW k \in 1..e - 1, a[k].kind \in Functions PROVE p[a[k].base + 1] = "FILE"
    <3>1. a[k].base + 1 \in 1..h
      BY <1>2, <1>3, <1>6, <2>1 DEF Opened, Functions
    <3>2. QED
      BY <1>5, <1>6, <2>1, <3>1 DEF Shape, FilesOwned
  <2>2. ASSUME NEW n \in 1..h, p[n] = "FILE"
        PROVE  \E k \in 1..e - 1 : a[k].kind \in Functions /\ a[k].base + 1 = n
    <3>1. n \in 1..Len(o) /\ o[n] = "FILE"
      BY <1>3, <1>5, <2>2
    <3>2. PICK k \in 1..Len(a) : a[k].kind \in Functions /\ a[k].base + 1 = n
      BY <3>1 DEF Shape, FilesOwned
    <3>3. k < e
      <4>1. SUFFICES ASSUME k >= e PROVE FALSE
        BY <1>1
      <4>2. h <= a[k].base
        <5>1. CASE k = e
          BY <5>1, <1>2, <1>3 DEF h
        <5>2. CASE e < k
          <6>1. a[e].base + Opened(a[e].kind) <= a[k].base
            BY <5>2 DEF Shape, Nested
          <6>2. QED
            BY <6>1, <1>2, <1>3 DEF h
        <5>3. QED
          BY <4>1, <5>1, <5>2, <1>1
      <4>3. QED
        BY <1>2, <1>3, <3>2, <4>2
    <3>4. QED
      BY <1>1, <3>2, <3>3
  <2>3. \A n \in 1..Residue : p[n] = "PARSE"
    BY <1>3, <1>5, Constants DEF Shape, FilesOwned
  <2>4. QED
    BY <1>4, <1>5, <2>1, <2>2, <2>3 DEF FilesOwned
<1>9. QED
  BY <1>3, <1>7, <1>8 DEF Shape, b, h, p


-----------------------------------------------------------------------------
(* The base of a frame.                                                     *)

\* The entry of a frame on the jump stack is the only one that names it.
LEMMA BaseIs ==
    ASSUME NEW c \in Seq(Frames), NEW j \in Seq(Jumps), Mirrors(c, j),
           NEW i \in 2..Len(j)
    PROVE  Base(c, j, j[i].env) = j[i].svlev
<1> DEFINE k == j[i].env
           n == CHOOSE m \in 2..Len(j) : j[m].env = k
<1>1. Len(j) \in Nat /\ k \in 1..Len(c) /\ c[k].kind \in ContextKinds
  BY DEF Mirrors
<1>2. c[k].kind \notin BlockKinds
  BY <1>1 DEF ContextKinds, BlockKinds, Functions, Guards
<1>3. n \in 2..Len(j) /\ j[n].env = k
  OBVIOUS
<1> HIDE DEF n
<1>4. n = i
  <2>1. ~(n < i) /\ ~(i < n)
    BY <1>1, <1>3 DEF Mirrors
  <2>2. QED
    BY <1>1, <1>3, <2>1
<1>5. QED
  BY <1>2, <1>4 DEF Base, n

\* Every frame has a base.
LEMMA ActsType ==
    ASSUME NEW c \in Seq(Frames), NEW j \in Seq(Jumps), Mirrors(c, j)
    PROVE  /\ Activations(c, j) \in Seq(Acts)
           /\ Len(Activations(c, j)) = Len(c)
           /\ \A k \in 1..Len(c) : /\ Activations(c, j)[k].kind = c[k].kind
                                   /\ Activations(c, j)[k].base = Base(c, j, k)
<1>1. Len(c) \in Nat
  OBVIOUS
<1>2. ASSUME NEW k \in 1..Len(c)
      PROVE  c[k].kind \in Kinds /\ Base(c, j, k) \in 0..MaxScopes
  <2>1. c[k] \in Frames
    OBVIOUS
  <2>2. CASE c[k].kind \in BlockKinds
    BY <2>1, <2>2 DEF Base, Frames
  <2>3. CASE c[k].kind \notin BlockKinds
    <3>1. c[k].kind \in ContextKinds
      BY <2>1, <2>3 DEF Frames, Kinds
    <3>2. PICK i \in 2..Len(j) : j[i].env = k
      BY <3>1 DEF Mirrors
    <3>3. Base(c, j, k) = j[i].svlev
      BY <3>2, BaseIs
    <3>4. j[i] \in Jumps
      BY <3>2
    <3>5. QED
      BY <2>1, <3>3, <3>4 DEF Jumps, Frames
  <2>4. QED
    BY <2>2, <2>3
<1>3. \A k \in 1..Len(c) : [kind |-> c[k].kind, base |-> Base(c, j, k)] \in Acts
  BY <1>2 DEF Acts
<1>4. QED
  BY <1>1, <1>3 DEF Activations

\* A frame that both stacks have keeps its base.
LEMMA BaseKept ==
    ASSUME NEW c \in Seq(Frames), NEW j \in Seq(Jumps), Mirrors(c, j),
           NEW d \in Seq(Frames), NEW l \in Seq(Jumps), Mirrors(d, l),
           NEW k \in 1..Len(c), k \in 1..Len(d),
           d[k].kind \in BlockKinds <=> c[k].kind \in BlockKinds, d[k].lev = c[k].lev,
           NEW n \in 0..Len(j), n <= Len(l), \A i \in 1..n : l[i] = j[i],
           \A i \in 2..Len(j) : j[i].env = k => i <= n
    PROVE  Base(d, l, k) = Base(c, j, k)
<1>1. CASE c[k].kind \in BlockKinds
  BY <1>1 DEF Base
<1>2. CASE c[k].kind \notin BlockKinds
  <2>1. c[k] \in Frames /\ Len(j) \in Nat /\ Len(l) \in Nat
    OBVIOUS
  <2>2. c[k].kind \in ContextKinds
    BY <1>2, <2>1 DEF Frames, Kinds
  <2>3. PICK i \in 2..Len(j) : j[i].env = k
    BY <2>2 DEF Mirrors
  <2>4. i \in 2..Len(l) /\ l[i] = j[i]
    BY <2>1, <2>3
  <2>5. Base(c, j, k) = j[i].svlev /\ Base(d, l, k) = l[i].svlev
    BY <2>3, <2>4, BaseIs
  <2>6. QED
    BY <2>4, <2>5
<1>3. QED
  BY <1>1, <1>2

\* Sequences of activations are equal when their elements are.
LEMMA SameActs ==
    ASSUME NEW a \in Seq(Acts), NEW b \in Seq(Acts), Len(a) = Len(b),
           \A k \in 1..Len(a) : a[k].kind = b[k].kind /\ a[k].base = b[k].base
    PROVE  a = b
<1>1. ASSUME NEW k \in 1..Len(a) PROVE a[k] = b[k]
  <2>1. a[k] \in Acts /\ b[k] \in Acts
    OBVIOUS
  <2>2. QED
    BY <2>1 DEF Acts
<1>2. QED
  BY <1>1, SeqEqual

\* A routine that calls setjmp opens at the level its entry records.
LEMMA ActsPush ==
    ASSUME NEW c \in Seq(Frames), NEW j \in Seq(Jumps), Mirrors(c, j),
           NEW f \in Frames, f.kind \in ContextKinds, NEW x \in Jumps,
           x.type = JumpType(f.kind), x.env = Len(c) + 1
    PROVE  Activations(Append(c, f), Append(j, x)) =
               Append(Activations(c, j), [kind |-> f.kind, base |-> x.svlev])
<1> DEFINE d == Append(c, f)
           l == Append(j, x)
           y == [kind |-> f.kind, base |-> x.svlev]
           a == Activations(c, j)
           b == Activations(d, l)
<1>1. /\ Len(c) \in Nat /\ d \in Seq(Frames) /\ Len(d) = Len(c) + 1 /\ d[Len(c) + 1] = f
      /\ \A k \in 1..Len(c) : d[k] = c[k]
  BY Appended
<1>2. /\ Len(j) \in Nat /\ l \in Seq(Jumps) /\ Len(l) = Len(j) + 1 /\ l[Len(j) + 1] = x
      /\ \A i \in 1..Len(j) : l[i] = j[i]
  BY Appended
<1>3. Mirrors(d, l) /\ Len(j) > 0
  <2>1. Mirrors(d, l)
    BY MirrorsPush
  <2>2. QED
    BY <2>1 DEF Mirrors
<1> HIDE DEF d, l
<1>4. y \in Acts /\ y.kind = f.kind /\ y.base = x.svlev
  BY DEF Acts, Frames, Jumps
<1> HIDE DEF y
<1>5. /\ a \in Seq(Acts) /\ Len(a) = Len(c)
      /\ \A k \in 1..Len(c) : a[k].kind = c[k].kind /\ a[k].base = Base(c, j, k)
  BY ActsType
<1>6. /\ b \in Seq(Acts) /\ Len(b) = Len(d)
      /\ \A k \in 1..Len(d) : b[k].kind = d[k].kind /\ b[k].base = Base(d, l, k)
  BY <1>1, <1>2, <1>3, ActsType
<1> HIDE DEF a, b
<1>7. ASSUME NEW k \in 1..Len(c) PROVE Base(d, l, k) = Base(c, j, k)
  <2>1. /\ k \in 1..Len(d) /\ Len(j) \in 0..Len(j) /\ Len(j) <= Len(l)
        /\ d[k].kind \in BlockKinds <=> c[k].kind \in BlockKinds
        /\ d[k].lev = c[k].lev
    BY <1>1, <1>2
  <2>2. \A i \in 2..Len(j) : j[i].env = k => i <= Len(j)
    BY <1>2
  <2>3. QED
    BY <1>1, <1>2, <1>3, <2>1, <2>2, BaseKept
<1>8. Base(d, l, Len(c) + 1) = x.svlev
  <2>1. Len(j) + 1 \in 2..Len(l)
    BY <1>2, <1>3
  <2>2. QED
    BY <1>1, <1>2, <1>3, <2>1, BaseIs
<1>9. /\ Append(a, y) \in Seq(Acts) /\ Len(Append(a, y)) = Len(a) + 1
      /\ Append(a, y)[Len(a) + 1] = y /\ \A k \in 1..Len(a) : Append(a, y)[k] = a[k]
  BY <1>4, <1>5, Appended
<1>10. b = Append(a, y)
  <2>1. ASSUME NEW k \in 1..Len(b)
        PROVE  b[k].kind = Append(a, y)[k].kind /\ b[k].base = Append(a, y)[k].base
    <3>1. CASE k = Len(c) + 1
      BY <1>1, <1>4, <1>5, <1>6, <1>8, <1>9, <3>1
    <3>2. CASE k \in 1..Len(c)
      BY <1>1, <1>5, <1>6, <1>7, <1>9, <3>2
    <3>3. k = Len(c) + 1 \/ k \in 1..Len(c)
      BY <1>1, <1>6
    <3>4. QED
      BY <3>1, <3>2, <3>3
  <2>2. QED
    BY <1>1, <1>5, <1>6, <1>9, <2>1, SameActs
<1>11. QED
  BY <1>10 DEF a, b, d, l, y


\* A block owns no entry: its level is in a local.
LEMMA ActsOpenBlock ==
    ASSUME NEW c \in Seq(Frames), NEW j \in Seq(Jumps), Mirrors(c, j),
           NEW f \in Frames, f.kind \in BlockKinds
    PROVE  Activations(Append(c, f), j) =
               Append(Activations(c, j), [kind |-> f.kind, base |-> f.lev])
<1> DEFINE d == Append(c, f)
           y == [kind |-> f.kind, base |-> f.lev]
           a == Activations(c, j)
           b == Activations(d, j)
<1>1. /\ Len(c) \in Nat /\ d \in Seq(Frames) /\ Len(d) = Len(c) + 1 /\ d[Len(c) + 1] = f
      /\ \A k \in 1..Len(c) : d[k] = c[k]
  BY Appended
<1>2. f.kind \notin ContextKinds
  BY DEF ContextKinds, BlockKinds, Functions, Guards
<1>3. Mirrors(d, j)
  BY <1>2, MirrorsOpenBlock
<1> HIDE DEF d
<1>4. y \in Acts /\ y.kind = f.kind /\ y.base = f.lev
  BY DEF Acts, Frames
<1> HIDE DEF y
<1>5. /\ a \in Seq(Acts) /\ Len(a) = Len(c)
      /\ \A k \in 1..Len(c) : a[k].kind = c[k].kind /\ a[k].base = Base(c, j, k)
  BY ActsType
<1>6. /\ b \in Seq(Acts) /\ Len(b) = Len(d)
      /\ \A k \in 1..Len(d) : b[k].kind = d[k].kind /\ b[k].base = Base(d, j, k)
  BY <1>1, <1>3, ActsType
<1> HIDE DEF a, b
<1>7. \A k \in 1..Len(c) : Base(d, j, k) = Base(c, j, k)
  BY <1>1 DEF Base
<1>8. Base(d, j, Len(c) + 1) = f.lev
  BY <1>1 DEF Base
<1>9. /\ Append(a, y) \in Seq(Acts) /\ Len(Append(a, y)) = Len(a) + 1
      /\ Append(a, y)[Len(a) + 1] = y /\ \A k \in 1..Len(a) : Append(a, y)[k] = a[k]
  BY <1>4, <1>5, Appended
<1>10. b = Append(a, y)
  <2>1. ASSUME NEW k \in 1..Len(b)
        PROVE  b[k].kind = Append(a, y)[k].kind /\ b[k].base = Append(a, y)[k].base
    <3>1. CASE k = Len(c) + 1
      BY <1>1, <1>4, <1>5, <1>6, <1>8, <1>9, <3>1
    <3>2. CASE k \in 1..Len(c)
      BY <1>1, <1>5, <1>6, <1>7, <1>9, <3>2
    <3>3. k = Len(c) + 1 \/ k \in 1..Len(c)
      BY <1>1, <1>6
    <3>4. QED
      BY <3>1, <3>2, <3>3
  <2>2. QED
    BY <1>1, <1>5, <1>6, <1>9, <2>1, SameActs
<1>11. QED
  BY <1>10 DEF a, b, d, y

\* The frames below some frame keep their bases: the entries that are dropped are
\* those of the frames that are.
LEMMA ActsCut ==
    ASSUME NEW c \in Seq(Frames), NEW j \in Seq(Jumps), Mirrors(c, j),
           NEW e \in 1..Len(c), NEW n \in 1..Len(j),
           Mirrors(SubSeq(c, 1, e - 1), SubSeq(j, 1, n)),
           \A i \in 2..Len(j) : j[i].env < e => i <= n
    PROVE  Activations(SubSeq(c, 1, e - 1), SubSeq(j, 1, n)) =
               SubSeq(Activations(c, j), 1, e - 1)
<1> DEFINE d == SubSeq(c, 1, e - 1)
           l == SubSeq(j, 1, n)
           a == Activations(c, j)
           b == Activations(d, l)
           g == SubSeq(a, 1, e - 1)
<1>1. /\ Len(c) \in Nat /\ d \in Seq(Frames) /\ Len(d) = e - 1
      /\ \A k \in 1..e - 1 : d[k] = c[k]
  BY Prefix, e - 1 \in 0..Len(c)
<1>2. /\ Len(j) \in Nat /\ l \in Seq(Jumps) /\ Len(l) = n
      /\ \A i \in 1..n : l[i] = j[i]
  BY Prefix, n \in 0..Len(j)
<1>3. Mirrors(d, l)
  OBVIOUS
<1> HIDE DEF d, l
<1>4. /\ a \in Seq(Acts) /\ Len(a) = Len(c)
      /\ \A k \in 1..Len(c) : a[k].kind = c[k].kind /\ a[k].base = Base(c, j, k)
  BY ActsType
<1>5. /\ b \in Seq(Acts) /\ Len(b) = Len(d)
      /\ \A k \in 1..Len(d) : b[k].kind = d[k].kind /\ b[k].base = Base(d, l, k)
  BY <1>1, <1>2, <1>3, ActsType
<1> HIDE DEF a, b
<1>6. /\ g \in Seq(Acts) /\ Len(g) = e - 1 /\ \A k \in 1..e - 1 : g[k] = a[k]
  BY <1>1, <1>4, Prefix, e - 1 \in 0..Len(c)
<1> HIDE DEF g
<1>7. ASSUME NEW k \in 1..e - 1 PROVE Base(d, l, k) = Base(c, j, k)
  <2>1. /\ k \in 1..Len(c) /\ k \in 1..Len(d) /\ n \in 0..Len(j) /\ n <= Len(l)
        /\ d[k].kind \in BlockKinds <=> c[k].kind \in BlockKinds
        /\ d[k].lev = c[k].lev
    BY <1>1, <1>2
  <2>2. \A i \in 2..Len(j) : j[i].env = k => i <= n
    BY <1>1, <1>2
  <2>3. QED
    BY <1>1, <1>2, <1>3, <2>1, <2>2, BaseKept
<1>8. b = g
  <2>1. ASSUME NEW k \in 1..Len(b)
        PROVE  b[k].kind = g[k].kind /\ b[k].base = g[k].base
    <3>1. k \in 1..e - 1 /\ k \in 1..Len(c)
      BY <1>1, <1>5
    <3>2. QED
      BY <1>1, <1>4, <1>5, <1>6, <1>7, <3>1
  <2>2. QED
    BY <1>1, <1>5, <1>6, <2>1, SameActs
<1>9. QED
  BY <1>8 DEF a, b, d, l, g

\* A frame that keeps its class and its local keeps its base.
LEMMA ActsRelabel ==
    ASSUME NEW c \in Seq(Frames), NEW j \in Seq(Jumps), Mirrors(c, j),
           NEW d \in Seq(Frames), Mirrors(d, j), Len(d) = Len(c),
           \A k \in 1..Len(c) : /\ d[k].kind \in BlockKinds <=> c[k].kind \in BlockKinds
                                /\ d[k].lev = c[k].lev
    PROVE  /\ Activations(d, j) \in Seq(Acts) /\ Len(Activations(d, j)) = Len(c)
           /\ \A k \in 1..Len(c) : /\ Activations(d, j)[k].kind = d[k].kind
                                   /\ Activations(d, j)[k].base = Activations(c, j)[k].base
<1>1. \A k \in 1..Len(c) : Base(d, j, k) = Base(c, j, k)
  BY DEF Base
<1>2. QED
  BY <1>1, ActsType


-----------------------------------------------------------------------------
(* What the actions do to activations and scopes.                           *)

Unscoped == UNCHANGED <<svs, svlev>>
Adds(type) ==
    svlev + 1 <= MaxScopes /\ svs' = AddScope(svs, svlev, type) /\ svlev' = svlev + 1
Starts(kind) == Act' = Append(Act, [kind |-> kind, base |-> svlev])
Drops(e, s, lev) ==
    /\ Act' = SubSeq(Act, 1, e - 1)
    /\ svlev' = Act[e].base
    /\ svs' = eppic_setsvlev(s, lev, Act[e].base)

\* What is known of the state before a step.
LEMMA Before ==
    ASSUME SInv, ~crashed
    PROVE  /\ IInv /\ TypeOK /\ Mirrors(ctl, jmps) /\ Shape(Act, Types)
           /\ ctl \in Seq(Frames) /\ jmps \in Seq(Jumps) /\ Act \in Seq(Acts)
           /\ Depth = Len(ctl) /\ Depth \in Nat /\ Len(Act) = Depth
           /\ \A k \in 1..Depth : /\ Act[k].kind = ctl[k].kind
                                  /\ Act[k].base = Base(ctl, jmps, k)
           /\ svlev \in 0..MaxScopes /\ svs \in [1..MaxScopes -> Scopes]
           /\ MaxScopes \in Nat /\ Residue \in Nat
<1>1. IInv /\ TypeOK /\ Mirrors(ctl, jmps)
  BY DEF SInv, JInv, IInv, JmpsMirrorFrames
<1>2. Len(jmps) > 0
  BY <1>1 DEF Mirrors
<1>3. QED
  BY <1>1, <1>2, ActsType, Constants DEF SInv, Act, TypeOK, Depth

LEMMA TypesAre ==
    ASSUME NEW s \in [1..MaxScopes -> Scopes], NEW lev \in 0..MaxScopes
    PROVE  LET o == [i \in 1..lev |-> s[i].type]
           IN  o \in Seq(ScopeTypes) /\ Len(o) = lev /\ \A i \in 1..lev : o[i] = s[i].type
<1>1. \A i \in 1..lev : i \in 1..MaxScopes
  BY Constants
<1>2. \A i \in 1..lev : s[i].type \in ScopeTypes
  BY <1>1 DEF Scopes, ScopeTypes
<1>3. lev \in Nat
  BY Constants
<1>4. QED
  BY <1>2, <1>3

\* A routine that calls setjmp.
LEMMA StartsContext ==
    ASSUME SInv, ~crashed, NEW f \in Frames, f.kind \in ContextKinds, HasRoom(1),
           ctl' = Append(ctl, f),
           jmps' = Append(jmps, Jump(JumpType(f.kind), svlev, Depth + 1))
    PROVE  Starts(f.kind)
<1> DEFINE x == Jump(JumpType(f.kind), svlev, Depth + 1)
<1>1. Mirrors(ctl, jmps) /\ ctl \in Seq(Frames) /\ jmps \in Seq(Jumps)
      /\ Depth = Len(ctl) /\ Depth \in Nat /\ svlev \in 0..MaxScopes
  BY Before
<1>2. Depth + 1 \in 0..MaxFrames
  BY <1>1, ControlAssumption DEF HasRoom, ControlAssumption
<1>3. JumpType(f.kind) \in JumpTypes
  BY DEF JumpType, JumpTypes
<1>4. x \in Jumps /\ x.type = JumpType(f.kind) /\ x.env = Depth + 1 /\ x.svlev = svlev
  BY <1>1, <1>2, <1>3 DEF Jump, Jumps
<1> HIDE DEF x
<1>5. Activations(Append(ctl, f), Append(jmps, x)) =
          Append(Activations(ctl, jmps), [kind |-> f.kind, base |-> x.svlev])
  BY <1>1, <1>4, ActsPush
<1>6. QED
  BY <1>4, <1>5 DEF Starts, Act, x

LEMMA OpensActs ==
    ASSUME SInv, ~crashed
    PROVE  /\ eppic_exefunc => Starts("enter") /\ Adds("FILE")
           /\ eppic_docall => Starts("enter") /\ Adds("FILE")
           /\ EnterBlock => Starts("statics") /\ Adds("STAT")
           /\ BeginEval => Starts("eval") /\ Unscoped
           /\ \A kind \in {"loop", "switch", "body"} :
                Open(kind) => Starts(kind) /\ Unscoped
<1>1. /\ Mirrors(ctl, jmps) /\ ctl \in Seq(Frames) /\ jmps \in Seq(Jumps)
      /\ Depth = Len(ctl) /\ Depth \in Nat /\ svlev \in 0..MaxScopes
      /\ 0 \in 0..MaxScopes /\ NoPath \in Paths /\ curp \in Paths \cup (1..MaxFrames)
      /\ bare \in Bares
  BY Before DEF TypeOK, Paths
<1>2. ASSUME HasRoom(1), ctl' = Append(ctl, Frame("enter", 0, "app", curp)),
             EnterFunction(Depth + 1, jmps)
      PROVE  Starts("enter") /\ Adds("FILE")
  <2> DEFINE f == Frame("enter", 0, "app", curp)
  <2>1. "enter" \in Kinds /\ "enter" \in ContextKinds /\ JumpType("enter") = "RETURN"
    BY DEF Kinds, ContextKinds, Functions, Guards, JumpType
  <2>2. f \in Frames /\ f.kind = "enter"
    BY <1>1, <2>1, MadeFrame
  <2>3. jmps' = Append(jmps, Jump(JumpType(f.kind), svlev, Depth + 1)) /\ Adds("FILE")
    BY <1>2, <2>1, <2>2 DEF EnterFunction, Adds
  <2> HIDE DEF f
  <2>4. Starts(f.kind)
    BY <1>2, <2>1, <2>2, <2>3, StartsContext DEF f
  <2>5. QED
    BY <2>2, <2>3, <2>4
<1>3. ASSUME eppic_exefunc PROVE Starts("enter") /\ Adds("FILE")
  <2>1. ctl = << >> /\ Depth = 0 /\ Depth + 1 = 1
    BY <1>1, <1>3 DEF eppic_exefunc, HostPos
  <2>2. QED
    BY <1>2, <1>3, <2>1 DEF eppic_exefunc
<1>4. ASSUME eppic_docall PROVE Starts("enter") /\ Adds("FILE")
  BY <1>2, <1>4 DEF eppic_docall
<1>5. ASSUME EnterBlock PROVE Starts("statics") /\ Adds("STAT")
  <2> DEFINE f == Frame("statics", svlev, "app", NoPath)
  <2>1. "statics" \in Kinds /\ "statics" \in BlockKinds
    BY DEF Kinds, BlockKinds
  <2>2. f \in Frames /\ f.kind = "statics" /\ f.lev = svlev
    BY <1>1, <2>1 DEF Frame, Frames
  <2>3. ctl' = Append(ctl, f) /\ jmps' = jmps /\ Adds("STAT")
    BY <1>5 DEF EnterBlock, Adds
  <2> HIDE DEF f
  <2>4. Activations(Append(ctl, f), jmps) =
            Append(Activations(ctl, jmps), [kind |-> f.kind, base |-> f.lev])
    BY <1>1, <2>1, <2>2, ActsOpenBlock
  <2>5. QED
    BY <2>2, <2>3, <2>4 DEF Starts, Act
<1>6. ASSUME BeginEval PROVE Starts("eval") /\ Unscoped
  <2> DEFINE f == Frame("eval", 0, bare.osa, NoPath)
  <2>1. "eval" \in Kinds /\ "eval" \in ContextKinds /\ JumpType("eval") = "EXIT"
    BY DEF Kinds, ContextKinds, Guards, JumpType
  <2>2. f \in Frames /\ f.kind = "eval"
    <3>1. bare.osa \in {"app", "eppic", "freed"}
      BY <1>1, MadeBare
    <3>2. QED
      BY <1>1, <2>1, <3>1, MadeFrame
  <2>3. /\ ctl' = Append(ctl, f) /\ HasRoom(1) /\ Unscoped
        /\ jmps' = Append(jmps, Jump(JumpType(f.kind), svlev, Depth + 1))
    BY <1>6, <2>1, <2>2 DEF BeginEval, Unscoped
  <2> HIDE DEF f
  <2>4. QED
    BY <2>1, <2>2, <2>3, StartsContext
<1>7. ASSUME NEW kind \in {"loop", "switch", "body"}, Open(kind)
      PROVE  Starts(kind) /\ Unscoped
  <2>1. kind \in Kinds /\ kind \in ContextKinds
    BY DEF Kinds, ContextKinds
  <2>2. Plain(kind) \in Frames /\ Plain(kind).kind = kind
    BY <1>1, <2>1, MadeFrame DEF Plain
  <2>3. QED
    BY <1>7, <2>1, <2>2, StartsContext DEF Open, Unscoped
<1>8. QED
  BY <1>3, <1>4, <1>5, <1>6, <1>7

\* A command and its function.
LEMMA RuncmdActs ==
    ASSUME SInv, ~crashed, eppic_runcmd
    PROVE  /\ Act = << >> /\ Adds("FILE")
           /\ Act' = Append(Append(Act, [kind |-> "cmd", base |-> svlev]),
                            [kind |-> "enter", base |-> svlev])
<1> DEFINE f == Frame("cmd", 0, handler, NoPath)
           g == Frame("enter", 0, "app", curp)
           x == Jump("EXIT", svlev, 1)
           y == Jump("RETURN", svlev, 2)
<1>1. /\ IInv /\ Mirrors(ctl, jmps) /\ ctl \in Seq(Frames) /\ jmps \in Seq(Jumps)
      /\ Len(Act) = Len(ctl) /\ svlev \in 0..MaxScopes /\ Act \in Seq(Acts)
      /\ Depth = Len(ctl) /\ Depth \in Nat
  BY Before
<1>2. /\ ctl = << >> /\ f \in Frames /\ g \in Frames
      /\ ctl' = Append(Append(ctl, f), g)
      /\ f.kind = "cmd" /\ g.kind = "enter"
  BY <1>1, RuncmdFrames
<1>3. /\ "cmd" \in ContextKinds /\ "enter" \in ContextKinds
      /\ JumpType("cmd") = "EXIT" /\ JumpType("enter") = "RETURN"
  BY DEF ContextKinds, Functions, Guards, JumpType
<1>4. 1 \in 0..MaxFrames /\ 2 \in 0..MaxFrames
  BY <1>1, <1>2, ControlAssumption DEF eppic_runcmd, HasRoom, ControlAssumption
<1>5. /\ x \in Jumps /\ x.type = "EXIT" /\ x.env = 1 /\ x.svlev = svlev
      /\ y \in Jumps /\ y.type = "RETURN" /\ y.env = 2 /\ y.svlev = svlev
  BY <1>1, <1>4 DEF Jump, Jumps, JumpTypes
<1>6. jmps' = Append(Append(jmps, x), y) /\ Adds("FILE")
  BY DEF eppic_runcmd, EnterFunction, Adds
<1> HIDE DEF f, g, x, y
<1>7. Len(ctl) = 0 /\ Act = << >>
  BY <1>1, <1>2
<1>8. x.env = Len(ctl) + 1 /\ x.type = JumpType(f.kind) /\ f.kind \in ContextKinds
  BY <1>2, <1>3, <1>5, <1>7
<1>9. /\ Mirrors(Append(ctl, f), Append(jmps, x))
      /\ Activations(Append(ctl, f), Append(jmps, x)) =
            Append(Act, [kind |-> f.kind, base |-> x.svlev])
  BY <1>1, <1>2, <1>5, <1>8, MirrorsPush, ActsPush DEF Act
<1>10. /\ Append(ctl, f) \in Seq(Frames) /\ Len(Append(ctl, f)) = 1
       /\ Append(jmps, x) \in Seq(Jumps)
  BY <1>1, <1>2, <1>5, <1>7, Appended
<1>11. y.env = Len(Append(ctl, f)) + 1 /\ y.type = JumpType(g.kind) /\ g.kind \in ContextKinds
  BY <1>2, <1>3, <1>5, <1>10
<1>12. Activations(Append(Append(ctl, f), g), Append(Append(jmps, x), y)) =
          Append(Activations(Append(ctl, f), Append(jmps, x)),
                 [kind |-> g.kind, base |-> y.svlev])
  BY <1>2, <1>5, <1>9, <1>10, <1>11, ActsPush
<1>13. QED
  BY <1>2, <1>5, <1>6, <1>7, <1>9, <1>12 DEF Act


\* The frame on top goes on; the others, and every base, stay.
LEMMA RelabelsActs ==
    ASSUME SInv, ~crashed, Relabels
    PROVE  /\ Depth > 0 /\ Adds("AUTO") /\ Act' \in Seq(Acts) /\ Len(Act') = Depth
           /\ \A k \in 1..Depth - 1 : Act'[k] = Act[k]
           /\ Act'[Depth].base = Act[Depth].base
           /\ \/ Act[Depth].kind = "enter" /\ Act'[Depth].kind = "call"
              \/ Act[Depth].kind = "statics" /\ Act'[Depth].kind = "block"
<1>1. /\ IInv /\ Mirrors(ctl, jmps) /\ ctl \in Seq(Frames) /\ jmps \in Seq(Jumps)
      /\ Depth = Len(ctl) /\ Depth \in Nat /\ Act \in Seq(Acts) /\ Len(Act) = Depth
      /\ \A k \in 1..Depth : Act[k].kind = ctl[k].kind
  BY Before
<1>2. /\ Depth > 0 /\ ctl' \in Seq(Frames) /\ Len(ctl') = Depth
      /\ \A k \in 1..Depth - 1 : ctl'[k] = ctl[k]
      /\ \/ Top.kind = "enter" /\ ctl'[Depth].kind = "call"
         \/ Top.kind = "statics" /\ ctl'[Depth].kind = "block"
      /\ ctl'[Depth].lev = Top.lev /\ jmps' = jmps /\ crashed' = crashed /\ Adds("AUTO")
  BY <1>1, RelabelsTop DEF Adds
<1>3. Mirrors(ctl', jmps)
  <2>1. IInv'
    BY <1>1, IInvStep DEF Relabels, Next
  <2>2. QED
    BY <1>2, <2>1 DEF IInv, JmpsMirrorFrames
<1>4. ASSUME NEW k \in 1..Depth
      PROVE  /\ ctl'[k].kind \in BlockKinds <=> ctl[k].kind \in BlockKinds
             /\ ctl'[k].lev = ctl[k].lev
  <2>1. CASE k = Depth
    BY <1>2, <2>1 DEF BlockKinds, Top
  <2>2. CASE k \in 1..Depth - 1
    BY <1>2, <2>2
  <2>3. QED
    BY <1>1, <2>1, <2>2
<1>5. /\ Act' \in Seq(Acts) /\ Len(Act') = Depth
      /\ \A k \in 1..Depth : Act'[k].kind = ctl'[k].kind /\ Act'[k].base = Act[k].base
  <2>1. Act' = Activations(ctl', jmps)
    BY <1>2 DEF Act
  <2>2. \A k \in 1..Len(ctl) : /\ ctl'[k].kind \in BlockKinds <=> ctl[k].kind \in BlockKinds
                               /\ ctl'[k].lev = ctl[k].lev
    BY <1>1, <1>4
  <2>3. Len(ctl') = Len(ctl)
    BY <1>1, <1>2
  <2>4. /\ Activations(ctl', jmps) \in Seq(Acts) /\ Len(Activations(ctl', jmps)) = Len(ctl)
        /\ \A k \in 1..Len(ctl) :
            /\ Activations(ctl', jmps)[k].kind = ctl'[k].kind
            /\ Activations(ctl', jmps)[k].base = Activations(ctl, jmps)[k].base
    BY <1>1, <1>2, <1>3, <2>2, <2>3, ActsRelabel
  <2>5. QED
    BY <1>1, <2>1, <2>4 DEF Act
<1>6. ASSUME NEW k \in 1..Depth - 1 PROVE Act'[k] = Act[k]
  <2>1. Act'[k] \in Acts /\ Act[k] \in Acts /\ k \in 1..Depth
    BY <1>1, <1>5
  <2>2. Act'[k].kind = Act[k].kind /\ Act'[k].base = Act[k].base
    BY <1>1, <1>2, <1>5, <2>1
  <2>3. QED
    BY <2>1, <2>2 DEF Acts
<1>7. Depth \in 1..Depth /\ Act[Depth].kind = Top.kind /\ Act'[Depth].kind = ctl'[Depth].kind
  BY <1>1, <1>2, <1>5 DEF Top
<1>8. QED
  BY <1>2, <1>5, <1>6, <1>7

LEMMA RemovesActs ==
    ASSUME SInv, ~crashed, RemoveHandlers
    PROVE  Act' = Act /\ Unscoped
<1>1. /\ IInv /\ Mirrors(ctl, jmps) /\ ctl \in Seq(Frames) /\ jmps \in Seq(Jumps)
      /\ Depth = Len(ctl) /\ Depth \in Nat /\ Act \in Seq(Acts) /\ Len(Act) = Depth
      /\ \A k \in 1..Depth : Act[k].kind = ctl[k].kind
  BY Before
<1>2. /\ Depth > 0 /\ ctl' \in Seq(Frames) /\ Len(ctl') = Depth
      /\ \A k \in 1..Depth - 1 : ctl'[k] = ctl[k]
      /\ Top.kind = "eval" /\ ctl'[Depth].kind = "eval" /\ ctl'[Depth].lev = Top.lev
      /\ UNCHANGED <<jmps, svs, svlev, crashed>>
  BY <1>1, RemovesTop
<1>3. Mirrors(ctl', jmps)
  <2>1. IInv'
    BY <1>1, IInvStep DEF Next
  <2>2. QED
    BY <1>2, <2>1 DEF IInv, JmpsMirrorFrames
<1>4. ASSUME NEW k \in 1..Depth PROVE ctl'[k].kind = ctl[k].kind /\ ctl'[k].lev = ctl[k].lev
  <2>1. CASE k = Depth
    BY <1>2, <2>1 DEF Top
  <2>2. CASE k \in 1..Depth - 1
    BY <1>2, <2>2
  <2>3. QED
    BY <1>1, <2>1, <2>2
<1>5. /\ Act' \in Seq(Acts) /\ Len(Act') = Depth
      /\ \A k \in 1..Depth : Act'[k].kind = ctl'[k].kind /\ Act'[k].base = Act[k].base
  <2>1. Act' = Activations(ctl', jmps)
    BY <1>2 DEF Act
  <2>2. \A k \in 1..Len(ctl) : /\ ctl'[k].kind \in BlockKinds <=> ctl[k].kind \in BlockKinds
                               /\ ctl'[k].lev = ctl[k].lev
    BY <1>1, <1>4
  <2>3. Len(ctl') = Len(ctl)
    BY <1>1, <1>2
  <2>4. /\ Activations(ctl', jmps) \in Seq(Acts) /\ Len(Activations(ctl', jmps)) = Len(ctl)
        /\ \A k \in 1..Len(ctl) :
            /\ Activations(ctl', jmps)[k].kind = ctl'[k].kind
            /\ Activations(ctl', jmps)[k].base = Activations(ctl, jmps)[k].base
    BY <1>1, <1>2, <1>3, <2>2, <2>3, ActsRelabel
  <2>5. QED
    BY <1>1, <2>1, <2>4 DEF Act
<1>6. Act' = Act
  BY <1>1, <1>4, <1>5, SameActs
<1>7. QED
  BY <1>2, <1>6 DEF Unscoped

\* Dropping an entry and all above it, and the frames from its owner up.
LEMMA CutActs ==
    ASSUME SInv, ~crashed, NEW t \in 2..Len(jmps),
           ctl' = SubSeq(ctl, 1, jmps[t].env - 1), jmps' = SubSeq(jmps, 1, t - 1)
    PROVE  /\ jmps[t].env \in 1..Depth
           /\ Act[jmps[t].env].base = jmps[t].svlev
           /\ Act' = SubSeq(Act, 1, jmps[t].env - 1)
           /\ Mirrors(ctl', jmps')
<1> DEFINE e == jmps[t].env
<1>1. /\ Mirrors(ctl, jmps) /\ ctl \in Seq(Frames) /\ jmps \in Seq(Jumps)
      /\ Depth = Len(ctl) /\ Depth \in Nat /\ Len(jmps) \in Nat
      /\ \A k \in 1..Depth : Act[k].base = Base(ctl, jmps, k)
  BY Before
<1>2. e \in 1..Depth
  BY <1>1 DEF Mirrors
<1>3. Act[e].base = jmps[t].svlev
  BY <1>1, <1>2, BaseIs
<1>4. Mirrors(ctl', jmps')
  BY <1>1, MirrorsCut
<1>5. ASSUME NEW i \in 2..Len(jmps), jmps[i].env < e PROVE i <= t - 1
  <2>1. i # t
    BY <1>1, <1>2, <1>5
  <2>2. ~(t < i)
    <3>1. SUFFICES ASSUME t < i PROVE FALSE
      OBVIOUS
    <3>2. jmps[t].env < jmps[i].env /\ jmps[i].env \in 1..Len(ctl)
      BY <1>1, <3>1 DEF Mirrors
    <3>3. QED
      BY <1>1, <1>2, <1>5, <3>2
  <2>3. QED
    BY <1>1, <2>1, <2>2
<1>6. t - 1 \in 1..Len(jmps)
  BY <1>1
<1>7. Activations(SubSeq(ctl, 1, e - 1), SubSeq(jmps, 1, t - 1)) =
          SubSeq(Activations(ctl, jmps), 1, e - 1)
  BY <1>1, <1>2, <1>4, <1>5, <1>6, ActsCut
<1>8. QED
  BY <1>2, <1>3, <1>4, <1>7 DEF Act

\* The ordinary ends go back to the base of the frame that ends.
LEMMA EndsActs ==
    ASSUME SInv, ~crashed, Ends
    PROVE  Depth > 0 /\ Drops(Depth, svs, svlev) /\ Mirrors(ctl', jmps')
<1>1. /\ IInv /\ TypeOK /\ Mirrors(ctl, jmps) /\ ctl \in Seq(Frames) /\ jmps \in Seq(Jumps)
      /\ Depth = Len(ctl) /\ Depth \in Nat /\ Len(jmps) \in Nat
      /\ \A k \in 1..Depth : Act[k].base = Base(ctl, jmps, k)
  BY Before
<1>2. Depth > 0 /\ ctl' = SubSeq(ctl, 1, Depth - 1)
  BY <1>1, EndsTop
<1>3. ASSUME Top.kind \in ContextKinds, NEW type, eppic_popjmp(type)
      PROVE  Drops(Depth, svs, svlev) /\ Mirrors(ctl', jmps')
  <2> DEFINE t == Len(jmps)
  <2>1. t \in 2..Len(jmps) /\ jmps[t].env = Depth
    BY <1>1, <1>2, <1>3, TopEntry
  <2>2. /\ jmps' = SubSeq(jmps, 1, t - 1) /\ svlev' = jmps[t].svlev
        /\ svs' = eppic_setsvlev(svs, svlev, jmps[t].svlev)
    BY <1>3 DEF eppic_popjmp
  <2> HIDE DEF t
  <2>3. /\ Act[jmps[t].env].base = jmps[t].svlev
        /\ Act' = SubSeq(Act, 1, jmps[t].env - 1) /\ Mirrors(ctl', jmps')
    BY <1>2, <2>1, <2>2, CutActs
  <2>4. QED
    BY <2>1, <2>2, <2>3 DEF Drops
<1>4. CASE ExitBlock
  <2>1. Top.kind = "block" /\ jmps' = jmps /\ svlev' = Top.lev
        /\ svs' = eppic_setsvlev(svs, svlev, Top.lev)
    BY <1>4 DEF ExitBlock, At
  <2>2. Act[Depth].base = Top.lev
    <3>1. Depth \in 1..Depth
      BY <1>1, <1>2
    <3>2. Act[Depth].base = Base(ctl, jmps, Depth)
      BY <1>1, <3>1
    <3>3. QED
      BY <2>1, <3>2 DEF Base, BlockKinds, Top
  <2>3. Top.kind \notin ContextKinds
    BY <2>1 DEF ContextKinds, Functions, Guards
  <2>4. Mirrors(ctl', jmps)
    BY <1>1, <1>2, <2>3, MirrorsCloseBlock DEF Top
  <2>5. Len(jmps) \in 1..Len(jmps)
    BY <1>1 DEF Mirrors
  <2>6. SubSeq(jmps, 1, Len(jmps)) = jmps
    <3>1. Len(jmps) \in 0..Len(jmps)
      BY <1>1
    <3>2. /\ SubSeq(jmps, 1, Len(jmps)) \in Seq(Jumps)
          /\ Len(SubSeq(jmps, 1, Len(jmps))) = Len(jmps)
          /\ \A i \in 1..Len(jmps) : SubSeq(jmps, 1, Len(jmps))[i] = jmps[i]
      BY <1>1, <3>1, Prefix
    <3>3. QED
      BY <1>1, <3>2, SeqEqual
  <2>7. Activations(SubSeq(ctl, 1, Depth - 1), SubSeq(jmps, 1, Len(jmps))) =
            SubSeq(Activations(ctl, jmps), 1, Depth - 1)
    <3>1. Mirrors(SubSeq(ctl, 1, Depth - 1), SubSeq(jmps, 1, Len(jmps)))
      BY <1>2, <2>4, <2>6
    <3>2. Depth \in 1..Len(ctl) /\ \A i \in 2..Len(jmps) : i <= Len(jmps)
      BY <1>1, <1>2
    <3>3. QED
      BY <1>1, <2>5, <3>1, <3>2, ActsCut
  <2>8. QED
    BY <1>2, <2>1, <2>2, <2>4, <2>6, <2>7 DEF Drops, Act
<1>5. CASE ReturnFromBody
  BY <1>3, <1>5 DEF ReturnFromBody, At, ContextKinds, Functions
<1>6. CASE EndCommand
  BY <1>3, <1>6 DEF EndCommand, At, ContextKinds, Guards
<1>7. CASE EndEval
  BY <1>3, <1>7 DEF EndEval, At, ContextKinds, Guards
<1>8. CASE EndIteration \/ ExitLoop \/ ExitSwitch
  BY <1>3, <1>8 DEF EndIteration, ExitLoop, ExitSwitch, Close, At, ContextKinds
<1>9. QED
  BY <1>2, <1>4, <1>5, <1>6, <1>7, <1>8 DEF Ends

\* ... and so does a jump, for the frame it lands in.
LEMMA JumpActs ==
    ASSUME SInv, ~crashed, NEW type, NEW s, NEW lev, eppic_dojmp(type, s, lev)
    PROVE  \/ /\ NullJump /\ jmps' = << >> /\ svlev' = 0
              /\ \A k \in 1..Depth : ctl[k].kind \notin KindsOf(type)
           \/ \E e \in 1..Depth : /\ Nearest(e, KindsOf(type)) /\ Land(e)
                                  /\ Drops(e, s, lev) /\ Mirrors(ctl', jmps')
<1>1. IInv
  BY Before
<1>2. ASSUME NEW t \in 2..Len(jmps),
             Nearest(jmps[t].env, KindsOf(type)), Land(jmps[t].env),
             jmps' = SubSeq(jmps, 1, t - 1),
             svs' = eppic_setsvlev(s, lev, jmps[t].svlev), svlev' = jmps[t].svlev
      PROVE  \E e \in 1..Depth : /\ Nearest(e, KindsOf(type)) /\ Land(e)
                                 /\ Drops(e, s, lev) /\ Mirrors(ctl', jmps')
  <2>1. ctl' = SubSeq(ctl, 1, jmps[t].env - 1)
    BY <1>2 DEF Land
  <2>2. /\ jmps[t].env \in 1..Depth /\ Act[jmps[t].env].base = jmps[t].svlev
        /\ Act' = SubSeq(Act, 1, jmps[t].env - 1) /\ Mirrors(ctl', jmps')
    BY <1>2, <2>1, CutActs
  <2>3. Drops(jmps[t].env, s, lev)
    BY <1>2, <2>2 DEF Drops
  <2>4. QED
    BY <1>2, <2>2, <2>3
<1>3. QED
  BY <1>1, <1>2, JumpLands


-----------------------------------------------------------------------------
(* The scopes keep their shape, whatever the faults.                        *)

\* eppic_setsvlev frees automatic lists above the level, and changes no type.
LEMMA SetsvlevKeeps ==
    ASSUME NEW s \in [1..MaxScopes -> Scopes], NEW from, NEW to \in Int,
           NEW i \in 1..MaxScopes
    PROVE  LET z == eppic_setsvlev(s, from, to)
           IN  /\ z[i].type = s[i].type
               /\ i <= to => z[i] = s[i]
               /\ s[i].type # "AUTO" => z[i] = s[i]
<1>1. s[i] \in Scopes
  OBVIOUS
<1>2. [s[i] EXCEPT !.live = FALSE].type = s[i].type
  BY <1>1 DEF Scopes
<1>3. i <= to => ~(to < i)
  OBVIOUS
<1>4. QED
  BY <1>2, <1>3 DEF eppic_setsvlev

LEMMA AddScopeIs ==
    ASSUME NEW s \in [1..MaxScopes -> Scopes], NEW lev \in 0..MaxScopes,
           lev + 1 <= MaxScopes, NEW type
    PROVE  /\ AddScope(s, lev, type)[lev + 1] = Scope(type)
           /\ \A i \in 1..MaxScopes : i # lev + 1 => AddScope(s, lev, type)[i] = s[i]
<1>1. lev + 1 \in 1..MaxScopes
  BY Constants
<1>2. QED
  BY <1>1 DEF AddScope

LEMMA TypesAdd ==
    ASSUME SInv, ~crashed, NEW type \in {"FILE", "STAT", "AUTO"}, Adds(type)
    PROVE  /\ Types \in Seq(ScopeTypes) /\ Len(Types) = svlev
           /\ Types' = Append(Types, type)
<1>1. svlev \in 0..MaxScopes /\ svs \in [1..MaxScopes -> Scopes] /\ MaxScopes \in Nat
  BY Before
<1>2. /\ svlev + 1 \in 0..MaxScopes /\ svlev' = svlev + 1
      /\ svs' = AddScope(svs, svlev, type)
  BY <1>1 DEF Adds
<1>3. svs' \in [1..MaxScopes -> Scopes]
  <2>1. svlev \in Int
    BY <1>1
  <2>2. QED
    BY <1>1, <1>2, <2>1, AddScopeType
<1>4. /\ Types \in Seq(ScopeTypes) /\ Len(Types) = svlev
      /\ \A i \in 1..svlev : Types[i] = svs[i].type
  BY <1>1, TypesAre DEF Types
<1>5. /\ Types' \in Seq(ScopeTypes) /\ Len(Types') = svlev + 1
      /\ \A i \in 1..svlev + 1 : Types'[i] = svs'[i].type
  BY <1>2, <1>3, TypesAre DEF Types
<1>6. /\ Append(Types, type) \in Seq(ScopeTypes)
      /\ Len(Append(Types, type)) = svlev + 1
      /\ Append(Types, type)[svlev + 1] = type
      /\ \A i \in 1..svlev : Append(Types, type)[i] = Types[i]
  <2>1. type \in ScopeTypes
    BY DEF ScopeTypes
  <2>2. QED
    BY <1>4, <2>1, Appended
<1>7. ASSUME NEW i \in 1..svlev + 1 PROVE Types'[i] = Append(Types, type)[i]
  <2>1. CASE i = svlev + 1
    <3>1. svs'[i] = Scope(type)
      BY <1>1, <1>2, <2>1, AddScopeIs DEF Adds
    <3>2. QED
      BY <1>5, <1>6, <2>1, <3>1 DEF Scope
  <2>2. CASE i \in 1..svlev
    <3>1. svs'[i] = svs[i]
      BY <1>1, <1>2, <2>2, AddScopeIs DEF Adds
    <3>2. QED
      BY <1>4, <1>5, <1>6, <2>2, <3>1
  <2>3. i = svlev + 1 \/ i \in 1..svlev
    BY <1>1
  <2>4. QED
    BY <2>1, <2>2, <2>3
<1>8. Types' = Append(Types, type)
  BY <1>1, <1>5, <1>6, <1>7, SeqEqual
<1>9. QED
  BY <1>4, <1>8

\* The array, or what is left of it once eppic_error has dropped every level.
SameTypes(s) == s \in [1..MaxScopes -> Scopes] /\ \A i \in 1..MaxScopes : s[i].type = svs[i].type

\* The two arrays a jump may start from: as it is, and as eppic_error leaves it.
LEMMA SameTypesHere ==
    ASSUME SInv, ~crashed
    PROVE  SameTypes(svs) /\ SameTypes(eppic_setsvlev(svs, svlev, 0))
<1>1. svs \in [1..MaxScopes -> Scopes] /\ svlev \in Int /\ 0 \in Int
  BY Before
<1>2. \A i \in 1..MaxScopes : eppic_setsvlev(svs, svlev, 0)[i].type = svs[i].type
  BY <1>1, SetsvlevKeeps
<1>3. eppic_setsvlev(svs, svlev, 0) \in [1..MaxScopes -> Scopes]
  BY <1>1, SetsvlevType
<1>4. QED
  BY <1>1, <1>2, <1>3 DEF SameTypes

LEMMA TypesDrop ==
    ASSUME SInv, ~crashed, NEW s, SameTypes(s), NEW lev, NEW e \in 1..Depth, Drops(e, s, lev)
    PROVE  /\ Types \in Seq(ScopeTypes) /\ Len(Types) = svlev
           /\ Act[e].base \in 0..svlev
           /\ Types' = SubSeq(Types, 1, Act[e].base)
<1> DEFINE n == Act[e].base
<1>1. /\ svlev \in 0..MaxScopes /\ svs \in [1..MaxScopes -> Scopes] /\ MaxScopes \in Nat
      /\ Act \in Seq(Acts) /\ Len(Act) = Depth /\ Shape(Act, Types)
  BY Before
<1>2. /\ Types \in Seq(ScopeTypes) /\ Len(Types) = svlev
      /\ \A i \in 1..svlev : Types[i] = svs[i].type
  BY <1>1, TypesAre DEF Types
<1>3. n \in 0..svlev
  BY <1>1, <1>2, ShapeCut
<1>4. svlev' = n /\ svs' = eppic_setsvlev(s, lev, n)
  BY DEF Drops
<1> HIDE DEF n
<1>5. n \in 0..MaxScopes /\ n \in Int
  BY <1>1, <1>3
<1>6. /\ svs' \in [1..MaxScopes -> Scopes]
      /\ \A i \in 1..MaxScopes : svs'[i].type = svs[i].type
  <2>1. \A i \in 1..MaxScopes : svs'[i].type = svs[i].type
    BY <1>4, <1>5, SetsvlevKeeps DEF SameTypes
  <2>2. svs' \in [1..MaxScopes -> Scopes]
    <3>1. \A i \in 1..MaxScopes : [s[i] EXCEPT !.live = FALSE] \in Scopes
      BY DEF Scopes, SameTypes
    <3>2. QED
      BY <1>4, <3>1 DEF eppic_setsvlev, SameTypes
  <2>3. QED
    BY <2>1, <2>2
<1>7. /\ Types' \in Seq(ScopeTypes) /\ Len(Types') = n
      /\ \A i \in 1..n : Types'[i] = svs'[i].type
  BY <1>4, <1>5, <1>6, TypesAre DEF Types
<1>8. /\ SubSeq(Types, 1, n) \in Seq(ScopeTypes) /\ Len(SubSeq(Types, 1, n)) = n
      /\ \A i \in 1..n : SubSeq(Types, 1, n)[i] = Types[i]
  BY <1>2, <1>3, Prefix
<1>9. \A i \in 1..n : Types'[i] = SubSeq(Types, 1, n)[i]
  BY <1>1, <1>2, <1>3, <1>6, <1>7, <1>8
<1>10. Types' = SubSeq(Types, 1, n)
  BY <1>7, <1>8, <1>9, SeqEqual
<1>11. QED
  BY <1>2, <1>3, <1>10 DEF n

\* The shape after something opened.
LEMMA StartsShape ==
    ASSUME SInv, ~crashed, NEW kind \in Kinds, Starts(kind),
           \/ Opened(kind) = 0 /\ Unscoped
           \/ kind = "enter" /\ Adds("FILE")
           \/ kind = "statics" /\ Adds("STAT")
    PROVE  Shape(Act', Types')
<1>1. /\ Act \in Seq(Acts) /\ Shape(Act, Types) /\ svlev \in 0..MaxScopes
      /\ svs \in [1..MaxScopes -> Scopes] /\ MaxScopes \in Nat
  BY Before
<1>2. /\ Types \in Seq(ScopeTypes) /\ Len(Types) = svlev
  BY <1>1, TypesAre DEF Types
<1>3. Act' = Append(Act, [kind |-> kind, base |-> Len(Types)])
  BY <1>2 DEF Starts
<1>4. CASE Opened(kind) = 0 /\ Unscoped
  <2>1. Types' = Types
    BY <1>4 DEF Unscoped, Types
  <2>2. QED
    BY <1>1, <1>2, <1>3, <1>4, <2>1, ShapePush
<1>5. ASSUME NEW type \in {"FILE", "STAT"}, Adds(type), Opened(kind) = 1,
             type = "FILE" <=> kind = "enter"
      PROVE  Shape(Act', Types')
  <2>1. Types' = Append(Types, type) /\ type \in ScopeTypes
    BY <1>5, TypesAdd DEF ScopeTypes
  <2>2. /\ Append(Types, type) \in Seq(ScopeTypes)
        /\ Len(Append(Types, type)) = Len(Types) + 1
        /\ Append(Types, type)[Len(Types) + 1] = type
        /\ \A i \in 1..Len(Types) : Append(Types, type)[i] = Types[i]
    BY <1>2, <2>1, Appended
  <2> DEFINE p == Append(Types, type)
  <2>3. /\ p \in Seq(ScopeTypes) /\ Len(p) = Len(Types) + Opened(kind)
        /\ \A i \in 1..Len(Types) : p[i] = Types[i]
        /\ p[Len(Types) + 1] = "FILE" <=> kind = "enter"
    BY <1>5, <2>2
  <2> HIDE DEF p
  <2>4. Opened(kind) \in {0, 1} /\ Len(Types) <= MaxScopes
    BY <1>1, <1>2, <1>5
  <2>5. Shape(Append(Act, [kind |-> kind, base |-> Len(Types)]), p)
    BY <1>1, <1>2, <2>3, <2>4, ShapePush
  <2>6. QED
    BY <1>3, <2>1, <2>5 DEF p
<1>6. Opened("enter") = 1 /\ Opened("statics") = 1
  BY DEF Opened
<1>7. QED
  BY <1>4, <1>5, <1>6

\* The shape after something ended, and what the levels were is kept.
LEMMA DropsShape ==
    ASSUME SInv, ~crashed, NEW s, SameTypes(s), NEW lev, NEW e \in 1..Depth, Drops(e, s, lev)
    PROVE  Shape(Act', Types')
<1>1. Act \in Seq(Acts) /\ Len(Act) = Depth /\ Shape(Act, Types)
  BY Before
<1>2. Types \in Seq(ScopeTypes) /\ Types' = SubSeq(Types, 1, Act[e].base)
  BY TypesDrop
<1>3. QED
  BY <1>1, <1>2, ShapeCut DEF Drops


LEMMA SInvInit == Init => SInv
<1>1. SUFFICES ASSUME Init PROVE SInv
  OBVIOUS
<1>2. JInv /\ IInv
  BY <1>1, JInvInit DEF JInv
<1>3. Mirrors(ctl, jmps) /\ ctl = << >> /\ ctl \in Seq(Frames) /\ jmps \in Seq(Jumps)
  BY <1>1, <1>2 DEF IInv, JmpsMirrorFrames, Init, TypeOK
<1>4. Act \in Seq(Acts) /\ Len(Act) = 0
  BY <1>3, ActsType DEF Act
<1>5. /\ svlev = Residue /\ svs \in [1..MaxScopes -> Scopes]
      /\ \A i \in 1..Residue : svs[i] = DeadParse
  BY <1>1, <1>2, Constants DEF Init, IInv, TypeOK
<1>6. /\ Len(Types) = Residue /\ \A i \in 1..Residue : Types[i] = "PARSE"
  BY <1>5, TypesAre, Constants DEF Types, DeadParse
<1>7. Shape(Act, Types)
  BY <1>4, <1>6, Constants DEF Shape, Nested, FilesOwned
<1>8. QED
  BY <1>2, <1>3, <1>7 DEF SInv

LEMMA SInvStep == SInv /\ [Next]_vars => SInv'
<1>1. SUFFICES ASSUME SInv, [Next]_vars PROVE SInv'
  OBVIOUS
<1>2. JInv' /\ IInv'
  BY <1>1, JInvStep DEF SInv, JInv
<1>3. CASE UNCHANGED vars
  BY <1>1, <1>2, <1>3 DEF vars, SInv, Act, Types
<1>4. CASE Next
  <2>1. ~crashed
    BY <1>4, NextSorted
  <2>2. /\ IInv /\ Mirrors(ctl, jmps) /\ Shape(Act, Types)
        /\ Act \in Seq(Acts) /\ Len(Act) = Depth /\ Depth \in Nat
        /\ svs \in [1..MaxScopes -> Scopes]
    BY <1>1, <2>1, Before
  <2>3. ASSUME crashed' = crashed PROVE Mirrors(ctl', jmps')
    BY <1>2, <2>1, <2>3 DEF IInv, JmpsMirrorFrames
  <2>4. SUFFICES ASSUME Len(jmps') > 0
                 PROVE  Mirrors(ctl', jmps') /\ Shape(Act', Types')
    BY <1>2 DEF SInv
  <2>5. CASE eppic_runcmd
    <3> DEFINE a1 == Append(Act, [kind |-> "cmd", base |-> svlev])
    <3>1. /\ Act = << >> /\ Adds("FILE")
          /\ Act' = Append(a1, [kind |-> "enter", base |-> svlev])
      BY <1>1, <2>1, <2>5, RuncmdActs
    <3>2. Types \in Seq(ScopeTypes) /\ Len(Types) = svlev /\ Types' = Append(Types, "FILE")
      BY <1>1, <2>1, <3>1, TypesAdd
    <3>3. /\ "cmd" \in Kinds /\ Opened("cmd") = 0 /\ "enter" \in Kinds /\ Opened("enter") = 1
      BY DEF Kinds, ContextKinds, Guards, Functions, Opened
    <3>4. svlev <= MaxScopes
      BY <1>1, <2>1, Before
    <3>5. a1 \in Seq(Acts) /\ Shape(a1, Types)
      <4>1. Opened("cmd") \in {0, 1} /\ Len(Types) = Len(Types) + Opened("cmd")
        BY <3>2, <3>3
      <4>2. /\ Append(Act, [kind |-> "cmd", base |-> Len(Types)]) \in Seq(Acts)
            /\ Shape(Append(Act, [kind |-> "cmd", base |-> Len(Types)]), Types)
        BY <2>2, <3>2, <3>3, <3>4, <4>1, ShapePush
      <4>3. QED
        BY <3>2, <4>2
    <3> HIDE DEF a1
    <3> DEFINE p == Append(Types, "FILE")
    <3>6. /\ p \in Seq(ScopeTypes) /\ Len(p) = Len(Types) + Opened("enter")
          /\ \A i \in 1..Len(Types) : p[i] = Types[i]
          /\ p[Len(Types) + 1] = "FILE"
      <4>1. "FILE" \in ScopeTypes
        BY DEF ScopeTypes
      <4>2. QED
        BY <3>2, <3>3, <4>1, Appended
    <3> HIDE DEF p
    <3>7. Shape(Append(a1, [kind |-> "enter", base |-> Len(Types)]), p)
      <4>1. Opened("enter") \in {0, 1} /\ Len(Types) <= MaxScopes
        BY <3>2, <3>3, <3>4
      <4>2. QED
        BY <3>2, <3>3, <3>5, <3>6, <4>1, ShapePush
    <3>8. Mirrors(ctl', jmps')
      BY <2>3, <2>5 DEF eppic_runcmd, EnterFunction
    <3>9. QED
      BY <3>1, <3>2, <3>7, <3>8 DEF p
  <2>6. CASE Opens
    <3>1. Mirrors(ctl', jmps')
      BY <1>1, <2>3, <2>6, OpensFrame DEF SInv
    <3>2. \E kind \in Kinds :
            /\ Starts(kind)
            /\ \/ Opened(kind) = 0 /\ Unscoped
               \/ kind = "enter" /\ Adds("FILE")
               \/ kind = "statics" /\ Adds("STAT")
      <4>1. /\ {"enter", "statics", "eval", "loop", "switch", "body"} \subseteq Kinds
            /\ \A kind \in {"eval", "loop", "switch", "body"} : Opened(kind) = 0
        BY DEF Kinds, ContextKinds, BlockKinds, Functions, Guards, Opened
      <4>2. CASE eppic_exefunc \/ eppic_docall
        BY <1>1, <2>1, <4>1, <4>2, OpensActs
      <4>3. CASE EnterBlock
        BY <1>1, <2>1, <4>1, <4>3, OpensActs
      <4>4. CASE BeginEval
        BY <1>1, <2>1, <4>1, <4>4, OpensActs
      <4>5. CASE EnterLoop \/ EnterSwitch \/ BeginIteration
        <5>1. PICK kind \in {"loop", "switch", "body"} : Open(kind)
          BY <4>5 DEF EnterLoop, EnterSwitch, BeginIteration
        <5>2. Starts(kind) /\ Unscoped
          BY <1>1, <2>1, <5>1, OpensActs
        <5>3. QED
          BY <4>1, <5>2
      <4>6. QED
        BY <2>6, <4>2, <4>3, <4>4, <4>5 DEF Opens
    <3>3. QED
      BY <1>1, <2>1, <3>1, <3>2, StartsShape
  <2>7. CASE Relabels
    <3>1. Mirrors(ctl', jmps')
      BY <2>2, <2>3, <2>7, RelabelsTop
    <3>2. /\ Depth > 0 /\ Adds("AUTO") /\ Act' \in Seq(Acts) /\ Len(Act') = Depth
          /\ \A k \in 1..Depth - 1 : Act'[k] = Act[k]
          /\ Act'[Depth].base = Act[Depth].base
          /\ \/ Act[Depth].kind = "enter" /\ Act'[Depth].kind = "call"
             \/ Act[Depth].kind = "statics" /\ Act'[Depth].kind = "block"
      BY <1>1, <2>1, <2>7, RelabelsActs
    <3>3. Types \in Seq(ScopeTypes) /\ Types' = Append(Types, "AUTO")
      BY <1>1, <2>1, <3>2, TypesAdd
    <3>4. Shape(Act', Append(Types, "AUTO"))
      BY <2>2, <3>2, <3>3, ShapeGrow
    <3>5. QED
      BY <3>1, <3>3, <3>4
  <2>8. CASE RemoveHandlers
    <3>1. Mirrors(ctl', jmps')
      BY <2>2, <2>3, <2>8, RemovesTop
    <3>2. Act' = Act /\ Types' = Types
      BY <1>1, <2>1, <2>8, RemovesActs DEF Unscoped, Types
    <3>3. QED
      BY <2>2, <3>1, <3>2
  <2>9. SameTypes(svs) /\ SameTypes(eppic_setsvlev(svs, svlev, 0))
    BY <1>1, <2>1, SameTypesHere
  <2>10. CASE Ends
    <3>1. Depth \in 1..Depth /\ Drops(Depth, svs, svlev) /\ Mirrors(ctl', jmps')
      BY <1>1, <2>1, <2>2, <2>10, EndsActs
    <3>2. QED
      BY <1>1, <2>1, <2>9, <3>1, DropsShape
  <2>11. CASE Jumping
    <3>1. ASSUME NEW type, NEW s, SameTypes(s), NEW lev, eppic_dojmp(type, s, lev)
          PROVE  Mirrors(ctl', jmps') /\ Shape(Act', Types')
      <4>1. jmps' # << >>
        BY <2>4
      <4>2. PICK e \in 1..Depth : Drops(e, s, lev) /\ Mirrors(ctl', jmps')
        BY <1>1, <2>1, <3>1, <4>1, JumpActs
      <4>3. QED
        BY <1>1, <2>1, <3>1, <4>2, DropsShape
    <3>2. QED
      BY <2>9, <2>11, <3>1 DEF Jumping, Break, Continue, Return, Exit, Error, Interrupt
  <2>12. CASE InstallHandlers \/ AbandonEval
    BY <2>2, <2>12 DEF InstallHandlers, AbandonEval, Act, Types
  <2>13. QED
    BY <1>4, <2>5, <2>6, <2>7, <2>8, <2>10, <2>11, <2>12, NextSorted
<1>5. QED
  BY <1>1, <1>3, <1>4

LEMMA SInvHolds == Spec => []SInv
BY SInvInit, SInvStep, PTL DEF Spec


-----------------------------------------------------------------------------
(* What a variable lookup scans.                                            *)

LEMMA LookupInside == SInv => LookupStaysInFunction
<1>1. SUFFICES ASSUME SInv, NEW i \in 2..Len(jmps), jmps[i].type = "RETURN",
                      \A j \in i + 1..Len(jmps) : jmps[j].type # "RETURN"
               PROVE  /\ svlev >= jmps[i].svlev + 1
                      /\ svs[jmps[i].svlev + 1].type = "FILE"
                      /\ \A n \in jmps[i].svlev + 2..svlev : svs[n].type # "FILE"
  BY DEF LookupStaysInFunction
<1> DEFINE e == jmps[i].env
           h == jmps[i].svlev
<1>2. /\ IInv /\ Mirrors(ctl, jmps) /\ Shape(Act, Types) /\ Len(jmps) \in Nat
      /\ ctl \in Seq(Frames) /\ jmps \in Seq(Jumps) /\ Depth = Len(ctl) /\ Depth \in Nat
      /\ svlev \in 0..MaxScopes /\ svs \in [1..MaxScopes -> Scopes] /\ MaxScopes \in Nat
  <2>1. IInv /\ jmps \in Seq(Jumps) /\ Len(jmps) \in Nat
    BY <1>1 DEF SInv, JInv, IInv, TypeOK
  <2>2. Len(jmps) > 0
    BY <1>1, <2>1
  <2>3. QED
    BY <1>1, <2>1, <2>2, Constants DEF SInv, IInv, TypeOK, Depth
<1>3. /\ Act \in Seq(Acts) /\ Len(Act) = Depth
      /\ \A k \in 1..Depth : Act[k].kind = ctl[k].kind /\ Act[k].base = Base(ctl, jmps, k)
  BY <1>2, ActsType DEF Act
<1>4. /\ Types \in Seq(ScopeTypes) /\ Len(Types) = svlev
      /\ \A n \in 1..svlev : Types[n] = svs[n].type
  BY <1>2, TypesAre DEF Types
<1>5. e \in 1..Depth /\ Act[e].base = h /\ Act[e].kind \in Functions
  <2>1. e \in 1..Depth /\ ctl[e].kind \in ContextKinds /\ JumpType(ctl[e].kind) = "RETURN"
    BY <1>1, <1>2 DEF Mirrors
  <2>2. Act[e].base = h
    BY <1>2, <1>3, <2>1, BaseIs
  <2>3. ctl[e].kind \in Functions
    BY <2>1 DEF JumpType
  <2>4. QED
    BY <1>3, <2>1, <2>2, <2>3
<1> HIDE DEF e, h
<1>6. h \in Nat /\ h + 1 \in 1..svlev /\ svs[h + 1].type = "FILE"
  <2>1. h \in Nat /\ h + 1 \in 1..svlev
    BY <1>2, <1>3, <1>4, <1>5, ShapeAt
  <2>2. Types[h + 1] = "FILE"
    BY <1>2, <1>3, <1>5 DEF Shape, FilesOwned
  <2>3. QED
    BY <1>4, <2>1, <2>2
<1>7. ASSUME NEW n \in h + 2..svlev, svs[n].type = "FILE" PROVE FALSE
  <2>1. n \in 1..svlev /\ Types[n] = "FILE"
    BY <1>2, <1>4, <1>6, <1>7
  <2>2. PICK m \in 1..Depth : Act[m].kind \in Functions /\ Act[m].base + 1 = n
    BY <1>2, <1>3, <1>4, <2>1 DEF Shape, FilesOwned
  <2>3. Act[m].base \in Nat /\ Act[m].base > h /\ Opened(Act[m].kind) \in {0, 1, 2}
    BY <1>2, <1>3, <1>4, <1>6, <2>2, ShapeAt
  <2>4. e < m
    <3>1. m # e
      BY <1>5, <1>6, <2>3
    <3>2. ~(m < e)
      <4>1. SUFFICES ASSUME m < e PROVE FALSE
        OBVIOUS
      <4>2. Act[m].base + Opened(Act[m].kind) <= h
        BY <1>2, <1>3, <1>5, <4>1 DEF Shape, Nested
      <4>3. QED
        BY <1>6, <2>3, <4>2
    <3>3. QED
      BY <1>2, <1>5, <3>1, <3>2
  <2>5. PICK j \in 2..Len(jmps) : jmps[j].env = m /\ jmps[j].type = "RETURN"
    <3>1. ctl[m].kind \in Functions /\ ctl[m].kind \in ContextKinds
      BY <1>3, <2>2 DEF ContextKinds
    <3>2. PICK j \in 2..Len(jmps) : jmps[j].env = m
      BY <1>2, <3>1 DEF Mirrors
    <3>3. jmps[j].type = JumpType(ctl[m].kind)
      BY <1>2, <3>2 DEF Mirrors
    <3>4. JumpType(ctl[m].kind) = "RETURN"
      BY <3>1 DEF JumpType, Functions, Guards
    <3>5. QED
      BY <3>2, <3>3, <3>4
  <2>6. i < j
    <3>1. i # j
      BY <1>2, <1>5, <2>4, <2>5 DEF e
    <3>2. ~(j < i)
      <4>1. SUFFICES ASSUME j < i PROVE FALSE
        OBVIOUS
      <4>2. jmps[j].env < jmps[i].env
        BY <1>1, <1>2, <4>1 DEF Mirrors
      <4>3. QED
        BY <1>2, <1>5, <2>4, <2>5, <4>2 DEF e
    <3>3. QED
      BY <1>1, <3>1, <3>2, <1>2
  <2>7. QED
    BY <1>1, <1>2, <2>5, <2>6
<1>8. QED
  BY <1>2, <1>6, <1>7 DEF h

(***************************************************************************)
(* Whatever the script and the host do wrong, a variable lookup, which scans *)
(* down to the first S_FILE level, stops at the statics of the function that *)
(* is running: no scope of a caller is in its reach and none of its own is   *)
(* beyond it.                                                               *)
(***************************************************************************)
THEOREM LookupsStayInside == Spec => []LookupStaysInFunction
BY SInvHolds, LookupInside, PTL

-----------------------------------------------------------------------------
(* Scopes in use stay alive and as they were.                               *)

\* Scopes in use before and after are the same, and what is new is alive.
Keeps ==
    /\ \A i \in 1..MaxScopes : i <= svlev /\ i <= svlev' => svs'[i] = svs[i]
    /\ svlev' > svlev => svlev' = svlev + 1 /\ svs'[svlev + 1].live

LEMMA AddsKeeps ==
    ASSUME SInv, ~crashed, NEW type, Adds(type)
    PROVE  Keeps
<1>1. svlev \in 0..MaxScopes /\ svs \in [1..MaxScopes -> Scopes] /\ MaxScopes \in Nat
  BY Before
<1>2. /\ svs'[svlev + 1] = Scope(type) /\ svlev' = svlev + 1
      /\ \A i \in 1..MaxScopes : i # svlev + 1 => svs'[i] = svs[i]
  BY <1>1, AddScopeIs DEF Adds
<1>3. \A i \in 1..MaxScopes : i <= svlev => i # svlev + 1
  BY <1>1
<1>4. QED
  BY <1>2, <1>3 DEF Keeps, Scope

LEMMA DropsKeeps ==
    ASSUME SInv, ~crashed, NEW s, SameTypes(s), NEW lev, NEW e \in 1..Depth, Drops(e, s, lev),
           \A i \in 1..MaxScopes : i <= Act[e].base => s[i] = svs[i]
    PROVE  Keeps
<1> DEFINE n == Act[e].base
<1>1. svlev \in 0..MaxScopes /\ svs \in [1..MaxScopes -> Scopes] /\ MaxScopes \in Nat
  BY Before
<1>2. n \in 0..svlev /\ svlev' = n /\ svs' = eppic_setsvlev(s, lev, n)
  BY TypesDrop DEF Drops
<1>3. s \in [1..MaxScopes -> Scopes] /\ \A i \in 1..MaxScopes : i <= n => s[i] = svs[i]
  BY DEF SameTypes
<1> HIDE DEF n
<1>4. n \in Int
  BY <1>1, <1>2
<1>5. \A i \in 1..MaxScopes : i <= n => svs'[i] = svs[i]
  BY <1>2, <1>3, <1>4, SetsvlevKeeps
<1>6. ~(svlev' > svlev)
  BY <1>1, <1>2
<1>7. QED
  BY <1>2, <1>5, <1>6 DEF Keeps

\* An error is caught by the command, which runs at the level of the load: there
\* is no automatic scope below it that eppic_error could have freed.
LEMMA ErrorKeeps ==
    ASSUME SInv, "evalError" \notin Faults, Error
    PROVE  Keeps
<1> DEFINE s == eppic_setsvlev(svs, svlev, 0)
<1>1. ~crashed
  BY DEF Error
<1>2. /\ IInv /\ Shape(Act, Types) /\ svs \in [1..MaxScopes -> Scopes]
      /\ svlev \in 0..MaxScopes /\ Depth = Len(ctl) /\ Depth \in Nat
      /\ Len(Act) = Depth /\ MaxScopes \in Nat /\ Residue \in Nat
      /\ CommandIsFirst(ctl)
  BY <1>1, Before DEF SInv, JInv, Ordered
<1>3. eppic_dojmp("EXIT", s, 0) /\ ~InEval
  BY DEF Error
<1>4. SameTypes(s)
  BY <1>1, SameTypesHere
<1>5. CASE NullJump /\ svlev' = 0
  BY <1>2, <1>5 DEF Keeps
<1>6. ASSUME NEW e \in 1..Depth, Nearest(e, Guards), Drops(e, s, 0)
      PROVE  Keeps
  <2>1. ctl[e].kind = "cmd"
    BY <1>3, <1>6 DEF Nearest, InEval, Innermost, Guards
  <2>2. e = 1 /\ Act[1].base = Residue
    BY <1>2, <2>1 DEF CommandIsFirst, Shape, Nested
  <2>3. ASSUME NEW i \in 1..MaxScopes, i <= Act[e].base PROVE s[i] = svs[i]
    <3>1. i \in 1..Residue /\ i \in 1..svlev
      <4>1. Residue <= Len(Types) /\ Len(Types) = svlev
        BY <1>2, TypesAre DEF Types, Shape, Nested
      <4>2. QED
        BY <1>2, <2>2, <2>3, <4>1
    <3>2. svs[i].type = "PARSE"
      BY <1>2, <3>1, TypesAre DEF Types, Shape, FilesOwned
    <3>3. 0 \in Int
      OBVIOUS
    <3>4. QED
      BY <1>2, <3>2, <3>3, SetsvlevKeeps
  <2> HIDE DEF s
  <2>4. QED
    BY <1>1, <1>4, <1>6, <2>3, DropsKeeps
<1>7. QED
  BY <1>1, <1>3, <1>5, <1>6, JumpActs, KindsOfTypes

LEMMA KeepsStep ==
    ASSUME SInv, "evalError" \notin Faults, Next
    PROVE  Keeps
<1>1. ~crashed
  BY NextSorted
<1>2. /\ svs \in [1..MaxScopes -> Scopes] /\ svlev \in 0..MaxScopes /\ MaxScopes \in Nat
      /\ Depth \in Nat
  BY <1>1, Before
<1>3. Unscoped => Keeps
  BY <1>2 DEF Unscoped, Keeps
<1>4. SameTypes(svs)
  BY <1>2 DEF SameTypes
<1>5. CASE eppic_runcmd
  BY <1>1, <1>5, RuncmdActs, AddsKeeps
<1>6. CASE Opens
  <2>1. CASE eppic_exefunc \/ eppic_docall \/ EnterBlock
    BY <1>1, <2>1, OpensActs, AddsKeeps
  <2>2. CASE BeginEval
    BY <1>1, <1>3, <2>2, OpensActs
  <2>3. CASE EnterLoop \/ EnterSwitch \/ BeginIteration
    BY <1>1, <1>3, <2>3, OpensActs DEF EnterLoop, EnterSwitch, BeginIteration
  <2>4. QED
    BY <1>6, <2>1, <2>2, <2>3 DEF Opens
<1>7. CASE Relabels
  BY <1>1, <1>7, RelabelsActs, AddsKeeps
<1>8. CASE RemoveHandlers
  BY <1>1, <1>3, <1>8, RemovesActs
<1>9. CASE Ends
  <2>1. Depth \in 1..Depth /\ Drops(Depth, svs, svlev)
    BY <1>1, <1>2, <1>9, EndsActs
  <2>2. QED
    BY <1>1, <1>4, <2>1, DropsKeeps
<1>10. CASE Error
  BY <1>10, ErrorKeeps
<1>11. CASE Break \/ Continue \/ Return \/ Exit \/ Interrupt
  <2>1. PICK type \in JumpTypes : eppic_dojmp(type, svs, svlev)
    BY <1>11 DEF Break, Continue, Return, Exit, Interrupt, JumpTypes
  <2>2. CASE svlev' = 0
    BY <1>2, <2>2 DEF Keeps
  <2>3. CASE \E e \in 1..Depth : Drops(e, svs, svlev)
    BY <1>1, <1>4, <2>3, DropsKeeps
  <2>4. QED
    BY <1>1, <2>1, <2>2, <2>3, JumpActs
<1>12. CASE InstallHandlers \/ AbandonEval
  BY <1>3, <1>12 DEF InstallHandlers, AbandonEval, Unscoped
<1>13. QED
  BY <1>5, <1>6, <1>7, <1>8, <1>9, <1>10, <1>11, <1>12, NextSorted DEF Jumping

(***************************************************************************)
(* Every automatic list at a level in use exists and belongs to the running  *)
(* function: eppic_getvarbyname reads no freed list and no level frees one    *)
(* twice.  The hypothesis is what eppic_error needs: it drops every level     *)
(* before its jump, and a jump that an initializer's eppic_exenode catches    *)
(* takes the level up again, over lists that were freed.                     *)
(***************************************************************************)
THEOREM ScopesStayInForce ==
    ASSUME "evalError" \notin Faults
    PROVE  Spec => []ScopesInForce
<1> DEFINE LInv == SInv /\ ScopesLive
<1>1. Init => LInv
  <2>1. SUFFICES ASSUME Init PROVE SInv /\ ScopesLive
    OBVIOUS
  <2>2. SInv
    BY <2>1, SInvInit
  <2>3. \A i \in 1..svlev : svs[i].type = "PARSE"
    BY <2>1, Constants DEF Init, DeadParse
  <2>4. QED
    BY <2>2, <2>3 DEF ScopesLive
<1>2. LInv /\ [Next]_vars => LInv'
  <2>1. SUFFICES ASSUME SInv, ScopesLive, [Next]_vars PROVE SInv' /\ ScopesLive'
    OBVIOUS
  <2>2. SInv'
    BY <2>1, SInvStep
  <2>3. CASE UNCHANGED vars
    BY <2>1, <2>2, <2>3 DEF vars, ScopesLive
  <2>4. CASE Next
    <3>1. Keeps /\ svlev \in 0..MaxScopes /\ svlev' \in 0..MaxScopes /\ MaxScopes \in Nat
      BY <2>1, <2>2, <2>4, KeepsStep, Constants DEF SInv, JInv, IInv, TypeOK
    <3>2. ASSUME NEW i \in 1..svlev', svs'[i].type = "AUTO" PROVE svs'[i].live
      <4>1. i \in 1..MaxScopes
        BY <3>1
      <4>2. CASE i <= svlev
        <5>1. svs'[i] = svs[i] /\ i \in 1..svlev
          BY <3>1, <4>1, <4>2 DEF Keeps
        <5>2. QED
          BY <2>1, <3>2, <5>1 DEF ScopesLive
      <4>3. CASE ~(i <= svlev)
        <5>1. svlev' > svlev
          BY <3>1, <4>3
        <5>2. svlev' = svlev + 1 /\ svs'[svlev + 1].live
          BY <3>1, <5>1 DEF Keeps
        <5>3. i = svlev + 1
          BY <3>1, <4>3, <5>2
        <5>4. QED
          BY <5>2, <5>3
      <4>4. QED
        BY <4>2, <4>3
    <3>3. QED
      BY <2>2, <3>2 DEF ScopesLive
  <2>5. QED
    BY <2>1, <2>3, <2>4
<1>3. LInv => ScopesInForce
  BY LookupInside DEF ScopesInForce
<1>4. QED
  BY <1>1, <1>2, <1>3, PTL DEF Spec

(***************************************************************************)
(* No step touches a scope that stays in use, in type or in life: calls,      *)
(* blocks, loops and every jump only add or drop levels above it.             *)
(***************************************************************************)
THEOREM ScopesStayStable ==
    ASSUME "evalError" \notin Faults
    PROVE  Spec => StableScopes
<1>1. SInv /\ [Next]_vars =>
        [\A i \in 1..MaxScopes : i <= svlev /\ i <= svlev' => svs'[i] = svs[i]]_vars
  BY KeepsStep DEF Keeps
<1>2. QED
  BY <1>1, SInvHolds, PTL DEF Spec, StableScopes

-----------------------------------------------------------------------------
(* The jump stack and the scope stack implement StructuredControl: every step  *)
(* of EppicControl is a step of the abstract control constructs, or leaves     *)
(* activations and scopes alone.                                              *)

\* The state before a step, as both specifications see it.
LEMMA BothSides ==
    ASSUME SInv, ~crashed
    PROVE  /\ Act \in Seq(Acts) /\ Len(Act) = Depth /\ Depth \in Nat
           /\ \A k \in 1..Depth : Act[k].kind = ctl[k].kind
           /\ Types \in Seq(ScopeTypes) /\ Len(Types) = svlev
           /\ Act = << >> <=> Depth = 0
<1>1. /\ Act \in Seq(Acts) /\ Len(Act) = Depth /\ Depth \in Nat
      /\ \A k \in 1..Depth : Act[k].kind = ctl[k].kind
      /\ svlev \in 0..MaxScopes /\ svs \in [1..MaxScopes -> Scopes]
  BY Before
<1>2. Types \in Seq(ScopeTypes) /\ Len(Types) = svlev
  BY <1>1, TypesAre DEF Types
<1>3. QED
  BY <1>1, <1>2

\* Opening something is entering it, with the scope it opens first.
LEMMA Entering ==
    ASSUME SInv, ~crashed, NEW kind, Starts(kind)
    PROVE  /\ Unscoped => Structured!Enter(kind, << >>)
           /\ \A type \in {"FILE", "STAT", "AUTO"} :
                Adds(type) => Structured!Enter(kind, <<type>>)
<1>1. Types \in Seq(ScopeTypes) /\ Len(Types) = svlev
  BY BothSides
<1>2. Act' = Append(Act, Structured!Activation(kind, Len(Types)))
  BY <1>1 DEF Starts, Structured!Activation
<1>3. ASSUME Unscoped PROVE Types' = Types \o << >>
  <2>1. Types' = Types
    BY <1>3 DEF Unscoped, Types
  <2>2. QED
    BY <1>1, <2>1
<1>4. ASSUME NEW type \in {"FILE", "STAT", "AUTO"}, Adds(type)
      PROVE  Types' = Types \o <<type>>
  <2>1. Types' = Append(Types, type)
    BY <1>4, TypesAdd
  <2>2. Append(Types, type) = Types \o <<type>>
    <3>1. type \in ScopeTypes
      BY DEF ScopeTypes
    <3>2. QED
      BY <1>1, <3>1, AppendIsConcat
  <2>3. QED
    BY <2>1, <2>2
<1>5. QED
  BY <1>2, <1>3, <1>4 DEF Structured!Enter

\* Dropping a frame is leaving its activation.
LEMMA LeavingActivation ==
    ASSUME SInv, ~crashed, NEW s, SameTypes(s), NEW lev, NEW e \in 1..Depth, Drops(e, s, lev)
    PROVE  Structured!Leave(e)
BY TypesDrop DEF Drops, Structured!Leave

LEMMA CommandStep ==
    ASSUME SInv, ~crashed, eppic_runcmd
    PROVE  Structured!Command
<1>1. /\ Act = << >> /\ Adds("FILE")
      /\ Act' = Append(Append(Act, [kind |-> "cmd", base |-> svlev]),
                       [kind |-> "enter", base |-> svlev])
  BY RuncmdActs
<1>2. Len(Types) = svlev /\ Types' = Append(Types, "FILE")
  BY <1>1, BothSides, TypesAdd
<1>3. Act' = <<[kind |-> "cmd", base |-> svlev], [kind |-> "enter", base |-> svlev]>>
  <2> DEFINE x == [kind |-> "cmd", base |-> svlev]
             y == [kind |-> "enter", base |-> svlev]
  <2>1. Act' = Append(Append(Act, x), y) /\ Act = << >>
    BY <1>1
  <2>2. x \in Acts /\ y \in Acts
    <3>1. svlev \in 0..MaxScopes /\ "cmd" \in Kinds /\ "enter" \in Kinds
      BY Before DEF Kinds, ContextKinds, Functions, Guards
    <3>2. QED
      BY <3>1 DEF Acts
  <2> HIDE DEF x, y
  <2>3. Append(Append(Act, x), y) = <<x, y>>
    <3> DEFINE a1 == Append(Act, x)
               a2 == Append(a1, y)
    <3>1. Act \in Seq(Acts) /\ Len(Act) = 0
      BY <2>1
    <3>2. a1 \in Seq(Acts) /\ Len(a1) = 1 /\ a1[1] = x
      BY <2>2, <3>1, Appended
    <3> HIDE DEF a1
    <3>3. a2 \in Seq(Acts) /\ Len(a2) = 2 /\ a2[1] = x /\ a2[2] = y
      <4>1. /\ a2 \in Seq(Acts) /\ Len(a2) = Len(a1) + 1 /\ a2[Len(a1) + 1] = y
            /\ \A k \in 1..Len(a1) : a2[k] = a1[k]
        <5>1. a1 \in Seq(Acts) /\ y \in Acts
          BY <2>2, <3>2
        <5>2. QED
          BY <5>1, Appended
      <4> HIDE DEF a2
      <4>2. QED
        BY <3>2, <4>1
    <3> HIDE DEF a2
    <3>4. <<x, y>> \in Seq(Acts) /\ Len(<<x, y>>) = 2
      BY <2>2
    <3>5. \A k \in 1..2 : a2[k] = <<x, y>>[k]
      BY <3>3
    <3>6. a2 = <<x, y>>
      BY <3>3, <3>4, <3>5, SeqEqual
    <3>7. QED
      BY <3>6 DEF a1, a2
  <2>4. QED
    BY <2>1, <2>3 DEF x, y
<1>4. QED
  BY <1>1, <1>2, <1>3 DEF Structured!Command, Structured!Activation

\* No command is on top when something else opens.
LEMMA InnerTop ==
    ASSUME SInv, Depth > 0, ~crashed, Top.kind # "cmd"
    PROVE  Structured!Inner
<1>1. /\ Len(Act) = Depth /\ Depth \in Nat /\ Act # << >>
      /\ \A k \in 1..Depth : Act[k].kind = ctl[k].kind
  BY BothSides
<1>2. Act[Len(Act)].kind = Top.kind
  BY <1>1 DEF Top
<1>3. QED
  BY <1>1, <1>2 DEF Structured!Inner

LEMMA OpenSteps ==
    ASSUME SInv, ~crashed, Opens
    PROVE  Structured!Call \/ Structured!Block \/ Structured!Eval \/ Structured!Construct
<1>1. CASE eppic_exefunc
  <2>1. ctl = << >> /\ Depth = 0
    BY <1>1 DEF eppic_exefunc, HostPos, Depth
  <2>2. Act = << >>
    BY <2>1, BothSides
  <2>3. QED
    BY <1>1, <2>2, OpensActs, Entering DEF Structured!Call
<1>2. CASE eppic_docall
  <2>1. Structured!Inner
    BY <1>2, InnerTop DEF eppic_docall, ExprPos, At
  <2>2. QED
    BY <1>2, <2>1, OpensActs, Entering DEF Structured!Call
<1>3. CASE EnterBlock
  <2>1. Structured!Inner
    BY <1>3, InnerTop DEF EnterBlock, ExprPos, At
  <2>2. QED
    BY <1>3, <2>1, OpensActs, Entering DEF Structured!Block
<1>4. CASE BeginEval
  <2>1. Depth > 0 /\ Top.kind # "cmd"
    BY <1>4 DEF SInv, JInv, BareAbove, BeginEval, Top, Depth
  <2>2. Structured!Inner
    BY <2>1, InnerTop
  <2>3. QED
    BY <1>4, <2>2, OpensActs, Entering DEF Structured!Eval
<1>5. CASE EnterLoop \/ EnterSwitch \/ BeginIteration
  <2>1. Structured!Inner
    BY <1>5, InnerTop DEF EnterLoop, EnterSwitch, BeginIteration, StmtPos, At
  <2>2. PICK kind \in {"loop", "switch", "body"} : Open(kind)
    BY <1>5 DEF EnterLoop, EnterSwitch, BeginIteration
  <2>3. Structured!Enter(kind, << >>)
    BY <2>2, OpensActs, Entering
  <2>4. QED
    BY <2>1, <2>3 DEF Structured!Construct
<1>6. QED
  BY <1>1, <1>2, <1>3, <1>4, <1>5 DEF Opens

LEMMA AutosStep ==
    ASSUME SInv, ~crashed, Relabels
    PROVE  Structured!OpenAutos
<1>1. /\ Depth > 0 /\ Adds("AUTO") /\ Act' \in Seq(Acts) /\ Len(Act') = Depth
      /\ \A k \in 1..Depth - 1 : Act'[k] = Act[k]
      /\ Act'[Depth].base = Act[Depth].base
      /\ \/ Act[Depth].kind = "enter" /\ Act'[Depth].kind = "call"
         \/ Act[Depth].kind = "statics" /\ Act'[Depth].kind = "block"
  BY RelabelsActs
<1>2. Act \in Seq(Acts) /\ Len(Act) = Depth /\ Depth \in Nat /\ Act # << >>
      /\ Act[Depth] \in Acts
  BY <1>1, BothSides
<1>3. Types' = Append(Types, "AUTO")
  BY <1>1, TypesAdd
<1>4. ASSUME NEW to \in {"call", "block"}, Act'[Depth].kind = to
      PROVE  Act' = [Act EXCEPT ![Len(Act)].kind = to]
  <2> DEFINE y == [Act[Depth] EXCEPT !.kind = to]
             b == [Act EXCEPT ![Depth] = y]
  <2>1. to \in Kinds
    BY DEF Kinds, ContextKinds, BlockKinds, Functions
  <2>2. y \in Acts /\ y.kind = to /\ y.base = Act[Depth].base
    BY <1>2, <2>1 DEF Acts
  <2>3. b = [Act EXCEPT ![Len(Act)].kind = to]
    BY <1>2
  <2> HIDE DEF y
  <2>4. /\ b \in Seq(Acts) /\ Len(b) = Depth /\ b[Depth] = y
        /\ \A k \in 1..Depth - 1 : b[k] = Act[k]
    BY <1>1, <1>2, <2>2
  <2> HIDE DEF b
  <2>5. ASSUME NEW k \in 1..Depth
        PROVE  Act'[k].kind = b[k].kind /\ Act'[k].base = b[k].base
    <3>1. CASE k = Depth
      BY <1>1, <1>4, <2>2, <2>4, <3>1
    <3>2. CASE k \in 1..Depth - 1
      BY <1>1, <2>4, <3>2
    <3>3. QED
      BY <1>2, <3>1, <3>2
  <2>6. Act' = b
    BY <1>1, <2>4, <2>5, SameActs
  <2>7. QED
    BY <2>3, <2>6
<1>5. QED
  BY <1>1, <1>2, <1>3, <1>4 DEF Structured!OpenAutos

\* A jump reaches the nearest activation of its kinds.
LEMMA AbruptStep ==
    ASSUME SInv, ~crashed, NEW kinds, NEW walls, NEW e \in 1..Depth, Nearest(e, kinds),
           \A k \in e + 1..Depth : ctl[k].kind \notin walls, Structured!Leave(e)
    PROVE  Structured!Abrupt(kinds, walls)
<1>1. /\ Len(Act) = Depth /\ Depth \in Nat /\ e \in 1..Len(Act)
      /\ \A k \in 1..Depth : Act[k].kind = ctl[k].kind
  BY BothSides
<1>2. \A k \in e + 1..Depth : k \in 1..Depth /\ Act[k].kind \notin kinds \cup walls
  BY <1>1 DEF Nearest
<1>3. QED
  BY <1>1, <1>2 DEF Nearest, Structured!Abrupt

LEMMA JumpSteps ==
    ASSUME Faults \subseteq {"evalError", "lateSignal"}, SInv, HInv, ~crashed, Jumping
    PROVE  \/ Structured!BreakOut \/ Structured!NextIteration \/ Structured!ReturnOut
           \/ Structured!Abort
<1>1. /\ JInv /\ IInv /\ OwnedBy(ctl, Under) /\ Depth = Len(ctl) /\ Depth \in Nat
      /\ svs \in [1..MaxScopes -> Scopes] /\ svlev \in 0..MaxScopes
  BY Before DEF HInv, Owns
<1>2. SameTypes(svs) /\ SameTypes(eppic_setsvlev(svs, svlev, 0))
  BY SameTypesHere
<1>3. ASSUME NEW type, NEW s, SameTypes(s), NEW lev, eppic_dojmp(type, s, lev),
             \E k \in 1..Depth : ctl[k].kind \in KindsOf(type)
      PROVE  \E e \in 1..Depth : Nearest(e, KindsOf(type)) /\ Structured!Leave(e)
  <2>1. PICK e \in 1..Depth : Nearest(e, KindsOf(type)) /\ Drops(e, s, lev)
    BY <1>3, JumpActs
  <2>2. QED
    BY <1>3, <2>1, LeavingActivation
<1>4. CASE Break \/ Continue \/ Return
  <2>1. ASSUME NEW type \in {"BREAK", "CONTINUE", "RETURN"},
               WellPlaced(KindsOf(type)), eppic_dojmp(type, svs, svlev)
        PROVE  \E e \in 1..Depth :
                /\ Nearest(e, KindsOf(type)) /\ Structured!Leave(e)
                /\ \A k \in e + 1..Depth :
                    ctl[k].kind \notin Guards \cup (Functions \ KindsOf(type))
    <3>1. KindsOf(type) \cap Guards = {} /\ Faults \cap {"strayJump", "evalJump"} = {}
      BY JumpKinds
    <3>2. /\ \E k \in 1..Depth : ctl[k].kind \in KindsOf(type)
          /\ \A e \in 1..Depth : Nearest(e, KindsOf(type)) =>
              \A k \in e..Depth : ctl[k].kind \notin Guards \cup (Functions \ KindsOf(type))
      BY <1>1, <2>1, <3>1, PlacedTarget
    <3>3. PICK e \in 1..Depth : Nearest(e, KindsOf(type)) /\ Structured!Leave(e)
      BY <1>2, <1>3, <2>1, <3>2
    <3>4. \A k \in e + 1..Depth : k \in e..Depth
      BY <1>1
    <3>5. QED
      BY <3>2, <3>3, <3>4
  <2>2. CASE Break
    <3>1. PICK e \in 1..Depth :
            /\ Nearest(e, {"loop", "switch"}) /\ Structured!Leave(e)
            /\ \A k \in e + 1..Depth : ctl[k].kind \notin Guards \cup Functions
      BY <2>1, <2>2, JumpKinds, KindsOfTypes
    <3>2. \A k \in e + 1..Depth : ctl[k].kind \notin Structured!Functions \cup {"eval"}
      BY <3>1 DEF Structured!Functions, Functions, Guards
    <3>3. QED
      BY <3>1, <3>2, AbruptStep DEF Structured!BreakOut
  <2>3. CASE Continue
    <3>1. PICK e \in 1..Depth :
            /\ Nearest(e, {"body"}) /\ Structured!Leave(e)
            /\ \A k \in e + 1..Depth : ctl[k].kind \notin Guards \cup Functions
      BY <2>1, <2>3, JumpKinds, KindsOfTypes
    <3>2. \A k \in e + 1..Depth : ctl[k].kind \notin Structured!Functions \cup {"eval"}
      BY <3>1 DEF Structured!Functions, Functions, Guards
    <3>3. QED
      BY <3>1, <3>2, AbruptStep DEF Structured!NextIteration
  <2>4. CASE Return
    <3>1. PICK e \in 1..Depth :
            /\ Nearest(e, Functions) /\ Structured!Leave(e)
            /\ \A k \in e + 1..Depth : ctl[k].kind \notin Guards
      BY <2>1, <2>4, JumpKinds, KindsOfTypes
    <3>2. \A k \in e + 1..Depth : ctl[k].kind \notin {"eval"}
      BY <3>1 DEF Guards
    <3>3. Functions = Structured!Functions
      BY DEF Structured!Functions, Functions
    <3>4. QED
      BY <3>1, <3>2, <3>3, AbruptStep DEF Structured!ReturnOut
  <2>5. QED
    BY <1>4, <2>2, <2>3, <2>4
<1>5. CASE Exit \/ Error \/ Interrupt
  <2>1. \E k \in 1..Depth : ctl[k].kind \in Guards
    <3>1. CASE Exit \/ Error
      BY <3>1 DEF Exit, Error, MayAbort, ExitContext
    <3>2. CASE Interrupt
      BY <1>1, <3>2 DEF Interrupt, Under, OwnedBy, Installed, ExitContext
    <3>3. QED
      BY <1>5, <3>1, <3>2
  <2>2. PICK s, lev : SameTypes(s) /\ eppic_dojmp("EXIT", s, lev)
    BY <1>2, <1>5 DEF Exit, Error, Interrupt
  <2>3. PICK e \in 1..Depth : Nearest(e, Guards) /\ Structured!Leave(e)
    BY <1>3, <2>1, <2>2, KindsOfTypes
  <2>4. Guards = Structured!Guards
    BY DEF Structured!Guards, Guards
  <2>5. QED
    BY <2>3, <2>4, AbruptStep DEF Structured!Abort
<1>6. QED
  BY <1>4, <1>5 DEF Jumping

-----------------------------------------------------------------------------
(* The refinement.                                                          *)

LEMMA StructuredInit == Init => Structured!AbsInit
<1>1. SUFFICES ASSUME Init PROVE Structured!AbsInit
  OBVIOUS
<1>2. SInv /\ ~crashed /\ Depth = 0
  BY <1>1, SInvInit DEF Init, Depth
<1>3. Act = << >>
  BY <1>2, BothSides
<1>4. Types = [i \in 1..Residue |-> "PARSE"]
  <2>1. svlev = Residue /\ \A i \in 1..Residue : svs[i].type = "PARSE"
    BY <1>1, Constants DEF Init, DeadParse
  <2>2. QED
    BY <2>1 DEF Types
<1>5. QED
  BY <1>3, <1>4 DEF Structured!AbsInit

LEMMA StructuredStep ==
    ASSUME Faults \subseteq {"evalError", "lateSignal"}, SInv, HInv, [Next]_vars
    PROVE  [Structured!AbsNext]_(Structured!absVars)
<1>1. CASE UNCHANGED vars
  BY <1>1 DEF vars, Act, Types, Structured!absVars
<1>2. CASE Next
  <2>1. ~crashed
    BY <1>2, NextSorted
  <2>2. CASE eppic_runcmd
    BY <2>1, <2>2, CommandStep DEF Structured!AbsNext
  <2>3. CASE Opens
    BY <2>1, <2>3, OpenSteps DEF Structured!AbsNext
  <2>4. CASE Relabels
    BY <2>1, <2>4, AutosStep DEF Structured!AbsNext
  <2>5. CASE RemoveHandlers
    BY <2>1, <2>5, RemovesActs DEF Unscoped, Types, Structured!absVars
  <2>6. CASE Ends
    <3>1. SameTypes(svs)
      BY <2>1, SameTypesHere
    <3>2. /\ Depth \in 1..Depth /\ Drops(Depth, svs, svlev)
          /\ Act # << >> /\ Len(Act) = Depth
      BY <2>1, <2>6, EndsActs, BothSides
    <3>3. Structured!Leave(Len(Act))
      BY <2>1, <3>1, <3>2, LeavingActivation
    <3>4. QED
      BY <3>2, <3>3 DEF Structured!Complete, Structured!AbsNext
  <2>7. CASE Jumping
    BY <2>1, <2>7, JumpSteps DEF Structured!AbsNext
  <2>8. CASE InstallHandlers \/ AbandonEval
    BY <2>8 DEF InstallHandlers, AbandonEval, Act, Types, Structured!absVars
  <2>9. QED
    BY <1>2, <2>2, <2>3, <2>4, <2>5, <2>6, <2>7, <2>8, NextSorted
<1>3. QED
  BY <1>1, <1>2

(***************************************************************************)
(* The jump stack and the scope stack together implement the control         *)
(* constructs a script is written with: a break, continue or return ends the *)
(* construct it names, an exit, error or signal the nearest initializer or   *)
(* command, and each closes exactly the scopes opened since.  Errors inside   *)
(* an initializer, and signals while eppic_exenode leaves, are allowed.       *)
(***************************************************************************)
THEOREM StructuredImplemented ==
    ASSUME Faults \subseteq {"evalError", "lateSignal"}
    PROVE  Spec => ImplementsStructured
<1>1. Spec => []HInv
  <2>1. Faults \cap {"strayJump", "evalJump"} = {}
    OBVIOUS
  <2>2. QED
    BY <2>1, HInvHolds
<1>2. SInv /\ HInv /\ [Next]_vars => [Structured!AbsNext]_(Structured!absVars)
  BY StructuredStep
<1>3. QED
  BY <1>1, <1>2, StructuredInit, SInvHolds, PTL DEF Spec, ImplementsStructured, Structured!AbsSpec

=============================================================================
