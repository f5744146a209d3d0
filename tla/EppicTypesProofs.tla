-------------------------- MODULE EppicTypesProofs --------------------------
(***************************************************************************)
(* Proofs about EppicTypes for every image, every set of names and faults, *)
(* and every bound: the types, that an index leads to one struct, and that *)
(* the typedefs of a file are found in that file only.                     *)
(***************************************************************************)
EXTENDS EppicTypes, WellFoundedInduction, TLAPS

Caches == [st : SUBSET Entries, age : Nat, neg : SUBSET Names, next : 0..MaxIdx]

\* A struct of the image is entered under its own tag, one of the script under an
\* index that was given out; a script's typedef hides the image's.
GoodEntry(c, e) ==
    /\ e.age <= c.age
    /\ e.kind = "typedef" => e.rtype \in Types
    /\ IsLocal(e) => e.idx < c.next
    /\ e.kind = "struct" /\ ~IsLocal(e) => e.idx \in Structs /\ e.name = e.idx
SameIndex(e, f) == e.kind = "struct" /\ f.kind = "struct" /\ e.idx = f.idx
Hides(e, f) ==
    LocalTypedef(e) /\ f.kind = "typedef" /\ ~IsLocal(f) /\ e.name = f.name
        => f.age < e.age
CacheOK(c) ==
    /\ c \in Caches
    /\ \A e \in c.st : GoodEntry(c, e)
    /\ \A e, f \in c.st : SameIndex(e, f) => e = f
    /\ \A e, f \in c.st : Hides(e, f)

Tdefs(c) == {e \in c.st : e.kind = "typedef"}
Locals(c) == {e \in c.st : LocalTypedef(e)}

\* The cache may have grown, and no typedef of a script came or went.
Keeps(c, d) == CacheOK(d) /\ Locals(d) = Locals(c) /\ c.age <= d.age

ScopeOK ==
    /\ scope = [tags |-> scope.tags, tdefs |-> scope.tdefs]
    /\ scope.tags \in [Names -> Nat \cup {None}]
    /\ DOMAIN scope.tdefs = {e.name : e \in Locals(Cache)}
    /\ \A e \in Locals(Cache) : loading /\ tag < e.age
Rest ==
    /\ tag \in 0..added
    /\ loading \in BOOLEAN /\ nloads \in 0..MaxLoads
    /\ open \in Seq(Names) /\ Len(open) <= MaxOpen
    /\ got # None => got.type \in Types
    /\ ndecl \in Nat

IInv == CacheOK(Cache) /\ ScopeOK /\ Rest

-----------------------------------------------------------------------------
(* Lookups.                                                                *)

\* The youngest of some entries exists.
LEMMA YoungestIn ==
    ASSUME NEW S \in SUBSET Entries, S # {}, NEW a \in Nat, \A e \in S : e.age <= a
    PROVE  Youngest(S) \in S /\ \A f \in S : f.age <= Youngest(S).age
<1> DEFINE R == {p \in Nat \X Nat : p[1] < p[2]}
           D == {a - e.age : e \in S}
<1>1. OpToRel(<, Nat) = R
  BY Zenon DEF OpToRel
<1>2. IsWellFoundedOn(R, Nat)
  BY Zenon, <1>1, NatLessThanWellFounded
<1>3. \A e \in S : e.age \in Nat
  BY DEF Entries
<1>4. D \in SUBSET Nat /\ D # {}
  BY <1>3
<1>5. PICK x \in D : \A y \in D : ~ (<<y, x>> \in R)
  <2> HIDE DEF R, D
  <2>1. QED
    BY <1>2, <1>4, WFMin
<1>6. PICK e \in S : x = a - e.age
  OBVIOUS
<1>7. \A f \in S : f.age <= e.age
  <2>1. TAKE f \in S
  <2>2. a - f.age \in D /\ a - f.age \in Nat /\ x \in Nat
    BY <1>4
  <2>3. a - f.age < x => <<a - f.age, x>> \in R
    BY <2>2
  <2>4. ~ (a - f.age < x)
    BY <1>5, <2>2, <2>3
  <2>5. QED
    BY <1>3, <1>6, <2>2, <2>4
<1>8. QED
  BY <1>7 DEF Youngest

\* eppic_getst finds an entry of that name and kind if there is one.
LEMMA GetstFinds ==
    ASSUME TypesAssumption, NEW c, CacheOK(c), NEW n, NEW kind
    PROVE  LET S == Named(c.st, n, kind)
               e == eppic_getst(c.st, n, kind)
           IN  \/ S = {} /\ e = None
               \/ e \in S /\ e # None /\ \A f \in S : f.age <= e.age
<1> DEFINE S == Named(c.st, n, kind)
<1>1. S \in SUBSET Entries /\ c.age \in Nat /\ \A e \in S : e.age <= c.age
  BY DEF CacheOK, Caches, GoodEntry, Named
<1>2. CASE S = {}
  BY <1>2 DEF eppic_getst, Youngest
<1>3. CASE S # {}
  <2>1. Youngest(S) \in S /\ \A f \in S : f.age <= Youngest(S).age
    BY <1>1, <1>3, YoungestIn
  <2>2. None \notin S
    BY <1>1 DEF TypesAssumption
  <2>3. QED
    BY <2>1, <2>2 DEF eppic_getst
<1>4. QED
  BY <1>2, <1>3

LEMMA IndexFinds ==
    ASSUME TypesAssumption, NEW c, CacheOK(c), NEW idx
    PROVE  LET S == Indexed(c.st, idx)
               e == eppic_getstbyindex(c.st, idx)
           IN  \/ S = {} /\ e = None
               \/ e \in S /\ e # None
<1> DEFINE S == Indexed(c.st, idx)
<1>1. S \in SUBSET Entries /\ c.age \in Nat /\ \A e \in S : e.age <= c.age
  BY DEF CacheOK, Caches, GoodEntry, Indexed
<1>2. CASE S = {}
  BY <1>2 DEF eppic_getstbyindex, Youngest
<1>3. CASE S # {}
  <2>1. Youngest(S) \in S
    BY <1>1, <1>3, YoungestIn
  <2>2. None \notin S
    BY <1>1 DEF TypesAssumption
  <2>3. QED
    BY <2>1, <2>2 DEF eppic_getstbyindex
<1>4. QED
  BY <1>2, <1>3

-----------------------------------------------------------------------------
(* What is entered keeps the cache in order.                               *)

\* An entry of the image, or a script's struct, changes no typedef of a script.
LEMMA EntryAdded ==
    ASSUME TypesAssumption, NEW c, CacheOK(c), NEW e \in Entries,
           e.age = c.age + 1, ~LocalTypedef(e),
           e.kind = "typedef" => e.rtype \in Types /\ Named(c.st, e.name, "typedef") = {},
           e.kind = "struct" =>
                /\ ~IsLocal(e) => e.idx \in Structs /\ e.name = e.idx
                /\ Indexed(c.st, e.idx) = {},
           NEW d \in Caches, d.st = c.st \cup {e}, d.age = c.age + 1, c.next <= d.next,
           IsLocal(e) => e.idx < d.next
    PROVE  Keeps(c, d)
<1>0. c \in Caches /\ c.age \in Nat /\ c.st \subseteq Entries /\ c.next \in Int /\ d.next \in Int
  BY DEF CacheOK, Caches
<1>1. c.age <= d.age /\ \A f \in c.st : IsLocal(f) => f.idx \in Int
  BY <1>0 DEF IsLocal
<1>2. \A f \in d.st : GoodEntry(d, f)
  <2>1. \A f \in c.st : GoodEntry(d, f)
    BY <1>0, <1>1 DEF CacheOK, GoodEntry, Entries
  <2>2. GoodEntry(d, e)
    BY <1>0, <1>1 DEF GoodEntry, LocalTypedef, Entries
  <2>3. QED
    BY <1>1, <2>1, <2>2
<1>3. \A f, g \in d.st : SameIndex(f, g) => f = g
  <2>1. \A f \in c.st : ~SameIndex(e, f) /\ ~SameIndex(f, e)
    BY DEF SameIndex, Indexed
  <2>2. QED
    BY <1>1, <2>1 DEF CacheOK
<1>4. \A f, g \in d.st : Hides(f, g)
  <2>1. \A f \in c.st : Hides(f, e)
    BY DEF Hides, LocalTypedef, Named
  <2>2. \A f \in d.st : Hides(e, f)
    BY DEF Hides
  <2>3. QED
    BY <1>1, <2>1, <2>2 DEF CacheOK
<1>5. Locals(d) = Locals(c)
  BY <1>1 DEF Locals
<1>6. QED
  BY <1>1, <1>2, <1>3, <1>4, <1>5 DEF Keeps, CacheOK

\* The entry of a struct changes its members, and only those.
LEMMA EntryReplaced ==
    ASSUME NEW c, CacheOK(c), NEW e \in c.st, e.kind = "struct",
           NEW f \in Entries, f.kind = "struct", f.name = e.name, f.idx = e.idx,
           f.age = e.age,
           NEW d \in Caches, d.st = (c.st \ {e}) \cup {f}, d.age = c.age, d.next = c.next
    PROVE  Keeps(c, d) /\ Tdefs(d) = Tdefs(c)
<1>1. \A g \in d.st : GoodEntry(d, g)
  BY DEF CacheOK, GoodEntry, IsLocal
<1>2. \A g, h \in d.st : SameIndex(g, h) => g = h
  <2>1. \A g \in c.st : (SameIndex(f, g) \/ SameIndex(g, f)) => g = e
    BY DEF CacheOK, SameIndex
  <2>2. QED
    BY <2>1 DEF CacheOK
<1>3. \A g, h \in d.st : Hides(g, h)
  <2>1. \A g : Hides(g, f) /\ Hides(f, g)
    BY DEF Hides, LocalTypedef
  <2>2. QED
    BY <2>1 DEF CacheOK
<1>4. Locals(d) = Locals(c)
  BY DEF Locals, LocalTypedef
<1>5. c.age <= d.age
  BY DEF Caches
<1>6. Tdefs(d) = Tdefs(c)
  BY DEF Tdefs
<1>7. QED
  BY <1>1, <1>2, <1>3, <1>4, <1>5, <1>6 DEF Keeps, CacheOK

LEMMA KeepsTransitive ==
    ASSUME NEW b, NEW c, NEW d, CacheOK(b), Keeps(b, c), Keeps(c, d)
    PROVE  Keeps(b, d)
<1>1. b.age \in Nat /\ c.age \in Nat /\ d.age \in Nat
  BY DEF Keeps, CacheOK, Caches
<1>2. QED
  BY <1>1 DEF Keeps

LEMMA KeepsItself == ASSUME NEW c, CacheOK(c) PROVE Keeps(c, c)
BY DEF Keeps, CacheOK, Caches

\* eppic_fillst enters only structs that no index of the cache leads to.
LEMMA FillKeeps ==
    ASSUME TypesAssumption, NEW c, CacheOK(c), NEW e \in c.st, e.kind = "struct"
    PROVE  LET d == eppic_fillst(c, e)
           IN  Keeps(c, d) /\ Tdefs(d) = Tdefs(c) /\ d.next = c.next
<1>1. CASE IsLocal(e)
  BY <1>1, KeepsItself DEF eppic_fillst
<1>2. CASE ~IsLocal(e)
  <2> DEFINE x == [e EXCEPT !.stm = e.idx, !.all = TRUE]
             b == [c EXCEPT !.st = (c.st \ {e}) \cup {x}]
             M == eppic_memstinfo(c, e.idx)
             d == eppic_fillst(c, e)
  <2>1. e \in Entries /\ c \in Caches /\ GoodEntry(c, e)
    BY DEF CacheOK, Caches
  <2>2. e.idx \in Structs /\ e.idx \in Names
    BY <1>2, <2>1 DEF GoodEntry, TypesAssumption
  <2>3. /\ x \in Entries /\ x.kind = e.kind /\ x.name = e.name /\ x.idx = e.idx
        /\ x.age = e.age
    <3>1. e.idx \in Names \cup Nat \cup {None}
      BY <2>2
    <3>2. QED
      BY <2>1, <3>1 DEF Entries
  <2>4. /\ b \in Caches /\ b.st = (c.st \ {e}) \cup {x}
        /\ b.age = c.age /\ b.next = c.next
    <3> DEFINE S == (c.st \ {e}) \cup {x}
    <3>1. S \in SUBSET Entries
      BY <2>1, <2>3 DEF Caches
    <3>2. b = [c EXCEPT !.st = S]
      OBVIOUS
    <3>3. QED
      <4> HIDE DEF x, S, b
      <4>1. b \in Caches /\ b.st = S /\ b.age = c.age /\ b.next = c.next
        BY <2>1, <3>1, <3>2 DEF Caches
      <4>2. QED
        BY <4>1 DEF S
  <2>a. Keeps(c, b) /\ Tdefs(b) = Tdefs(c)
    <3> HIDE DEF x, b
    <3>1. QED
      BY <2>3, <2>4, EntryReplaced
  <2>5. ASSUME NEW s \in M
        PROVE  /\ s \in Entries /\ s.kind = "struct" /\ s.idx \in Structs /\ s.name = s.idx
               /\ s.age = c.age + 1 /\ ~IsLocal(s)
               /\ \A f \in c.st : f.kind = "struct" => f.idx # s.idx
               /\ \A r \in M : SameIndex(r, s) => r = s
    <3>1. PICK t \in Mentions[e.idx] :
            s = Entry("struct", t, t, FALSE, None, None, c.age + 1) /\ Indexed(c.st, t) = {}
      BY <2>5 DEF eppic_memstinfo
    <3>2. t \in Structs /\ t \in Names /\ t \notin Nat
      BY <2>2, <3>1 DEF TypesAssumption
    <3>3. s \in Entries
      BY <2>1, <3>1, <3>2 DEF Entry, Entries, Kinds, Indexes, Caches
    <3>4. /\ s.kind = "struct" /\ s.idx = t /\ s.name = t /\ s.age = c.age + 1
          /\ ~IsLocal(s)
      BY <3>1, <3>2 DEF Entry, IsLocal
    <3>5. \A f \in c.st : f.kind = "struct" => f.idx # s.idx
      BY <3>1, <3>4 DEF Indexed
    <3>6. \A r \in M : SameIndex(r, s) => r = s
      BY <3>1 DEF eppic_memstinfo, SameIndex, Entry
    <3>7. QED
      BY <3>2, <3>3, <3>4, <3>5, <3>6
  <2>6. /\ d \in Caches /\ d.st = b.st \cup M /\ d.age = c.age + 1 /\ d.next = c.next
    <3>1. d = [c EXCEPT !.st = b.st \cup M, !.age = c.age + 1]
      BY <1>2, <2>4 DEF eppic_fillst
    <3>2. M \subseteq Entries /\ b.st \subseteq Entries
      BY <2>4, <2>5 DEF Caches
    <3>3. QED
      <4> HIDE DEF d, M, b
      <4> DEFINE S == b.st \cup M
      <4>1. S \in SUBSET Entries /\ c.age + 1 \in Nat
        BY <2>1, <3>2 DEF Caches
      <4>2. d = [c EXCEPT !.st = S, !.age = c.age + 1]
        BY <3>1
      <4>3. QED
        <5> HIDE DEF S
        <5>1. d \in Caches /\ d.st = S /\ d.age = c.age + 1 /\ d.next = c.next
          BY <2>1, <4>1, <4>2 DEF Caches
        <5>2. QED
          BY <5>1 DEF S
  <2>7. \A f \in d.st : GoodEntry(d, f)
    <3>1. \A f \in b.st : GoodEntry(d, f)
      BY <2>1, <2>a, <2>3, <2>4, <2>6 DEF Keeps, CacheOK, GoodEntry, Entries, Caches
    <3>2. \A f \in M : GoodEntry(d, f)
      BY <2>1, <2>5, <2>6 DEF GoodEntry, Caches
    <3>3. QED
      BY <2>6, <3>1, <3>2
  <2>8. \A f, g \in d.st : SameIndex(f, g) => f = g
    <3>1. \A f \in b.st : \E g \in c.st : g.kind = f.kind /\ g.idx = f.idx
      BY <2>1, <2>4 DEF Entries
    <3>2. \A f \in b.st, s \in M : ~SameIndex(f, s) /\ ~SameIndex(s, f)
      <4> HIDE DEF M, b
      <4>1. QED
        BY <2>5, <3>1 DEF SameIndex
    <3>3. QED
      BY <2>a, <2>3, <2>5, <2>6, <3>2 DEF Keeps, CacheOK
  <2>9. \A f, g \in d.st : Hides(f, g)
    <3>1. \A s \in M : \A f : Hides(f, s) /\ Hides(s, f)
      BY <2>5 DEF Hides, LocalTypedef
    <3>2. QED
      BY <2>a, <2>3, <2>6, <3>1 DEF Keeps, CacheOK
  <2>10. Locals(d) = Locals(b)
    BY <2>5, <2>6 DEF Locals, LocalTypedef
  <2>b. Tdefs(d) = Tdefs(b)
    BY <2>5, <2>6 DEF Tdefs
  <2>11. QED
    BY <2>b, <2>1, <2>a, <2>3, <2>6, <2>7, <2>8, <2>9, <2>10 DEF Keeps, CacheOK, Caches
<1>3. QED
  BY <1>1, <1>2

-----------------------------------------------------------------------------
(* The lookups and declarations of the parser.                             *)

Adds(c, d, e) ==
    /\ d \in Caches /\ d.age = c.age + 1 /\ d.next = c.next /\ d.neg = c.neg
    /\ d.st = c.st \cup {e}

LEMMA AddstIs ==
    ASSUME NEW c \in Caches, NEW kind, NEW n, NEW idx, NEW all, NEW rtype,
           Entry(kind, n, idx, all, None, rtype, c.age + 1) \in Entries
    PROVE  Adds(c, eppic_addst(c, kind, n, idx, all, rtype),
                Entry(kind, n, idx, all, None, rtype, c.age + 1))
<1> DEFINE S == c.st \cup {Entry(kind, n, idx, all, None, rtype, c.age + 1)}
           d == eppic_addst(c, kind, n, idx, all, rtype)
<1>1. d = [c EXCEPT !.st = S, !.age = c.age + 1]
  BY DEF eppic_addst
<1>2. S \in SUBSET Entries /\ c.age + 1 \in Nat
  BY DEF Caches
<1> HIDE DEF S, d
<1>3. d \in Caches /\ d.st = S /\ d.age = c.age + 1 /\ d.next = c.next /\ d.neg = c.neg
  BY <1>1, <1>2 DEF Caches
<1>4. QED
  BY <1>3 DEF S, d, Adds

\* A new index leads to no struct yet.
LEMMA NewPartialKeeps ==
    ASSUME TypesAssumption, NEW c, CacheOK(c), NEW n \in Names, c.next < MaxIdx
    PROVE  LET d == NewPartial(c, n)
           IN  Keeps(c, d) /\ Tdefs(d) = Tdefs(c)
<1> DEFINE e == Entry("struct", n, c.next, FALSE, None, None, c.age + 1)
           a == eppic_addst(c, "struct", n, c.next, FALSE, None)
           d == NewPartial(c, n)
<1>1. /\ c \in Caches /\ c.age \in Nat /\ c.age + 1 \in Nat /\ c.next \in 0..MaxIdx
      /\ MaxIdx \in Nat
  BY DEF CacheOK, Caches, TypesAssumption
<1>2. c.next \in Nat /\ c.next \in Indexes /\ c.next + 1 \in 0..MaxIdx
  BY <1>1 DEF Indexes
<1>3. /\ e \in Entries /\ e.kind = "struct" /\ e.name = n /\ e.idx = c.next
      /\ e.age = c.age + 1
  BY <1>1, <1>2 DEF Kinds, Entry, Entries
<1>4. Adds(c, a, e)
  BY Zenon, <1>1, <1>3, AddstIs
<1>5. d = [a EXCEPT !.next = c.next + 1]
  BY <1>4 DEF NewPartial, Adds
<1> HIDE DEF e, a, d
<1>6. d \in Caches /\ d.st = c.st \cup {e} /\ d.age = c.age + 1 /\ d.next = c.next + 1
  BY <1>2, <1>4, <1>5 DEF Caches, Adds
<1>7. IsLocal(e) /\ ~LocalTypedef(e)
  BY <1>2, <1>3 DEF IsLocal, LocalTypedef
<1>8. Indexed(c.st, e.idx) = {}
  BY <1>1, <1>2, <1>3 DEF CacheOK, GoodEntry, Indexed, IsLocal
<1>9. Keeps(c, d)
  <2>1. e.idx < d.next /\ c.next <= d.next
    BY <1>1, <1>3, <1>6
  <2>2. QED
    BY <1>3, <1>6, <1>7, <1>8, <2>1, EntryAdded
<1>10. Tdefs(d) = Tdefs(c)
  BY <1>3, <1>6 DEF Tdefs
<1>11. QED
  BY <1>9, <1>10 DEF d

\* A struct of the image that no entry is named after is entered once.
LEMMA FromImageKeeps ==
    ASSUME TypesAssumption, NEW c, CacheOK(c), NEW n \in Structs,
           Named(c.st, n, "struct") = {}
    PROVE  LET d == StructFromImage(c, n)
           IN  Keeps(c, d) /\ Tdefs(d) = Tdefs(c) /\ d.next = c.next
<1> DEFINE e == Entry("struct", n, n, TRUE, None, None, c.age + 1)
           a == eppic_addst(c, "struct", n, n, TRUE, None)
           x == eppic_getst(a.st, n, "struct")
<1>1. c \in Caches /\ c.age \in Nat /\ c.age + 1 \in Nat /\ c.next \in Nat
  BY DEF CacheOK, Caches
<1>2. n \in Names /\ n \notin Nat /\ n \in Indexes
  BY DEF TypesAssumption, Indexes
<1>3. /\ e \in Entries /\ e.kind = "struct" /\ e.name = n /\ e.idx = n
      /\ e.age = c.age + 1
  BY <1>1, <1>2 DEF Kinds, Entry, Entries
<1>4. Adds(c, a, e)
  BY Zenon, <1>1, <1>3, AddstIs
<1>5. StructFromImage(c, n) = eppic_fillst(a, x)
  BY DEF StructFromImage
<1> HIDE DEF e, a
<1>6. Indexed(c.st, e.idx) = {}
  BY <1>2, <1>3 DEF CacheOK, GoodEntry, Indexed, Named, IsLocal
<1>7. Keeps(c, a) /\ Tdefs(a) = Tdefs(c)
  <2>1. ~IsLocal(e) /\ ~LocalTypedef(e) /\ c.next <= a.next
    BY <1>1, <1>2, <1>3, <1>4 DEF Adds, IsLocal, LocalTypedef
  <2>2. Keeps(c, a)
    BY <1>3, <1>4, <1>6, <2>1, EntryAdded DEF Adds
  <2>3. QED
    BY <1>3, <1>4, <2>2 DEF Adds, Tdefs
<1>8. x \in a.st /\ x.kind = "struct"
  <2>1. e \in Named(a.st, n, "struct") /\ CacheOK(a)
    BY <1>3, <1>4, <1>7 DEF Adds, Named, Keeps
  <2>2. x \in Named(a.st, n, "struct")
    BY <2>1, GetstFinds
  <2>3. QED
    BY <2>2 DEF Named
<1> HIDE DEF x
<1>9. LET d == eppic_fillst(a, x) IN Keeps(a, d) /\ Tdefs(d) = Tdefs(a) /\ d.next = a.next
  BY <1>7, <1>8, FillKeeps DEF Keeps
<1>10. QED
  BY <1>4, <1>5, <1>7, <1>9, KeepsTransitive DEF Adds

\* eppic_getctype of a struct changes no typedef.
LEMMA GetStructKeeps ==
    ASSUME TypesAssumption, NEW c, CacheOK(c), NEW n \in Names, NEW silent \in BOOLEAN,
           ~silent => c.next < MaxIdx
    PROVE  LET r == GetStruct(c, n, silent)
           IN  /\ Keeps(c, r.c) /\ Tdefs(r.c) = Tdefs(c)
               /\ r.t \in Types \cup {None}
               /\ ~silent => r.t \in Types
               /\ silent => r.c.next = c.next
<1> DEFINE e == eppic_getst(c.st, n, "struct")
           r == GetStruct(c, n, silent)
<1>0. c \in Caches /\ c.next \in Nat /\ Keeps(c, c)
  BY KeepsItself DEF CacheOK, Caches
<1>1. \/ Named(c.st, n, "struct") = {} /\ e = None
      \/ e \in Named(c.st, n, "struct") /\ e # None
  BY GetstFinds
<1>2. CASE e # None
  <2>1. e \in Entries
    BY <1>0, <1>1, <1>2 DEF Named, Caches
  <2>2. r = [c |-> c, t |-> Type(e.idx, 0)]
    BY <1>2 DEF GetStruct
  <2>3. Type(e.idx, 0) \in Types
    BY <2>1 DEF Type, Types, Entries
  <2>4. QED
    BY <1>0, <2>2, <2>3
<1>3. CASE e = None /\ silent /\ n \in c.neg
  BY <1>0, <1>3 DEF GetStruct
<1>4. CASE e = None /\ ~(silent /\ n \in c.neg) /\ n \in Structs
  <2>1. r = [c |-> StructFromImage(c, n), t |-> Type(n, 0)]
    BY <1>4 DEF GetStruct, apigetctype
  <2>2. Type(n, 0) \in Types
    BY DEF Type, Types, Indexes
  <2>3. LET d == StructFromImage(c, n)
        IN  Keeps(c, d) /\ Tdefs(d) = Tdefs(c) /\ d.next = c.next
    BY <1>1, <1>4, FromImageKeeps
  <2>4. QED
    BY <2>1, <2>2, <2>3
<1>5. CASE e = None /\ ~(silent /\ n \in c.neg) /\ n \notin Structs /\ silent
  BY <1>0, <1>5 DEF GetStruct, apigetctype
<1>6. CASE e = None /\ n \notin Structs /\ ~silent
  <2>1. r = [c |-> NewPartial(c, n), t |-> Type(c.next, 0)]
    BY <1>6 DEF GetStruct, apigetctype, eppic_partialctype
  <2>2. c.next \in Indexes
    BY <1>0, <1>6 DEF Indexes, TypesAssumption
  <2>3. Type(c.next, 0) \in Types
    BY <2>2 DEF Type, Types
  <2>4. Keeps(c, NewPartial(c, n)) /\ Tdefs(NewPartial(c, n)) = Tdefs(c)
    BY <1>6, NewPartialKeeps
  <2>5. QED
    BY <1>6, <2>1, <2>3, <2>4
<1>7. QED
  BY <1>2, <1>3, <1>4, <1>5, <1>6

LEMMA NegKeeps ==
    ASSUME NEW c, CacheOK(c), NEW n \in Names
    PROVE  LET d == [c EXCEPT !.neg = @ \cup {n}]
           IN  Keeps(c, d) /\ d.next = c.next
<1> DEFINE S == c.neg \cup {n}
           d == [c EXCEPT !.neg = S]
<1>1. c \in Caches /\ S \in SUBSET Names
  BY DEF CacheOK, Caches
<1>2. d \in Caches /\ d.st = c.st /\ d.age = c.age /\ d.next = c.next
  <2> HIDE DEF S
  <2>1. QED
    BY <1>1 DEF Caches
<1> HIDE DEF d
<1>3. c.age <= d.age
  BY <1>1, <1>2 DEF Caches
<1>4. QED
  BY <1>2, <1>3 DEF Keeps, CacheOK, GoodEntry, Locals, d

\* eppic_getctype of a typedef enters at most one of the image.
LEMMA GetTypedefKeeps ==
    ASSUME TypesAssumption, NEW c, CacheOK(c), NEW n \in Names
    PROVE  LET r == GetTypedef(c, n)
           IN  Keeps(c, r.c) /\ r.c.next = c.next /\ (r.t = None \/ r.t \in Types)
<1> DEFINE e == eppic_getst(c.st, n, "typedef")
           r == GetTypedef(c, n)
<1>0. c \in Caches /\ Keeps(c, c)
  BY KeepsItself DEF CacheOK
<1>1. \/ Named(c.st, n, "typedef") = {} /\ e = None
      \/ e \in Named(c.st, n, "typedef") /\ e # None
  BY GetstFinds
<1>2. CASE e # None
  <2>1. e.rtype \in Types
    BY <1>1, <1>2 DEF CacheOK, GoodEntry, Named
  <2>2. r = [c |-> c, t |-> e.rtype]
    BY <1>2 DEF GetTypedef
  <2>3. QED
    BY <1>0, <2>1, <2>2
<1>3. CASE e = None /\ n \in c.neg
  BY <1>0, <1>3 DEF GetTypedef
<1>4. CASE e = None /\ n \notin c.neg /\ ~apigetctype("typedef", n)
  BY <1>4, NegKeeps DEF GetTypedef
<1>5. CASE e = None /\ n \notin c.neg /\ apigetctype("typedef", n)
  <2> DEFINE s == GetStruct(c, Typedefs[n].tag, TRUE)
             t == IF s.t = None THEN Type(Void, 0) ELSE s.t
             f == Entry("typedef", n, n, TRUE, None, t, s.c.age + 1)
             d == eppic_addst(s.c, "typedef", n, n, TRUE, t)
  <2>1. r = [c |-> d, t |-> t]
    BY <1>5 DEF GetTypedef
  <2>2. Typedefs[n].tag \in Names
    BY <1>5 DEF apigetctype, TypesAssumption
  <2>a. TRUE \in BOOLEAN
    OBVIOUS
  <2>b. Keeps(c, s.c)
    BY Zenon, <2>2, <2>a, GetStructKeeps
  <2>c. Tdefs(s.c) = Tdefs(c)
    BY Zenon, <2>2, <2>a, GetStructKeeps
  <2>d. s.c.next = c.next
    BY Zenon, <2>2, <2>a, GetStructKeeps
  <2>3. s.t \in Types \cup {None}
    BY Zenon, <2>2, <2>a, GetStructKeeps
  <2> HIDE DEF s
  <2>4. t \in Types
    BY <2>3 DEF Type, Types
  <2> HIDE DEF t
  <2>5. CacheOK(s.c) /\ s.c \in Caches /\ s.c.age \in Nat /\ s.c.next \in Nat
    BY <2>b DEF Keeps, CacheOK, Caches
  <2>6. n \in Indexes /\ n \notin Nat
    BY DEF TypesAssumption, Indexes
  <2>7. /\ f \in Entries /\ f.kind = "typedef" /\ f.name = n /\ f.idx = n
        /\ f.rtype = t /\ f.age = s.c.age + 1
    BY <2>4, <2>5, <2>6 DEF Entry, Entries, Kinds
  <2>8. Adds(s.c, d, f)
    BY Zenon, <2>5, <2>7, AddstIs
  <2> HIDE DEF f, d
  <2>9. ~IsLocal(f) /\ ~LocalTypedef(f)
    BY <2>6, <2>7 DEF IsLocal, LocalTypedef
  <2>10. Named(s.c.st, n, "typedef") = {}
    BY <1>1, <1>5, <2>c DEF Named, Tdefs
  <2>11. /\ d \in Caches /\ d.st = s.c.st \cup {f} /\ d.age = s.c.age + 1
         /\ s.c.next <= d.next
    BY <2>5, <2>8 DEF Adds
  <2>12. Keeps(s.c, d)
    BY <2>4, <2>5, <2>7, <2>9, <2>10, <2>11, EntryAdded
  <2>13. QED
    BY <2>1, <2>b, <2>d, <2>4, <2>8, <2>12, KeepsTransitive DEF Adds
<1>6. QED
  BY <1>2, <1>3, <1>4, <1>5

LEMMA StartKeeps ==
    ASSUME TypesAssumption, NEW c, CacheOK(c), NEW n \in Names, c.next < MaxIdx
    PROVE  Keeps(c, eppic_startctype(c, n))
<1>1. Keeps(c, c)
  BY KeepsItself
<1>2. Keeps(c, NewPartial(c, n))
  BY NewPartialKeeps
<1>3. QED
  BY <1>1, <1>2 DEF eppic_startctype, eppic_partialctype

LEMMA DeclaredKeeps ==
    ASSUME TypesAssumption, NEW c, CacheOK(c), NEW e \in c.st, e.kind = "struct",
           NEW m \in Nat \cup {None}
    PROVE  Keeps(c, Declared(c, e, m))
<1> DEFINE f == [e EXCEPT !.stm = m, !.all = TRUE]
           S == (c.st \ {e}) \cup {f}
           d == [c EXCEPT !.st = S]
<1>1. c \in Caches /\ e \in Entries
  BY DEF CacheOK, Caches
<1>2. /\ f \in Entries /\ f.kind = "struct" /\ f.name = e.name /\ f.idx = e.idx
      /\ f.age = e.age
  BY <1>1 DEF Entries
<1>3. Declared(c, e, m) = d
  BY DEF Declared
<1> HIDE DEF f
<1>4. S \in SUBSET Entries
  BY <1>1, <1>2 DEF Caches
<1>5. d \in Caches /\ d.st = S /\ d.age = c.age /\ d.next = c.next
  <2> HIDE DEF S
  <2>1. QED
    BY <1>1, <1>4 DEF Caches
<1> HIDE DEF d
<1>6. Keeps(c, d)
  BY <1>2, <1>5, EntryReplaced
<1>7. QED
  BY <1>3, <1>6

LEMMA GetmKeeps ==
    ASSUME TypesAssumption, NEW c, CacheOK(c), NEW t
    PROVE  Keeps(c, eppic_getm(c, t))
<1> DEFINE e == eppic_getstbyindex(c.st, t.idx)
<1>1. Keeps(c, c)
  BY KeepsItself
<1>2. CASE e = None \/ e.stm # None
  BY <1>1, <1>2 DEF eppic_getm
<1>3. CASE e # None /\ e.stm = None
  <2>1. e \in c.st /\ e.kind = "struct"
    BY <1>3, IndexFinds DEF Indexed
  <2> HIDE DEF e
  <2>2. Keeps(c, eppic_fillst(c, e))
    BY <2>1, FillKeeps
  <2>3. QED
    BY <1>3, <2>2 DEF eppic_getm, e
<1>4. QED
  BY <1>2, <1>3

\* A typedef of the script comes, younger than every entry.
LEMMA TdefDeclared ==
    ASSUME TypesAssumption, NEW c, CacheOK(c), NEW n \in Names, NEW t \in Types,
           c.next < MaxIdx
    PROVE  LET d == eppic_tdef_decl(c, n, t)
               e == Entry("typedef", n, c.next, FALSE, None, t, c.age + 1)
           IN  /\ CacheOK(d) /\ d.age = c.age + 1
               /\ Locals(d) = Locals(c) \cup {e} /\ e.name = n /\ e.age = c.age + 1
<1> DEFINE e == Entry("typedef", n, c.next, FALSE, None, t, c.age + 1)
           a == eppic_addst(c, "typedef", n, c.next, FALSE, t)
           d == eppic_tdef_decl(c, n, t)
<1>1. /\ c \in Caches /\ c.age \in Nat /\ c.age + 1 \in Nat /\ c.next \in 0..MaxIdx
      /\ MaxIdx \in Nat /\ c.st \subseteq Entries
  BY DEF CacheOK, Caches, TypesAssumption
<1>2. c.next \in Nat /\ c.next \in Indexes /\ c.next + 1 \in 0..MaxIdx
  BY <1>1 DEF Indexes
<1>3. /\ e \in Entries /\ e.kind = "typedef" /\ e.name = n /\ e.idx = c.next
      /\ e.rtype = t /\ e.age = c.age + 1
  BY <1>1, <1>2 DEF Kinds, Entry, Entries
<1>4. Adds(c, a, e)
  BY Zenon, <1>1, <1>3, AddstIs
<1>5. d = [a EXCEPT !.next = c.next + 1]
  BY <1>4 DEF eppic_tdef_decl, Adds
<1> HIDE DEF e, a, d
<1>6. d \in Caches /\ d.st = c.st \cup {e} /\ d.age = c.age + 1 /\ d.next = c.next + 1
  BY <1>2, <1>4, <1>5 DEF Caches, Adds
<1>7. LocalTypedef(e) /\ IsLocal(e)
  BY <1>2, <1>3 DEF IsLocal, LocalTypedef
<1>8. \A f \in c.st : f.age \in Nat /\ f.age <= c.age
  BY <1>1 DEF CacheOK, GoodEntry, Entries
<1>9. \A f \in d.st : GoodEntry(d, f)
  <2>1. GoodEntry(d, e)
    BY <1>1, <1>2, <1>3, <1>6, <1>7 DEF GoodEntry
  <2>2. \A f \in c.st : IsLocal(f) => f.idx \in Int
    BY DEF IsLocal
  <2>3. \A f \in c.st : GoodEntry(d, f)
    BY <1>1, <1>2, <1>6, <1>8, <2>2 DEF CacheOK, GoodEntry
  <2>4. QED
    BY <1>6, <2>1, <2>3
<1>10. \A f, g \in d.st : SameIndex(f, g) => f = g
  BY <1>3, <1>6 DEF CacheOK, SameIndex
<1>11. \A f, g \in d.st : Hides(f, g)
  <2>1. \A f \in d.st : Hides(f, e)
    BY <1>7 DEF Hides
  <2>2. \A f \in c.st : Hides(e, f)
    BY <1>1, <1>3, <1>8 DEF Hides
  <2>3. QED
    BY <1>6, <2>1, <2>2 DEF CacheOK
<1>12. Locals(d) = Locals(c) \cup {e}
  BY <1>6, <1>7 DEF Locals
<1>13. CacheOK(d)
  BY <1>6, <1>9, <1>10, <1>11 DEF CacheOK
<1>14. QED
  BY <1>3, <1>6, <1>12, <1>13 DEF d, e

\* The flush takes the typedefs of the script that are younger than its tag.
LEMMA FlushIs ==
    ASSUME NEW c, CacheOK(c), NEW since
    PROVE  LET d == eppic_flushtdefs(c, since)
           IN  /\ CacheOK(d) /\ d.age = c.age
               /\ Locals(d) = {e \in Locals(c) : ~(e.age > since)}
<1> DEFINE S == {e \in c.st : ~(LocalTypedef(e) /\ e.age > since)}
           d == eppic_flushtdefs(c, since)
<1>1. c \in Caches /\ S \in SUBSET Entries
  BY DEF CacheOK, Caches
<1>2. d = [c EXCEPT !.st = S]
  BY DEF eppic_flushtdefs
<1>3. d \in Caches /\ d.st = S /\ d.age = c.age /\ d.next = c.next
  <2> HIDE DEF S, d
  <2>1. QED
    BY <1>1, <1>2 DEF Caches
<1> HIDE DEF d
<1>4. CacheOK(d)
  BY <1>3 DEF CacheOK, GoodEntry
<1>5. Locals(d) = {e \in Locals(c) : ~(e.age > since)}
  BY <1>3 DEF Locals
<1>6. QED
  BY <1>3, <1>4, <1>5 DEF d

-----------------------------------------------------------------------------
(* The invariant.                                                          *)

LEMMA InitIInv == ASSUME TypesAssumption, Init PROVE IInv
<1>1. Cache = [st |-> {}, age |-> 0, neg |-> {}, next |-> 0]
  BY DEF Init, Cache
<1>2. CacheOK(Cache)
  BY <1>1 DEF CacheOK, Caches, TypesAssumption
<1>3. Locals(Cache) = {}
  BY <1>1 DEF Locals
<1>4. ScopeOK
  BY <1>3 DEF Init, NoScope, ScopeOK
<1>5. Rest
  <2>1. << >> \in Seq(Names) /\ Len(<< >>) = 0
    OBVIOUS
  <2>2. 0 \in 0..MaxLoads /\ 0 <= MaxOpen
    BY DEF TypesAssumption
  <2>3. loading \in BOOLEAN
    BY Zenon DEF Init
  <2>4. tag \in 0..added /\ nloads \in 0..MaxLoads /\ ndecl \in Nat /\ got = None
    BY <2>2 DEF Init
  <2>5. open \in Seq(Names) /\ Len(open) <= MaxOpen
    BY <2>1, <2>2 DEF Init
  <2>6. QED
    BY <2>3, <2>4, <2>5 DEF Rest
<1>6. QED
  BY <1>2, <1>4, <1>5 DEF IInv

\* A step that sets the cache to c.
LEMMA BecomesIs ==
    ASSUME NEW c \in Caches, Becomes(c)
    PROVE  Cache' = c /\ added' = c.age
BY DEF Becomes, Cache, Caches

\* A step that keeps the typedefs of the file keeps the scope in order.
LEMMA KeepsStep ==
    ASSUME IInv, NEW c, Becomes(c), Keeps(Cache, c), UNCHANGED <<tag, loading>>,
           scope' = [tags |-> scope'.tags, tdefs |-> scope.tdefs],
           scope'.tags \in [Names -> Nat \cup {None}]
    PROVE  CacheOK(Cache)' /\ ScopeOK' /\ (tag \in 0..added)'
<1>1. c \in Caches /\ CacheOK(c)
  BY DEF Keeps, CacheOK
<1>2. Cache' = c /\ added' = c.age
  BY <1>1, BecomesIs
<1>3. CacheOK(Cache')
  BY <1>1, <1>2
<1>4. Locals(Cache') = Locals(Cache)
  BY <1>2 DEF Keeps
<1>5. ScopeOK'
  <2>1. scope'.tdefs = scope.tdefs
    OBVIOUS
  <2>2. QED
    BY <1>4, <2>1 DEF IInv, ScopeOK
<1>6. (tag \in 0..added)'
  <2>1. Cache.age = added /\ added <= c.age /\ c.age \in Nat
    BY <1>1 DEF Keeps, Cache, Caches
  <2>2. added \in Nat /\ tag \in 0..added
    BY DEF IInv, Rest, CacheOK, Caches, Cache
  <2>3. QED
    BY <1>2, <2>1, <2>2
<1>7. QED
  BY <1>3, <1>5, <1>6

LEMMA BeginLoadIInv == ASSUME TypesAssumption, IInv, BeginLoad PROVE IInv'
<1>1. Cache' = Cache /\ added \in Nat
  BY DEF BeginLoad, Cache, IInv, CacheOK, Caches
<1>2. Locals(Cache) = {}
  BY DEF BeginLoad, IInv, ScopeOK
<1>3. CacheOK(Cache)'
  BY <1>1 DEF IInv
<1>4. ScopeOK'
  <2>1. Locals(Cache') = {} /\ scope' = scope
    BY <1>1, <1>2 DEF BeginLoad
  <2>2. QED
    BY <1>2, <2>1 DEF IInv, ScopeOK
<1>5. Rest'
  BY <1>1 DEF BeginLoad, IInv, Rest, TypesAssumption
<1>6. QED
  BY <1>3, <1>4, <1>5 DEF IInv

LEMMA EndLoadIInv == ASSUME TypesAssumption, IInv, EndLoad PROVE IInv'
<1> DEFINE d == eppic_flushtdefs(Cache, tag)
<1>1. CacheOK(Cache) /\ added \in Nat /\ tag \in 0..added /\ Cache.age = added
  BY DEF IInv, CacheOK, Caches, Cache, Rest
<1>2. CacheOK(d) /\ d.age = added /\ Locals(d) = {e \in Locals(Cache) : ~(e.age > tag)}
  BY <1>1, FlushIs
<1>3. Cache' = d /\ added' = added
  <2>1. Becomes(d) /\ d \in Caches
    BY <1>2 DEF EndLoad, CacheOK
  <2> HIDE DEF d
  <2>2. QED
    BY <1>2, <2>1, BecomesIs
<1>4. Locals(Cache') = {}
  <2>1. \A e \in Locals(Cache) : e.age \in Nat /\ tag < e.age
    BY <1>1 DEF IInv, ScopeOK, Locals, CacheOK, Caches, Entries
  <2> HIDE DEF d
  <2>2. QED
    BY <1>1, <1>2, <1>3, <2>1
<1>5. CacheOK(Cache')
  BY <1>2, <1>3
<1>6. ScopeOK'
  BY <1>4 DEF EndLoad, NoScope, ScopeOK
<1>7. Rest'
  <2>1. << >> \in Seq(Names) /\ Len(<< >>) = 0 /\ 0 <= MaxOpen
    BY DEF TypesAssumption
  <2>2. QED
    BY <1>1, <1>3, <2>1 DEF EndLoad, IInv, Rest
<1>8. QED
  BY <1>5, <1>6, <1>7 DEF IInv

LEMMA ReadNameIInv ==
    ASSUME TypesAssumption, IInv, NEW n \in Names, ReadName(n) PROVE IInv'
<1> DEFINE r == GetTypedef(Cache, n)
<1>1. Keeps(Cache, r.c) /\ (r.t = None \/ r.t \in Types)
  BY GetTypedefKeeps DEF IInv
<1>2. /\ Becomes(r.c) /\ UNCHANGED <<tag, loading, nloads, open, scope, ndecl>>
      /\ got' = None \/ (r.t # None /\ got'.type = r.t)
  <2>1. CASE r.t = None
    BY <2>1 DEF ReadName
  <2>2. CASE r.t # None
    <3>1. Given(r.t, MeansTypedef(n))
      BY <2>2 DEF ReadName
    <3>2. Becomes(r.c) /\ UNCHANGED <<tag, loading, nloads, open, scope, ndecl>>
      BY DEF ReadName
    <3>3. got'.type = r.t
      BY <3>1 DEF Given
    <3>4. QED
      BY <2>2, <3>2, <3>3
  <2>3. QED
    BY <2>1, <2>2
<1> HIDE DEF r
<1>3. CacheOK(Cache)' /\ ScopeOK' /\ (tag \in 0..added)'
  <2>1. scope = [tags |-> scope.tags, tdefs |-> scope.tdefs]
           /\ scope.tags \in [Names -> Nat \cup {None}]
    BY DEF IInv, ScopeOK
  <2>2. QED
    BY <1>1, <1>2, <2>1, KeepsStep
<1>4. QED
  BY <1>1, <1>2, <1>3 DEF IInv, Rest

\* A tag gets its meaning in this file.
LEMMA TagsTyped ==
    ASSUME IInv, NEW n \in Names, NEW d \in Nat \cup {None},
           scope' = [scope EXCEPT !.tags[n] = d]
    PROVE  /\ scope' = [tags |-> scope'.tags, tdefs |-> scope.tdefs]
           /\ scope'.tags \in [Names -> Nat \cup {None}]
<1>1. /\ scope = [tags |-> scope.tags, tdefs |-> scope.tdefs]
      /\ scope.tags \in [Names -> Nat \cup {None}]
  BY DEF IInv, ScopeOK
<1> DEFINE T == [scope.tags EXCEPT ![n] = d]
<1>2. scope' = [tags |-> T, tdefs |-> scope.tdefs]
  BY <1>1
<1>3. T \in [Names -> Nat \cup {None}]
  BY <1>1
<1>4. QED
  BY <1>2, <1>3

\* What MeansStruct gives a tag of the file is a declaration.
LEMMA MeansStructIs ==
    ASSUME IInv, NEW n \in Names
    PROVE  ndecl + 1 \in Nat /\ (MeansStruct(n) = ndecl + 1 => MeansStruct(n) \in Nat)
BY DEF IInv, Rest

LEMMA NewctypeIInv ==
    ASSUME TypesAssumption, IInv, NEW n \in Names, eppic_newctype(n) PROVE IInv'
<1> DEFINE c == GetTypedef(Cache, n).c
           r == GetStruct(c, n, FALSE)
           d == MeansStruct(n)
<1>1. Keeps(Cache, c) /\ CacheOK(Cache)
  BY GetTypedefKeeps DEF IInv
<1>2. CacheOK(c)
  BY <1>1 DEF Keeps
<1>3. c.next < MaxIdx
  <2>1. c.next = Cache.next /\ Cache.next = nextidx
    BY <1>1, GetTypedefKeeps DEF Cache
  <2>2. QED
    BY <2>1 DEF eppic_newctype
<1>a. FALSE \in BOOLEAN
  OBVIOUS
<1>4. Keeps(c, r.c)
  <2> HIDE DEF c
  <2>1. QED
    BY Zenon, <1>2, <1>3, <1>a, GetStructKeeps
<1>5. r.t \in Types
  <2> HIDE DEF c
  <2>1. QED
    BY Zenon, <1>2, <1>3, <1>a, GetStructKeeps
<1>6. /\ Becomes(r.c) /\ Given(r.t, Type(d, 0))
      /\ UNCHANGED <<tag, loading, nloads, open>>
      /\ \/ d = ndecl + 1 /\ ndecl' = d /\ scope' = [scope EXCEPT !.tags[n] = d]
         \/ UNCHANGED <<ndecl, scope>>
  BY Zenon DEF eppic_newctype
<1> HIDE DEF c, r, d
<1>7. Keeps(Cache, r.c)
  BY <1>1, <1>4, KeepsTransitive
<1>8. /\ scope' = [tags |-> scope'.tags, tdefs |-> scope.tdefs]
      /\ scope'.tags \in [Names -> Nat \cup {None}]
      /\ ndecl' \in Nat
  <2>1. CASE UNCHANGED <<ndecl, scope>>
    BY <2>1 DEF IInv, ScopeOK, Rest
  <2>2. CASE d = ndecl + 1 /\ ndecl' = d /\ scope' = [scope EXCEPT !.tags[n] = d]
    <3>1. d \in Nat
      BY <2>2, MeansStructIs DEF d
    <3>2. QED
      BY <2>2, <3>1, TagsTyped
  <2>3. QED
    BY <1>6, <2>1, <2>2
<1>9. CacheOK(Cache)' /\ ScopeOK' /\ (tag \in 0..added)'
  BY <1>6, <1>7, <1>8, KeepsStep
<1>10. got'.type \in Types
  BY <1>5, <1>6 DEF Given
<1>11. QED
  BY <1>6, <1>8, <1>9, <1>10 DEF IInv, Rest

LEMMA BeginStructIInv ==
    ASSUME TypesAssumption, IInv, NEW n \in Names, BeginStruct(n) PROVE IInv'
<1> DEFINE c == GetTypedef(Cache, n).c
           d == eppic_startctype(c, n)
<1>1. Keeps(Cache, c) /\ c.next = Cache.next
  BY GetTypedefKeeps DEF IInv
<1>2. CacheOK(c) /\ c.next < MaxIdx
  BY <1>1 DEF Keeps, BeginStruct, Cache
<1>3. Keeps(c, d)
  <2> HIDE DEF c
  <2>1. QED
    BY <1>2, StartKeeps
<1>4. /\ Becomes(d) /\ UNCHANGED <<tag, loading, nloads>> /\ got' = None
      /\ Len(open) < MaxOpen /\ open' = Append(open, n)
      /\ \/ ndecl' = ndecl + 1 /\ scope' = [scope EXCEPT !.tags[n] = ndecl + 1]
         \/ UNCHANGED <<ndecl, scope>>
  BY Zenon DEF BeginStruct
<1> HIDE DEF c, d
<1>5. Keeps(Cache, d)
  BY <1>1, <1>3, KeepsTransitive DEF IInv
<1>6. /\ scope' = [tags |-> scope'.tags, tdefs |-> scope.tdefs]
      /\ scope'.tags \in [Names -> Nat \cup {None}]
      /\ ndecl' \in Nat
  <2>1. CASE UNCHANGED <<ndecl, scope>>
    BY <2>1 DEF IInv, ScopeOK, Rest
  <2>2. CASE ndecl' = ndecl + 1 /\ scope' = [scope EXCEPT !.tags[n] = ndecl + 1]
    <3>1. ndecl + 1 \in Nat
      BY DEF IInv, Rest
    <3>2. QED
      BY <2>2, <3>1, TagsTyped
  <2>3. QED
    BY <1>4, <2>1, <2>2
<1>7. CacheOK(Cache)' /\ ScopeOK' /\ (tag \in 0..added)'
  BY <1>4, <1>5, <1>6, KeepsStep
<1>8. open' \in Seq(Names) /\ Len(open') <= MaxOpen
  BY <1>4 DEF IInv, Rest, TypesAssumption
<1>9. QED
  BY <1>4, <1>6, <1>7, <1>8 DEF IInv, Rest

LEMMA EndStructIInv == ASSUME TypesAssumption, IInv, EndStruct PROVE IInv'
<1> DEFINE n == Last(open)
           e == eppic_getst(slist, n, "struct")
           m == scope.tags[n]
           d == Declared(Cache, e, m)
<1>1. /\ e # None /\ Becomes(d) /\ Given(Type(e.idx, 0), Type(m, 0))
      /\ open' = Front(open) /\ open # << >>
      /\ UNCHANGED <<tag, loading, nloads, scope, ndecl>>
  BY Zenon DEF EndStruct
<1>2. /\ open \in Seq(Names) /\ Len(open) <= MaxOpen /\ CacheOK(Cache) /\ Cache.st = slist
      /\ scope = [tags |-> scope.tags, tdefs |-> scope.tdefs]
      /\ scope.tags \in [Names -> Nat \cup {None}]
  BY DEF IInv, Rest, ScopeOK, Cache
<1>3. n \in Names /\ open' \in Seq(Names) /\ Len(open') <= MaxOpen
  BY <1>1, <1>2 DEF Last, Front, TypesAssumption
<1>4. m \in Nat \cup {None}
  BY <1>2, <1>3
<1> HIDE DEF n, m
<1>5. e \in Cache.st /\ e.kind = "struct" /\ e \in Entries
  <2>1. e \in Named(Cache.st, n, "struct")
    BY <1>1, <1>2, GetstFinds
  <2>2. QED
    BY <1>2, <2>1 DEF Named, CacheOK, Caches
<1> HIDE DEF e
<1>6. Keeps(Cache, d)
  BY <1>2, <1>4, <1>5, DeclaredKeeps
<1> HIDE DEF d
<1>7. CacheOK(Cache)' /\ ScopeOK' /\ (tag \in 0..added)'
  BY <1>1, <1>2, <1>6, KeepsStep
<1>8. got'.type \in Types
  BY <1>1, <1>5 DEF Given, Type, Types, Entries
<1>9. QED
  BY <1>1, <1>3, <1>7, <1>8 DEF IInv, Rest

LEMMA DeclareTypedefIInv ==
    ASSUME TypesAssumption, IInv, NEW n \in Names, NEW ref \in 0..1,
           DeclareTypedef(n, ref)
    PROVE  IInv'
<1> DEFINE t == [got.type EXCEPT !.ref = @ + ref]
           d == eppic_tdef_decl(Cache, n, t)
           e == Entry("typedef", n, Cache.next, FALSE, None, t, Cache.age + 1)
           D == [m \in DOMAIN scope.tdefs \cup {n} |->
                    IF m = n THEN Type(got.want.idx, got.want.ref + ref)
                    ELSE scope.tdefs[m]]
<1>1. t \in Types
  <2>1. got.type \in Types /\ got.type.ref + ref <= 1
    BY DEF DeclareTypedef, IInv, Rest
  <2>2. got.type.ref + ref \in 0..1
    BY <2>1 DEF Types
  <2>3. QED
    BY <2>1, <2>2 DEF Types
<1>2. /\ Becomes(d) /\ UNCHANGED <<tag, loading, nloads, open, got, ndecl>>
      /\ loading /\ scope' = [scope EXCEPT !.tdefs = D]
  BY DEF DeclareTypedef
<1>3. /\ CacheOK(Cache) /\ Cache.next < MaxIdx /\ Cache.age = added /\ added \in Nat
      /\ tag \in 0..added
  BY DEF DeclareTypedef, IInv, CacheOK, Caches, Cache, Rest
<1> HIDE DEF t
<1>4. /\ CacheOK(d) /\ d.age = added + 1
      /\ Locals(d) = Locals(Cache) \cup {e} /\ e.name = n /\ e.age = added + 1
  <2> DEFINE c == Cache
  <2>1. CacheOK(c) /\ c.next < MaxIdx /\ c.age = added
    BY <1>3
  <2> HIDE DEF c
  <2>2. LET x == eppic_tdef_decl(c, n, t)
            y == Entry("typedef", n, c.next, FALSE, None, t, c.age + 1)
        IN  /\ CacheOK(x) /\ x.age = c.age + 1
            /\ Locals(x) = Locals(c) \cup {y} /\ y.name = n /\ y.age = c.age + 1
    BY Zenon, <1>1, <2>1, TdefDeclared
  <2>3. QED
    BY <2>1, <2>2 DEF c
<1>5. Cache' = d /\ added' = added + 1
  <2>1. d \in Caches
    BY <1>4 DEF CacheOK
  <2> HIDE DEF d
  <2>2. QED
    BY <1>2, <1>4, <2>1, BecomesIs
<1> HIDE DEF d, e
<1>6. DOMAIN D = DOMAIN scope.tdefs \cup {n}
  OBVIOUS
<1> HIDE DEF D
<1>7. /\ scope' = [tags |-> scope.tags, tdefs |-> D]
      /\ scope.tags \in [Names -> Nat \cup {None}]
      /\ DOMAIN scope.tdefs = {f.name : f \in Locals(Cache)}
      /\ \A f \in Locals(Cache) : loading /\ tag < f.age
  BY <1>2 DEF IInv, ScopeOK
<1>8. ScopeOK'
  <2>1. DOMAIN scope'.tdefs = {f.name : f \in Locals(Cache')}
    BY <1>4, <1>5, <1>6, <1>7
  <2>2. \A f \in Locals(Cache') : loading' /\ tag' < f.age
    BY <1>2, <1>3, <1>4, <1>5, <1>7
  <2>3. QED
    BY <1>7, <2>1, <2>2 DEF ScopeOK
<1>9. CacheOK(Cache')
  BY <1>4, <1>5
<1>10. Rest'
  BY <1>2, <1>3, <1>5 DEF IInv, Rest
<1>11. QED
  BY <1>8, <1>9, <1>10 DEF IInv

LEMMA AccessMemberIInv ==
    ASSUME TypesAssumption, IInv, NEW u \in uses, AccessMember(u) PROVE IInv'
<1> DEFINE d == eppic_getm(Cache, u.type)
<1>1. Keeps(Cache, d)
  BY GetmKeeps DEF IInv
<1>2. Becomes(d) /\ UNCHANGED <<tag, loading, nloads, open, got, scope, ndecl>>
  BY DEF AccessMember
<1> HIDE DEF d
<1>3. /\ scope = [tags |-> scope.tags, tdefs |-> scope.tdefs]
      /\ scope.tags \in [Names -> Nat \cup {None}]
  BY DEF IInv, ScopeOK
<1>4. CacheOK(Cache)' /\ ScopeOK' /\ (tag \in 0..added)'
  BY <1>1, <1>2, <1>3, KeepsStep
<1>5. QED
  BY <1>2, <1>4 DEF IInv, Rest

LEMMA StutterIInv == ASSUME IInv, UNCHANGED vars PROVE IInv'
<1>1. Cache' = Cache
  BY DEF vars, Cache
<1>2. QED
  BY <1>1 DEF vars, IInv, ScopeOK, Rest

LEMMA NextIInv == ASSUME TypesAssumption, IInv, [Next]_vars PROVE IInv'
<1>1. CASE BeginLoad
  BY <1>1, BeginLoadIInv
<1>2. CASE EndLoad
  BY <1>2, EndLoadIInv
<1>3. CASE EndStruct
  BY <1>3, EndStructIInv
<1>4. CASE \E n \in Names : ReadName(n)
  BY <1>4, ReadNameIInv
<1>5. CASE \E n \in Names : eppic_newctype(n)
  BY <1>5, NewctypeIInv
<1>6. CASE \E n \in Names : BeginStruct(n)
  BY <1>6, BeginStructIInv
<1>7. CASE \E n \in Names, ref \in 0..1 : DeclareTypedef(n, ref)
  BY <1>7, DeclareTypedefIInv
<1>8. CASE \E u \in uses : AccessMember(u)
  BY <1>8, AccessMemberIInv
<1>9. CASE UNCHANGED vars
  BY <1>9, StutterIInv
<1>10. QED
  BY <1>1, <1>2, <1>3, <1>4, <1>5, <1>6, <1>7, <1>8, <1>9 DEF Next

LEMMA SpecIInv == Spec => []IInv
<1>1. Init => IInv
  BY TypesAssumption, InitIInv
<1>2. IInv /\ [Next]_vars => IInv'
  BY TypesAssumption, NextIInv
<1>3. QED
  BY <1>1, <1>2, PTL DEF Spec

-----------------------------------------------------------------------------

(***************************************************************************)
(* Whatever the image and the files, the cache holds well-formed entries,  *)
(* none younger than the last eppic_addst, and the tag of a load is the    *)
(* age of an entry that is or was there.                                   *)
(***************************************************************************)
THEOREM TypesTyped == Spec => []TypeOK
<1>1. ASSUME IInv PROVE TypeOK
  <2>1. CacheOK(Cache) /\ Rest
    BY <1>1 DEF IInv
  <2>2. /\ slist \subseteq Entries /\ added \in Nat /\ nlist \subseteq Names
        /\ nextidx \in 0..MaxIdx
        /\ \A e \in slist : e.age <= added /\ (e.kind = "typedef" => e.rtype \in Types)
    BY <2>1 DEF CacheOK, Caches, GoodEntry, Cache
  <2>3. QED
    BY <2>1, <2>2 DEF TypeOK, Rest
<1>2. QED
  BY <1>1, SpecIInv, PTL

(***************************************************************************)
(* An index leads to at most one struct, through every lookup, fill,       *)
(* redeclaration and flush of the cache: what eppic_getstbyindex finds     *)
(* does not depend on the order of the list.                               *)
(***************************************************************************)
THEOREM IndexesStaySingle == Spec => []OneEntryPerIndex
<1>1. ASSUME IInv PROVE OneEntryPerIndex
  BY <1>1 DEF IInv, CacheOK, Cache, SameIndex, OneEntryPerIndex
<1>2. QED
  BY <1>1, SpecIInv, PTL

(***************************************************************************)
(* eppic_flushtdefs takes the typedefs of the file that ends, all of them  *)
(* and no other, and a typedef of the file is found before one of the      *)
(* image, whichever was entered first and however often it is redeclared.  *)
(***************************************************************************)
THEOREM TypedefsStayScoped == Spec => []TypedefsAreScoped
<1>1. ASSUME IInv PROVE TypedefsAreScoped
  <2>1. SUFFICES ASSUME NEW n \in Names
                 PROVE  LET e == eppic_getst(slist, n, "typedef")
                        IN  n \in DOMAIN scope.tdefs <=> e # None /\ IsLocal(e)
    BY DEF TypedefsAreScoped
  <2> DEFINE e == eppic_getst(slist, n, "typedef")
             S == Named(slist, n, "typedef")
  <2>2. CacheOK(Cache) /\ Cache.st = slist /\ slist \subseteq Entries
    BY <1>1 DEF IInv, CacheOK, Caches, Cache
  <2>3. \/ S = {} /\ e = None
        \/ e \in S /\ e # None /\ \A f \in S : f.age <= e.age
    BY <2>2, GetstFinds, TypesAssumption
  <2>4. DOMAIN scope.tdefs = {f.name : f \in Locals(Cache)}
    BY <1>1 DEF IInv, ScopeOK
  <2>5. ASSUME n \in DOMAIN scope.tdefs PROVE e # None /\ IsLocal(e)
    <3>1. PICK f \in Locals(Cache) : f.name = n
      BY <2>4, <2>5
    <3>2. f \in S /\ LocalTypedef(f)
      BY <2>2, <3>1 DEF Locals, LocalTypedef, Named
    <3>3. e \in S /\ e # None /\ f.age <= e.age
      BY <2>3, <3>2
    <3> HIDE DEF e
    <3>4. Hides(f, e)
      BY <2>2, <3>2, <3>3 DEF CacheOK, Named
    <3>5. f.age \in Nat /\ e.age \in Nat
      BY <2>2, <3>2, <3>3 DEF Named, Entries
    <3>6. QED
      BY <3>2, <3>3, <3>4, <3>5 DEF Hides, Named
  <2>6. ASSUME e # None, IsLocal(e) PROVE n \in DOMAIN scope.tdefs
    <3>1. e \in Locals(Cache) /\ e.name = n
      BY <2>2, <2>3, <2>6 DEF Locals, LocalTypedef, Named
    <3>2. QED
      BY <2>4, <3>1
  <2>7. QED
    BY <2>5, <2>6
<1>2. QED
  BY <1>1, SpecIInv, PTL
=============================================================================
