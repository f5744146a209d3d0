------------------------- MODULE EppicTypesMeaning -------------------------
(***************************************************************************)
(* The deepest promise of EppicTypes: a type keeps the meaning its name had *)
(* where it was read.  Nothing in the code ties an index to a meaning; it   *)
(* rests on which entry a lookup by name finds, so the invariant follows    *)
(* the struct entries of the cache, and the youngest of each name, through  *)
(* every lookup.                                                           *)
(***************************************************************************)
EXTENDS EppicTypesProofs

IsStruct(e) == e.kind = "struct"
TagEntry(c, n) == eppic_getst(c.st, n, "struct")

\* The members of a struct of the image are the image's; a typedef of the image
\* is one, is no tag, and carries no reference.
ImageOK(c) ==
    \A e \in c.st : ~IsLocal(e) =>
        IF IsStruct(e) THEN e.stm \in {None, e.idx}
        ELSE e.name \in DOMAIN Typedefs \ Structs /\ e.rtype.ref = 0
\* Of structs with one name there is one youngest.
AgesApart(c) ==
    \A e, f \in c.st :
        IsStruct(e) /\ IsStruct(f) /\ e.name = f.name /\ e.age = f.age => e = f
Sound(c) == CacheOK(c) /\ ImageOK(c) /\ AgesApart(c)

(***************************************************************************)
(* T says what the tags of the file mean, D which declarations are          *)
(* complete, of the N so far.                                              *)
(***************************************************************************)
\* The struct at index i is what w means; once w is complete, it is too.
Meant(c, D, i, w) ==
    \E e \in c.st :
        /\ IsStruct(e) /\ e.idx = i
        /\ IF w \in Names THEN w = i /\ e.all
           ELSE IsLocal(e) /\ (w \in D => e.all /\ e.stm = w)
\* The tag that means w finds index i.
Bound(c, T, i, w) == \A n \in Names : T[n] = w => TagEntry(c, n).idx = i
Fit(c, T, D, N, t, w) ==
    /\ w = Type(w.idx, t.ref) /\ w.idx \in Names \cup (1..N)
    /\ Meant(c, D, t.idx, w.idx) /\ Bound(c, T, t.idx, w.idx)

\* A tag of the file finds a script's struct, complete when its declaration is.
TagOK(c, T, D, N, n) ==
    LET e == TagEntry(c, n)
    IN  /\ T[n] \in 1..N
        /\ e # None /\ IsLocal(e) /\ (e.all <=> T[n] \in D) /\ (e.all => e.stm = T[n])
        /\ \A m \in Names : T[m] = T[n] => m = n
TagsOK(c, T, D, N) == \A n \in Names : T[n] # None => TagOK(c, T, D, N, n)

\* What the parser was given means what it had to, and so do the file's typedefs.
AllFit(c, T, D, N, given, tdefs) ==
    /\ TagsOK(c, T, D, N)
    /\ \A u \in given : Fit(c, T, D, N, u.type, u.want)
    /\ \A n \in DOMAIN tdefs :
        /\ Named(c.st, n, "typedef") # {}
        /\ Fit(c, T, D, N, eppic_getst(c.st, n, "typedef").rtype, tdefs[n])

MInv ==
    /\ IInv /\ Sound(Cache)
    /\ AllFit(Cache, scope.tags, done, ndecl, uses, scope.tdefs)
    /\ done \subseteq 1..ndecl
    /\ \A k \in DOMAIN open : scope.tags[open[k]] # None
    /\ got # None => got \in uses

-----------------------------------------------------------------------------
(* Caches that grow.                                                       *)

\* From c to d the structs stay, those of the image perhaps filled, and the names
\* S find the script's structs that they found.
Sustains(c, d, S) ==
    /\ Sound(c) /\ Sound(d)
    /\ \A e \in c.st : IsStruct(e) /\ IsLocal(e) => e \in d.st
    /\ \A e \in c.st : IsStruct(e) /\ ~IsLocal(e) /\ e.all =>
        \E f \in d.st : IsStruct(f) /\ f.idx = e.idx /\ f.all
    /\ \A n \in S : TagEntry(c, n) # None /\ IsLocal(TagEntry(c, n)) =>
        TagEntry(d, n) = TagEntry(c, n)

\* No typedef's entries change, unless it had none.
TdefsStay(c, d) ==
    \A n : Named(c.st, n, "typedef") # {} =>
        Named(d.st, n, "typedef") = Named(c.st, n, "typedef")

LEMMA SustainsItself == ASSUME NEW c, Sound(c), NEW S PROVE Sustains(c, c, S) /\ TdefsStay(c, c)
BY DEF Sustains, TdefsStay

LEMMA SustainsTransitive ==
    ASSUME NEW b, NEW c, NEW d, NEW S, Sustains(b, c, S), Sustains(c, d, S)
    PROVE  Sustains(b, d, S)
<1>1. ASSUME NEW e \in b.st, IsStruct(e), ~IsLocal(e), e.all
      PROVE  \E g \in d.st : IsStruct(g) /\ g.idx = e.idx /\ g.all
  <2>1. PICK f \in c.st : IsStruct(f) /\ f.idx = e.idx /\ f.all
    BY <1>1 DEF Sustains
  <2>2. ~IsLocal(f)
    BY <1>1, <2>1 DEF IsLocal
  <2>3. QED
    BY <2>1, <2>2 DEF Sustains
<1>2. ASSUME NEW n \in S, TagEntry(b, n) # None, IsLocal(TagEntry(b, n))
      PROVE  TagEntry(d, n) = TagEntry(b, n)
  <2>1. TagEntry(c, n) = TagEntry(b, n)
    BY <1>2 DEF Sustains
  <2>2. QED
    BY <1>2, <2>1 DEF Sustains
<1>3. QED
  BY <1>1, <1>2 DEF Sustains

LEMMA TdefsStayTransitive ==
    ASSUME NEW b, NEW c, NEW d, TdefsStay(b, c), TdefsStay(c, d)
    PROVE  TdefsStay(b, d)
BY DEF TdefsStay

\* The entry that a tag finds, and what makes an entry the one it finds.
LEMMA TagFinds ==
    ASSUME NEW c, Sound(c), NEW n
    PROVE  LET e == TagEntry(c, n)
           IN  \/ Named(c.st, n, "struct") = {} /\ e = None
               \/ /\ e \in c.st /\ IsStruct(e) /\ e.name = n /\ e # None /\ e \in Entries
                  /\ \A f \in c.st : IsStruct(f) /\ f.name = n => f.age <= e.age
<1>1. CacheOK(c) /\ c.st \subseteq Entries
  BY DEF Sound, CacheOK, Caches
<1>2. QED
  BY <1>1, GetstFinds, TypesAssumption DEF TagEntry, Named, IsStruct

LEMMA TagEntryIs ==
    ASSUME NEW c, Sound(c), NEW n, NEW e \in c.st, IsStruct(e), e.name = n,
           \A f \in c.st : IsStruct(f) /\ f.name = n => f.age <= e.age
    PROVE  TagEntry(c, n) = e
<1>1. e \in Named(c.st, n, "struct")
  BY DEF Named, IsStruct
<1>2. LET f == TagEntry(c, n)
      IN f \in c.st /\ IsStruct(f) /\ f.name = n /\ f.age >= e.age
  BY <1>1, TagFinds
<1>3. TagEntry(c, n).age = e.age
  <2>1. e.age \in Nat /\ TagEntry(c, n).age \in Nat
    BY <1>2 DEF Sound, CacheOK, Caches, Entries
  <2>2. TagEntry(c, n).age <= e.age
    BY <1>2
  <2>3. QED
    BY <1>2, <2>1, <2>2
<1>4. QED
  BY <1>2, <1>3 DEF Sound, AgesApart

LEMMA SustainsMeant ==
    ASSUME NEW c, NEW d, NEW S, Sustains(c, d, S), NEW D, NEW i, NEW w, Meant(c, D, i, w)
    PROVE  Meant(d, D, i, w)
<1>1. PICK e \in c.st : /\ IsStruct(e) /\ e.idx = i
                        /\ IF w \in Names THEN w = i /\ e.all
                           ELSE IsLocal(e) /\ (w \in D => e.all /\ e.stm = w)
  BY DEF Meant
<1>2. CASE IsLocal(e)
  <2>1. e \in d.st
    BY <1>1, <1>2 DEF Sustains
  <2>2. QED
    BY <1>1, <2>1 DEF Meant
<1>3. CASE ~IsLocal(e)
  <2>1. w \in Names /\ w = i /\ e.all
    BY <1>1, <1>3
  <2>2. PICK f \in d.st : IsStruct(f) /\ f.idx = e.idx /\ f.all
    BY <1>1, <1>3, <2>1 DEF Sustains
  <2>3. QED
    BY <1>1, <2>1, <2>2 DEF Meant
<1>4. QED
  BY <1>2, <1>3

\* What sustains the structs keeps every meaning.
LEMMA SustainsFit ==
    ASSUME NEW c, NEW d, Sustains(c, d, Names), NEW T, NEW D, NEW N \in Nat,
           TagsOK(c, T, D, N)
    PROVE  /\ TagsOK(d, T, D, N)
           /\ \A t, w : Fit(c, T, D, N, t, w) => Fit(d, T, D, N, t, w)
<1>1. ASSUME NEW n \in Names, T[n] # None
      PROVE  TagEntry(d, n) = TagEntry(c, n)
  BY <1>1 DEF TagsOK, TagOK, Sustains
<1>2. TagsOK(d, T, D, N)
  BY <1>1 DEF TagsOK, TagOK
<1>3. ASSUME NEW t, NEW w, Fit(c, T, D, N, t, w)
      PROVE  Fit(d, T, D, N, t, w)
  <2>1. Meant(d, D, t.idx, w.idx)
    BY <1>3, SustainsMeant DEF Fit
  <2>2. ASSUME NEW n \in Names, T[n] = w.idx PROVE TagEntry(d, n).idx = t.idx
    <3>1. T[n] # None
      BY <1>3, <2>2, TypesAssumption DEF Fit
    <3>2. TagEntry(c, n).idx = t.idx
      BY <1>3, <2>2 DEF Fit, Bound
    <3>3. QED
      BY <1>1, <3>1, <3>2
  <2>3. QED
    BY <1>3, <2>1, <2>2 DEF Fit, Bound
<1>4. QED
  BY <1>2, <1>3

\* A tag gets a new meaning, and a struct of the script that has none yet.
LEMMA NewMeaning ==
    ASSUME NEW c, NEW d, NEW n \in Names, Sustains(c, d, Names \ {n}),
           NEW T \in [Names -> Nat \cup {None}], NEW N \in Nat, NEW D \in SUBSET (1..N),
           TagsOK(c, T, D, N), NEW e \in d.st, e = TagEntry(d, n),
           IsStruct(e), IsLocal(e), ~e.all
    PROVE  LET U == [T EXCEPT ![n] = N + 1]
           IN  /\ TagsOK(d, U, D, N + 1)
               /\ \A t, w : Fit(c, T, D, N, t, w) => Fit(d, U, D, N + 1, t, w)
               /\ Fit(d, U, D, N + 1, Type(e.idx, 0), Type(N + 1, 0))
<1> DEFINE U == [T EXCEPT ![n] = N + 1]
<1>1. /\ e # None /\ None \notin Names \cup Nat /\ \A m \in Names : m \notin Nat
  <2>1. e \in Entries
    BY DEF Sustains, Sound, CacheOK, Caches
  <2>2. QED
    BY <2>1, TypesAssumption
<1>2. U[n] = N + 1 /\ \A m \in Names \ {n} : U[m] = T[m]
  OBVIOUS
<1> HIDE DEF U
<1>3. \A m \in Names : T[m] # None => T[m] \in 1..N
  BY DEF TagsOK, TagOK
<1>4. ASSUME NEW m \in Names \ {n}, T[m] # None
      PROVE  TagEntry(d, m) = TagEntry(c, m)
  BY <1>4 DEF TagsOK, TagOK, Sustains
<1>5. TagsOK(d, U, D, N + 1)
  <2>1. TagOK(d, U, D, N + 1, n)
    <3>1. \A m \in Names : U[m] = N + 1 => m = n
      BY <1>1, <1>2, <1>3
    <3>2. N + 1 \in 1..N + 1 /\ N + 1 \notin D
      OBVIOUS
    <3>3. QED
      BY <1>1, <1>2, <3>1, <3>2 DEF TagOK
  <2>2. ASSUME NEW m \in Names \ {n}, U[m] # None
        PROVE  TagOK(d, U, D, N + 1, m)
    <3>1. TagOK(c, T, D, N, m) /\ U[m] = T[m] /\ TagEntry(d, m) = TagEntry(c, m)
      BY <1>2, <1>4, <2>2 DEF TagsOK
    <3>2. U[m] \in 1..N /\ U[m] \in 1..N + 1
      BY <3>1 DEF TagOK
    <3>3. \A l \in Names : U[l] = U[m] => l = m
      BY <1>2, <3>1, <3>2 DEF TagOK
    <3>4. QED
      BY <3>1, <3>2, <3>3 DEF TagOK
  <2>3. QED
    BY <2>1, <2>2 DEF TagsOK
<1>6. ASSUME NEW t, NEW w, Fit(c, T, D, N, t, w)
      PROVE  Fit(d, U, D, N + 1, t, w)
  <2>1. Meant(d, D, t.idx, w.idx)
    BY <1>6, SustainsMeant DEF Fit
  <2>2. w.idx # N + 1 /\ w.idx # None /\ w.idx \in Names \cup (1..N + 1)
    BY <1>1, <1>6 DEF Fit
  <2>3. ASSUME NEW m \in Names, U[m] = w.idx PROVE TagEntry(d, m).idx = t.idx
    <3>1. m # n /\ T[m] = w.idx /\ T[m] # None
      BY <1>2, <2>2, <2>3
    <3>2. TagEntry(c, m).idx = t.idx
      BY <1>6, <3>1 DEF Fit, Bound
    <3>3. QED
      BY <1>4, <3>1, <3>2
  <2>4. QED
    BY <1>6, <2>1, <2>2, <2>3 DEF Fit, Bound
<1>7. Fit(d, U, D, N + 1, Type(e.idx, 0), Type(N + 1, 0))
  <2>1. /\ Type(e.idx, 0).idx = e.idx /\ Type(e.idx, 0).ref = 0 /\ Type(N + 1, 0).idx = N + 1
    BY DEF Type
  <2>2. Meant(d, D, e.idx, N + 1)
    BY <1>1 DEF Meant
  <2>3. \A m \in Names : U[m] = N + 1 => m = n
    BY <1>1, <1>2, <1>3
  <2>4. Bound(d, U, e.idx, N + 1)
    BY <2>3 DEF Bound
  <2>5. QED
    BY <2>1, <2>2, <2>4 DEF Fit
<1>8. QED
  BY <1>5, <1>6, <1>7 DEF U

LEMMA TdefSame ==
    ASSUME NEW c, NEW d, TdefsStay(c, d), NEW n, Named(c.st, n, "typedef") # {}
    PROVE  /\ Named(d.st, n, "typedef") # {}
           /\ eppic_getst(d.st, n, "typedef") = eppic_getst(c.st, n, "typedef")
BY DEF TdefsStay, eppic_getst

LEMMA SustainsAll ==
    ASSUME NEW c, NEW d, Sustains(c, d, Names), TdefsStay(c, d), NEW T, NEW D,
           NEW N \in Nat, NEW given, NEW tdefs, AllFit(c, T, D, N, given, tdefs)
    PROVE  AllFit(d, T, D, N, given, tdefs)
BY SustainsFit, TdefSame DEF AllFit

LEMMA NewMeaningAll ==
    ASSUME NEW c, NEW d, NEW n \in Names, Sustains(c, d, Names \ {n}), TdefsStay(c, d),
           NEW T \in [Names -> Nat \cup {None}], NEW N \in Nat, NEW D \in SUBSET (1..N),
           NEW e \in d.st, e = TagEntry(d, n), IsStruct(e), IsLocal(e), ~e.all,
           NEW given, NEW tdefs, AllFit(c, T, D, N, given, tdefs)
    PROVE  LET U == [T EXCEPT ![n] = N + 1]
           IN  /\ AllFit(d, U, D, N + 1, given, tdefs)
               /\ Fit(d, U, D, N + 1, Type(e.idx, 0), Type(N + 1, 0))
<1> DEFINE U == [T EXCEPT ![n] = N + 1]
<1>1. TagsOK(c, T, D, N)
  BY DEF AllFit
<1>2. /\ TagsOK(d, U, D, N + 1)
      /\ \A t, w : Fit(c, T, D, N, t, w) => Fit(d, U, D, N + 1, t, w)
      /\ Fit(d, U, D, N + 1, Type(e.idx, 0), Type(N + 1, 0))
  BY <1>1, NewMeaning
<1> HIDE DEF U
<1>3. AllFit(d, U, D, N + 1, given, tdefs)
  BY <1>2, TdefSame DEF AllFit
<1>4. QED
  BY <1>2, <1>3 DEF U

-----------------------------------------------------------------------------
(* What the routines of the cache sustain.                                  *)

\* The structs of the cache, and those a name finds.
LEMMA SameStructs ==
    ASSUME NEW c, Sound(c), NEW d, CacheOK(d), ImageOK(d), NEW S,
           \A e : IsStruct(e) => (e \in d.st <=> e \in c.st)
    PROVE  Sustains(c, d, S)
<1>1. \A n : Named(d.st, n, "struct") = Named(c.st, n, "struct")
  BY DEF Named, IsStruct
<1>2. \A n : TagEntry(d, n) = TagEntry(c, n)
  BY <1>1 DEF TagEntry, eppic_getst
<1>3. AgesApart(d)
  BY DEF Sound, AgesApart
<1>4. QED
  BY <1>2, <1>3 DEF Sustains, Sound

\* An entry of a new name, or one that is not looked up by the names S.
LEMMA StructAdded ==
    ASSUME NEW c, Sound(c), NEW d, CacheOK(d), NEW e, IsStruct(e), e.age = c.age + 1,
           d.st = c.st \cup {e}, ~IsLocal(e) => e.stm \in {None, e.idx},
           NEW S, e.name \notin S \/ Named(c.st, e.name, "struct") = {}
    PROVE  Sustains(c, d, S) /\ TagEntry(d, e.name) = e /\ TdefsStay(c, d)
<1>1. c.age \in Nat /\ \A f \in c.st : f.age \in Nat /\ f.age <= c.age
  BY DEF Sound, CacheOK, Caches, GoodEntry, Entries
<1>2. Sound(d)
  <2>1. ImageOK(d)
    BY DEF Sound, ImageOK
  <2>2. \A f \in c.st : f.age # e.age
    BY <1>1
  <2>3. AgesApart(d)
    BY <2>2 DEF Sound, AgesApart
  <2>4. QED
    BY <2>1, <2>3 DEF Sound
<1>3. TagEntry(d, e.name) = e
  <2>1. \A f \in d.st : f.age <= e.age
    BY <1>1
  <2>2. QED
    BY <1>2, <2>1, TagEntryIs
<1>4. ASSUME NEW n \in S, TagEntry(c, n) # None PROVE TagEntry(d, n) = TagEntry(c, n)
  <2>1. n # e.name
    <3>1. CASE Named(c.st, e.name, "struct") = {}
      <4>1. TagEntry(c, e.name) = None
        BY <3>1, TagFinds DEF Named, IsStruct
      <4>2. QED
        BY <1>4, <4>1
    <3>2. QED
      BY <3>1
  <2>2. Named(d.st, n, "struct") = Named(c.st, n, "struct")
    BY <2>1 DEF Named
  <2>3. QED
    BY <2>2 DEF TagEntry, eppic_getst
<1>5. TdefsStay(c, d)
  BY DEF TdefsStay, Named, IsStruct
<1>6. QED
  BY <1>2, <1>3, <1>4, <1>5 DEF Sustains

\* A fill leaves the entries of the script alone, and no tag that has an entry of
\* another index finds one of the tags that are mentioned.
LEMMA FillSustains ==
    ASSUME NEW c, Sound(c), NEW e \in c.st, IsStruct(e),
           ~IsLocal(e) =>
              \A m \in Mentions[e.idx] \ {e.idx} :
                 Indexed(c.st, m) # {} \/ Named(c.st, m, "struct") = {}
    PROVE  LET d == eppic_fillst(c, e)
           IN  /\ Sustains(c, d, Names) /\ TdefsStay(c, d)
               /\ ~IsLocal(e) => \E f \in d.st : IsStruct(f) /\ f.idx = e.idx /\ f.all
<1> DEFINE d == eppic_fillst(c, e)
           x == [e EXCEPT !.stm = e.idx, !.all = TRUE]
           M == eppic_memstinfo(c, e.idx)
<1>1. CASE IsLocal(e)
  BY <1>1, SustainsItself DEF eppic_fillst
<1>2. CASE ~IsLocal(e)
  <2>1. /\ e \in Entries /\ c \in Caches /\ c.age \in Nat
        /\ \A f \in c.st : f \in Entries /\ f.age \in Nat /\ f.age <= c.age
    BY DEF Sound, CacheOK, Caches, GoodEntry, Entries
  <2>2. e.idx \in Structs /\ e.name = e.idx
    BY <1>2 DEF Sound, CacheOK, GoodEntry, IsStruct
  <2>3. /\ IsStruct(x) /\ x.name = e.name /\ x.idx = e.idx /\ x.age = e.age /\ x.all
        /\ x.stm = e.idx /\ ~IsLocal(x)
    BY <1>2, <2>1 DEF IsStruct, IsLocal, Entries
  <2>4. d.st = (c.st \ {e}) \cup {x} \cup M
    BY <1>2, <2>1 DEF eppic_fillst, Caches
  <2>5. CacheOK(d)
    BY FillKeeps, TypesAssumption DEF Sound, Keeps, IsStruct
  <2>6. ASSUME NEW s \in M
        PROVE  /\ IsStruct(s) /\ ~IsLocal(s) /\ s.stm = None /\ s.age = c.age + 1
               /\ Named(c.st, s.name, "struct") = {} /\ s.name # e.name
               /\ \A r \in M : r.name = s.name => r = s
    <3>1. PICK t \in Mentions[e.idx] :
            s = Entry("struct", t, t, FALSE, None, None, c.age + 1) /\ Indexed(c.st, t) = {}
      BY DEF eppic_memstinfo
    <3>2. t \notin Nat
      BY <2>2, <3>1, TypesAssumption
    <3>3. t # e.idx
      BY <3>1 DEF Indexed, IsStruct
    <3>4. Named(c.st, t, "struct") = {}
      BY <1>2, <3>1, <3>3
    <3>5. \A r \in M : r.name = s.name => r = s
      BY <3>1 DEF eppic_memstinfo, Entry
    <3>6. QED
      BY <2>2, <3>1, <3>2, <3>3, <3>4, <3>5 DEF Entry, IsStruct, IsLocal
  <2> HIDE DEF x, M, d
  <2>7. ImageOK(d)
    <3>1. \A f \in M \cup {x} : IsStruct(f) /\ f.stm \in {None, f.idx}
      BY <2>3, <2>6
    <3>2. QED
      BY <2>4, <3>1 DEF Sound, ImageOK
  <2>8. ASSUME NEW f \in d.st
        PROVE  \/ f \in M
               \/ \E g \in c.st : /\ g.kind = f.kind /\ g.name = f.name /\ g.age = f.age
                                  /\ (f = x /\ g = e) \/ (f = g /\ g # e)
    BY <2>3, <2>4 DEF IsStruct
  <2>9. AgesApart(d)
    <3>1. SUFFICES ASSUME NEW f \in d.st, NEW g \in d.st, IsStruct(f), IsStruct(g),
                          f.name = g.name, f.age = g.age
                   PROVE  f = g
      BY DEF AgesApart
    <3>2. CASE f \in M /\ g \in M
      BY <2>6, <3>1, <3>2
    <3>3. \A s \in M, h \in d.st : IsStruct(h) /\ h.name = s.name => h \in M
      BY <2>6, <2>8 DEF Named, IsStruct
    <3>4. CASE f \notin M /\ g \notin M
      <4>1. PICK p \in c.st : /\ p.kind = f.kind /\ p.name = f.name /\ p.age = f.age
                              /\ (f = x /\ p = e) \/ (f = p /\ p # e)
        BY <2>8, <3>4
      <4>2. PICK q \in c.st : /\ q.kind = g.kind /\ q.name = g.name /\ q.age = g.age
                              /\ (g = x /\ q = e) \/ (g = q /\ q # e)
        BY <2>8, <3>4
      <4>3. p = q
        BY <3>1, <4>1, <4>2 DEF Sound, AgesApart, IsStruct
      <4>4. QED
        BY <4>1, <4>2, <4>3
    <3>5. QED
      BY <3>1, <3>2, <3>3, <3>4
  <2>10. Sound(d)
    BY <2>5, <2>7, <2>9 DEF Sound
  <2>11. ASSUME NEW n \in Names, TagEntry(c, n) # None, IsLocal(TagEntry(c, n))
         PROVE  TagEntry(d, n) = TagEntry(c, n)
    <3> DEFINE h == TagEntry(c, n)
    <3>1. /\ h \in c.st /\ IsStruct(h) /\ h.name = n
          /\ \A f \in c.st : IsStruct(f) /\ f.name = n => f.age <= h.age
      BY <2>11, TagFinds
    <3>2. h \in d.st
      BY <1>2, <2>4, <2>11, <3>1
    <3>3. \A f \in d.st : IsStruct(f) /\ f.name = n => f.age <= h.age
      BY <2>6, <2>8, <3>1 DEF Named, IsStruct
    <3>4. QED
      BY <2>10, <3>1, <3>2, <3>3, TagEntryIs
  <2>12. \A f \in c.st : IsStruct(f) /\ IsLocal(f) => f \in d.st
    BY <1>2, <2>4
  <2>13. \A f \in c.st : IsStruct(f) /\ ~IsLocal(f) /\ f.all =>
            \E g \in d.st : IsStruct(g) /\ g.idx = f.idx /\ g.all
    BY <2>3, <2>4
  <2>14. TdefsStay(c, d)
    <3>1. \A f : f.kind = "typedef" => (f \in d.st <=> f \in c.st)
      BY <2>3, <2>4, <2>6 DEF IsStruct
    <3>2. QED
      BY <3>1 DEF TdefsStay, Named
  <2>15. x \in d.st
    BY <2>4
  <2>16. QED
    BY <2>3, <2>10, <2>11, <2>12, <2>13, <2>14, <2>15 DEF Sustains, d
<1>3. QED
  BY <1>1, <1>2

\* A new index, for a name that S does not hold or that has no struct.
LEMMA NewPartialSustains ==
    ASSUME NEW c, Sound(c), NEW n \in Names, c.next < MaxIdx,
           NEW S, n \notin S \/ Named(c.st, n, "struct") = {}
    PROVE  LET d == NewPartial(c, n)
               e == TagEntry(d, n)
           IN  /\ Sustains(c, d, S) /\ TdefsStay(c, d)
               /\ e \in d.st /\ IsStruct(e) /\ IsLocal(e) /\ e.idx = c.next /\ ~e.all
<1> DEFINE e == Entry("struct", n, c.next, FALSE, None, None, c.age + 1)
           a == eppic_addst(c, "struct", n, c.next, FALSE, None)
           d == NewPartial(c, n)
<1>1. /\ c \in Caches /\ c.age \in Nat /\ c.next \in 0..MaxIdx /\ MaxIdx \in Nat
  BY TypesAssumption DEF Sound, CacheOK, Caches
<1>2. c.next \in Nat /\ c.next \in Indexes
  BY <1>1 DEF Indexes
<1>3. e \in Entries /\ e.name = n /\ e.idx = c.next /\ e.age = c.age + 1 /\ ~e.all
      /\ IsStruct(e) /\ IsLocal(e)
  BY <1>1, <1>2 DEF Kinds, Entry, Entries, IsStruct, IsLocal
<1>4. Adds(c, a, e)
  BY Zenon, <1>1, <1>3, AddstIs
<1>5. d = [a EXCEPT !.next = c.next + 1]
  BY <1>4 DEF NewPartial, Adds
<1>6. CacheOK(d)
  BY TypesAssumption, NewPartialKeeps DEF Sound, Keeps
<1> HIDE DEF e, a, d
<1>7. d.st = c.st \cup {e}
  BY <1>4, <1>5 DEF Adds, Caches
<1>8. Sustains(c, d, S) /\ TagEntry(d, e.name) = e /\ TdefsStay(c, d)
  BY <1>3, <1>6, <1>7, StructAdded
<1>9. QED
  BY <1>3, <1>7, <1>8 DEF d

\* A struct of the image that no entry is named after.
LEMMA FromImageSustains ==
    ASSUME NEW c, Sound(c), NEW n \in Structs, Named(c.st, n, "struct") = {},
           \A m \in Mentions[n] \ {n} : Indexed(c.st, m) # {} \/ Named(c.st, m, "struct") = {}
    PROVE  LET d == StructFromImage(c, n)
           IN  /\ Sustains(c, d, Names) /\ TdefsStay(c, d)
               /\ \E f \in d.st : IsStruct(f) /\ f.idx = n /\ f.all
<1> DEFINE e == Entry("struct", n, n, TRUE, None, None, c.age + 1)
           a == eppic_addst(c, "struct", n, n, TRUE, None)
           x == eppic_getst(a.st, n, "struct")
<1>1. c \in Caches /\ c.age \in Nat /\ CacheOK(c)
  BY DEF Sound, CacheOK, Caches
<1>2. n \in Names /\ n \notin Nat /\ n \in Indexes
  BY TypesAssumption DEF Indexes
<1>3. /\ e \in Entries /\ IsStruct(e) /\ e.name = n /\ e.idx = n /\ e.stm = None
      /\ e.age = c.age + 1 /\ ~IsLocal(e) /\ ~LocalTypedef(e)
  BY <1>1, <1>2 DEF Kinds, Entry, Entries, IsStruct, IsLocal, LocalTypedef
<1>4. Adds(c, a, e)
  BY Zenon, <1>1, <1>3, AddstIs DEF IsStruct
<1>5. StructFromImage(c, n) = eppic_fillst(a, x)
  BY DEF StructFromImage
<1> HIDE DEF e, a
<1>6. CacheOK(a)
  <2>1. Indexed(c.st, e.idx) = {}
    BY <1>1, <1>2, <1>3 DEF CacheOK, GoodEntry, Indexed, Named, IsLocal
  <2>2. c.next <= a.next
    BY <1>1, <1>4 DEF Adds, Caches
  <2>3. Keeps(c, a)
    BY <1>1, <1>3, <1>4, <2>1, <2>2, EntryAdded, TypesAssumption DEF Adds, IsStruct
  <2>4. QED
    BY <2>3 DEF Keeps
<1>7. Sustains(c, a, Names) /\ x = e /\ TdefsStay(c, a)
  <2>1. a.st = c.st \cup {e}
    BY <1>4 DEF Adds
  <2>2. Sustains(c, a, Names) /\ TagEntry(a, e.name) = e /\ TdefsStay(c, a)
    BY <1>3, <1>6, <2>1, StructAdded
  <2>3. QED
    BY <1>3, <2>2 DEF TagEntry
<1> HIDE DEF x
<1>8. /\ Sound(a) /\ x \in a.st /\ IsStruct(x) /\ x.idx = n /\ ~IsLocal(x)
  BY <1>3, <1>4, <1>7 DEF Sustains, Adds
<1>9. \A m \in Mentions[n] \ {n} : Indexed(a.st, m) # {} \/ Named(a.st, m, "struct") = {}
  BY <1>3, <1>4 DEF Adds, Indexed, Named
<1>10. LET d == eppic_fillst(a, x)
       IN  /\ Sustains(a, d, Names) /\ TdefsStay(a, d)
           /\ \E f \in d.st : IsStruct(f) /\ f.idx = n /\ f.all
  BY <1>8, <1>9, FillSustains
<1>11. QED
  BY <1>5, <1>7, <1>10, SustainsTransitive, TdefsStayTransitive

-----------------------------------------------------------------------------
(* What a lookup gives.                                                     *)

\* The tag n, where it has an entry or is in the image, gives a struct that means
\* what the tag means.  The hypotheses but the last two are PlainStruct(c.st, n).
LEMMA StructMeans ==
    ASSUME Faults = {}, MInv, NEW c, Sound(c), NEW n \in Names, NEW silent \in BOOLEAN,
           TagsOK(c, scope.tags, done, ndecl), PlainStruct(c.st, n),
           TagEntry(c, n) # None \/ n \in Structs,
           silent => TagEntry(c, n) # None \/ n \notin c.neg
    PROVE  LET r == GetStruct(c, n, silent)
           IN  /\ Sustains(c, r.c, Names) /\ TdefsStay(c, r.c)
               /\ r.t # None /\ r.t = Type(r.t.idx, 0)
               /\ Fit(r.c, scope.tags, done, ndecl, r.t, Type(MeansStruct(n), 0))
<1> DEFINE e == TagEntry(c, n)
           r == GetStruct(c, n, silent)
<1>1. /\ \/ Named(c.st, n, "struct") = {} /\ e = None
         \/ e \in c.st /\ IsStruct(e) /\ e.name = n /\ e # None /\ e \in Entries
  BY TagFinds
<1>2. /\ None \notin Types /\ None \notin Names \cup Nat /\ Structs \subseteq Names
      /\ \A m \in Names : m \notin Nat
  BY TypesAssumption
<1>3. /\ \A i : Type(i, 0).idx = i /\ Type(i, 0).ref = 0
      /\ ndecl \in Nat
  BY DEF Type, MInv, IInv, Rest
<1>4. CASE e # None
  <2>1. r = [c |-> c, t |-> Type(e.idx, 0)]
    BY <1>4 DEF GetStruct, TagEntry
  <2>2. (e.all \/ IsLocal(e)) /\ (~IsLocal(e) \/ scope.tags[n] # None)
    BY <1>4 DEF PlainStruct, PlainTag, TagEntry
  <2>3. Fit(c, scope.tags, done, ndecl, Type(e.idx, 0), Type(MeansStruct(n), 0))
    <3>1. CASE scope.tags[n] # None
      <4> DEFINE d == scope.tags[n]
      <4>1. MeansStruct(n) = d
        BY <3>1 DEF MeansStruct
      <4>2. TagOK(c, scope.tags, done, ndecl, n)
        BY <3>1 DEF TagsOK
      <4>3. d \in 1..ndecl /\ d \notin Names
        BY <1>2, <4>2 DEF TagOK
      <4>4. Meant(c, done, e.idx, d)
        BY <1>1, <1>4, <4>2, <4>3 DEF TagOK, Meant
      <4>5. Bound(c, scope.tags, e.idx, d)
        BY <4>2 DEF TagOK, Bound
      <4>6. QED
        BY <1>3, <4>1, <4>3, <4>4, <4>5 DEF Fit
    <3>2. CASE scope.tags[n] = None
      <4>1. e.all /\ ~IsLocal(e)
        BY <2>2, <3>2
      <4>2. e.idx = n /\ n \in Structs
        BY <1>1, <1>4, <4>1 DEF Sound, CacheOK, GoodEntry, IsStruct
      <4>3. MeansStruct(n) = n
        BY <3>2, <4>2 DEF MeansStruct
      <4>4. Meant(c, done, n, n)
        BY <1>1, <1>4, <4>1, <4>2 DEF Meant
      <4>5. Bound(c, scope.tags, n, n)
        BY <1>2 DEF Bound, TagsOK, TagOK
      <4>6. QED
        BY <1>3, <4>2, <4>3, <4>4, <4>5 DEF Fit
    <3>3. QED
      BY <3>1, <3>2
  <2>4. Type(e.idx, 0) # None
    <3>1. Type(e.idx, 0) \in Types
      BY <1>1, <1>4 DEF Type, Types, Entries
    <3>2. QED
      BY <1>2, <3>1
  <2>5. QED
    BY <1>3, <2>1, <2>3, <2>4, SustainsItself
<1>5. CASE e = None
  <2>1. r = [c |-> StructFromImage(c, n), t |-> Type(n, 0)] /\ n \in Structs
    BY <1>5 DEF GetStruct, apigetctype, TagEntry
  <2> DEFINE d == StructFromImage(c, n)
  <2>2. /\ Sustains(c, d, Names) /\ TdefsStay(c, d)
        /\ \E f \in d.st : IsStruct(f) /\ f.idx = n /\ f.all
    <3>1. Named(c.st, n, "struct") = {}
      BY <1>1, <1>5
    <3>2. PlainFill(c.st, n)
      BY <2>1, <3>1 DEF PlainStruct
    <3>3. QED
      BY <2>1, <3>1, <3>2, FromImageSustains DEF PlainFill
  <2> HIDE DEF d
  <2>3. scope.tags[n] = None
    BY <1>5 DEF TagsOK, TagOK
  <2>4. MeansStruct(n) = n
    BY <2>1, <2>3 DEF MeansStruct
  <2>5. Meant(d, done, n, n)
    BY <2>2 DEF Meant
  <2>6. Bound(d, scope.tags, n, n)
    BY <1>2 DEF Bound, TagsOK, TagOK
  <2>7. Fit(d, scope.tags, done, ndecl, Type(n, 0), Type(n, 0))
    BY <1>3, <2>5, <2>6 DEF Fit
  <2>8. Type(n, 0) # None
    <3>1. Type(n, 0) \in Types
      BY DEF Type, Types, Indexes
    <3>2. QED
      BY <1>2, <3>1
  <2>9. QED
    BY <1>3, <2>1, <2>2, <2>4, <2>7, <2>8 DEF d
<1>6. QED
  BY <1>4, <1>5

\* A name that is a typedef gives the type that it means in C.
LEMMA TypedefMeans ==
    ASSUME Faults = {}, \A n \in DOMAIN Typedefs : Typedefs[n].ref = 0,
           MInv, NEW n \in Names, PlainName(n)
    PROVE  LET r == GetTypedef(Cache, n)
           IN  /\ Sustains(Cache, r.c, Names) /\ TdefsStay(Cache, r.c)
               /\ r.t # None =>
                    Fit(r.c, scope.tags, done, ndecl, r.t, MeansTypedef(n))
<1> DEFINE e == eppic_getst(Cache.st, n, "typedef")
           r == GetTypedef(Cache, n)
<1>1. \/ Named(Cache.st, n, "typedef") = {} /\ e = None
      \/ e \in Named(Cache.st, n, "typedef") /\ e # None
         /\ \A f \in Named(Cache.st, n, "typedef") : f.age <= e.age
  BY GetstFinds, TypesAssumption DEF MInv, IInv
<1>2. /\ Sound(Cache) /\ CacheOK(Cache) /\ Cache.st = slist /\ Cache.neg = nlist /\ ndecl \in Nat
      /\ TagsOK(Cache, scope.tags, done, ndecl) /\ Cache.st \subseteq Entries
      /\ DOMAIN scope.tdefs = {f.name : f \in Locals(Cache)}
  BY DEF MInv, AllFit, Sound, Cache, IInv, ScopeOK, CacheOK, Caches, Rest
<1>3. n \in DOMAIN Typedefs =>
        Typedefs[n].tag \in Structs /\ Typedefs[n].tag \in Names /\ Typedefs[n].ref = 0
  BY TypesAssumption
<1>4. CASE e # None
  <2>1. r = [c |-> Cache, t |-> e.rtype]
    BY <1>4 DEF GetTypedef
  <2>2. e \in Cache.st /\ e.kind = "typedef" /\ e.name = n
    BY <1>1, <1>4 DEF Named
  <2>3. CASE IsLocal(e)
    <3>1. n \in DOMAIN scope.tdefs
      BY <1>2, <2>2, <2>3 DEF Locals, LocalTypedef
    <3>2. Fit(Cache, scope.tags, done, ndecl, e.rtype, scope.tdefs[n])
      BY <1>2, <3>1 DEF MInv, AllFit
    <3>3. QED
      BY <1>2, <2>1, <3>1, <3>2, SustainsItself DEF MeansTypedef
  <2>4. CASE ~IsLocal(e)
    <3> DEFINE t == Typedefs[n].tag
               s == eppic_getst(slist, t, "struct")
               g == GetStruct(Cache, t, TRUE)
    <3>1. n \in DOMAIN Typedefs \ Structs /\ e.rtype.ref = 0
      BY <1>2, <2>2, <2>4 DEF Sound, ImageOK, IsStruct
    <3>2. n \notin DOMAIN scope.tdefs
      <4>1. SUFFICES ASSUME NEW f \in Locals(Cache), f.name = n PROVE FALSE
        BY <1>2
      <4>2. f \in Named(Cache.st, n, "typedef") /\ LocalTypedef(f) /\ f \in Cache.st
        BY <4>1 DEF Locals, LocalTypedef, Named
      <4>3. e.age < f.age
        BY <1>2, <2>2, <2>4, <4>1, <4>2 DEF CacheOK, Hides
      <4>4. f.age <= e.age
        BY <1>1, <1>4, <4>2
      <4>5. e.age \in Nat /\ f.age \in Nat
        BY <1>2, <2>2, <4>2 DEF Entries
      <4>6. QED
        BY <4>3, <4>4, <4>5
    <3>3. s # None /\ e.rtype.idx = s.idx /\ PlainTag(slist, t)
      BY <1>2, <1>4, <2>4, <3>1 DEF PlainName, apigetctype
    <3>4. PlainStruct(Cache.st, t) /\ TagEntry(Cache, t) # None
      <4>1. TagEntry(Cache, t) = s
        BY <1>2 DEF TagEntry
      <4>2. Named(Cache.st, t, "struct") # {}
        <5>1. Named(Cache.st, t, "struct") = {} => TagEntry(Cache, t) = None
          BY DEF TagEntry, eppic_getst, Youngest
        <5>2. QED
          BY <3>3, <4>1, <5>1
      <4>3. QED
        BY <1>2, <3>3, <4>1, <4>2 DEF PlainStruct
    <3>5. Fit(g.c, scope.tags, done, ndecl, g.t, Type(MeansStruct(t), 0))
      BY <1>2, <1>3, <3>1, <3>4, StructMeans
    <3>6. g = [c |-> Cache, t |-> Type(s.idx, 0)]
      BY <1>2, <3>3 DEF GetStruct
    <3>7. e.rtype = Type(s.idx, 0)
      <4>1. e.rtype \in Types
        BY <1>2, <2>2 DEF CacheOK, GoodEntry
      <4>2. QED
        BY <3>1, <3>3, <4>1 DEF Types, Type
    <3>8. MeansTypedef(n) = Type(MeansStruct(t), 0)
      BY <1>3, <3>1, <3>2 DEF MeansTypedef
    <3>9. g.c = Cache /\ g.t = e.rtype
      <4> HIDE DEF g, s, e
      <4>1. QED
        BY <3>6, <3>7
    <3>10. Fit(Cache, scope.tags, done, ndecl, e.rtype, MeansTypedef(n))
      BY Zenon, <3>5, <3>8, <3>9
    <3>11. r.c = Cache /\ r.t = e.rtype
      <4> HIDE DEF e
      <4>1. QED
        BY <2>1
    <3> HIDE DEF e, r
    <3>12. Sustains(Cache, Cache, Names) /\ TdefsStay(Cache, Cache)
      BY <1>2, SustainsItself
    <3>13. QED
      BY <3>10, <3>11, <3>12 DEF r
  <2>5. QED
    BY <2>3, <2>4
<1>5. CASE e = None /\ n \in Cache.neg
  <2>1. r = [c |-> Cache, t |-> None]
    BY <1>5 DEF GetTypedef
  <2>2. QED
    BY <1>2, <2>1, SustainsItself
<1>6. CASE e = None /\ n \notin Cache.neg /\ ~apigetctype("typedef", n)
  <2> DEFINE d == [Cache EXCEPT !.neg = @ \cup {n}]
  <2>1. r = [c |-> d, t |-> None]
    BY <1>6 DEF GetTypedef
  <2>2. CacheOK(d) /\ d.st = Cache.st
    <3>1. CacheOK(d)
      BY <1>2, NegKeeps DEF Keeps
    <3>2. QED
      BY <3>1 DEF Cache
  <2> HIDE DEF d
  <2>3. ImageOK(d)
    BY <1>2, <2>2 DEF Sound, ImageOK
  <2>4. Sustains(Cache, d, Names)
    BY <1>2, <2>2, <2>3, SameStructs
  <2>5. QED
    BY <2>1, <2>2, <2>4 DEF TdefsStay
<1>7. CASE e = None /\ n \notin Cache.neg /\ apigetctype("typedef", n)
  <2> DEFINE t == Typedefs[n].tag
             s == GetStruct(Cache, t, TRUE)
             f == Entry("typedef", n, n, TRUE, None, s.t, s.c.age + 1)
             d == eppic_addst(s.c, "typedef", n, n, TRUE, s.t)
  <2>1. n \in DOMAIN Typedefs \ Structs /\ n \notin DOMAIN scope.tdefs
    <3>1. n \in DOMAIN Typedefs \ Structs
      BY <1>7 DEF apigetctype
    <3>2. \A g \in Locals(Cache) : g.name # n
      BY <1>1, <1>7 DEF Locals, LocalTypedef, Named
    <3>3. QED
      BY <1>2, <3>1, <3>2
  <2>2. t \in Names /\ t \in Structs /\ Typedefs[n].ref = 0
    BY <1>3, <2>1
  <2>3. PlainStruct(Cache.st, t) /\ (TagEntry(Cache, t) # None \/ t \notin Cache.neg)
    BY <1>2, <1>7 DEF PlainName, TagEntry
  <2>4. /\ Sustains(Cache, s.c, Names) /\ TdefsStay(Cache, s.c)
        /\ s.t # None /\ s.t = Type(s.t.idx, 0)
        /\ Fit(s.c, scope.tags, done, ndecl, s.t, Type(MeansStruct(t), 0))
    BY <1>2, <2>2, <2>3, StructMeans
  <2>5. r = [c |-> d, t |-> s.t]
    BY <1>7, <2>4 DEF GetTypedef
  <2>6. CacheOK(d)
    <3>1. Keeps(Cache, r.c)
      BY Zenon, <1>2, GetTypedefKeeps, TypesAssumption
    <3>2. r.c = d
      BY <2>5
    <3>3. QED
      BY <3>1, <3>2 DEF Keeps
  <2>7. s.t \in Types
    <3>1. TRUE \in BOOLEAN
      OBVIOUS
    <3>2. s.t \in Types \cup {None}
      BY Zenon, <1>2, <2>2, <3>1, GetStructKeeps, TypesAssumption
    <3>3. QED
      BY <2>4, <3>2
  <2> HIDE DEF s
  <2>8. s.c \in Caches /\ s.c.age \in Nat /\ Sound(s.c)
    BY <2>4 DEF Sustains, Sound, CacheOK, Caches
  <2>9. /\ f \in Entries /\ f.kind = "typedef" /\ f.name = n /\ f.rtype = s.t /\ ~IsStruct(f)
    <3>1. n \in Indexes
      BY DEF Indexes
    <3>2. QED
      BY <2>7, <2>8, <3>1 DEF Entry, Entries, Kinds, IsStruct
  <2>10. Adds(s.c, d, f)
    BY Zenon, <2>8, <2>9, AddstIs
  <2> HIDE DEF f, d
  <2>11. d.st = s.c.st \cup {f}
    BY <2>10 DEF Adds
  <2>12. ImageOK(d)
    <3>1. s.t.ref = 0
      BY <2>4 DEF Type
    <3>2. QED
      BY <2>1, <2>8, <2>9, <2>11, <3>1 DEF Sound, ImageOK
  <2>13. Sustains(s.c, d, Names)
    BY <2>6, <2>8, <2>9, <2>11, <2>12, SameStructs
  <2>14. TagsOK(s.c, scope.tags, done, ndecl)
    BY <1>2, <2>4, SustainsFit
  <2>15. Fit(d, scope.tags, done, ndecl, s.t, Type(MeansStruct(t), 0))
    BY <1>2, <2>4, <2>13, <2>14, SustainsFit
  <2>16. MeansTypedef(n) = Type(MeansStruct(t), 0)
    BY <2>1, <2>2 DEF MeansTypedef
  <2>17. TdefsStay(Cache, d)
    <3>1. ASSUME NEW m, Named(Cache.st, m, "typedef") # {}
          PROVE  Named(d.st, m, "typedef") = Named(Cache.st, m, "typedef")
      <4>1. m # n
        BY <1>1, <1>7, <3>1
      <4>2. Named(s.c.st, m, "typedef") = Named(Cache.st, m, "typedef")
        BY <2>4, <3>1 DEF TdefsStay
      <4>3. QED
        BY <2>9, <2>11, <4>1, <4>2 DEF Named
    <3>2. QED
      BY <3>1 DEF TdefsStay
  <2>18. QED
    BY <2>4, <2>5, <2>13, <2>15, <2>16, <2>17, SustainsTransitive
<1>8. QED
  BY <1>4, <1>5, <1>6, <1>7

-----------------------------------------------------------------------------
(* The steps.                                                              *)

LEMMA MInvInit == ASSUME Init PROVE MInv
<1>1. IInv
  BY InitIInv, TypesAssumption
<1>2. /\ Cache.st = {} /\ scope = NoScope /\ ndecl = 0 /\ done = {} /\ uses = {}
      /\ open = << >> /\ got = None
  BY DEF Init, Cache
<1>3. Sound(Cache)
  BY <1>1, <1>2 DEF IInv, Sound, ImageOK, AgesApart
<1>4. AllFit(Cache, scope.tags, done, ndecl, uses, scope.tdefs)
  BY <1>2 DEF AllFit, TagsOK, NoScope
<1>5. QED
  BY <1>1, <1>2, <1>3, <1>4 DEF MInv

\* What the steps begin with.
LEMMA MInvGives ==
    ASSUME MInv
    PROVE  /\ Sound(Cache) /\ CacheOK(Cache) /\ Cache.st = slist /\ Cache.next = nextidx
           /\ scope = [tags |-> scope.tags, tdefs |-> scope.tdefs]
           /\ scope.tags \in [Names -> Nat \cup {None}]
           /\ ndecl \in Nat /\ done \in SUBSET (1..ndecl)
           /\ AllFit(Cache, scope.tags, done, ndecl, uses, scope.tdefs)
           /\ TagsOK(Cache, scope.tags, done, ndecl)
BY DEF MInv, Sound, Cache, IInv, ScopeOK, Rest, AllFit

LEMMA CacheStep == ASSUME NEW d, Sound(d), Becomes(d) PROVE Cache' = d
BY BecomesIs DEF Sound, CacheOK

\* A step that keeps what there is and, perhaps, gives the parser a type.
LEMMA MInvStep ==
    ASSUME MInv, IInv', NEW d, Becomes(d), Sound(d),
           AllFit(d, scope'.tags, done', ndecl', uses, scope'.tdefs),
           done' \subseteq 1..ndecl',
           \A k \in DOMAIN open' : scope'.tags[open'[k]] # None,
           \/ got' = None /\ uses' = uses
           \/ got' = got /\ uses' = uses
           \/ \E t, w : /\ Given(t, w)
                        /\ Fit(d, scope'.tags, done', ndecl', t, w)
    PROVE  MInv'
<1>1. Cache' = d
  BY CacheStep
<1>2. (got' # None => got' \in uses')
      /\ AllFit(d, scope'.tags, done', ndecl', uses', scope'.tdefs)
  <2>1. CASE uses' = uses
    <3>1. (got' # None => got' \in uses')
      BY <2>1 DEF MInv, Given
    <3>2. QED
      BY <2>1, <3>1
  <2>2. CASE \E t, w : Given(t, w) /\ Fit(d, scope'.tags, done', ndecl', t, w)
    <3>1. PICK t, w : Given(t, w) /\ Fit(d, scope'.tags, done', ndecl', t, w)
      BY <2>2
    <3>2. /\ got' = [type |-> t, want |-> w]
          /\ uses' = uses \cup {[type |-> t, want |-> w]}
      BY <3>1 DEF Given
    <3>3. QED
      BY <3>1, <3>2 DEF AllFit
  <2>3. QED
    BY <2>1, <2>2
<1>3. QED
  BY <1>1, <1>2 DEF MInv

LEMMA BeginLoadMInv == ASSUME MInv, BeginLoad PROVE MInv'
<1>1. IInv'
  BY BeginLoadIInv, TypesAssumption DEF MInv
<1>2. Becomes(Cache)
  BY DEF BeginLoad, Becomes, Cache
<1>3. QED
  BY <1>1, <1>2, MInvStep DEF BeginLoad, MInv

LEMMA ReadNameMInv ==
    ASSUME Faults = {}, \A n \in DOMAIN Typedefs : Typedefs[n].ref = 0,
           MInv, NEW n \in Names, ReadName(n)
    PROVE  MInv'
<1> DEFINE r == GetTypedef(Cache, n)
<1>1. IInv'
  BY ReadNameIInv, TypesAssumption DEF MInv
<1>2. /\ Becomes(r.c) /\ UNCHANGED <<open, scope, ndecl, done>>
      /\ r.t = None => got' = None /\ UNCHANGED uses
      /\ r.t # None => Given(r.t, MeansTypedef(n))
  BY DEF ReadName
<1>3. /\ Sustains(Cache, r.c, Names) /\ TdefsStay(Cache, r.c)
      /\ r.t # None => Fit(r.c, scope.tags, done, ndecl, r.t, MeansTypedef(n))
  <2>1. PlainName(n)
    BY DEF ReadName
  <2>2. QED
    BY Zenon, <2>1, TypedefMeans
<1> HIDE DEF r
<1>4. AllFit(r.c, scope.tags, done, ndecl, uses, scope.tdefs) /\ Sound(r.c)
  BY <1>3, MInvGives, SustainsAll DEF Sustains
<1>5. \/ got' = None /\ uses' = uses
      \/ \E t, w : Given(t, w) /\ Fit(r.c, scope.tags, done, ndecl, t, w)
  BY <1>2, <1>3
<1>6. QED
  BY <1>1, <1>2, <1>4, <1>5, MInvStep DEF MInv

LEMMA AccessMemberMInv ==
    ASSUME Faults = {}, MInv, NEW u \in uses, AccessMember(u) PROVE MInv'
<1> DEFINE e == eppic_getstbyindex(Cache.st, u.type.idx)
           d == eppic_getm(Cache, u.type)
<1>1. IInv'
  BY AccessMemberIInv, TypesAssumption DEF MInv
<1>2. /\ Becomes(d) /\ UNCHANGED <<open, got, scope, ndecl, done, uses>>
      /\ e # None /\ e.stm = None /\ ~IsLocal(e) => PlainFill(slist, e.idx)
  BY MInvGives DEF AccessMember
<1>3. Sustains(Cache, d, Names) /\ TdefsStay(Cache, d)
  <2>1. CASE e = None \/ e.stm # None
    BY <2>1, MInvGives, SustainsItself DEF eppic_getm
  <2>2. CASE e # None /\ e.stm = None
    <3>1. e \in Cache.st /\ IsStruct(e)
      BY <2>2, MInvGives, IndexFinds, TypesAssumption DEF Indexed, IsStruct
    <3>2. ~IsLocal(e) =>
              \A m \in Mentions[e.idx] \ {e.idx} :
                 Indexed(Cache.st, m) # {} \/ Named(Cache.st, m, "struct") = {}
      BY <1>2, <2>2, MInvGives DEF PlainFill
    <3>3. d = eppic_fillst(Cache, e)
      BY <2>2 DEF eppic_getm
    <3> HIDE DEF e, d
    <3>4. QED
      BY <3>1, <3>2, <3>3, MInvGives, FillSustains
  <2>3. QED
    BY <2>1, <2>2
<1> HIDE DEF d
<1>4. AllFit(d, scope.tags, done, ndecl, uses, scope.tdefs) /\ Sound(d)
  BY <1>3, MInvGives, SustainsAll DEF Sustains
<1>5. QED
  BY <1>1, <1>2, <1>4, MInvStep DEF MInv

\* The file's meanings go, and what was given before keeps its own.
LEMMA EndLoadMInv == ASSUME MInv, EndLoad PROVE MInv'
<1> DEFINE d == eppic_flushtdefs(Cache, tag)
           T == scope'.tags
<1>1. IInv'
  BY EndLoadIInv, TypesAssumption DEF MInv
<1>2. /\ Becomes(d) /\ UNCHANGED <<ndecl, done, uses>>
      /\ open' = << >> /\ got' = None /\ scope' = NoScope
  BY DEF EndLoad
<1>3. CacheOK(d)
  BY MInvGives, FlushIs
<1>4. d.st = {e \in Cache.st : ~(LocalTypedef(e) /\ e.age > tag)}
  BY MInvGives DEF eppic_flushtdefs, CacheOK, Caches
<1> HIDE DEF d
<1>5. ImageOK(d) /\ \A e : IsStruct(e) => (e \in d.st <=> e \in Cache.st)
  BY <1>4, MInvGives DEF Sound, ImageOK, IsStruct, LocalTypedef
<1>6. Sustains(Cache, d, Names)
  BY <1>3, <1>5, MInvGives, SameStructs
<1>7. (\A n \in Names : T[n] = None) /\ scope'.tdefs = << >>
  BY <1>2 DEF NoScope
<1> HIDE DEF T
<1>8. ASSUME NEW u \in uses PROVE Fit(d, T, done, ndecl, u.type, u.want)
  <2>1. Fit(Cache, scope.tags, done, ndecl, u.type, u.want)
    BY MInvGives DEF AllFit
  <2>2. Meant(d, done, u.type.idx, u.want.idx)
    BY <1>6, <2>1, SustainsMeant DEF Fit
  <2>3. u.want.idx # None
    BY <2>1, TypesAssumption DEF Fit
  <2>4. Bound(d, T, u.type.idx, u.want.idx)
    BY <1>7, <2>3 DEF Bound
  <2>5. QED
    BY <2>1, <2>2, <2>4 DEF Fit
<1>9. AllFit(d, T, done, ndecl, uses, scope'.tdefs)
  BY <1>7, <1>8 DEF AllFit, TagsOK
<1>10. \A k \in DOMAIN open' : scope'.tags[open'[k]] # None
  BY <1>2
<1>11. QED
  BY <1>1, <1>2, <1>6, <1>9, <1>10, MInvStep DEF MInv, T, Sustains

\* The scanner's look at the name: what was given and declared stays.
LEMMA NameRead ==
    ASSUME Faults = {}, \A n \in DOMAIN Typedefs : Typedefs[n].ref = 0,
           MInv, NEW n \in Names, PlainName(n)
    PROVE  LET c == GetTypedef(Cache, n).c
           IN  /\ Sound(c) /\ c.next = nextidx
               /\ AllFit(c, scope.tags, done, ndecl, uses, scope.tdefs)
               /\ TagsOK(c, scope.tags, done, ndecl)
<1> DEFINE c == GetTypedef(Cache, n).c
<1>1. Sustains(Cache, c, Names) /\ TdefsStay(Cache, c)
  BY Zenon, TypedefMeans
<1>2. c.next = nextidx
  BY MInvGives, GetTypedefKeeps, TypesAssumption
<1> HIDE DEF c
<1>3. AllFit(c, scope.tags, done, ndecl, uses, scope.tdefs) /\ Sound(c)
  BY <1>1, MInvGives, SustainsAll DEF Sustains
<1>4. QED
  BY <1>2, <1>3 DEF c, AllFit

\* Of a tag that gets its meaning now, what is open still has one.
LEMMA OpenMeant ==
    ASSUME MInv, NEW n \in Names
    PROVE  LET T == [scope.tags EXCEPT ![n] = ndecl + 1]
           IN  T[n] # None /\ \A k \in DOMAIN open : open[k] \in Names /\ T[open[k]] # None
<1>1. \A k \in DOMAIN open : open[k] \in Names
  BY DEF MInv, IInv, Rest
<1>2. ndecl + 1 # None
  BY MInvGives, TypesAssumption
<1>3. QED
  BY <1>1, <1>2, MInvGives DEF MInv

LEMMA NewtypeMInv ==
    ASSUME Faults = {}, \A n \in DOMAIN Typedefs : Typedefs[n].ref = 0,
           MInv, NEW n \in Names, eppic_newctype(n)
    PROVE  MInv'
<1> DEFINE c == GetTypedef(Cache, n).c
           e == TagEntry(c, n)
           r == GetStruct(c, n, FALSE)
           w == MeansStruct(n)
           T == scope.tags
           U == [scope.tags EXCEPT ![n] = ndecl + 1]
<1>1. IInv'
  BY NewctypeIInv, TypesAssumption DEF MInv
<1>2. /\ PlainName(n) /\ nextidx < MaxIdx /\ PlainStruct(c.st, n)
      /\ Becomes(r.c) /\ Given(r.t, Type(w, 0)) /\ UNCHANGED <<open, done>>
      /\ w = ndecl + 1 => ndecl' = ndecl + 1 /\ scope' = [scope EXCEPT !.tags[n] = ndecl + 1]
      /\ w # ndecl + 1 => UNCHANGED <<ndecl, scope>>
  BY DEF eppic_newctype
<1>3. /\ Sound(c) /\ c.next = nextidx /\ TagsOK(c, T, done, ndecl)
      /\ AllFit(c, T, done, ndecl, uses, scope.tdefs)
  BY Zenon, <1>2, NameRead
<1> HIDE DEF c
<1>4. \/ Named(c.st, n, "struct") = {} /\ e = None
      \/ IsStruct(e) /\ e \in c.st /\ e.name = n /\ e # None
  BY <1>3, TagFinds
<1>5. CASE e # None \/ n \in Structs
  <2>1. FALSE \in BOOLEAN
    OBVIOUS
  <2>2. /\ Sustains(c, r.c, Names) /\ TdefsStay(c, r.c)
        /\ Fit(r.c, T, done, ndecl, r.t, Type(w, 0))
    BY Zenon, <1>2, <1>3, <1>5, <2>1, StructMeans
  <2> HIDE DEF r
  <2>3. AllFit(r.c, T, done, ndecl, uses, scope.tdefs) /\ Sound(r.c)
    BY <1>3, <2>2, MInvGives, SustainsAll DEF Sustains
  <2>4. w # ndecl + 1
    <3>1. CASE T[n] # None
      <4>1. T[n] \in 1..ndecl /\ w = T[n]
        BY <1>3, <3>1 DEF TagsOK, TagOK, MeansStruct
      <4>2. QED
        BY <4>1, MInvGives
    <3>2. CASE T[n] = None
      <4>1. n \in Structs
        <5>1. CASE e # None
          <6>1. ~IsLocal(e)
            BY <1>2, <3>2, <5>1 DEF PlainStruct, PlainTag, TagEntry
          <6>2. QED
            BY <1>3, <1>4, <5>1, <6>1 DEF Sound, CacheOK, GoodEntry, IsStruct
        <5>2. QED
          BY <1>5, <5>1
      <4>2. w = n /\ n \notin Nat
        BY <3>2, <4>1, TypesAssumption DEF MeansStruct
      <4>3. QED
        BY <4>2, MInvGives
    <3>3. QED
      BY <3>1, <3>2
  <2>5. UNCHANGED <<ndecl, scope>>
    BY <1>2, <2>4
  <2> HIDE DEF w
  <2>6. \E t, v : Given(t, v) /\ Fit(r.c, scope'.tags, done', ndecl', t, v)
    BY <1>2, <2>2, <2>5
  <2>7. QED
    BY <1>1, <1>2, <2>3, <2>5, <2>6, MInvStep DEF MInv
<1>6. CASE e = None /\ n \notin Structs
  <2> DEFINE d == NewPartial(c, n)
             f == TagEntry(d, n)
  <2>1. r = [c |-> d, t |-> Type(c.next, 0)]
    BY <1>6 DEF GetStruct, apigetctype, eppic_partialctype, TagEntry
  <2>2. T[n] = None
    BY <1>3, <1>6 DEF TagsOK, TagOK
  <2>3. w = ndecl + 1
    BY <1>6, <2>2 DEF MeansStruct
  <2> DEFINE S == Names \ {n}
  <2>4. /\ Sustains(c, d, S) /\ TdefsStay(c, d)
        /\ f \in d.st /\ IsStruct(f) /\ IsLocal(f) /\ f.idx = c.next /\ ~f.all
    <3>1. c.next < MaxIdx /\ n \notin S
      BY <1>2, <1>3
    <3> HIDE DEF S
    <3>2. QED
      BY Zenon, <1>3, <3>1, NewPartialSustains
  <2> HIDE DEF d
  <2>5. /\ AllFit(d, U, done, ndecl + 1, uses, scope.tdefs)
        /\ Fit(d, U, done, ndecl + 1, Type(f.idx, 0), Type(ndecl + 1, 0))
    BY <1>3, <2>4, MInvGives, NewMeaningAll
  <2>6. /\ scope'.tags = U /\ scope'.tdefs = scope.tdefs /\ ndecl' = ndecl + 1
        /\ done' \subseteq 1..ndecl'
    BY <1>2, <2>3, MInvGives
  <2>7. r.c = d /\ r.t = Type(f.idx, 0)
    <3> HIDE DEF f, r
    <3>1. QED
      BY <2>1, <2>4
  <2>8. \A k \in DOMAIN open : U[open[k]] # None
    BY Zenon, OpenMeant
  <2> HIDE DEF r, U, w, f
  <2>9. \E t, v : Given(t, v) /\ Fit(d, scope'.tags, done', ndecl', t, v)
    BY <1>2, <2>3, <2>5, <2>6, <2>7
  <2>10. /\ AllFit(d, scope'.tags, done', ndecl', uses, scope'.tdefs)
         /\ \A k \in DOMAIN open' : scope'.tags[open'[k]] # None
    BY <1>2, <2>5, <2>6, <2>8
  <2>11. Sound(d) /\ Becomes(d)
    BY <1>2, <2>4, <2>7 DEF Sustains
  <2>12. QED
    BY <1>1, <2>6, <2>9, <2>10, <2>11, MInvStep
<1>7. QED
  BY <1>5, <1>6

LEMMA BeginStructMInv ==
    ASSUME Faults = {}, \A n \in DOMAIN Typedefs : Typedefs[n].ref = 0,
           MInv, NEW n \in Names, BeginStruct(n)
    PROVE  MInv'
<1> DEFINE c == GetTypedef(Cache, n).c
           e == TagEntry(c, n)
           d == eppic_startctype(c, n)
           f == TagEntry(d, n)
           T == scope.tags
           U == [scope.tags EXCEPT ![n] = ndecl + 1]
           again == T[n] # None /\ T[n] \notin done
<1>1. IInv'
  BY BeginStructIInv, TypesAssumption DEF MInv
<1>2. /\ PlainName(n) /\ nextidx < MaxIdx /\ (e # None => e.all \/ IsLocal(e))
      /\ Becomes(d) /\ open' = Append(open, n) /\ got' = None /\ UNCHANGED <<done, uses>>
      /\ ~again => ndecl' = ndecl + 1 /\ scope' = [scope EXCEPT !.tags[n] = ndecl + 1]
      /\ again => UNCHANGED <<ndecl, scope>>
  BY DEF BeginStruct, TagEntry
<1>3. /\ Sound(c) /\ c.next = nextidx /\ TagsOK(c, T, done, ndecl)
      /\ AllFit(c, T, done, ndecl, uses, scope.tdefs)
  BY Zenon, <1>2, NameRead
<1> HIDE DEF c
<1>4. d = IF e = None \/ e.all THEN NewPartial(c, n) ELSE c
  BY DEF eppic_startctype, eppic_partialctype, TagEntry
<1>5. again => e # None /\ ~e.all
  BY <1>3 DEF TagsOK, TagOK
<1>6. CASE again
  <2>1. d = c /\ UNCHANGED <<ndecl, scope>>
    BY <1>2, <1>4, <1>5, <1>6
  <2> HIDE DEF d
  <2>2. \A k \in DOMAIN open' : T[open'[k]] # None
    BY <1>2, <1>6 DEF MInv, IInv, Rest
  <2>3. QED
    BY <1>1, <1>2, <1>3, <2>1, <2>2, MInvStep DEF MInv
<1>7. CASE ~again
  <2> DEFINE S == Names \ {n}
  <2>1. /\ Sustains(c, d, S) /\ TdefsStay(c, d)
        /\ f \in d.st /\ IsStruct(f) /\ IsLocal(f) /\ ~f.all
    <3>1. CASE e = None \/ e.all
      <4>1. c.next < MaxIdx /\ n \notin S
        BY <1>2, <1>3
      <4> DEFINE g == NewPartial(c, n)
      <4>2. /\ Sustains(c, g, S) /\ TdefsStay(c, g)
            /\ TagEntry(g, n) \in g.st /\ IsStruct(TagEntry(g, n))
            /\ IsLocal(TagEntry(g, n)) /\ ~TagEntry(g, n).all
        <5> HIDE DEF S
        <5>1. QED
          BY Zenon, <1>3, <4>1, NewPartialSustains
      <4>3. d = g
        BY <1>4, <3>1
      <4> HIDE DEF d, g, S
      <4>4. QED
        BY <4>2, <4>3
    <3>2. CASE e # None /\ ~e.all
      <4>1. d = c /\ f = e
        BY <1>4, <3>2
      <4>2. e \in c.st /\ IsStruct(e)
        BY <1>3, <3>2, TagFinds
      <4>3. IsLocal(e)
        BY <1>2, <3>2
      <4> HIDE DEF d, f, S
      <4>4. QED
        BY <1>3, <3>2, <4>1, <4>2, <4>3, SustainsItself
    <3>3. QED
      BY <3>1, <3>2
  <2> HIDE DEF d
  <2>2. AllFit(d, U, done, ndecl + 1, uses, scope.tdefs)
    BY <1>3, <2>1, MInvGives, NewMeaningAll
  <2>3. /\ scope'.tags = U /\ scope'.tdefs = scope.tdefs /\ ndecl' = ndecl + 1
        /\ done' \subseteq 1..ndecl'
    BY <1>2, <1>7, MInvGives
  <2>4. U[n] # None /\ \A k \in DOMAIN open : U[open[k]] # None
    BY Zenon, OpenMeant
  <2> HIDE DEF U, f
  <2>5. \A k \in DOMAIN open' : U[open'[k]] # None
    BY <1>2, <2>4 DEF MInv, IInv, Rest
  <2>6. QED
    BY <1>1, <1>2, <2>1, <2>2, <2>3, <2>5, MInvStep DEF Sustains
<1>8. QED
  BY <1>6, <1>7

\* The struct that ends is the one its tag finds, so of all that was given only the
\* uses of this declaration change, and they become complete.
LEMMA EndStructMInv == ASSUME MInv, EndStruct PROVE MInv'
<1> DEFINE n == Last(open)
           e == TagEntry(Cache, n)
           T == scope.tags
           m == T[n]
           f == [e EXCEPT !.stm = m, !.all = TRUE]
           d == Declared(Cache, e, m)
           D == done \cup {m}
<1>1. IInv'
  BY EndStructIInv, TypesAssumption DEF MInv
<1>2. /\ open # << >> /\ e # None /\ ~e.all /\ Becomes(d) /\ done' = D
      /\ Given(Type(e.idx, 0), Type(m, 0)) /\ open' = Front(open)
      /\ UNCHANGED <<scope, ndecl>>
  BY MInvGives DEF EndStruct, TagEntry
<1>3. /\ open \in Seq(Names) /\ n \in Names /\ T[n] # None
      /\ \A k \in DOMAIN Front(open) : T[Front(open)[k]] # None
  <2>1. open \in Seq(Names) /\ open # << >> /\ \A k \in DOMAIN open : T[open[k]] # None
    BY <1>2 DEF MInv, IInv, Rest
  <2>2. Len(open) \in DOMAIN open /\ Last(open) = open[Len(open)]
    BY <2>1 DEF Last
  <2>3. \A k \in DOMAIN Front(open) : k \in DOMAIN open /\ Front(open)[k] = open[k]
    BY <2>1 DEF Front
  <2>4. QED
    BY <2>1, <2>2, <2>3
<1> HIDE DEF n
<1>4. /\ e \in Cache.st /\ IsStruct(e) /\ e.name = n /\ e \in Entries
      /\ \A g \in Cache.st : IsStruct(g) /\ g.name = n => g.age <= e.age
  BY <1>2, MInvGives, TagFinds
<1>5. /\ IsLocal(e) /\ m \in 1..ndecl /\ m \notin done
      /\ \A k \in Names : T[k] = m => k = n
  BY <1>2, <1>3, MInvGives DEF TagsOK, TagOK
<1>6. m \notin Names /\ m # None
  BY <1>3, <1>5, TypesAssumption
<1> HIDE DEF e
<1>7. /\ IsStruct(f) /\ IsLocal(f) /\ f.idx = e.idx /\ f.name = n /\ f.age = e.age
      /\ f.all /\ f.stm = m /\ f.kind = e.kind
  BY <1>4, <1>5 DEF Entries, IsStruct, IsLocal
<1>8. d.st = (Cache.st \ {e}) \cup {f}
  BY MInvGives DEF Declared, CacheOK, Caches
<1>9. CacheOK(d)
  <2>1. m \in Nat \cup {None}
    BY <1>5
  <2>2. Keeps(Cache, d)
    BY <1>4, <2>1, MInvGives, DeclaredKeeps, TypesAssumption DEF IsStruct
  <2>3. QED
    BY <2>2 DEF Keeps
<1> HIDE DEF f, d
<1>10. Sound(d)
  <2>1. ImageOK(d)
    BY <1>7, <1>8, MInvGives DEF Sound, ImageOK
  <2>2. AgesApart(d)
    <3>1. \A g \in Cache.st : IsStruct(g) /\ g.name = n /\ g.age = e.age => g = e
      BY <1>4, MInvGives DEF Sound, AgesApart
    <3>2. QED
      BY <1>7, <1>8, <3>1, MInvGives DEF Sound, AgesApart
  <2>3. QED
    BY <1>9, <2>1, <2>2 DEF Sound
<1>11. TagEntry(d, n) = f
  <2>1. \A g \in d.st : IsStruct(g) /\ g.name = n => g.age <= f.age
    <3>1. f.age <= f.age
      BY <1>4, <1>7 DEF Entries
    <3>2. QED
      BY <1>4, <1>7, <1>8, <3>1
  <2>2. f \in d.st
    BY <1>8
  <2>3. QED
    BY <1>7, <1>10, <2>1, <2>2, TagEntryIs
<1>12. ASSUME NEW k \in Names \ {n} PROVE TagEntry(d, k) = TagEntry(Cache, k)
  <2>1. Named(d.st, k, "struct") = Named(Cache.st, k, "struct")
    BY <1>4, <1>7, <1>8 DEF Named
  <2>2. QED
    BY <2>1 DEF TagEntry, eppic_getst
<1>13. TagsOK(d, T, D, ndecl)
  <2>1. TagOK(d, T, D, ndecl, n)
    <3>1. f # None
      BY <1>8, <1>10, TypesAssumption DEF Sound, CacheOK, Caches
    <3>2. QED
      BY <1>5, <1>7, <1>11, <3>1 DEF TagOK
  <2>2. ASSUME NEW k \in Names \ {n}, T[k] # None PROVE TagOK(d, T, D, ndecl, k)
    <3>1. TagOK(Cache, T, done, ndecl, k) /\ T[k] # m
      BY <1>5, <2>2, MInvGives DEF TagsOK
    <3>2. QED
      BY <1>12, <3>1 DEF TagOK
  <2>3. QED
    BY <2>1, <2>2 DEF TagsOK
<1>14. ASSUME NEW t, NEW w, Fit(Cache, T, done, ndecl, t, w)
       PROVE  Fit(d, T, D, ndecl, t, w)
  <2>1. Bound(Cache, T, t.idx, w.idx) /\ Meant(Cache, done, t.idx, w.idx)
    BY <1>14 DEF Fit
  <2>2. Meant(d, D, t.idx, w.idx)
    <3>1. CASE w.idx = m
      <4>1. f.idx = t.idx
        BY <1>3, <1>7, <2>1, <3>1 DEF Bound, e
      <4>2. QED
        BY <1>6, <1>7, <1>8, <3>1, <4>1 DEF Meant
    <3>2. CASE w.idx # m
      <4>1. PICK g \in Cache.st :
              /\ IsStruct(g) /\ g.idx = t.idx
              /\ IF w.idx \in Names THEN w.idx = t.idx /\ g.all
                 ELSE IsLocal(g) /\ (w.idx \in done => g.all /\ g.stm = w.idx)
        BY <2>1 DEF Meant
      <4>2. CASE g = e
        BY <1>2, <1>7, <1>8, <3>2, <4>1, <4>2 DEF Meant
      <4>3. CASE g # e
        BY <1>8, <3>2, <4>1, <4>3 DEF Meant
      <4>4. QED
        BY <4>2, <4>3
    <3>3. QED
      BY <3>1, <3>2
  <2>3. ASSUME NEW k \in Names, T[k] = w.idx PROVE TagEntry(d, k).idx = t.idx
    <3>1. TagEntry(Cache, k).idx = t.idx
      BY <2>1, <2>3 DEF Bound
    <3>2. CASE k = n
      BY <1>7, <1>11, <3>1, <3>2 DEF e
    <3>3. CASE k # n
      BY <1>12, <3>1, <3>3
    <3>4. QED
      BY <3>2, <3>3
  <2>4. QED
    BY <1>14, <2>2, <2>3 DEF Fit, Bound
<1>15. TdefsStay(Cache, d)
  BY <1>4, <1>7, <1>8 DEF TdefsStay, Named, IsStruct
<1>16. AllFit(d, T, D, ndecl, uses, scope.tdefs)
  BY <1>13, <1>14, <1>15, TdefSame, MInvGives DEF AllFit
<1>17. Fit(d, T, D, ndecl, Type(e.idx, 0), Type(m, 0))
  <2>1. Meant(d, D, e.idx, m) /\ Bound(d, T, e.idx, m)
    BY <1>5, <1>6, <1>7, <1>8, <1>11 DEF Meant, Bound
  <2>2. QED
    BY <1>5, <2>1 DEF Fit, Type
<1> HIDE DEF m, D
<1>18. D \subseteq 1..ndecl
  BY <1>5, MInvGives DEF D
<1>19. \E t, w : Given(t, w) /\ Fit(d, scope'.tags, done', ndecl', t, w)
  BY <1>2, <1>17
<1>20. QED
  BY <1>1, <1>2, <1>3, <1>10, <1>16, <1>18, <1>19, MInvStep

\* The typedef that is declared is the youngest of its name.
LEMMA DeclareTypedefMInv ==
    ASSUME MInv, NEW n \in Names, NEW ref \in 0..1, DeclareTypedef(n, ref) PROVE MInv'
<1> DEFINE t == [got.type EXCEPT !.ref = @ + ref]
           w == Type(got.want.idx, got.want.ref + ref)
           d == eppic_tdef_decl(Cache, n, t)
           e == Entry("typedef", n, Cache.next, FALSE, None, t, Cache.age + 1)
           T == scope.tags
           V == [m \in DOMAIN scope.tdefs \cup {n} |->
                    IF m = n THEN w ELSE scope.tdefs[m]]
<1>1. IInv'
  BY DeclareTypedefIInv, TypesAssumption DEF MInv
<1>2. /\ got # None /\ nextidx < MaxIdx /\ Becomes(d)
      /\ scope' = [scope EXCEPT !.tdefs = V]
      /\ UNCHANGED <<open, got, ndecl, done, uses>>
  BY DEF DeclareTypedef
<1>3. /\ got.type \in Types /\ got \in uses
      /\ Fit(Cache, T, done, ndecl, got.type, got.want)
  BY <1>2, MInvGives DEF MInv, IInv, Rest, AllFit
<1>4. t \in Types /\ t.idx = got.type.idx /\ t.ref = got.type.ref + ref
  <2>1. got.type.ref + ref <= 1
    BY DEF DeclareTypedef
  <2>2. got.type.ref + ref \in 0..1
    BY <1>3, <2>1 DEF Types
  <2>3. QED
    BY <1>3, <2>2 DEF Types
<1> HIDE DEF t
<1>5. CacheOK(d)
  BY <1>2, <1>4, MInvGives, TdefDeclared, TypesAssumption
<1>6. d.st = Cache.st \cup {e}
  BY MInvGives DEF eppic_tdef_decl, eppic_addst, CacheOK, Caches
<1>7. /\ e.kind = "typedef" /\ e.name = n /\ e.rtype = t /\ e.age = Cache.age + 1
      /\ ~IsStruct(e) /\ IsLocal(e)
  BY MInvGives DEF Entry, IsStruct, IsLocal, CacheOK, Caches
<1> HIDE DEF d, e
<1>8. Sustains(Cache, d, Names)
  <2>1. ImageOK(d)
    BY <1>6, <1>7, MInvGives DEF Sound, ImageOK
  <2>2. QED
    BY <1>5, <1>6, <1>7, <2>1, MInvGives, SameStructs
<1>9. /\ TagsOK(d, T, done, ndecl)
      /\ \A x, y : Fit(Cache, T, done, ndecl, x, y) => Fit(d, T, done, ndecl, x, y)
  BY <1>8, MInvGives, SustainsFit
<1>10. eppic_getst(d.st, n, "typedef") = e /\ Named(d.st, n, "typedef") # {}
  <2> DEFINE x == eppic_getst(d.st, n, "typedef")
  <2>1. e \in Named(d.st, n, "typedef")
    BY <1>6, <1>7 DEF Named
  <2>2. x \in Named(d.st, n, "typedef") /\ e.age <= x.age
    BY <1>5, <2>1, GetstFinds, TypesAssumption
  <2>3. x = e \/ x \in Cache.st
    BY <1>6, <2>2 DEF Named
  <2>4. \A f \in Cache.st : f.age \in Nat /\ f.age <= Cache.age /\ Cache.age \in Nat
    BY MInvGives DEF CacheOK, Caches, GoodEntry, Entries
  <2> HIDE DEF x
  <2>5. x = e
    BY <1>7, <2>2, <2>3, <2>4
  <2>6. QED
    BY <2>1, <2>5 DEF x
<1>11. Fit(d, T, done, ndecl, t, w)
  <2>1. Fit(d, T, done, ndecl, got.type, got.want)
    BY <1>3, <1>9
  <2>2. got.want.ref = got.type.ref /\ w.idx = got.want.idx
    BY <2>1 DEF Fit, Type
  <2>3. w = Type(w.idx, t.ref)
    BY <1>4, <2>2
  <2> HIDE DEF w
  <2>4. QED
    BY <1>4, <2>1, <2>2, <2>3 DEF Fit
<1>12. ASSUME NEW m \in DOMAIN V
       PROVE  /\ Named(d.st, m, "typedef") # {}
              /\ Fit(d, T, done, ndecl, eppic_getst(d.st, m, "typedef").rtype, V[m])
  <2>1. CASE m = n
    BY <1>7, <1>10, <1>11, <2>1
  <2>2. CASE m # n
    <3>1. m \in DOMAIN scope.tdefs /\ V[m] = scope.tdefs[m]
      BY <2>2
    <3>2. Named(d.st, m, "typedef") = Named(Cache.st, m, "typedef")
      BY <1>6, <1>7, <2>2 DEF Named
    <3>3. QED
      BY <1>9, <3>1, <3>2, MInvGives DEF AllFit, eppic_getst
  <2>3. QED
    BY <2>1, <2>2
<1> HIDE DEF V
<1>13. AllFit(d, T, done, ndecl, uses, V)
  BY <1>9, <1>12, MInvGives DEF AllFit
<1>14. scope'.tags = T /\ scope'.tdefs = V
  BY <1>2, MInvGives
<1>15. QED
  BY <1>1, <1>2, <1>8, <1>13, <1>14, MInvStep DEF MInv, Sustains

LEMMA NextMInv ==
    ASSUME Faults = {}, \A n \in DOMAIN Typedefs : Typedefs[n].ref = 0, MInv, [Next]_vars
    PROVE  MInv'
<1>1. CASE BeginLoad
  BY <1>1, BeginLoadMInv
<1>2. CASE EndLoad
  BY <1>2, EndLoadMInv
<1>3. CASE EndStruct
  BY <1>3, EndStructMInv
<1>4. CASE \E n \in Names : ReadName(n)
  BY <1>4, ReadNameMInv
<1>5. CASE \E n \in Names : eppic_newctype(n)
  BY <1>5, NewtypeMInv
<1>6. CASE \E n \in Names : BeginStruct(n)
  BY <1>6, BeginStructMInv
<1>7. CASE \E n \in Names, ref \in 0..1 : DeclareTypedef(n, ref)
  BY <1>7, DeclareTypedefMInv
<1>8. CASE \E u \in uses : AccessMember(u)
  BY <1>8, AccessMemberMInv
<1>9. CASE UNCHANGED vars
  <2>1. IInv' /\ Cache' = Cache
    BY <1>9, NextIInv, TypesAssumption DEF MInv, vars, Cache
  <2>2. UNCHANGED <<scope, ndecl, done, uses, open, got>>
    BY <1>9 DEF vars
  <2>3. QED
    BY <2>1, <2>2 DEF MInv
<1>10. QED
  BY <1>1, <1>2, <1>3, <1>4, <1>5, <1>6, <1>7, <1>8, <1>9 DEF Next

-----------------------------------------------------------------------------

(***************************************************************************)
(* For every image, every set of names and every order of lookups,         *)
(* declarations, member accesses and loads: a type that the parser was     *)
(* given has, for as long as the program runs, the members of the          *)
(* declaration its name meant where it was read.                           *)
(* The two hypotheses are what the code gets wrong.  Each fault of         *)
(* FaultNames is a step of the code that alone breaks the property, so the *)
(* theorem is about the lookups that meet none; and eppic_getctype drops   *)
(* the references of a typedef of the image, so that of a pointer to a     *)
(* struct would give the struct.                                           *)
(***************************************************************************)
THEOREM TypesStayMeant ==
    ASSUME Faults = {}, \A n \in DOMAIN Typedefs : Typedefs[n].ref = 0
    PROVE  Spec => []TypesKeepMeaning
<1>1. Init => MInv
  BY MInvInit
<1>2. MInv /\ [Next]_vars => MInv'
  BY NextMInv
<1>3. ASSUME MInv PROVE TypesKeepMeaning
  <2>1. SUFFICES ASSUME NEW u \in uses, u.want.idx \in Names \/ u.want.idx \in done
                 PROVE  LET e == eppic_getstbyindex(slist, u.type.idx)
                        IN  /\ u.type.ref = u.want.ref
                            /\ e # None /\ MembersOf(e) = u.want.idx /\ e.all
    BY DEF TypesKeepMeaning
  <2> DEFINE e == eppic_getstbyindex(slist, u.type.idx)
  <2>2. Fit(Cache, scope.tags, done, ndecl, u.type, u.want)
    BY <1>3, MInvGives DEF AllFit
  <2>3. PICK f \in Cache.st :
          /\ IsStruct(f) /\ f.idx = u.type.idx
          /\ IF u.want.idx \in Names THEN u.want.idx = u.type.idx /\ f.all
             ELSE IsLocal(f) /\ (u.want.idx \in done => f.all /\ f.stm = u.want.idx)
    BY <2>2 DEF Fit, Meant
  <2>4. e = f /\ f # None
    <3>1. f \in Indexed(Cache.st, u.type.idx)
      BY <2>3 DEF Indexed, IsStruct
    <3>2. e \in Indexed(Cache.st, u.type.idx) /\ e # None
      BY <1>3, <3>1, MInvGives, IndexFinds, TypesAssumption
    <3> HIDE DEF e
    <3>3. e = f
      BY <1>3, <2>3, <3>2, MInvGives DEF CacheOK, SameIndex, Indexed, IsStruct
    <3>4. QED
      BY <3>2, <3>3
  <2>5. MembersOf(f) = u.want.idx /\ f.all
    <3>1. CASE u.want.idx \in Names
      <4>1. ~IsLocal(f) /\ f.idx = u.want.idx /\ f.all
        BY <2>3, <3>1, TypesAssumption DEF IsLocal
      <4>2. f.stm \in {None, f.idx}
        BY <1>3, <2>3, <4>1, MInvGives DEF Sound, ImageOK
      <4>3. QED
        BY <4>1, <4>2, TypesAssumption DEF MembersOf
    <3>2. CASE u.want.idx \notin Names
      BY <2>1, <2>3, <3>2 DEF MembersOf
    <3>3. QED
      BY <3>1, <3>2
  <2>6. u.type.ref = u.want.ref
    BY <2>2 DEF Fit, Type
  <2> HIDE DEF e
  <2>7. QED
    BY <2>4, <2>5, <2>6 DEF e
<1>4. QED
  BY <1>1, <1>2, <1>3, PTL DEF Spec

=============================================================================
