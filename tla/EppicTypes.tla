----------------------------- MODULE EppicTypes -----------------------------
(***************************************************************************)
(* The cache of struct types and typedefs of eppic_api.c: slist, the list  *)
(* of names the image does not have (nlist), and the lookups, declarations *)
(* and member accesses that fill them while files are parsed and functions *)
(* run.  The image is what crash's callbacks say of it (eppic.c).          *)
(*                                                                         *)
(* slist is a set of entries with the order of their eppic_addst as age;   *)
(* of entries with one name the youngest is found.  An index of the image  *)
(* is an address: here the tag or typedef name that is there.  An index of *)
(* a script's type is a number.  `scope' is no state of the code: it says  *)
(* what the names of the file being parsed mean in C, and `uses' which     *)
(* types the parser was given, each with what it had to be.                *)
(***************************************************************************)
EXTENDS Integers, FiniteSets, Sequences, SequencesExt

CONSTANTS
    Names,       \* identifiers of scripts and of the image
    Structs,     \* the struct tags the image has
    Mentions,    \* per struct of the image, the tags of its members' types
    Typedefs,    \* per typedef of the image, [tag, ref]: the struct it names
    MaxIdx, MaxLoads, MaxOpen,  \* bounds of the exploration
    Faults,
    None, Void

(***************************************************************************)
(* What the cache gets wrong, depending on what was looked up before:      *)
(*   stub      a tag that only members mentioned so far is looked up by    *)
(*             name, or hides a script's own struct of that tag            *)
(*   negative  a typedef of the image whose tag was read as a plain name   *)
(*   stale     a typedef of the image whose tag has changed its meaning    *)
(*             since the typedef was first read                            *)
(*   trailing  a tag that an earlier file declared                         *)
(***************************************************************************)
FaultNames == {"stub", "negative", "stale", "trailing"}

\* The index of a script's type is a number, that of the image's the name there.
Kinds == {"struct", "typedef"}
Indexes == Names \cup (0..MaxIdx - 1)
Types == [idx : Indexes \cup {Void}, ref : 0..1]
Entries ==
    [kind : Kinds, name : Names, idx : Indexes, all : BOOLEAN,
     stm : Names \cup Nat \cup {None}, rtype : Types \cup {None}, age : Nat]

ASSUME TypesAssumption ==
    /\ Structs \subseteq Names /\ \A n \in Names : n \notin Nat
    /\ Mentions \in [Structs -> SUBSET Structs]
    /\ DOMAIN Typedefs \subseteq Names
    /\ \A n \in DOMAIN Typedefs : Typedefs[n] \in [tag : Structs, ref : 0..1]
    /\ MaxIdx \in Nat /\ MaxLoads \in Nat /\ MaxOpen \in Nat
    /\ Faults \subseteq FaultNames
    /\ None \notin Names \cup Nat /\ Void \notin Names \cup Nat
    /\ None \notin Entries \cup Types

VARIABLES
    slist,    \* the stinfo_t: a set of entries
    added,    \* the age of the youngest
    nlist,    \* names that are no typedef of the image
    nextidx,
    tag,      \* the age of the youngest when the load began
    loading,  \* a file is being parsed
    nloads,
    open,     \* tags of the struct declarations being read, innermost last
    got,      \* the type the parser holds, or None
    scope,    \* what the tags and typedefs declared in this file mean
    ndecl,    \* declarations so far: a meaning of a tag
    done,     \* those that are complete
    uses

vars == <<slist, added, nlist, nextidx, tag, loading, nloads, open, got, scope, ndecl,
          done, uses>>

-----------------------------------------------------------------------------
(* The cache.                                                              *)

Type(idx, ref) == [idx |-> idx, ref |-> ref]
Entry(kind, n, idx, all, stm, rtype, age) ==
    [kind |-> kind, name |-> n, idx |-> idx, all |-> all, stm |-> stm,
     rtype |-> rtype, age |-> age]
IsLocal(e) == e.idx \in Nat
LocalTypedef(e) == e.kind = "typedef" /\ IsLocal(e)

Youngest(S) == IF S = {} THEN None ELSE CHOOSE e \in S : \A f \in S : f.age <= e.age

Named(st, n, kind) == {e \in st : e.kind = kind /\ e.name = n}
eppic_getst(st, n, kind) == Youngest(Named(st, n, kind))

\* Of structs only: no typedef's index is a struct's.
Indexed(st, idx) == {e \in st : e.kind = "struct" /\ e.idx = idx}
eppic_getstbyindex(st, idx) == Youngest(Indexed(st, idx))

Cache == [st |-> slist, age |-> added, neg |-> nlist, next |-> nextidx]
eppic_addst(c, kind, n, idx, all, rtype) ==
    [c EXCEPT !.st = @ \cup {Entry(kind, n, idx, all, None, rtype, c.age + 1)},
              !.age = @ + 1]

\* The members of a struct of the image are read, and each struct type of theirs
\* that no entry has is entered: by its tag, and not as complete.
eppic_memstinfo(c, n) ==
    {Entry("struct", t, t, FALSE, None, None, c.age + 1) :
        t \in {u \in Mentions[n] : Indexed(c.st, u) = {}}}
eppic_fillst(c, e) ==
    IF IsLocal(e) THEN c
    ELSE [c EXCEPT !.st = (@ \ {e}) \cup {[e EXCEPT !.stm = e.idx, !.all = TRUE]}
                              \cup eppic_memstinfo(c, e.idx),
                   !.age = @ + 1]

\* crash's apigetctype: a struct of the name hides a typedef of the name.
apigetctype(kind, n) ==
    IF kind = "struct" THEN n \in Structs ELSE n \in DOMAIN Typedefs \ Structs

PartialReusesIndex(c, n) == eppic_addst(c, "struct", n, c.next, FALSE, None)
NewPartial(c, n) ==
    [eppic_addst(c, "struct", n, c.next, FALSE, None) EXCEPT !.next = @ + 1]
eppic_partialctype(c, n) ==
    LET e == eppic_getst(c.st, n, "struct")
    IN  IF e # None /\ ~e.all THEN c ELSE NewPartial(c, n)

\* eppic_getctype of a struct: the cache after it, and the type (None: not found).
StructFromImage(c, n) ==
    LET a == eppic_addst(c, "struct", n, n, TRUE, None)
    IN  eppic_fillst(a, eppic_getst(a.st, n, "struct"))
GetStruct(c, n, silent) ==
    LET e == eppic_getst(c.st, n, "struct")
    IN  IF e # None THEN [c |-> c, t |-> Type(e.idx, 0)]
        ELSE IF silent /\ n \in c.neg THEN [c |-> c, t |-> None]
        ELSE IF apigetctype("struct", n)
             THEN [c |-> StructFromImage(c, n), t |-> Type(n, 0)]
        ELSE IF silent THEN [c |-> c, t |-> None]
        ELSE [c |-> eppic_partialctype(c, n), t |-> Type(c.next, 0)]

\* eppic_getctype of a typedef, which is always silent.  The type is that of the
\* struct it names: the references of the typedef are dropped with t.
GetTypedef(c, n) ==
    LET e == eppic_getst(c.st, n, "typedef")
    IN  IF e # None THEN [c |-> c, t |-> e.rtype]
        ELSE IF n \in c.neg THEN [c |-> c, t |-> None]
        ELSE IF ~apigetctype("typedef", n)
             THEN [c |-> [c EXCEPT !.neg = @ \cup {n}], t |-> None]
        ELSE LET r == GetStruct(c, Typedefs[n].tag, TRUE)
                 t == IF r.t = None THEN Type(Void, 0) ELSE r.t
             IN  [c |-> eppic_addst(r.c, "typedef", n, n, TRUE, t), t |-> t]

eppic_startctype(c, n) ==
    LET e == eppic_getst(c.st, n, "struct")
    IN  IF e = None \/ e.all THEN eppic_partialctype(c, n) ELSE c

\* eppic_ctype_decl, of the entry e: its members are those of declaration d.
DeclaredPartly(c, e, d) == [c EXCEPT !.st = (@ \ {e}) \cup {[e EXCEPT !.stm = d]}]
Declared(c, e, d) ==
    [c EXCEPT !.st = (@ \ {e}) \cup {[e EXCEPT !.stm = d, !.all = TRUE]}]

TdefPushesTwice(c, n, t) ==
    [eppic_addst(c, "typedef", n, c.next, FALSE, [t EXCEPT !.ref = @ + @])
        EXCEPT !.next = @ + 1]
eppic_tdef_decl(c, n, t) ==
    [eppic_addst(c, "typedef", n, c.next, FALSE, t) EXCEPT !.next = @ + 1]

FlushKeepsFirst(c, since) == [c EXCEPT !.st = {e \in @ : ~(LocalTypedef(e) /\ e.age > since + 1)}]
eppic_flushtdefs(c, since) ==
    [c EXCEPT !.st = {e \in @ : ~(LocalTypedef(e) /\ e.age > since)}]

\* eppic_getm: the members of the struct at an index are read when first asked for.
eppic_getm(c, t) ==
    LET e == eppic_getstbyindex(c.st, t.idx)
    IN  IF e = None \/ e.stm # None THEN c ELSE eppic_fillst(c, e)

Becomes(c) == slist' = c.st /\ added' = c.age /\ nlist' = c.neg /\ nextidx' = c.next

-----------------------------------------------------------------------------
(* What C, and the comment in eppic_getctype, make of the names.           *)

NoScope == [tags |-> [n \in Names |-> None], tdefs |-> << >>]

MeansStruct(n) ==
    IF scope.tags[n] # None THEN scope.tags[n] ELSE IF n \in Structs THEN n ELSE ndecl + 1
MeansTypedef(n) ==
    IF n \in DOMAIN scope.tdefs THEN scope.tdefs[n]
    ELSE IF n \notin DOMAIN Typedefs THEN None
    ELSE Type(MeansStruct(Typedefs[n].tag), Typedefs[n].ref)

\* The allowed faults, for the tag n, a fill of the struct n, and the name n.
PlainTag(st, n) ==
    LET e == eppic_getst(st, n, "struct")
    IN  e # None => /\ "stub" \in Faults \/ e.all \/ IsLocal(e)
                    /\ "trailing" \in Faults \/ ~IsLocal(e) \/ scope.tags[n] # None
PlainFill(st, n) ==
    "stub" \in Faults
        \/ \A m \in Mentions[n] \ {n} : Indexed(st, m) # {} \/ Named(st, m, "struct") = {}
PlainStruct(st, n) ==
    PlainTag(st, n) /\ (n \in Structs /\ Named(st, n, "struct") = {} => PlainFill(st, n))
PlainName(n) ==
    apigetctype("typedef", n) =>
        LET e == eppic_getst(slist, n, "typedef")
            t == Typedefs[n].tag
            s == eppic_getst(slist, t, "struct")
        IN  IF e = None
            THEN /\ PlainStruct(slist, t)
                 /\ "negative" \in Faults \/ s # None \/ t \notin nlist
            ELSE \/ IsLocal(e) \/ "stale" \in Faults
                 \/ s # None /\ e.rtype.idx = s.idx /\ PlainTag(slist, t)

-----------------------------------------------------------------------------

Init ==
    /\ slist = {} /\ added = 0 /\ nlist = {} /\ nextidx = 0 /\ tag = 0
    /\ loading = FALSE /\ nloads = 0 /\ open = << >> /\ got = None
    /\ scope = NoScope /\ ndecl = 0 /\ done = {} /\ uses = {}

Given(t, want) ==
    /\ got' = [type |-> t, want |-> want]
    /\ uses' = uses \cup {[type |-> t, want |-> want]}

\* eppic_newfile up to the parse: eppic_tagst.
BeginLoad ==
    /\ ~loading /\ nloads < MaxLoads
    /\ loading' = TRUE /\ nloads' = nloads + 1 /\ tag' = added
    /\ UNCHANGED <<slist, added, nlist, nextidx, open, got, scope, ndecl, done, uses>>

\* The file is read to its end, or not: its typedefs go, its structs stay.
EndLoad ==
    /\ loading
    /\ Becomes(eppic_flushtdefs(Cache, tag))
    /\ loading' = FALSE /\ open' = << >> /\ got' = None /\ scope' = NoScope
    /\ UNCHANGED <<tag, nloads, ndecl, done, uses>>

\* The scanner reads a name, or eppic_vardecl declares a variable of that name.
ReadName(n) ==
    /\ loading /\ PlainName(n)
    /\ LET r == GetTypedef(Cache, n)
       IN  /\ Becomes(r.c)
           /\ IF r.t = None THEN got' = None /\ UNCHANGED uses
              ELSE Given(r.t, MeansTypedef(n))
    /\ UNCHANGED <<tag, loading, nloads, open, scope, ndecl, done>>

\* `struct n': the scanner has looked the tag up as a name (eppic.l), and then
\* eppic_newctype asks for the struct.
eppic_newctype(n) ==
    /\ loading /\ nextidx < MaxIdx
    /\ PlainName(n)
    /\ LET c == GetTypedef(Cache, n).c
           r == GetStruct(c, n, FALSE)
           d == MeansStruct(n)
       IN  /\ PlainStruct(c.st, n)
           /\ Becomes(r.c)
           /\ Given(r.t, Type(d, 0))
           /\ IF d = ndecl + 1
              THEN ndecl' = d /\ scope' = [scope EXCEPT !.tags[n] = d]
              ELSE UNCHANGED <<ndecl, scope>>
    /\ UNCHANGED <<tag, loading, nloads, open, done>>

\* `struct n {': a tag that is declared but not complete keeps its meaning.
BeginStruct(n) ==
    LET c == GetTypedef(Cache, n).c
        e == eppic_getst(c.st, n, "struct")
    IN  /\ loading /\ nextidx < MaxIdx /\ Len(open) < MaxOpen
        /\ PlainName(n)
        /\ e # None => "stub" \in Faults \/ e.all \/ IsLocal(e)
        /\ Becomes(eppic_startctype(c, n))
        /\ open' = Append(open, n)
        /\ IF scope.tags[n] = None \/ scope.tags[n] \in done
           THEN ndecl' = ndecl + 1 /\ scope' = [scope EXCEPT !.tags[n] = ndecl + 1]
           ELSE UNCHANGED <<ndecl, scope>>
        /\ got' = None
        /\ UNCHANGED <<tag, loading, nloads, done, uses>>

\* `}': eppic_ctype_decl.  When a struct of the same tag was declared inside, it is
\* the error "Oops eppic_ctype_decl": EndLoad.
EndStruct ==
    /\ loading /\ open # << >>
    /\ LET n == Last(open)
           e == eppic_getst(slist, n, "struct")
           d == scope.tags[n]
       IN  /\ e # None /\ ~e.all
           /\ Becomes(Declared(Cache, e, d))
           /\ done' = done \cup {d}
           /\ Given(Type(e.idx, 0), Type(d, 0))
    /\ open' = Front(open)
    /\ UNCHANGED <<tag, loading, nloads, scope, ndecl>>

\* eppic_tdef_decl: a typedef of the type that was just read, or of a pointer to it.
DeclareTypedef(n, ref) ==
    /\ loading /\ open = << >> /\ got # None /\ nextidx < MaxIdx
    /\ got.type.ref + ref <= 1
    /\ Becomes(eppic_tdef_decl(Cache, n, [got.type EXCEPT !.ref = @ + ref]))
    /\ scope' = [scope EXCEPT !.tdefs = [m \in DOMAIN @ \cup {n} |->
            IF m = n THEN Type(got.want.idx, got.want.ref + ref) ELSE @[m]]]
    /\ UNCHANGED <<tag, loading, nloads, open, got, ndecl, done, uses>>

\* A function of some file, this one or an earlier one, accesses a member.
AccessMember(u) ==
    /\ LET e == eppic_getstbyindex(slist, u.type.idx)
       IN  e # None /\ e.stm = None /\ ~IsLocal(e) => PlainFill(slist, e.idx)
    /\ Becomes(eppic_getm(Cache, u.type))
    /\ UNCHANGED <<tag, loading, nloads, open, got, scope, ndecl, done, uses>>

Next ==
    \/ BeginLoad \/ EndLoad \/ EndStruct
    \/ \E n \in Names :
        \/ ReadName(n) \/ eppic_newctype(n) \/ BeginStruct(n)
        \/ \E ref \in 0..1 : DeclareTypedef(n, ref)
    \/ \E u \in uses : AccessMember(u)

Spec == Init /\ [][Next]_vars

-----------------------------------------------------------------------------
(* Properties.                                                             *)

TypeOK ==
    /\ slist \subseteq Entries /\ added \in Nat
    /\ \A e \in slist : e.age <= added /\ (e.kind = "typedef" => e.rtype \in Types)
    /\ nlist \subseteq Names
    /\ nextidx \in 0..MaxIdx
    /\ tag \in 0..added
    /\ loading \in BOOLEAN /\ nloads \in 0..MaxLoads
    /\ open \in Seq(Names) /\ Len(open) <= MaxOpen

(***************************************************************************)
(* An index leads to one struct: the type that a function was compiled with *)
(* gives the members of the struct it named, whichever of the lookups by    *)
(* index finds it (eppic_getstbyindex, eppic_getm, eppic_ispartial).        *)
(***************************************************************************)
OneEntryPerIndex ==
    \A e, f \in slist : e.kind = "struct" /\ f.kind = "struct" /\ e.idx = f.idx => e = f

(***************************************************************************)
(* The typedefs of a file are found in that file, from their declaration to *)
(* its end, and in no other (eppic_tagst, eppic_flushtdefs).                *)
(***************************************************************************)
TypedefsAreScoped ==
    \A n \in Names :
        LET e == eppic_getst(slist, n, "typedef")
        IN  n \in DOMAIN scope.tdefs <=> e # None /\ IsLocal(e)

(***************************************************************************)
(* A type that the parser was given is the one its name meant there: now     *)
(* and after any later lookup, declaration or load, its members are those of *)
(* that declaration, and it is complete (eppic_ispartial) when that is.      *)
(***************************************************************************)
MembersOf(e) == IF e.stm = None /\ ~IsLocal(e) THEN e.idx ELSE e.stm
TypesKeepMeaning ==
    \A u \in uses : u.want # None /\ (u.want.idx \in Names \/ u.want.idx \in done) =>
        LET e == eppic_getstbyindex(slist, u.type.idx)
        IN  /\ u.type.ref = u.want.ref
            /\ e # None /\ MembersOf(e) = u.want.idx /\ e.all
=============================================================================
